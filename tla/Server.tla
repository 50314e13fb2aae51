------------------------------- MODULE Server -------------------------------
(***************************************************************************)
(* The HTTP server's event loop: http::server::server, connection and      *)
(* connection_manager, run by the one thread that calls io_context::run(). *)
(*                                                                         *)
(* A handler runs to completion before the next one starts, so a handler   *)
(* is one action.  What interleaves with the handlers is the outside: the  *)
(* peers, the signal, and the moment at which Boost.Asio finishes an       *)
(* operation.  So an operation in `ops' is first pending, and then has a   *)
(* result while its handler waits for its turn.  Everything hard about     *)
(* this code happens in that gap, because another handler (handle_stop     *)
(* above all) can run there and close the socket under a result that still *)
(* says success.                                                           *)
(*                                                                         *)
(* Parsing and request handling are seen here only through their results;  *)
(* RequestParser and RequestHandler model what produces them.              *)
(***************************************************************************)
EXTENDS Naturals, FiniteSets

CONSTANTS
  Connections,  \* the connection objects the process can have at one time
  MaxUnread     \* bound: chunks a peer may have sent that are not yet read

ASSUME MaxUnreadAssumption == MaxUnread \in Nat \ {0}

VARIABLES
  process,          \* main(): inside s.run(), after it returned, after it threw
  acceptor_,        \* "open" or "closed"
  accept_op,        \* the async_accept: "none", "pending" or its result
  signal_op,        \* the one async_wait of signals_
  new_connection_,  \* the connection the next accept fills
  connections_,     \* connection_manager::connections_
  socket_,          \* connection::socket_
  reply_,           \* connection::reply_, by its status
  ops,              \* reads and writes whose handler has not run yet
  peer,             \* the other end of the socket
  unread            \* chunks sent by the peer and not read by the server

serverVars == <<process, acceptor_, accept_op, signal_op, new_connection_>>
connectionVars == <<connections_, socket_, reply_>>
peerVars == <<peer, unread>>
vars == <<serverVars, connectionVars, ops, peerVars>>

Kind      == {"read", "write"}
ErrorCode == {"success", "aborted", "error"}
Status    == {"ok", "bad_request"}

Op(k, c, s) == [kind |-> k, conn |-> c, state |-> s]

TypeOK ==
  /\ process \in {"running", "returned", "threw"}
  /\ acceptor_ \in {"open", "closed"}
  /\ accept_op \in {"none", "pending"} \cup ErrorCode
  /\ signal_op \in {"waiting", "ready", "handled"}
  /\ new_connection_ \in Connections
  /\ connections_ \in SUBSET Connections
  /\ socket_ \in [Connections -> {"fresh", "open", "closed", "finished"}]
  /\ reply_ \in [Connections -> {"none"} \cup Status]
  /\ ops \in SUBSET [kind : Kind, conn : Connections,
                     state : {"pending"} \cup ErrorCode]
  /\ peer \in [Connections -> {"absent", "connected", "gone"}]
  /\ unread \in [Connections -> 0..MaxUnread]

(***************************************************************************)
(* A connection object lives as long as a shared_ptr to it does: in        *)
(* new_connection_, in connections_, or bound into a read or write         *)
(* handler.  start_accept allocates the next object before it drops the    *)
(* previous one.                                                           *)
(***************************************************************************)
Held(c) ==
  \/ c = new_connection_
  \/ c \in connections_
  \/ \E o \in ops : o.conn = c

Free == {c \in Connections : ~Held(c)}

-----------------------------------------------------------------------------
(***************************************************************************)
(* Asio's part of a handler.  `h' holds the operation whose handler is     *)
(* running.  An operation started on a socket that is no longer open does  *)
(* not wait: it gets bad_descriptor at once, which is an error but not     *)
(* operation_aborted.                                                      *)
(***************************************************************************)
async_start(k, c, h) ==
  ops' = (ops \ h) \cup {Op(k, c, IF socket_[c] = "open" THEN "pending" ELSE "error")}

\* connection::stop on every connection of C.  Closing a socket gives its
\* pending operations operation_aborted; a result that had already been
\* produced is not taken back.  A write (async_write writes piece by piece) that
\* is just between two pieces goes on to the next one and gets bad_descriptor:
\* those are `between'.  A socket that was shut down first, after its last byte
\* was written, is told apart as "finished".
stop(C, how, h) ==
  /\ socket_' = [c \in Connections |->
                   IF c \in C /\ socket_[c] = "open" THEN how ELSE socket_[c]]
  /\ LET cancelled == {o \in ops : o.conn \in C /\ o.state = "pending"}
     IN \E between \in SUBSET {o \in cancelled : o.kind = "write"} :
          ops' = (ops \ (h \cup cancelled)) \cup
                 {Op(o.kind, o.conn, IF o \in between THEN "error" ELSE "aborted") :
                    o \in cancelled}

\* Mutant: the connection is closed and not erased.
manager_stop_keeps(c, how, h) ==
  /\ UNCHANGED connections_
  /\ stop({c}, how, h)

\* connection_manager::stop
manager_stop(c, how, h) ==
  /\ connections_' = connections_ \ {c}
  /\ stop({c}, how, h)

\* Mutant: the set is cleared, the sockets stay open.
stop_all_forgets == connections_' = {} /\ UNCHANGED <<socket_, ops>>

\* connection_manager::stop_all
stop_all ==
  /\ connections_' = {}
  /\ stop(connections_, "closed", {})

\* connection_manager::start and connection::start: the first read.
manager_start(c) ==
  /\ connections_' = connections_ \cup {c}
  /\ async_start("read", c, {})

\* server::start_accept: a new connection object and an accept into its socket.
start_accept(c) ==
  /\ new_connection_' = c
  /\ socket_' = [socket_ EXCEPT ![c] = "fresh"]
  /\ reply_' = [reply_ EXCEPT ![c] = "none"]
  /\ peer' = [peer EXCEPT ![c] = "absent"]
  /\ unread' = [unread EXCEPT ![c] = 0]
  /\ accept_op' = "pending"

\* The end of main(): the server object is destroyed, with the sockets and the
\* handlers that have not run.
leave(how) ==
  /\ process' = how
  /\ accept_op' = "none"
  /\ connections_' = {}
  /\ socket_' = [c \in Connections |->
                   IF socket_[c] = "open" THEN "closed" ELSE socket_[c]]
  /\ ops' = {}
  /\ UNCHANGED <<acceptor_, signal_op, new_connection_, reply_, peerVars>>

-----------------------------------------------------------------------------
\* server::server
Init ==
  /\ process = "running"
  /\ acceptor_ = "open"
  /\ accept_op = "pending"
  /\ signal_op = "waiting"
  /\ new_connection_ \in Connections
  /\ connections_ = {}
  /\ socket_ = [c \in Connections |-> "fresh"]
  /\ reply_ = [c \in Connections |-> "none"]
  /\ ops = {}
  /\ peer = [c \in Connections |-> "absent"]
  /\ unread = [c \in Connections |-> 0]

\* Mutant: handle_accept does not look at the acceptor.
accept_connection_unchecked ==
  /\ process = "running"
  /\ accept_op = "success"
  /\ manager_start(new_connection_)
  /\ \E c \in Free : start_accept(c)
  /\ UNCHANGED <<process, acceptor_, signal_op>>

\* server::handle_accept after a peer was accepted, acceptor still open.
accept_connection ==
  /\ process = "running"
  /\ acceptor_ = "open"
  /\ accept_op = "success"
  /\ manager_start(new_connection_)
  /\ \E c \in Free : start_accept(c)
  /\ UNCHANGED <<process, acceptor_, signal_op>>

\* Mutant: start_accept is only called after a success.
accept_again_not ==
  /\ process = "running"
  /\ acceptor_ = "open"
  /\ accept_op = "error"
  /\ accept_op' = "none"
  /\ UNCHANGED <<process, acceptor_, signal_op, new_connection_,
                 connectionVars, ops, peerVars>>

\* server::handle_accept after an accept that failed, acceptor still open.
accept_again ==
  /\ process = "running"
  /\ acceptor_ = "open"
  /\ accept_op = "error"
  /\ \E c \in Free : start_accept(c)
  /\ UNCHANGED <<process, acceptor_, signal_op, connections_, ops>>

\* Mutant: the pointer is dropped.
accept_after_stop_reset ==
  /\ process = "running"
  /\ acceptor_ = "closed"
  /\ accept_op \in ErrorCode
  /\ accept_op' = "none"
  /\ new_connection_' = {}
  /\ UNCHANGED <<process, acceptor_, signal_op, connectionVars, ops, peerVars>>

\* server::handle_accept when handle_stop ran first: whatever the result, it
\* returns.  A socket accepted in the meantime stays with new_connection_.
accept_after_stop ==
  /\ process = "running"
  /\ acceptor_ = "closed"
  /\ accept_op \in ErrorCode
  /\ accept_op' = "none"
  /\ UNCHANGED <<process, acceptor_, signal_op, new_connection_,
                 connectionVars, ops, peerVars>>

\* server::handle_stop
handle_stop ==
  /\ process = "running"
  /\ signal_op = "ready"
  /\ signal_op' = "handled"
  /\ acceptor_' = "closed"
  /\ accept_op' = IF accept_op = "pending" THEN "aborted" ELSE accept_op
  /\ stop_all
  /\ UNCHANGED <<process, new_connection_, reply_, peerVars>>

-----------------------------------------------------------------------------
\* connection::handle_read without an error; the parser wants more characters.
read_more(c, h) ==
  /\ async_start("read", c, h)
  /\ UNCHANGED <<serverVars, connectionVars, peerVars>>

\* Mutant: the next request is read while the reply is written.
send_reply_pipelined(c, status, h) ==
  /\ reply_' = [reply_ EXCEPT ![c] = status]
  /\ ops' = (ops \ h) \cup {Op(k, c, "pending") : k \in Kind}
  /\ UNCHANGED <<serverVars, connections_, socket_, peerVars>>

\* connection::handle_read without an error; the parser accepted or refused the
\* request, reply_ is filled (by handle_request, or with a stock reply) and sent.
send_reply(c, status, h) ==
  /\ reply_' = [reply_ EXCEPT ![c] = status]
  /\ async_start("write", c, h)
  /\ UNCHANGED <<serverVars, connections_, socket_, peerVars>>

\* The handler of an operation of kind k on c, which ended with result e.
Finished(k, c, e) == process = "running" /\ Op(k, c, e) \in ops

\* connection::handle_read
handle_read(c) ==
  \/ /\ Finished("read", c, "success")
     /\ LET h == {Op("read", c, "success")}
        IN \/ read_more(c, h)
           \/ \E status \in Status : send_reply(c, status, h)
           \/ leave("threw")   \* parse or handle_request threw
  \/ /\ Finished("read", c, "error")
     /\ manager_stop(c, "closed", {Op("read", c, "error")})
     /\ UNCHANGED <<serverVars, reply_, peerVars>>
  \/ /\ Finished("read", c, "aborted")
     /\ ops' = ops \ {Op("read", c, "aborted")}
     /\ UNCHANGED <<serverVars, connectionVars, peerVars>>

\* connection::handle_write
handle_write(c) ==
  \/ /\ Finished("write", c, "success")
     /\ manager_stop(c, "finished", {Op("write", c, "success")})
     /\ UNCHANGED <<serverVars, reply_, peerVars>>
  \/ /\ Finished("write", c, "error")
     /\ manager_stop(c, "closed", {Op("write", c, "error")})
     /\ UNCHANGED <<serverVars, reply_, peerVars>>
  \/ /\ Finished("write", c, "aborted")
     /\ ops' = ops \ {Op("write", c, "aborted")}
     /\ UNCHANGED <<serverVars, connectionVars, peerVars>>

\* server::run returns when nothing is outstanding and no handler is queued.
run_returns ==
  /\ process = "running"
  /\ signal_op = "handled"
  /\ accept_op = "none"
  /\ ops = {}
  /\ leave("returned")

-----------------------------------------------------------------------------
(***************************************************************************)
(* The outside.  A peer is only accepted while an object is left for the   *)
(* accept after it: Connections bounds the peers served at one time.       *)
(***************************************************************************)
peer_connects ==
  /\ process = "running"
  /\ accept_op = "pending"
  /\ Free # {}
  /\ accept_op' = "success"
  /\ socket_' = [socket_ EXCEPT ![new_connection_] = "open"]
  /\ peer' = [peer EXCEPT ![new_connection_] = "connected"]
  /\ UNCHANGED <<process, acceptor_, signal_op, new_connection_, connections_,
                 reply_, ops, unread>>

accept_fails ==
  /\ process = "running"
  /\ accept_op = "pending"
  /\ Free # {}
  /\ accept_op' = "error"
  /\ UNCHANGED <<process, acceptor_, signal_op, new_connection_,
                 connectionVars, ops, peerVars>>

signal_arrives ==
  /\ process = "running"
  /\ signal_op = "waiting"
  /\ signal_op' = "ready"
  /\ UNCHANGED <<process, acceptor_, accept_op, new_connection_,
                 connectionVars, ops, peerVars>>

\* What a peer does after the server has closed its socket changes nothing here.
peer_sends(c) ==
  /\ process = "running"
  /\ peer[c] = "connected"
  /\ socket_[c] = "open"
  /\ unread[c] < MaxUnread
  /\ unread' = [unread EXCEPT ![c] = @ + 1]
  /\ UNCHANGED <<serverVars, connectionVars, ops, peer>>

\* The peer closes or resets its end, or its host says it is gone.
peer_leaves(c) ==
  /\ process = "running"
  /\ peer[c] = "connected"
  /\ socket_[c] = "open"
  /\ peer' = [peer EXCEPT ![c] = "gone"]
  /\ UNCHANGED <<serverVars, connectionVars, ops, unread>>

\* An outstanding operation finishes.  A read returns what the peer has sent;
\* it fails (end of file, reset) only when the peer is gone.  A write to a peer
\* that is gone may still succeed.
io_completes(c) ==
  /\ process = "running"
  /\ \E k \in Kind, e \in {"success", "error"} :
       /\ Op(k, c, "pending") \in ops
       /\ e = "error" => peer[c] = "gone"
       /\ k = "read" /\ e = "success" => unread[c] > 0
       /\ ops' = (ops \ {Op(k, c, "pending")}) \cup {Op(k, c, e)}
       /\ unread' = IF k = "read" /\ e = "success"
                    THEN [unread EXCEPT ![c] = @ - 1]
                    ELSE unread
  /\ UNCHANGED <<serverVars, connectionVars, peer>>

Outside ==
  \/ peer_connects
  \/ accept_fails
  \/ signal_arrives
  \/ \E c \in Connections : peer_sends(c) \/ peer_leaves(c) \/ io_completes(c)

handle_accept == accept_connection \/ accept_again \/ accept_after_stop

Handlers ==
  \/ handle_accept
  \/ handle_stop
  \/ run_returns
  \/ \E c \in Connections : handle_read(c) \/ handle_write(c)

\* After main() there is nothing left to do.
Ended == process # "running" /\ UNCHANGED vars

Next == Handlers \/ Outside \/ Ended

Spec == Init /\ [][Next]_vars

(***************************************************************************)
(* io_context runs every queued handler, as long as each one returns.  Of  *)
(* the operations, only those of a peer that is gone are sure to finish: a *)
(* peer that neither sends nor reads can hold an operation for ever, since *)
(* the server sets no timeout.                                             *)
(***************************************************************************)
Fairness ==
  /\ WF_vars(handle_accept)
  /\ WF_vars(handle_stop)
  /\ WF_vars(run_returns)
  /\ \A c \in Connections :
       /\ WF_vars(handle_read(c))
       /\ WF_vars(handle_write(c))
       /\ WF_vars(peer[c] = "gone" /\ io_completes(c))

FairSpec == Spec /\ Fairness
-----------------------------------------------------------------------------
\* An operation of kind k is in flight on c: pending, or not yet handled.
Engaged(k, c) == \E o \in ops : o.kind = k /\ o.conn = c

\* Every connection the manager holds has exactly one operation in flight, so
\* one handler will run for it, and only one; a connection it has let go has at
\* most one.  With none it would be held for ever: nothing but its own handlers,
\* or handle_stop, takes it out of connections_.  With two, one of them would
\* touch a request or a reply that the other still uses (connection.cpp:47-103).
OneInFlight ==
  /\ \A c \in connections_ : \E k \in Kind : Engaged(k, c)
  /\ \A o, p \in ops : o.conn = p.conn => o = p

\* An operation that waits for its peer belongs to a connection the manager
\* still holds, whose socket is open: stop_all then reaches every operation that
\* could keep run() from returning (connection_manager.cpp:30-35).
NothingWaitsUnmanaged ==
  \A o \in ops :
    o.state = "pending" => o.conn \in connections_ /\ socket_[o.conn] = "open"

\* "While the server is running, there is always at least one asynchronous
\* operation outstanding: the asynchronous accept call" (server.cpp:51-54), on a
\* connection object nothing else uses: until a stop, whatever accept returned.
AcceptOutstanding ==
  process = "running" /\ acceptor_ = "open" =>
    /\ accept_op # "none"
    /\ new_connection_ \notin connections_
    /\ \A k \in Kind : ~Engaged(k, new_connection_)

\* One connection carries one request: once it has a reply it is not read from
\* again, and what is in flight is the reply (connection.cpp:58-75).
ReplyEndsReading ==
  \A c \in Connections :
    reply_[c] # "none" => ~Engaged("read", c)

\* "the reply object must remain valid and not be changed until the write
\* operation has completed" (reply.hpp:52-54): no step that starts with a write
\* pending changes its reply or gives its connection object to a new peer.
ReplyStable ==
  [][\A c \in Connections :
       Op("write", c, "pending") \in ops =>
         reply_'[c] = reply_[c] /\ new_connection_' # c]_vars

\* After handle_stop closed the acceptor no connection is started, not even one
\* whose accept had succeeded before (server.cpp:69-74).
NoStartAfterStop ==
  [][acceptor_ = "closed" => connections_' \subseteq connections_]_vars

\* "Once all operations have finished the io_context::run() call will exit"
\* (server.cpp:86-88): a stop ends the run without any help from the peers.
StopEndsRun == acceptor_ = "closed" ~> process # "running"

\* A peer that has gone, at whatever point of the exchange, is noticed and its
\* connection released (connection.cpp:84-87, 99-102).
HangupReleases ==
  \A c \in Connections :
    c \in connections_ /\ peer[c] = "gone" ~> c \notin connections_

-----------------------------------------------------------------------------
(***************************************************************************)
(* The refinement mapping.                                                 *)
(***************************************************************************)
phaseOf ==
  IF process # "running" THEN "down"
  ELSE IF acceptor_ = "open" THEN "serving" ELSE "stopping"

sessionOf ==
  [c \in Connections |->
     IF c \in connections_
     THEN IF Engaged("write", c) THEN "answering" ELSE "reading"
     ELSE IF \E k \in Kind : Engaged(k, c) THEN "draining" ELSE "idle"]

Service == INSTANCE ConnectionService WITH phase <- phaseOf, session <- sessionOf

\* The event loop does what ConnectionService promises.
ImplementsService == Service!Spec
=============================================================================
