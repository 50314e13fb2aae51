---------------------------- MODULE ServerProofs ----------------------------
(***************************************************************************)
(* What holds of Server for every set of connection objects and every      *)
(* bound on unread chunks.  The argument is one inductive invariant, IInv: *)
(* the properties the runs check, and the links between the manager's set, *)
(* the sockets, the acceptor and the signal that make them inductive.      *)
(***************************************************************************)
EXTENDS Server, TLAPS

\* The manager holds the connections with an open socket, and once they have
\* been started only those: whatever closes a socket also takes the connection
\* out of the set.
ManagedOpen ==
  /\ \A c \in connections_ : socket_[c] = "open"
  /\ \A o \in ops : socket_[o.conn] = "open" => o.conn \in connections_

\* The object waiting for the next accept is not in use, and has no reply yet.
NextUnused ==
  /\ reply_[new_connection_] = "none"
  /\ new_connection_ \notin connections_
  /\ \A o \in ops : o.conn # new_connection_

\* While the acceptor is open an accept is pending or has a result other than
\* operation_aborted, which only closing the acceptor produces.
Accepting ==
  process = "running" /\ acceptor_ = "open"
    => accept_op \in {"pending", "success", "error"}

\* An accept that succeeded has opened the socket of the object it was given.
AcceptedOpen ==
  process = "running" /\ acceptor_ = "open" /\ accept_op = "success"
    => socket_[new_connection_] = "open"

\* An operation is only cancelled when its connection is let go, so the handlers
\* that ignore operation_aborted leave no connection behind.
AbortedReleased ==
  \A o \in ops : o.state = "aborted" => o.conn \notin connections_

\* handle_stop closes the acceptor and empties the manager, for good.
Stopped ==
  /\ acceptor_ = "closed" <=> signal_op = "handled"
  /\ acceptor_ = "closed" => connections_ = {}

IInv ==
  /\ TypeOK
  /\ OneInFlight
  /\ NothingWaitsUnmanaged
  /\ ReplyEndsReading
  /\ ManagedOpen
  /\ AbortedReleased
  /\ NextUnused
  /\ Accepting
  /\ AcceptedOpen
  /\ Stopped

-----------------------------------------------------------------------------
\* Every variable of the event loop keeps its type.
THEOREM TypeCorrect == Spec => []TypeOK
<1> USE DEF TypeOK, Op, Kind, ErrorCode, Status
<1>1. Init => TypeOK
  BY MaxUnreadAssumption DEF Init
<1>2. TypeOK /\ [Next]_vars => TypeOK'
  <2> SUFFICES ASSUME TypeOK, [Next]_vars
               PROVE  TypeOK'
    OBVIOUS
  <2>1. CASE accept_connection
    <3>1. PICK c \in Connections : start_accept(c)
      BY <2>1 DEF accept_connection, Free
    <3>2. socket_' \in [Connections -> {"fresh", "open", "closed", "finished"}]
          /\ unread' \in [Connections -> 0..MaxUnread]
      BY <3>1, MaxUnreadAssumption DEF start_accept
    <3>3. ops' \in SUBSET [kind : Kind, conn : Connections,
                           state : {"pending"} \cup ErrorCode]
      BY <2>1 DEF accept_connection, manager_start, async_start
    <3>4. QED
      BY <2>1, <3>1, <3>2, <3>3 DEF accept_connection, manager_start, start_accept
  <2>2. CASE accept_again
    <3>1. PICK c \in Connections : start_accept(c)
      BY <2>2 DEF accept_again, Free
    <3>2. unread' \in [Connections -> 0..MaxUnread]
      BY <3>1, MaxUnreadAssumption DEF start_accept
    <3>3. QED
      BY <2>2, <3>1, <3>2 DEF accept_again, start_accept
  <2>3. CASE accept_after_stop
    BY <2>3 DEF accept_after_stop, connectionVars, peerVars
  <2>4. CASE handle_stop
    BY <2>4 DEF handle_stop, stop_all, stop, peerVars
  <2>5. CASE run_returns
    BY <2>5 DEF run_returns, leave, peerVars
  <2>6. ASSUME NEW c \in Connections, handle_read(c)
        PROVE  TypeOK'
    BY <2>6 DEF handle_read, Finished, read_more, send_reply, leave, async_start,
                manager_stop, stop, serverVars, connectionVars, peerVars
  <2>7. ASSUME NEW c \in Connections, handle_write(c)
        PROVE  TypeOK'
    BY <2>7 DEF handle_write, Finished, manager_stop, stop, serverVars,
                connectionVars, peerVars
  <2>8. CASE peer_connects \/ accept_fails \/ signal_arrives
    BY <2>8 DEF peer_connects, accept_fails, signal_arrives, connectionVars, peerVars
  <2>9. ASSUME NEW c \in Connections, peer_sends(c) \/ peer_leaves(c)
        PROVE  TypeOK'
    BY <2>9, MaxUnreadAssumption
       DEF peer_sends, peer_leaves, serverVars, connectionVars
  <2>10. ASSUME NEW c \in Connections, io_completes(c)
         PROVE  TypeOK'
    BY <2>10, MaxUnreadAssumption DEF io_completes, serverVars, connectionVars
  <2>11. CASE Ended \/ UNCHANGED vars
    BY <2>11 DEF Ended, vars, serverVars, connectionVars, peerVars
  <2>12. QED
    BY <2>1, <2>2, <2>3, <2>4, <2>5, <2>6, <2>7, <2>8, <2>9, <2>10, <2>11
       DEF Next, Handlers, handle_accept, Outside
<1>3. QED
  BY <1>1, <1>2, PTL DEF Spec

-----------------------------------------------------------------------------
\* Closing the sockets of C leaves every other operation alone, keeps what was
\* in flight in flight (cancelled, perhaps), and adds nothing.
LEMMA StopCancels ==
  ASSUME TypeOK, NEW C \in SUBSET Connections, NEW how, NEW h \in SUBSET ops,
         \A o \in h : o.state # "pending",
         stop(C, how, h)
  PROVE  /\ \A o \in ops' : o.state = "pending" => o \in ops /\ o.conn \notin C
         /\ \A o \in ops' : \E p \in ops \ h : p.kind = o.kind /\ p.conn = o.conn
         /\ \A p \in ops \ h : p.conn \notin C => p \in ops'
         /\ \A o \in ops' : o.state = "aborted" => o \in ops \/ o.conn \in C
<1> DEFINE cancelled == {o \in ops : o.conn \in C /\ o.state = "pending"}
<1>1. PICK between \in SUBSET {o \in cancelled : o.kind = "write"} :
        ops' = (ops \ (h \cup cancelled)) \cup
               {Op(o.kind, o.conn, IF o \in between THEN "error" ELSE "aborted") :
                  o \in cancelled}
  BY DEF stop
<1>2. \A o \in ops' : o \in ops \ (h \cup cancelled) \/
        \E p \in cancelled : p.kind = o.kind /\ p.conn = o.conn /\ o.state # "pending"
  BY <1>1 DEF Op
<1>3. \A o \in cancelled : \A s : Op(o.kind, o.conn, s).conn = o.conn
  BY DEF Op
<1>4. \A o \in ops' : o.state = "aborted" => o \in ops \/ o.conn \in C
  BY <1>1, <1>3
<1>5. QED
  BY <1>1, <1>2, <1>4

\* Nothing in flight disappears, but what the running handler was about.
LEMMA StopKeeps ==
  ASSUME NEW C, NEW how, NEW h, stop(C, how, h)
  PROVE  \A p \in ops \ h : \E o \in ops' : o.kind = p.kind /\ o.conn = p.conn
<1> DEFINE cancelled == {o \in ops : o.conn \in C /\ o.state = "pending"}
<1>1. PICK between \in SUBSET {o \in cancelled : o.kind = "write"} :
        ops' = (ops \ (h \cup cancelled)) \cup
               {Op(o.kind, o.conn, IF o \in between THEN "error" ELSE "aborted") :
                  o \in cancelled}
  BY DEF stop
<1>2. ASSUME NEW p \in cancelled
      PROVE  \E o \in ops' : o.kind = p.kind /\ o.conn = p.conn
  <2> DEFINE o == Op(p.kind, p.conn, IF p \in between THEN "error" ELSE "aborted")
  <2>1. o \in ops'
    BY <1>1
  <2>2. o.kind = p.kind /\ o.conn = p.conn
    BY DEF Op
  <2> QED
    BY <2>1, <2>2
<1>3. QED
  BY <1>1, <1>2

\* If no two operations were in flight on one connection, none are after the
\* sockets of C have been closed.
LEMMA StopKeepsOne ==
  ASSUME TypeOK, OneInFlight, NEW C \in SUBSET Connections, NEW how,
         NEW h \in SUBSET ops, stop(C, how, h)
  PROVE  \A o, p \in ops' : o.conn = p.conn => o = p
<1> DEFINE cancelled == {o \in ops : o.conn \in C /\ o.state = "pending"}
           end(b, o) == Op(o.kind, o.conn, IF o \in b THEN "error" ELSE "aborted")
<1>1. PICK between \in SUBSET {o \in cancelled : o.kind = "write"} :
        ops' = (ops \ (h \cup cancelled)) \cup {end(between, o) : o \in cancelled}
  BY DEF stop
<1>2. \A o \in ops' : \/ o \in ops \ cancelled
                      \/ \E q \in cancelled : o = end(between, q)
  BY <1>1
<1>3. \A q \in cancelled : end(between, q).conn = q.conn
  BY DEF Op
<1>4. QED
  BY <1>2, <1>3 DEF OneInFlight

\* The invariant the other theorems of this module follow from.
THEOREM Invariance == Spec => []IInv
<1>1. Init => IInv
  <2> SUFFICES ASSUME Init PROVE IInv
    OBVIOUS
  <2>1. TypeOK
    BY MaxUnreadAssumption DEF Init, TypeOK
  <2>2. QED
    BY <2>1 DEF Init, IInv, OneInFlight, NothingWaitsUnmanaged, ReplyEndsReading,
                Engaged, ManagedOpen, AbortedReleased, NextUnused, Accepting,
                AcceptedOpen, Stopped
<1>2. IInv /\ TypeOK' /\ [Next]_vars => IInv'
  <2> SUFFICES ASSUME IInv, TypeOK', [Next]_vars
               PROVE  IInv'
    OBVIOUS
  <2> USE DEF IInv
  <2>1. CASE accept_connection
    <3>1. PICK c \in Free : start_accept(c)
      BY <2>1 DEF accept_connection
    <3> DEFINE n == new_connection_
    <3>2. /\ socket_[n] = "open"
          /\ ops' = ops \cup {Op("read", n, "pending")}
          /\ connections_' = connections_ \cup {n}
          /\ c # n /\ c \notin connections_ /\ \A o \in ops : o.conn # c
          /\ c \in Connections /\ n \in Connections
      BY <2>1 DEF accept_connection, manager_start, async_start, AcceptedOpen, Free,
                  Held, TypeOK
    <3>3. OneInFlight'
      <4>1. ASSUME NEW d \in connections_'
            PROVE  \E k \in Kind : Engaged(k, d)'
        <5>1. CASE d = n
          <6>1. Op("read", n, "pending") \in ops'
            BY <3>2
          <6>2. Op("read", n, "pending").kind = "read" /\ Op("read", n, "pending").conn = d
            BY <5>1 DEF Op
          <6>3. Engaged("read", d)'
            BY <6>1, <6>2 DEF Engaged
          <6> QED
            BY <6>3 DEF Kind
        <5>2. CASE d \in connections_
          <6>1. PICK k \in Kind : Engaged(k, d)
            BY <5>2 DEF OneInFlight
          <6> QED
            BY <6>1, <3>2 DEF Engaged
        <5> QED
          BY <5>1, <5>2, <3>2
      <4>2. \A o, p \in ops' : o.conn = p.conn => o = p
        BY <3>2 DEF OneInFlight, NextUnused, Op
      <4> QED
        BY <4>1, <4>2 DEF OneInFlight
    <3>4. ManagedOpen' /\ NothingWaitsUnmanaged' /\ AbortedReleased'
      BY <3>1, <3>2 DEF ManagedOpen, NothingWaitsUnmanaged, AbortedReleased, NextUnused,
                        start_accept, Op, TypeOK
    <3>5. ReplyEndsReading'
      BY <3>1, <3>2 DEF ReplyEndsReading, NextUnused, Engaged, start_accept, Op, TypeOK
    <3>6. NextUnused'
      BY <3>1, <3>2 DEF NextUnused, start_accept, Op, TypeOK
    <3>7. Accepting' /\ AcceptedOpen' /\ Stopped'
      BY <2>1, <3>1 DEF Accepting, AcceptedOpen, Stopped, start_accept, accept_connection
    <3> QED
      BY <3>3, <3>4, <3>5, <3>6, <3>7
  <2>2. CASE accept_again
    <3>1. PICK c \in Free : start_accept(c)
      BY <2>2 DEF accept_again
    <3>2. /\ c \in Connections /\ c \notin connections_
          /\ \A o \in ops : o.conn # c
          /\ ops' = ops /\ connections_' = connections_
      BY <2>2 DEF accept_again, Free, Held
    <3>3. OneInFlight' /\ NothingWaitsUnmanaged' /\ ManagedOpen' /\ AbortedReleased'
      BY <3>1, <3>2 DEF OneInFlight, NothingWaitsUnmanaged, ManagedOpen,
                        AbortedReleased, Engaged,
                        start_accept, TypeOK
    <3>4. ReplyEndsReading' /\ NextUnused'
      BY <3>1, <3>2 DEF ReplyEndsReading, NextUnused, Engaged, start_accept, TypeOK
    <3>5. Accepting' /\ AcceptedOpen' /\ Stopped'
      BY <2>2, <3>1 DEF Accepting, AcceptedOpen, Stopped, start_accept, accept_again
    <3> QED
      BY <3>3, <3>4, <3>5
  <2>3. CASE accept_after_stop
    BY <2>3 DEF accept_after_stop, connectionVars, peerVars, OneInFlight,
                NothingWaitsUnmanaged, ReplyEndsReading, Engaged, ManagedOpen,
                AbortedReleased, NextUnused, Accepting, AcceptedOpen, Stopped
  <2>4. CASE handle_stop
    <3>1. /\ connections_ \in SUBSET Connections
          /\ stop(connections_, "closed", {})
          /\ connections_' = {} /\ reply_' = reply_ /\ new_connection_' = new_connection_
          /\ acceptor_' = "closed" /\ signal_op' = "handled"
      BY <2>4 DEF handle_stop, stop_all, TypeOK, peerVars
    <3>2. /\ \A o \in ops' : o.state = "pending" => o \in ops /\ o.conn \notin connections_
          /\ \A o \in ops' : \E p \in ops : p.kind = o.kind /\ p.conn = o.conn
      BY <3>1, StopCancels
    <3>3. OneInFlight'
      BY <3>1, StopKeepsOne DEF OneInFlight
    <3>4. NothingWaitsUnmanaged'
      BY <3>2 DEF NothingWaitsUnmanaged
    <3>5. ReplyEndsReading' /\ NextUnused' /\ ManagedOpen'
      <4>1. ReplyEndsReading'
        BY <3>1, <3>2 DEF ReplyEndsReading, Engaged
      <4>2. NextUnused'
        BY <3>1, <3>2 DEF NextUnused
      <4>3. \A c \in Connections : socket_'[c] = "open" => socket_[c] = "open" /\ c \notin connections_
        BY <3>1 DEF stop, ManagedOpen
      <4>4. ManagedOpen'
        BY <3>1, <3>2, <4>3 DEF ManagedOpen, TypeOK
      <4> QED
        BY <4>1, <4>2, <4>4
    <3>6. AbortedReleased' /\ Accepting' /\ AcceptedOpen' /\ Stopped'
      BY <3>1 DEF AbortedReleased, Accepting, AcceptedOpen, Stopped
    <3> QED
      BY <3>3, <3>4, <3>5, <3>6
  <2>5. ASSUME NEW how \in {"returned", "threw"}, leave(how)
        PROVE  IInv'
    BY <2>5 DEF leave, OneInFlight, NothingWaitsUnmanaged, ReplyEndsReading, Engaged,
                ManagedOpen, AbortedReleased, NextUnused, Accepting, AcceptedOpen, Stopped, peerVars
  <2>6. ASSUME NEW c \in Connections, NEW k \in Kind, NEW e \in ErrorCode,
               Op(k, c, e) \in ops,
               NEW how \in {"closed", "finished"}, manager_stop(c, how, {Op(k, c, e)}),
               UNCHANGED <<serverVars, reply_, peerVars>>
        PROVE  IInv'
    <3> DEFINE h == {Op(k, c, e)}
    <3>1. /\ {c} \in SUBSET Connections /\ h \in SUBSET ops
          /\ \A o \in h : o.state # "pending"
          /\ stop({c}, how, h)
          /\ connections_' = connections_ \ {c}
      BY <2>6 DEF manager_stop, Op, ErrorCode
    <3>2. /\ \A o \in ops' : o.state = "pending" => o \in ops /\ o.conn \notin {c}
          /\ \A o \in ops' : \E p \in ops \ h : p.kind = o.kind /\ p.conn = o.conn
          /\ \A p \in ops \ h : p.conn \notin {c} => p \in ops'
          /\ \A o \in ops' : o.state = "aborted" => o \in ops \/ o.conn \in {c}
      <4> DEFINE C == {c}
      <4>1. /\ TypeOK
            /\ C \in SUBSET Connections /\ h \in SUBSET ops
            /\ \A o \in h : o.state # "pending"
            /\ stop(C, how, h)
        BY <3>1
      <4> HIDE DEF C, h
      <4>2. /\ \A o \in ops' : o.state = "pending" => o \in ops /\ o.conn \notin C
            /\ \A o \in ops' : \E p \in ops \ h : p.kind = o.kind /\ p.conn = o.conn
            /\ \A p \in ops \ h : p.conn \notin C => p \in ops'
            /\ \A o \in ops' : o.state = "aborted" => o \in ops \/ o.conn \in C
        BY <4>1, StopCancels
      <4> QED
        BY <4>2 DEF C
    <3>3. socket_'[c] # "open" /\ \A d \in Connections : d # c => socket_'[d] = socket_[d]
      BY <3>1 DEF stop, TypeOK
    <3>4. OneInFlight'
      <4>1. ASSUME NEW d \in connections_'
            PROVE  \E j \in Kind : Engaged(j, d)'
        <5>1. PICK j \in Kind : Engaged(j, d)
          BY <3>1 DEF OneInFlight
        <5>2. PICK o \in ops : o.kind = j /\ o.conn = d
          BY <5>1 DEF Engaged
        <5>3. o \in ops'
          BY <5>2, <3>1, <3>2 DEF Op
        <5> QED
          BY <5>2, <5>3 DEF Engaged
      <4> QED
        BY <4>1, <3>1, StopKeepsOne DEF OneInFlight
    <3>5. NothingWaitsUnmanaged' /\ AbortedReleased'
      BY <3>1, <3>2, <3>3 DEF NothingWaitsUnmanaged, AbortedReleased, TypeOK
    <3>open. ManagedOpen'
      BY <3>1, <3>2, <3>3 DEF ManagedOpen, TypeOK
    <3>6. ReplyEndsReading' /\ NextUnused'
      BY <2>6, <3>1, <3>2 DEF ReplyEndsReading, NextUnused, Engaged, serverVars
    <3>7. AcceptedOpen'
      <4>1. new_connection_ # c
        BY <2>6 DEF NextUnused, Op
      <4> QED
        BY <4>1, <2>6, <3>1 DEF AcceptedOpen, stop, serverVars, TypeOK
    <3> QED
      BY <2>6, <3>1, <3>4, <3>5, <3>6, <3>7, <3>open DEF Accepting, Stopped, serverVars
  <2>7. ASSUME NEW c \in Connections, NEW k \in Kind, Op(k, c, "aborted") \in ops,
               ops' = ops \ {Op(k, c, "aborted")},
               UNCHANGED <<serverVars, connectionVars, peerVars>>
        PROVE  IInv'
    <3>1. OneInFlight'
      <4>1. c \notin connections_
        BY <2>7 DEF AbortedReleased, Op
      <4> QED
        BY <2>7, <4>1 DEF OneInFlight, Engaged, Op, connectionVars
    <3> QED
      BY <2>7, <3>1 DEF NothingWaitsUnmanaged, ReplyEndsReading, Engaged, ManagedOpen,
                        AbortedReleased, NextUnused, Accepting, AcceptedOpen, Stopped,
                        serverVars, connectionVars
  <2>8. ASSUME NEW c \in Connections, Finished("read", c, "success"),
               NEW k \in Kind, async_start(k, c, {Op("read", c, "success")}),
               UNCHANGED <<serverVars, connections_, socket_, peerVars>>,
               \/ k = "read" /\ reply_' = reply_
               \/ \E status \in Status :
                    k = "write" /\ reply_' = [reply_ EXCEPT ![c] = status]
        PROVE  IInv'
    <3> DEFINE r == Op("read", c, "success")
               s == Op(k, c, IF socket_[c] = "open" THEN "pending" ELSE "error")
    <3>1. /\ r \in ops /\ r.conn = c /\ ops' = (ops \ {r}) \cup {s}
          /\ s.conn = c /\ s.kind = k /\ s.state \in {"pending", "error"}
          /\ s.state = "pending" => socket_[c] = "open"
          /\ UNCHANGED <<serverVars, connections_, socket_, peerVars>>
      BY <2>8 DEF Finished, async_start, Op
    <3>2. \A o \in ops : o.conn = c => o = r
      BY <3>1 DEF OneInFlight
    <3>3. OneInFlight'
      <4>1. \A d \in connections_' : \E j \in Kind : Engaged(j, d)'
        BY <3>1 DEF OneInFlight, Engaged
      <4>2. \A o, p \in ops' : o.conn = p.conn => o = p
        BY <3>1, <3>2 DEF OneInFlight
      <4> QED
        BY <4>1, <4>2 DEF OneInFlight
    <3>4. NothingWaitsUnmanaged' /\ ManagedOpen'
      BY <3>1 DEF NothingWaitsUnmanaged, ManagedOpen
    <3>5. ReplyEndsReading'
      BY <2>8, <3>1, <3>2 DEF ReplyEndsReading, Engaged, Op, TypeOK
    <3>6. NextUnused'
      <4>1. new_connection_ # c
        BY <3>1 DEF NextUnused
      <4> QED
        BY <4>1, <2>8, <3>1 DEF NextUnused, serverVars, TypeOK
    <3> QED
      BY <3>1, <3>3, <3>4, <3>5, <3>6
         DEF AbortedReleased, Accepting, AcceptedOpen, Stopped, serverVars
  <2>9. CASE peer_connects \/ accept_fails \/ signal_arrives
    BY <2>9 DEF peer_connects, accept_fails, signal_arrives, connectionVars, peerVars,
                OneInFlight, NothingWaitsUnmanaged, ReplyEndsReading, Engaged,
                ManagedOpen, AbortedReleased, NextUnused, Accepting, AcceptedOpen,
                Stopped, TypeOK
  <2>10. ASSUME NEW c \in Connections, peer_sends(c) \/ peer_leaves(c)
         PROVE  IInv'
    BY <2>10 DEF peer_sends, peer_leaves, serverVars, connectionVars, OneInFlight,
                 NothingWaitsUnmanaged, ReplyEndsReading, Engaged, ManagedOpen,
                 AbortedReleased, NextUnused, Accepting, AcceptedOpen, Stopped
  <2>11. ASSUME NEW c \in Connections, io_completes(c)
         PROVE  IInv'
    <3>1. PICK k \in Kind, e \in {"success", "error"} :
            /\ Op(k, c, "pending") \in ops
            /\ ops' = (ops \ {Op(k, c, "pending")}) \cup {Op(k, c, e)}
      BY <2>11 DEF io_completes
    <3>2. UNCHANGED <<serverVars, connectionVars, peer>>
      BY <2>11 DEF io_completes
    <3>3. \A o \in ops : o.conn = c => o = Op(k, c, "pending")
      BY <3>1 DEF OneInFlight, Op
    <3>4. OneInFlight'
      <4>1. ASSUME NEW d \in connections_'
            PROVE  \E j \in Kind : Engaged(j, d)'
        <5>1. PICK j \in Kind : Engaged(j, d)
          BY <3>2 DEF OneInFlight, connectionVars
        <5>2. PICK o \in ops : o.kind = j /\ o.conn = d
          BY <5>1 DEF Engaged
        <5>3. CASE o = Op(k, c, "pending")
          <6>1. Op(k, c, e) \in ops' /\ Op(k, c, e).kind = j /\ Op(k, c, e).conn = d
            BY <5>2, <5>3, <3>1 DEF Op
          <6> QED
            BY <6>1 DEF Engaged
        <5>4. CASE o # Op(k, c, "pending")
          BY <5>2, <5>4, <3>1 DEF Engaged
        <5> QED
          BY <5>3, <5>4
      <4>2. \A o, p \in ops' : o.conn = p.conn => o = p
        BY <3>1, <3>3 DEF OneInFlight, Op
      <4> QED
        BY <4>1, <4>2 DEF OneInFlight
    <3>5. NothingWaitsUnmanaged' /\ ReplyEndsReading' /\ AbortedReleased' /\ NextUnused'
      BY <3>1, <3>2 DEF NothingWaitsUnmanaged, ReplyEndsReading, AbortedReleased,
                        NextUnused, Engaged, Op, serverVars, connectionVars
    <3>6. ManagedOpen'
      BY <3>1, <3>2 DEF ManagedOpen, Op, connectionVars
    <3> QED
      BY <3>2, <3>4, <3>5, <3>6 DEF Accepting, AcceptedOpen, Stopped,
                                    serverVars, connectionVars
  <2>12. CASE Ended \/ UNCHANGED vars
    BY <2>12 DEF Ended, vars, serverVars, connectionVars, peerVars, OneInFlight,
                NothingWaitsUnmanaged, ReplyEndsReading, Engaged, ManagedOpen,
                AbortedReleased, NextUnused, Accepting, AcceptedOpen, Stopped
  <2>13. ASSUME NEW c \in Connections, handle_read(c)
         PROVE  IInv'
    BY <2>13, <2>5, <2>6, <2>7, <2>8
       DEF handle_read, Finished, read_more, send_reply, Kind, ErrorCode, connectionVars
  <2>14. ASSUME NEW c \in Connections, handle_write(c)
         PROVE  IInv'
    BY <2>14, <2>6, <2>7 DEF handle_write, Finished, Kind, ErrorCode
  <2>15. CASE run_returns
    BY <2>15, <2>5 DEF run_returns
  <2>16. QED
    BY <2>1, <2>2, <2>3, <2>4, <2>9, <2>10, <2>11, <2>12, <2>13, <2>14, <2>15
       DEF Next, Handlers, handle_accept, Outside
<1>3. QED
  BY <1>1, <1>2, TypeCorrect, PTL DEF Spec

-----------------------------------------------------------------------------
\* Whatever the peers do, a connection the manager holds always has exactly one
\* handler to come (connection.cpp:47-103).
THEOREM OneInFlightAlways == Spec => []OneInFlight
BY Invariance, PTL DEF IInv

\* stop_all reaches every operation that waits for a peer
\* (connection_manager.cpp:30-35).
THEOREM NothingWaitsUnmanagedAlways == Spec => []NothingWaitsUnmanaged
BY Invariance, PTL DEF IInv

\* A connection whose reply has been chosen is never read from again
\* (connection.cpp:58-75).
THEOREM ReplyEndsReadingAlways == Spec => []ReplyEndsReading
BY Invariance, PTL DEF IInv

\* The comment in server::run is right: until a stop there is always an accept
\* outstanding, into an object of its own (server.cpp:51-54).
THEOREM AcceptOutstandingAlways == Spec => []AcceptOutstanding
<1>1. IInv => AcceptOutstanding
  BY DEF IInv, AcceptOutstanding, Accepting, NextUnused, Engaged
<1>2. QED
  BY <1>1, Invariance, PTL

\* A reply stays as it is until its write has completed (reply.hpp:52-54).
THEOREM ReplyStableAlways == Spec => ReplyStable
<1> DEFINE A == \A c \in Connections : Op("write", c, "pending") \in ops =>
                  reply_'[c] = reply_[c] /\ new_connection_' # c
<1>1. IInv /\ [Next]_vars => [A]_vars
  <2> SUFFICES ASSUME IInv, Next, NEW c \in Connections, Op("write", c, "pending") \in ops
               PROVE  reply_'[c] = reply_[c] /\ new_connection_' # c
    OBVIOUS
  <2>1. new_connection_ # c /\ c \notin Free
    BY DEF IInv, NextUnused, Free, Held, Op
  <2>2. ASSUME NEW d \in Connections, NEW status, Finished("read", d, "success"),
               send_reply(d, status, {Op("read", d, "success")})
        PROVE  reply_'[c] = reply_[c] /\ new_connection_' = new_connection_
    <3>1. d # c
      BY <2>2 DEF Finished, IInv, OneInFlight, Op
    <3> QED
      BY <3>1, <2>2 DEF send_reply, serverVars, IInv, TypeOK
  <2>3. ASSUME NEW d \in Connections, handle_read(d)
        PROVE  reply_'[c] = reply_[c] /\ new_connection_' = new_connection_
    BY <2>2, <2>3 DEF handle_read, read_more, leave, serverVars, connectionVars
  <2>4. ASSUME NEW d \in Free, start_accept(d)
        PROVE  reply_'[c] = reply_[c] /\ new_connection_' # c
    BY <2>1, <2>4 DEF start_accept, Free, IInv, TypeOK
  <2>5. QED
    BY <2>1, <2>3, <2>4
       DEF Next, Handlers, handle_accept, Outside, accept_connection, accept_again,
           accept_after_stop, handle_stop, run_returns, leave, handle_write,
           peer_connects, accept_fails, signal_arrives, peer_sends, peer_leaves,
           io_completes, Ended, vars, serverVars, connectionVars
<1>2. QED
  BY <1>1, Invariance, PTL DEF Spec, ReplyStable

\* handle_accept starts nothing once handle_stop has run, and nothing else starts
\* a connection (server.cpp:69-74).
THEOREM NoStartAfterStopAlways == Spec => NoStartAfterStop
<1>1. [Next]_vars => [acceptor_ = "closed" => connections_' \subseteq connections_]_vars
  BY DEF Next, Handlers, handle_accept, Outside, accept_connection, accept_again,
         accept_after_stop, handle_stop, stop_all, run_returns, leave, handle_read,
         handle_write, read_more, send_reply, manager_stop,
         peer_connects, accept_fails, signal_arrives, peer_sends, peer_leaves,
         io_completes, Ended, vars, serverVars, connectionVars
<1>2. QED
  BY <1>1, PTL DEF Spec, NoStartAfterStop

-----------------------------------------------------------------------------
(***************************************************************************)
(* Server implements ConnectionService.  Uniform facts about sessionOf     *)
(* first, so that each action is a matter of what is in flight afterwards. *)
(***************************************************************************)

\* A connection that is in flight one way is not in flight the other way.
LEMMA SessionCases ==
  ASSUME IInv, NEW c \in Connections
  PROVE  /\ Engaged("read", c) => ~Engaged("write", c)
         /\ sessionOf[c] = "idle" <=> \A o \in ops : o.conn # c
         /\ sessionOf[c] = "reading" <=> c \in connections_ /\ Engaged("read", c)
         /\ sessionOf[c] = "answering" <=> c \in connections_ /\ Engaged("write", c)
         /\ sessionOf[c] = "draining" <=>
              c \notin connections_ /\ \E o \in ops : o.conn = c
<1>1. Engaged("read", c) => ~Engaged("write", c)
  BY DEF IInv, OneInFlight, Engaged
<1>2. (\E k \in Kind : Engaged(k, c)) <=> \E o \in ops : o.conn = c
  BY DEF Engaged, IInv, TypeOK
<1>3. c \in connections_ => Engaged("read", c) \/ Engaged("write", c)
  BY DEF IInv, OneInFlight, Kind
<1>4. c \in connections_ => \E o \in ops : o.conn = c
  BY <1>3 DEF Engaged
<1>5. QED
  BY <1>1, <1>2, <1>3, <1>4 DEF sessionOf

\* The abstract session of a connection only depends on what is in flight on it
\* and on whether the manager holds it.
LEMMA SessionFrame ==
  ASSUME NEW c \in Connections,
         \A k \in Kind : Engaged(k, c)' <=> Engaged(k, c),
         c \in connections_' <=> c \in connections_
  PROVE  sessionOf'[c] = sessionOf[c]
BY DEF sessionOf, Kind

\* A step that disturbs at most one connection is a step of its session only.
LEMMA SessionBecomes ==
  ASSUME NEW c \in Connections,
         \A d \in Connections : d # c =>
           /\ \A k \in Kind : Engaged(k, d)' <=> Engaged(k, d)
           /\ d \in connections_' <=> d \in connections_
  PROVE  /\ sessionOf' = [sessionOf EXCEPT ![c] = sessionOf'[c]]
         /\ sessionOf'[c] = sessionOf[c] => sessionOf' = sessionOf
<1>1. \A d \in Connections : d # c => sessionOf'[d] = sessionOf[d]
  BY SessionFrame
<1>2. QED
  BY <1>1 DEF sessionOf

\* The end of the handler of c's only operation, with no operation to follow:
\* the session of c, if it had one, is over.
LEMMA SessionEnds ==
  ASSUME IInv, IInv', NEW c \in Connections, NEW o \in ops, o.conn = c,
         connections_' = connections_ \ {c}, UNCHANGED serverVars,
         \A p \in ops' : p.conn # c,
         \A d \in Connections : d # c =>
           \A k \in Kind : Engaged(k, d)' <=> Engaged(k, d)
  PROVE  Service!Next
<1>1. sessionOf' = [sessionOf EXCEPT ![c] = sessionOf'[c]]
  BY SessionBecomes
<1>2. sessionOf'[c] = "idle"
  BY DEF sessionOf, Engaged
<1>3. phaseOf' = phaseOf
  BY DEF phaseOf, serverVars
<1>4. sessionOf[c] \in {"reading", "answering", "draining"}
  BY SessionCases DEF sessionOf
<1>5. QED
  BY <1>1, <1>2, <1>3, <1>4
     DEF Service!Next, Service!Release, Service!Drain, Service!Become

\* The event loop is an implementation of the abstract service: every handler
\* and every outside event is one step of ConnectionService, or none.
THEOREM Implementation == Spec => ImplementsService
<1>1. Init => Service!Init
  BY DEF Init, Service!Init, phaseOf, sessionOf, Engaged
<1>2. IInv /\ IInv' /\ [Next]_vars => [Service!Next]_(Service!vars)
  <2> SUFFICES ASSUME IInv, IInv', [Next]_vars
               PROVE  [Service!Next]_(Service!vars)
    OBVIOUS
  <2>1. CASE accept_connection
    <3>new. PICK n : n = new_connection_
      OBVIOUS
    <3>1. /\ n \in Connections /\ connections_' = connections_ \cup {n}
          /\ ops' = ops \cup {Op("read", n, "pending")}
          /\ acceptor_ = "open" /\ process = "running" /\ UNCHANGED <<process, acceptor_>>
      BY <2>1, <3>new DEF accept_connection, manager_start, async_start, IInv,
                        AcceptedOpen, TypeOK
    <3>2. phaseOf = "serving" /\ phaseOf' = phaseOf
      BY <3>1 DEF phaseOf
    <3>3. sessionOf[n] = "idle"
      BY <3>new, <3>1, SessionCases DEF IInv, NextUnused
    <3>4. sessionOf'[n] = "reading"
      <4>1. ~Engaged("write", n)'
        <5>1. \A o \in ops' : o.conn = n => o = Op("read", n, "pending")
          BY <3>new, <3>1 DEF IInv, NextUnused
        <5>2. Op("read", n, "pending").kind # "write"
          BY DEF Op
        <5> QED
          BY <5>1, <5>2 DEF Engaged
      <4>2. n \in connections_'
        BY <3>1
      <4> QED
        BY <3>1, <4>1, <4>2 DEF sessionOf, Engaged
    <3>5. sessionOf' = [sessionOf EXCEPT ![n] = sessionOf'[n]]
      BY <3>1, SessionBecomes DEF Engaged, Op
    <3> QED
      BY <3>1, <3>2, <3>3, <3>4, <3>5 DEF Service!Next, Service!Accept, Service!Become
  <2>2. CASE handle_stop
    <3>1. /\ stop(connections_, "closed", {}) /\ connections_' = {}
          /\ connections_ \in SUBSET Connections
          /\ acceptor_ = "open" /\ acceptor_' = "closed"
          /\ process = "running" /\ process' = "running"
      BY <2>2 DEF handle_stop, stop_all, IInv, Stopped, TypeOK
    <3>2. phaseOf = "serving" /\ phaseOf' = "stopping"
      BY <3>1 DEF phaseOf
    <3>3. ASSUME NEW c \in Connections
          PROVE  (\E o \in ops' : o.conn = c) <=> (\E o \in ops : o.conn = c)
      <4>1. \A o \in ops' : \E p \in ops : p.kind = o.kind /\ p.conn = o.conn
        BY <3>1, StopCancels DEF IInv
      <4>2. \A p \in ops \ {} : \E o \in ops' : o.kind = p.kind /\ o.conn = p.conn
        BY <3>1, StopKeeps
      <4> QED
        BY <4>1, <4>2
    <3>4. ASSUME NEW c \in Connections
          PROVE  sessionOf'[c] = IF sessionOf[c] = "idle" THEN "idle" ELSE "draining"
      <4>1. (\E k \in Kind : Engaged(k, c)') <=> \E o \in ops' : o.conn = c
        BY DEF Engaged, IInv, TypeOK
      <4> QED
        BY <4>1, <3>1, <3>3, SessionCases DEF sessionOf
    <3>5. sessionOf' = [c \in Connections |->
                          IF sessionOf[c] = "idle" THEN "idle" ELSE "draining"]
      BY <3>4 DEF sessionOf
    <3> QED
      BY <3>2, <3>5 DEF Service!Next, Service!Stop
  <2>3. ASSUME NEW how \in {"returned", "threw"}, process = "running", leave(how),
               how = "returned" => signal_op = "handled" /\ ops = {}
        PROVE  Service!Next
    <3>1. phaseOf # "down" /\ phaseOf' = "down"
      BY <2>3 DEF phaseOf, leave
    <3>2. sessionOf' = [c \in Connections |-> "idle"]
      BY <2>3 DEF leave, sessionOf, Engaged
    <3> QED
      BY <3>1, <3>2 DEF Service!Next, Service!Fail
  <2>4. ASSUME NEW c \in Connections, NEW k \in Kind, NEW e \in ErrorCode,
               Op(k, c, e) \in ops, NEW how \in {"closed", "finished"},
               manager_stop(c, how, {Op(k, c, e)}), UNCHANGED serverVars
        PROVE  Service!Next
    <3> DEFINE C == {c}
               h == {Op(k, c, e)}
    <3>1. /\ TypeOK /\ C \in SUBSET Connections /\ h \in SUBSET ops
          /\ \A o \in h : o.state # "pending"
          /\ stop(C, how, h)
          /\ connections_' = connections_ \ C
      BY <2>4 DEF manager_stop, Op, ErrorCode, IInv
    <3>2. \A o \in ops : o.conn \in C <=> o \in h
      BY <2>4 DEF IInv, OneInFlight, Op
    <3>3. /\ \A o \in ops' : \E p \in ops \ h : p.kind = o.kind /\ p.conn = o.conn
          /\ \A p \in ops \ h : \E o \in ops' : o.kind = p.kind /\ o.conn = p.conn
      <4> HIDE DEF C, h
      <4>1. /\ \A o \in ops' : o.state = "pending" => o \in ops /\ o.conn \notin C
            /\ \A o \in ops' : \E p \in ops \ h : p.kind = o.kind /\ p.conn = o.conn
            /\ \A p \in ops \ h : p.conn \notin C => p \in ops'
            /\ \A o \in ops' : o.state = "aborted" => o \in ops \/ o.conn \in C
        BY <3>1, StopCancels
      <4>2. \A p \in ops \ h : \E o \in ops' : o.kind = p.kind /\ o.conn = p.conn
        BY <3>1, StopKeeps
      <4> QED
        BY <4>1, <4>2
    <3>4. \A p \in ops' : p.conn # c
      BY <3>2, <3>3
    <3>5. ASSUME NEW d \in Connections, d # c, NEW j \in Kind
          PROVE  Engaged(j, d)' <=> Engaged(j, d)
      <4>1. \A o \in ops : o.conn = d => o \notin h
        BY <3>2, <3>5
      <4> HIDE DEF h
      <4> QED
        BY <4>1, <3>3 DEF Engaged
    <3> QED
      BY <2>4, <3>1, <3>4, <3>5, SessionEnds DEF Op
  <2>5. ASSUME NEW c \in Connections, NEW k \in Kind, Op(k, c, "aborted") \in ops,
               ops' = ops \ {Op(k, c, "aborted")},
               UNCHANGED <<serverVars, connectionVars, peerVars>>
        PROVE  Service!Next
    <3> DEFINE o == Op(k, c, "aborted")
    <3>1. o \in ops /\ o.conn = c /\ o.state = "aborted" /\ ops' = ops \ {o}
      BY <2>5 DEF Op
    <3>2. \A p \in ops : p.conn = c => p = o
      BY <3>1 DEF IInv, OneInFlight
    <3>3. connections_' = connections_ \ {c}
      BY <2>5, <3>1 DEF IInv, AbortedReleased, connectionVars
    <3>4. \A p \in ops' : p.conn # c
      BY <3>1, <3>2
    <3>5. \A d \in Connections : d # c => \A j \in Kind : Engaged(j, d)' <=> Engaged(j, d)
      BY <3>1 DEF Engaged
    <3> QED
      BY <2>5, <3>1, <3>3, <3>4, <3>5, SessionEnds
  <2>swap. ASSUME NEW r \in ops, NEW s, ops' = (ops \ {r}) \cup {s},
                s.kind = r.kind, s.conn = r.conn,
                UNCHANGED <<connections_, process, acceptor_>>
         PROVE  UNCHANGED Service!vars
    <3>1. ASSUME NEW c \in Connections, NEW k \in Kind
          PROVE  Engaged(k, c)' <=> Engaged(k, c)
      BY <2>swap DEF Engaged
    <3>2. \A c \in Connections : sessionOf'[c] = sessionOf[c]
      BY <2>swap, <3>1, SessionFrame
    <3> QED
      BY <2>swap, <3>2 DEF Service!vars, phaseOf, sessionOf
  <2>6. ASSUME NEW c \in Connections, Finished("read", c, "success"),
               read_more(c, {Op("read", c, "success")})
        PROVE  UNCHANGED Service!vars
    <3> DEFINE r == Op("read", c, "success")
               s == Op("read", c, IF socket_[c] = "open" THEN "pending" ELSE "error")
    <3>1. /\ r \in ops /\ ops' = (ops \ {r}) \cup {s}
          /\ r.kind = "read" /\ r.conn = c /\ s.kind = "read" /\ s.conn = c
          /\ UNCHANGED <<connections_, process, acceptor_>>
      BY <2>6 DEF Finished, read_more, async_start, Op, serverVars, connectionVars
    <3> QED
      BY <2>swap, <3>1
  <2>7. ASSUME NEW c \in Connections, Finished("read", c, "success"), NEW status,
               send_reply(c, status, {Op("read", c, "success")})
        PROVE  [Service!Next]_(Service!vars)
    <3> DEFINE r == Op("read", c, "success")
               s == Op("write", c, IF socket_[c] = "open" THEN "pending" ELSE "error")
    <3>1. /\ r \in ops /\ ops' = (ops \ {r}) \cup {s}
          /\ r.kind = "read" /\ r.conn = c /\ s.kind = "write" /\ s.conn = c
          /\ UNCHANGED <<connections_, process, acceptor_>>
      BY <2>7 DEF Finished, send_reply, async_start, Op, serverVars
    <3>2. /\ sessionOf' = [sessionOf EXCEPT ![c] = sessionOf'[c]]
          /\ sessionOf'[c] = sessionOf[c] => sessionOf' = sessionOf
      <4>1. ASSUME NEW d \in Connections, d # c, NEW k \in Kind
            PROVE  Engaged(k, d)' <=> Engaged(k, d)
        BY <3>1, <4>1 DEF Engaged
      <4> QED
        BY <3>1, <4>1, SessionBecomes
    <3>3. phaseOf' = phaseOf
      BY <3>1 DEF phaseOf
    <3>4. Engaged("read", c) /\ Engaged("write", c)'
      BY <3>1 DEF Engaged
    <3>5. CASE c \in connections_
      <4>1. sessionOf[c] = "reading" /\ sessionOf'[c] = "answering"
        <5>1. sessionOf[c] = "reading"
          BY <3>4, <3>5, SessionCases
        <5>2. sessionOf'[c] = "answering"
          BY <3>1, <3>4, <3>5 DEF sessionOf
        <5> QED
          BY <5>1, <5>2
      <4>2. Service!Become(c, "reading", "answering")
        BY <4>1, <3>2, <3>3 DEF Service!Become
      <4> QED
        BY <4>2 DEF Service!Next, Service!Answer
    <3>6. CASE c \notin connections_
      <4>1. sessionOf[c] = "draining" /\ sessionOf'[c] = "draining"
        <5>1. (\E k \in Kind : Engaged(k, c)) /\ (\E k \in Kind : Engaged(k, c)')
          BY <3>4 DEF Kind
        <5> QED
          BY <5>1, <3>1, <3>6 DEF sessionOf
      <4> QED
        BY <4>1, <3>2, <3>3 DEF Service!vars
    <3> QED
      BY <3>5, <3>6
  <2>8. ASSUME NEW c \in Connections, io_completes(c)
        PROVE  UNCHANGED Service!vars
    <3>1. PICK k \in Kind, e \in {"success", "error"} :
            /\ Op(k, c, "pending") \in ops
            /\ ops' = (ops \ {Op(k, c, "pending")}) \cup {Op(k, c, e)}
      BY <2>8 DEF io_completes
    <3>2. /\ UNCHANGED <<connections_, process, acceptor_>>
          /\ Op(k, c, e).kind = Op(k, c, "pending").kind
          /\ Op(k, c, e).conn = Op(k, c, "pending").conn
      BY <2>8 DEF io_completes, serverVars, connectionVars, Op
    <3> QED
      BY <2>swap, <3>1, <3>2
  <2>9. ASSUME UNCHANGED <<ops, connections_, process, acceptor_>>
        PROVE  UNCHANGED Service!vars
    <3>1. \A c \in Connections : sessionOf'[c] = sessionOf[c]
      BY <2>9, SessionFrame DEF Engaged
    <3> QED
      BY <3>1, <2>9 DEF Service!vars, phaseOf, sessionOf
  <2>10. ASSUME NEW c \in Connections, handle_read(c)
         PROVE  [Service!Next]_(Service!vars)
    BY <2>10, <2>3, <2>4, <2>5, <2>6, <2>7
       DEF handle_read, Finished, Kind, ErrorCode
  <2>11. ASSUME NEW c \in Connections, handle_write(c)
         PROVE  [Service!Next]_(Service!vars)
    BY <2>11, <2>4, <2>5 DEF handle_write, Finished, Kind, ErrorCode
  <2>12. CASE run_returns
    BY <2>12, <2>3 DEF run_returns
  <2>13. CASE accept_again \/ accept_after_stop
    BY <2>13, <2>9 DEF accept_again, accept_after_stop, connectionVars
  <2>14. CASE Outside
    BY <2>14, <2>8, <2>9 DEF Outside, peer_connects, accept_fails, signal_arrives,
         peer_sends, peer_leaves, serverVars, connectionVars
  <2>15. CASE Ended \/ UNCHANGED vars
    BY <2>15, <2>9 DEF Ended, vars, serverVars, connectionVars
  <2>16. QED
    BY <2>1, <2>2, <2>10, <2>11, <2>12, <2>13, <2>14, <2>15
       DEF Next, Handlers, handle_accept
<1>3. QED
  BY <1>1, <1>2, Invariance, PTL DEF Spec, ImplementsService, Service!Spec
=============================================================================
