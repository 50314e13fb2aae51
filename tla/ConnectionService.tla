------------------------- MODULE ConnectionService -------------------------
(***************************************************************************)
(* What the event loop promises, without Boost.Asio: a service that takes  *)
(* connections while it is serving, answers each one at most once, and,    *)
(* asked to stop, takes no more, drains what is left and goes down.        *)
(***************************************************************************)
CONSTANT Connections

VARIABLES
  phase,    \* serving, stopping or down
  session   \* what the service still owes each connection

Sessions == {"idle", "reading", "answering", "draining"}

vars == <<phase, session>>

Init ==
  /\ phase = "serving"
  /\ session = [c \in Connections |-> "idle"]

Become(c, from, to) ==
  /\ session[c] = from
  /\ session' = [session EXCEPT ![c] = to]
  /\ UNCHANGED phase

\* New connections are taken only while serving.
Accept(c) ==
  /\ phase = "serving"
  /\ Become(c, "idle", "reading")

\* A connection that has been answered is never read from again.
Answer(c) == Become(c, "reading", "answering")

\* The peer went away, or has got its answer.
Release(c) ==
  \/ Become(c, "reading", "idle")
  \/ Become(c, "answering", "idle")

\* A connection cut off by Stop still has something queued, and then nothing.
Drain(c) == Become(c, "draining", "idle")

Stop ==
  /\ phase = "serving"
  /\ phase' = "stopping"
  /\ session' = [c \in Connections |->
                   IF session[c] = "idle" THEN "idle" ELSE "draining"]

\* The orderly end waits for every connection.
GoDown ==
  /\ phase = "stopping"
  /\ \A c \in Connections : session[c] = "idle"
  /\ phase' = "down"
  /\ UNCHANGED session

\* A handler threw.
Fail ==
  /\ phase # "down"
  /\ phase' = "down"
  /\ session' = [c \in Connections |-> "idle"]

Next ==
  \/ \E c \in Connections : Accept(c) \/ Answer(c) \/ Release(c) \/ Drain(c)
  \/ Stop
  \/ GoDown
  \/ Fail

Spec == Init /\ [][Next]_vars
=============================================================================
