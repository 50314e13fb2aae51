-------------------------- MODULE InferenceService --------------------------
(***************************************************************************)
(* What the service promises its clients, without the steps of             *)
(* handle_request: a request is answered in one step, with a result for    *)
(* every file name in it, and what it is answered with is recorded in the  *)
(* same step; or the server goes down and cuts everybody off, when at most *)
(* one record may be there that nobody was told of.                        *)
(***************************************************************************)
EXTENDS Images, Maps

CONSTANTS
  Jobs,     \* the connections
  Forms,    \* the requests clients may send
  Handles   \* the keys of records

VARIABLES
  up,       \* the server process is there
  first,    \* it has not been started again
  sent,     \* what each client has asked for
  decided,  \* what it will be answered
  got,      \* how it ended for it
  saved     \* the records, by handle

vars == <<up, first, sent, decided, got, saved>>

None == [kind |-> "none"]
Closed == [kind |-> "closed"]

Predicts(form) == form.path = "/predict" /\ form.parts # <<>>
Results(form) == ImagesOf(form.parts)

Init ==
  /\ up = TRUE /\ first = TRUE
  /\ sent = [j \in Jobs |-> None]
  /\ decided = [j \in Jobs |-> None]
  /\ got = [j \in Jobs |-> None]
  /\ saved = <<>>

Ask(j) ==
  /\ up /\ sent[j] = None
  /\ \E form \in Forms : sent' = [sent EXCEPT ![j] = form]
  /\ UNCHANGED <<up, first, decided, got, saved>>

Open(j) == up /\ sent[j] # None /\ decided[j] = None /\ got[j] = None

Decide(j, answer) ==
  /\ decided' = [decided EXCEPT ![j] = answer]
  /\ UNCHANGED <<up, first, sent, got>>

\* A server that was not started again replaces no record.
Record(content) ==
  \E h \in Handles :
    /\ first => h \notin DOMAIN saved
    /\ saved' = Assign(saved, h, content)

Predict(j) ==
  /\ Open(j) /\ Predicts(sent[j])
  /\ Record(Results(sent[j]))
  /\ Decide(j, [kind |-> "predict", content |-> Results(sent[j])])

Tell(j) ==
  /\ Open(j) /\ sent[j].path = "/history"
  /\ Decide(j, [kind |-> "history", content |-> saved])
  /\ UNCHANGED saved

Refuse(j) ==
  /\ Open(j) /\ sent[j].path # "/history" /\ ~Predicts(sent[j])
  /\ Decide(j, [kind |-> "bad_request"])
  /\ UNCHANGED saved

Deliver(j) ==
  /\ up /\ decided[j] # None /\ got[j] = None
  /\ got' = [got EXCEPT ![j] = decided[j]]
  /\ UNCHANGED <<up, first, sent, decided, saved>>

GoDown ==
  /\ up = TRUE /\ up' = FALSE
  /\ got' = [j \in Jobs |-> IF sent[j] # None /\ got[j] = None THEN Closed ELSE got[j]]
  /\ \/ UNCHANGED saved
     \/ \E j \in Jobs : Open(j) /\ Predicts(sent[j]) /\ Record(Results(sent[j]))
  /\ UNCHANGED <<first, sent, decided>>

Restart ==
  /\ up = FALSE /\ up' = TRUE
  /\ first' = FALSE
  /\ UNCHANGED <<sent, decided, got, saved>>

Next ==
  \/ \E j \in Jobs : Ask(j) \/ Predict(j) \/ Tell(j) \/ Refuse(j) \/ Deliver(j)
  \/ GoDown
  \/ Restart

Spec == Init /\ [][Next]_vars
=============================================================================
