----------------------------- MODULE EventLedger -----------------------------
(***************************************************************************)
(* What the ingestion of events promises a sender that waits for its       *)
(* answers: each event is entered once and evaluated once; "accepted" is   *)
(* said once at most, after its evaluation, and "duplicate" means that it  *)
(* is entered already (evaluated or, if the process stopped in between,    *)
(* not).  That requests fail, are repeated, are cut short or lose their    *)
(* answers is not to be seen here.                                         *)
(***************************************************************************)
EXTENDS Naturals

CONSTANT Events

VARIABLES
  status,     (* per event: how far it has come, for good *)
  accepted,   (* per event: how often the answer was "accepted" *)
  duplicate   (* the events for which it was "duplicate" *)

vars == <<status, accepted, duplicate>>

Init ==
  /\ status = [e \in Events |-> "new"]
  /\ accepted = [e \in Events |-> 0]
  /\ duplicate = {}

Enter(e) ==
  /\ status[e] = "new"
  /\ status' = [status EXCEPT ![e] = "entered"]
  /\ UNCHANGED <<accepted, duplicate>>

Evaluate(e) ==
  /\ status[e] = "entered"
  /\ status' = [status EXCEPT ![e] = "evaluated"]
  /\ UNCHANGED <<accepted, duplicate>>

Accept(e) ==
  /\ status[e] = "evaluated" /\ accepted[e] = 0
  /\ accepted' = [accepted EXCEPT ![e] = 1]
  /\ UNCHANGED <<status, duplicate>>

Refuse(e) ==
  /\ status[e] # "new"
  /\ duplicate' = duplicate \union {e}
  /\ UNCHANGED <<status, accepted>>

Next == \E e \in Events : Enter(e) \/ Evaluate(e) \/ Accept(e) \/ Refuse(e)

Spec == Init /\ [][Next]_vars

=============================================================================
