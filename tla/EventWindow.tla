----------------------------- MODULE EventWindow ----------------------------
(***************************************************************************)
(* The rolling window of an event rule (internal/window/event_window.go).  *)
(*                                                                         *)
(* A window keeps the entries added to it, the set of their event ids and  *)
(* the greatest time stamp it has seen.  Add drops an entry whose id is in *)
(* the set, and otherwise prunes the window relative to that greatest time *)
(* stamp, so that what the window holds depends neither on the order in    *)
(* which events arrive nor on how often they are redelivered.              *)
(*                                                                         *)
(* The order of the slice is never observed: entries are counted, so the   *)
(* slice is the number of copies of each event it holds.                   *)
(***************************************************************************)
EXTENDS Integers, FiniteSets

CONSTANTS
  Events,     (* event ids *)
  EmittedAt,  (* the time stamp the sender gave each event *)
  Duration    (* durationSeconds of the window *)

ASSUME EmittedAtAssumption == EmittedAt \in [Events -> Nat \ {0}]
ASSUME DurationAssumption == Duration \in Int   \* no rule is refused for its window

VARIABLES
  window,   (* the EventWindow *)
  posted    (* history: the events passed to Add *)

Window == [copies : [Events -> Nat], seen : SUBSET Events, latest : Nat]

NewWindow == [copies |-> [e \in Events |-> 0], seen |-> {}, latest |-> 0]

(* pruneLocked: entries before the cutoff leave the slice and the set.     *)
Pruned(w, cutoff) ==
  [copies |-> [e \in Events |-> IF EmittedAt[e] < cutoff THEN 0 ELSE w.copies[e]],
   seen   |-> {e \in w.seen : w.copies[e] = 0 \/ EmittedAt[e] >= cutoff},
   latest |-> w.latest]

(* Mutant: a redelivered event is added again.                             *)
AddedAgain(w, e) ==
  LET top == IF EmittedAt[e] > w.latest THEN EmittedAt[e] ELSE w.latest
  IN  Pruned([copies |-> [w.copies EXCEPT ![e] = @ + 1],
              seen   |-> w.seen \union {e},
              latest |-> top],
             top - Duration)

(* Add, which runs under the lock of the window.                           *)
Added(w, e) ==
  IF e \in w.seen
  THEN w
  ELSE LET top == IF EmittedAt[e] > w.latest THEN EmittedAt[e] ELSE w.latest
       IN  Pruned([copies |-> [w.copies EXCEPT ![e] = @ + 1],
                   seen   |-> w.seen \union {e},
                   latest |-> top],
                  top - Duration)

TypeOK ==
  /\ window \in Window
  /\ posted \subseteq Events

Init ==
  /\ window = NewWindow
  /\ posted = {}

Add(e) ==
  /\ window' = Added(window, e)
  /\ posted' = posted \union {e}

Next == \E e \in Events : Add(e)

Spec == Init /\ [][Next]_<<window, posted>>

-----------------------------------------------------------------------------

InWindow(e, latest) == EmittedAt[e] >= latest - Duration

(* What a window holds after any sequence of Add calls on the events of es *)
(* is a function of es alone: each event that is not older than Duration   *)
(* before the newest one, exactly once.  No redelivery counts twice (an    *)
(* event pruned and delivered again included), no late event is lost.      *)
ExactFor(w, es) ==
  /\ \A e \in es : EmittedAt[e] <= w.latest
  /\ IF es = {} THEN w.latest = 0 ELSE \E e \in es : EmittedAt[e] = w.latest
  /\ \A e \in Events :
       w.copies[e] = IF e \in es /\ InWindow(e, w.latest) THEN 1 ELSE 0

Exact == ExactFor(window, posted)

(* The set of seen ids is the set of ids in the slice: were it larger, an  *)
(* event would be refused though not counted; were it smaller, an event    *)
(* could be counted twice.                                                 *)
SeenExact == window.seen = {e \in Events : window.copies[e] > 0}

=============================================================================
