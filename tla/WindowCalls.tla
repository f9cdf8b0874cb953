------------------------------ MODULE WindowCalls ------------------------------
(***************************************************************************)
(* The calls on one StateWindow (internal/window/state_window.go) and its  *)
(* lock: Add by the goroutines that process states, UniqueTrackIds by those*)
(* that evaluate the rule, and Aggregate, which for "uniqueCount" calls    *)
(* UniqueTrackIds while it has the read lock.                              *)
(*                                                                         *)
(* What is in the window is left to StateWindow.                           *)
(***************************************************************************)
EXTENDS Naturals

CONSTANTS Adders, Counters, Aggregators, NoWriter

Goroutines == Adders \union Counters \union Aggregators

ASSUME CallersAssumption ==
  /\ Adders \cap Counters = {} /\ Adders \cap Aggregators = {}
  /\ Counters \cap Aggregators = {} /\ NoWriter \notin Goroutines

VARIABLES
  windowMu,  (* the window's lock *)
  call,      (* per goroutine: where its call is *)
  crossed   (* history: a writer announced itself between the locks of an Aggregate *)

windowVars == <<windowMu, call, crossed>>
WindowLock == INSTANCE RWMutex WITH
  Procs <- Goroutines, None <- NoWriter, lock <- windowMu

WindowTypeOK ==
  /\ windowMu \in WindowLock!Lock
  /\ call \in [Goroutines -> {"idle", "aggregate", "count", "counted", "unlock",
                            "add", "write", "done"}]
  /\ crossed \in BOOLEAN

WindowInit ==
  /\ WindowLock!Init
  /\ call = [p \in Goroutines |-> "idle"]
  /\ crossed = FALSE

GoOn(p, step) == call' = [call EXCEPT ![p] = step]

-----------------------------------------------------------------------------

(* The first lock of a reader: Aggregate's own, or UniqueTrackIds'.        *)
Ask(p) ==
  /\ call[p] = "idle" /\ p \in Counters \union Aggregators
  /\ WindowLock!RLock(p)
  /\ GoOn(p, IF p \in Aggregators THEN "aggregate" ELSE "count")
  /\ UNCHANGED crossed

(* Aggregate has its lock and calls UniqueTrackIds.                        *)
AskAgain(p) ==
  /\ call[p] = "aggregate" /\ WindowLock!Reading(p)
  /\ WindowLock!RLock(p)
  /\ GoOn(p, "count")
  /\ UNCHANGED crossed

(* The loop over the entries.                                              *)
Count(p) ==
  /\ call[p] = "count" /\ WindowLock!Reading(p)
  /\ GoOn(p, "counted")
  /\ UNCHANGED <<windowMu, crossed>>

(* The deferred RUnlock of UniqueTrackIds, and that of Aggregate.          *)
CountDone(p) ==
  /\ call[p] = "counted"
  /\ WindowLock!RUnlock(p)
  /\ GoOn(p, IF p \in Aggregators THEN "unlock" ELSE "done")
  /\ UNCHANGED crossed

(* Mutant: one RUnlock for two RLocks.                                     *)
AggregatedStillReading(p) ==
  /\ call[p] = "unlock"
  /\ GoOn(p, "done")
  /\ UNCHANGED <<windowMu, crossed>>

Aggregated(p) ==
  /\ call[p] = "unlock"
  /\ WindowLock!RUnlock(p)
  /\ GoOn(p, "done")
  /\ UNCHANGED crossed

(* Add.                                                                    *)
CallAdd(p) ==
  /\ call[p] = "idle" /\ p \in Adders
  /\ GoOn(p, "add")
  /\ UNCHANGED <<windowMu, crossed>>

AnnounceAdd(p) ==
  /\ call[p] = "add"
  /\ WindowLock!Announce(p)
  /\ crossed' = (crossed \/ \E a \in Aggregators : call[a] = "aggregate" /\ WindowLock!Reading(a))
  /\ GoOn(p, "write")

Write(p) ==
  /\ call[p] = "write" /\ WindowLock!MayEnter(p)
  /\ WindowLock!Unlock(p)
  /\ GoOn(p, "done")
  /\ UNCHANGED crossed

(* What the goroutine does once it has made its call.                      *)
Continue(p) ==
  AskAgain(p) \/ Count(p) \/ CountDone(p) \/ Aggregated(p) \/ AnnounceAdd(p) \/ Write(p)

WindowNext == \E p \in Goroutines : Ask(p) \/ CallAdd(p) \/ Continue(p)

WindowSpec == WindowInit /\ [][WindowNext]_windowVars

(* The scheduler runs every goroutine that can go on.                      *)
FairWindowSpec == WindowSpec /\ \A p \in Goroutines : WF_windowVars(Continue(p))

-----------------------------------------------------------------------------

(* Every call returns, unless a writer announced itself after an Aggregate *)
(* got its first lock and before it asked for the second one: then the two *)
(* wait for each other, and everybody else for them.  (Each makes one call:*)
(* in the end, nobody is in one.)                                          *)
ReturnsUnlessCrossed == <>[](crossed \/ \A p \in Goroutines : call[p] \in {"idle", "done"})

=============================================================================
