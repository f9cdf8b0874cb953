------------------------------- MODULE RWMutex -------------------------------
(***************************************************************************)
(* Go's sync.RWMutex, as the engine's stores and windows use it.           *)
(*                                                                         *)
(* A writer first announces itself.  From then on new readers queue, the   *)
(* readers that are in go on, and the writer enters after the last of them *)
(* has left.  When it leaves, every queued reader is let in before another *)
(* writer can announce itself.  The lock does not know who its readers are:*)
(* a goroutine that reads already and asks again queues like any other.    *)
(***************************************************************************)
EXTENDS Naturals

CONSTANTS Procs, None

VARIABLE lock

Lock == [readers : [Procs -> Nat],          \* how often each holds the read lock
         queued  : SUBSET Procs,            \* readers that wait
         writer  : Procs \union {None}]     \* the writer that has announced itself

Unlocked == [readers |-> [p \in Procs |-> 0], queued |-> {}, writer |-> None]

Init == lock = Unlocked

Reading(p) == lock.readers[p] > 0 /\ p \notin lock.queued

(* RLock, which returns at once or queues; p has it once it is not queued. *)
RLock(p) ==
  lock' = IF lock.writer = None
          THEN [lock EXCEPT !.readers[p] = @ + 1]
          ELSE [lock EXCEPT !.queued = @ \union {p}]

RUnlock(p) == lock' = [lock EXCEPT !.readers[p] = @ - 1]

(* Lock: the announcement, which waits for other writers to be gone ...    *)
Announce(p) ==
  /\ lock.writer = None
  /\ lock' = [lock EXCEPT !.writer = p]

(* ... and the entry, which waits for the readers.                         *)
MayEnter(p) == lock.writer = p /\ \A q \in Procs : lock.readers[q] = 0

Unlock(p) ==
  lock' = [readers |-> [q \in Procs |-> lock.readers[q] + (IF q \in lock.queued THEN 1 ELSE 0)],
           queued  |-> {},
           writer  |-> None]

=============================================================================
