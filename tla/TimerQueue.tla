------------------------------ MODULE TimerQueue ------------------------------
(***************************************************************************)
(* The timer queue (internal/scheduler/timer.go): tasks under ids, due at  *)
(* a time cut to the second, taken by a loop that a ticker wakes once a    *)
(* second and handled one after another, with no lock held.                *)
(*                                                                         *)
(* A ticker's channel holds one tick and loses what comes on top, so that  *)
(* a slow handler delays the queue and does not flood it.                  *)
(***************************************************************************)
EXTENDS Integers, FiniteSets

CONSTANTS
  Ids,
  Delays,     (* what tasks are scheduled with, in ticks of the clock *)
  PerSecond,  (* resolution of the clock *)
  MaxTasks,   (* bound: how many calls of Schedule *)
  MaxTime,    (* bound of the clock *)
  NoTask

ASSUME ClockAssumption ==
  PerSecond \in Nat \ {0} /\ MaxTime \in Nat /\ MaxTasks \in Nat /\ Delays \subseteq Nat

VARIABLES
  now,
  phase,      (* when in a second the ticker was started *)
  tick,       (* the ticker's channel holds a tick *)
  tasks,      (* the map *)
  batch,      (* the tasks taken and not handled yet *)
  run,        (* where Run is *)
  cancelled,  (* its context is done *)
  made,       (* history: number of tasks scheduled *)
  dropped,    (* history: the tasks cancelled or replaced in the map *)
  handled     (* history: the tasks handled, with the time *)

timerVars == <<now, phase, tick, tasks, batch, run, cancelled, made, dropped, handled>>

(* A task: n tells it from others of its id; due is when it should run.    *)
Task == [n : 1..MaxTasks, due : Nat, executeAt : Nat]

ASSUME NoTaskAssumption == NoTask \notin Task

Seconds(t) == t \div PerSecond

TimerTypeOK ==
  /\ now \in 0..MaxTime
  /\ phase \in 0..(PerSecond - 1)
  /\ tick \in BOOLEAN
  /\ tasks \in [Ids -> Task \union {NoTask}]
  /\ batch \subseteq Task
  /\ run \in {"wait", "handle", "stopped"}
  /\ run = "stopped" => batch = {}
  /\ cancelled \in BOOLEAN
  /\ made \in 0..MaxTasks
  /\ dropped \subseteq Task
  /\ handled \subseteq (Task \X (0..MaxTime))

TimerInit ==
  /\ now = 0
  /\ phase \in 0..(PerSecond - 1)
  /\ tick = FALSE
  /\ tasks = [id \in Ids |-> NoTask]
  /\ batch = {}
  /\ run = "wait"
  /\ cancelled = FALSE
  /\ made = 0
  /\ dropped = {}
  /\ handled = {}

-----------------------------------------------------------------------------

In(id) == IF tasks[id] = NoTask THEN {} ELSE {tasks[id]}

(* The clock has room for what is scheduled: its end is no deadline.       *)
Schedule(id, delay) ==
  /\ made < MaxTasks
  /\ now + delay + PerSecond <= MaxTime
  /\ made' = made + 1
  /\ tasks' = [tasks EXCEPT ![id] =
       [n |-> made + 1, due |-> now + delay, executeAt |-> Seconds(now + delay)]]
  /\ dropped' = dropped \union In(id)
  /\ UNCHANGED <<now, phase, tick, batch, run, cancelled, handled>>

Cancel(id) ==
  /\ tasks[id] # NoTask
  /\ tasks' = [tasks EXCEPT ![id] = NoTask]
  /\ dropped' = dropped \union In(id)
  /\ UNCHANGED <<now, phase, tick, batch, run, cancelled, made, handled>>

(* Mutant: only the tasks of this second, not of one that was missed.      *)
DueNow(id) == tasks[id] # NoTask /\ tasks[id].executeAt = Seconds(now)

Due(id) == tasks[id] # NoTask /\ tasks[id].executeAt <= Seconds(now)

(* Mutant: the tasks taken stay in the map.                                *)
TakeCopies ==
  /\ run = "wait"
  /\ tick
  /\ tick' = FALSE
  /\ batch' = {tasks[id] : id \in {i \in Ids : Due(i)}}
  /\ run' = "handle"
  /\ UNCHANGED <<now, phase, tasks, cancelled, made, dropped, handled>>

(* Run: GetDueTasks at a tick, ...                                         *)
Take ==
  /\ run = "wait"
  /\ tick
  /\ tick' = FALSE
  /\ batch' = {tasks[id] : id \in {i \in Ids : Due(i)}}
  /\ tasks' = [id \in Ids |-> IF Due(id) THEN NoTask ELSE tasks[id]]
  /\ run' = "handle"
  /\ UNCHANGED <<now, phase, cancelled, made, dropped, handled>>

(* ... the handler, for each of them in any order, ...                     *)
Handle ==
  /\ run = "handle"
  /\ \E task \in batch :
       /\ batch' = batch \ {task}
       /\ handled' = handled \union {<<task, now>>}
  /\ UNCHANGED <<now, phase, tick, tasks, run, cancelled, made, dropped>>

Loop ==
  /\ run = "handle"
  /\ batch = {}
  /\ run' = "wait"
  /\ UNCHANGED <<now, phase, tick, tasks, batch, cancelled, made, dropped, handled>>

(* ... and the end of the context, which a waiting tick may still precede. *)
Return ==
  /\ run = "wait"
  /\ cancelled
  /\ run' = "stopped"
  /\ UNCHANGED <<now, phase, tick, tasks, batch, cancelled, made, dropped, handled>>

CancelContext ==
  /\ ~cancelled
  /\ cancelled' = TRUE
  /\ UNCHANGED <<now, phase, tick, tasks, batch, run, made, dropped, handled>>

(* Time passes, and once a second the ticker has a tick to give.           *)
Tick ==
  /\ now < MaxTime
  /\ now' = now + 1
  /\ tick' = (tick \/ (now + 1) % PerSecond = phase)
  /\ UNCHANGED <<phase, tasks, batch, run, cancelled, made, dropped, handled>>

Run == Take \/ Handle \/ Loop \/ Return

TimerNext ==
  \/ \E id \in Ids, delay \in Delays : Schedule(id, delay)
  \/ \E id \in Ids : Cancel(id)
  \/ Run \/ CancelContext \/ Tick

TimerSpec == TimerInit /\ [][TimerNext]_timerVars

(* The loop is scheduled, handlers return, and time passes.                *)
FairTimerSpec == TimerSpec /\ WF_timerVars(Run) /\ WF_timerVars(Tick)

-----------------------------------------------------------------------------

(* A task has one fate.  It is handled once, and not if it was cancelled   *)
(* or replaced while it was in the queue.  (Cancel is late for a task that *)
(* was taken, though its handler may not have been called.)  Cutting the   *)
(* due time to the second makes it early, by less than a second, wherever  *)
(* in a second the ticker ticks.                                           *)
OneFate ==
  /\ \A p, q \in handled : p[1].n = q[1].n => p = q
  /\ \A p \in handled : p[2] - p[1].due > -PerSecond
  /\ \A p \in handled : p[1] \notin dropped
  /\ \A id \in Ids : tasks[id] # NoTask =>
       tasks[id] \notin dropped \union batch /\ \A p \in handled : p[1] # tasks[id]

(* No task is forgotten: it is handled, unless it is dropped or the loop is*)
(* stopped, however long other handlers take and whatever ticks are lost.  *)
(* One that is taken is handled in any case.                               *)
EveryTaskHandled ==
  <>[](/\ batch = {}
       /\ run = "stopped" \/ \A n \in 1..made :
            (\E p \in handled : p[1].n = n) \/ (\E task \in dropped : task.n = n))

=============================================================================
