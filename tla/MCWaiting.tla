------------------------------- MODULE MCWaiting -------------------------------
(***************************************************************************)
(* One instance for TLC of the components whose goroutines wait: for a     *)
(* lock (Broker, WindowCalls), for a ticker (TimerQueue), for requests and *)
(* signals (Shutdown).                                                     *)
(*                                                                         *)
(* The components share no state, so that a run in which one of them moves *)
(* and the others stand still loses nothing: `part` is the one that moves. *)
(***************************************************************************)
EXTENDS Broker, WindowCalls, TimerQueue, Shutdown

VARIABLE part

allVars == <<part, vars, windowVars, timerVars, processVars>>

(* All the components are sound in their types.                            *)
TypesOK == TypeOK /\ WindowTypeOK /\ TimerTypeOK /\ ProcessTypeOK

-----------------------------------------------------------------------------

AllInit ==
  /\ part \in {"broker", "window", "timers", "process"}
  /\ Init
  /\ WindowInit
  /\ TimerInit
  /\ part # "timers" => phase = 0
  /\ ProcessInit

BrokerStep ==
  part = "broker" /\ Next /\ UNCHANGED <<windowVars, timerVars, processVars>>
WindowStep ==
  part = "window" /\ WindowNext /\ UNCHANGED <<vars, timerVars, processVars>>
TimerStep ==
  part = "timers" /\ TimerNext /\ UNCHANGED <<vars, windowVars, processVars>>
LifeStep ==
  part = "process" /\ ProcessNext /\ UNCHANGED <<vars, windowVars, timerVars>>

AllNext == (BrokerStep \/ WindowStep \/ TimerStep \/ LifeStep) /\ UNCHANGED part

AllSpec == AllInit /\ [][AllNext]_allVars

(* The fairness of the components: who moves, moves fairly.                *)
AllFairSpec ==
  /\ AllSpec
  /\ \A c \in Clients : WF_vars(part = "broker" /\ Handler(c))
  /\ \A s \in Senders : WF_vars(part = "broker" /\ Broadcast(s))
  /\ \A p \in Goroutines : WF_windowVars(part = "window" /\ Continue(p))
  /\ WF_timerVars(part = "timers" /\ Run)
  /\ WF_timerVars(part = "timers" /\ Tick)
  /\ WF_processVars(part = "process" /\ Main)

=============================================================================
