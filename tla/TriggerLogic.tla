---------------------------- MODULE TriggerLogic ----------------------------
(***************************************************************************)
(* The decision of TriggerManager.ShouldTrigger (internal/engine/          *)
(* trigger.go) as a function of the trigger state of one rule.             *)
(*                                                                         *)
(* A trigger state remembers three scalars: the result of the previous     *)
(* evaluation, the time stamp that opened the sustain period (0: none) and *)
(* the time stamp of the last firing (0: none).  Every time stamp is the   *)
(* emittedAt of a message, in seconds; nothing here reads a clock.         *)
(***************************************************************************)
EXTENDS Integers

(* "" is the mode of a rule whose JSON names none; it behaves as "rising". *)
Mode == {"", "rising", "every"}

(* The trigger and sustain parts of a rule.  A rule without a sustain part *)
(* has sustain = 0, which the code treats the same way.                    *)
TriggerConfig == [mode : Mode, cooldown : Nat, sustain : Nat]

TriggerState == [prev : BOOLEAN, start : Nat, last : Nat]

NewTriggerState == [prev |-> FALSE, start |-> 0, last |-> 0]

Sustained(cfg) == cfg.sustain > 0

(* Mutant: a sustain period must be exceeded, not reached.                 *)
LateSustainPending(st, at, cfg) ==
  /\ Sustained(cfg)
  /\ st.start = 0 \/ at - st.start <= cfg.sustain

SustainPending(st, at, cfg) ==
  /\ Sustained(cfg)
  /\ st.start = 0 \/ at - st.start < cfg.sustain

(* A sustained rule, and a rule that fires every time, need no edge.       *)
EdgeSatisfied(st, cfg) ==
  \/ cfg.mode = "every"
  \/ Sustained(cfg)
  \/ ~st.prev

(* Mutant: a message older than the last firing passes the cooldown.       *)
ForgivingCooldown(st, at, cfg) ==
  st.last > 0 /\ at > st.last /\ at - st.last < cfg.cooldown

InCooldown(st, at, cfg) == st.last > 0 /\ at - st.last < cfg.cooldown

(* The value ShouldTrigger returns.                                        *)
Fires(st, cond, at, cfg) ==
  /\ cond
  /\ ~SustainPending(st, at, cfg)
  /\ EdgeSatisfied(st, cfg)
  /\ ~InCooldown(st, at, cfg)

(* Mutant: a false condition does not restart the sustain period.          *)
KeepsSustain(st, cond, at, cfg) ==
  CASE ~cond -> [st EXCEPT !.prev = FALSE]
    [] Fires(st, cond, at, cfg) -> [prev |-> TRUE, start |-> 0, last |-> at]
    [] OTHER ->
         [st EXCEPT !.prev  = TRUE,
                    !.start = IF Sustained(cfg) /\ @ = 0 THEN at ELSE @]

(* What ShouldTrigger leaves in the trigger state.                         *)
Evaluated(st, cond, at, cfg) ==
  CASE ~cond ->
         [st EXCEPT !.prev = FALSE, !.start = 0]
    [] Fires(st, cond, at, cfg) ->
         [prev |-> TRUE, start |-> 0, last |-> at]
    [] OTHER ->
         [st EXCEPT !.prev  = TRUE,
                    !.start = IF Sustained(cfg) /\ @ = 0 THEN at ELSE @]

=============================================================================
