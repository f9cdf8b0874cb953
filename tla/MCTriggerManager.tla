-------------------------- MODULE MCTriggerManager --------------------------
(* Small instances of TriggerManager for TLC.                              *)
EXTENDS TriggerManager, TLC

(* Stamp 0 is posted too; the handlers reject it.  1 and 3 are exactly a   *)
(* sustain or cooldown of 2 apart, may repeat and arrive in either order.  *)
MCStamps == {0, 1, 3}

Cfg(m, c, s) == [mode |-> m, cooldown |-> c, sustain |-> s]

(* One rule per branch of ShouldTrigger: a plain edge with a cooldown, a   *)
(* sustained rule and a rule that fires every time.                        *)
MCConfigs == {Cfg("", 2, 0), Cfg("rising", 0, 2), Cfg("every", 1, 0)}

Symmetry == Permutations(Workers) \union Permutations(Objects)

=============================================================================
