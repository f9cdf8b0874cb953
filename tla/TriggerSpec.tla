----------------------------- MODULE TriggerSpec ----------------------------
(***************************************************************************)
(* What the trigger manager promises, stated over the whole history of the *)
(* evaluations of a rule instead of the three scalars the code keeps:      *)
(*                                                                         *)
(*   - nothing fires while a condition is false;                           *)
(*   - a plain rising rule fires when the previous evaluation was not true;*)
(*   - a sustained rule fires when the condition held, without a gap and   *)
(*     without a firing, since an evaluation at least that long ago;       *)
(*   - nothing fires within the cooldown of any earlier firing.            *)
(*                                                                         *)
(* hist[o] is the sequence of evaluations of one trigger state o, in the   *)
(* order in which they were applied; their time stamps need not increase.  *)
(***************************************************************************)
EXTENDS Integers, Sequences

CONSTANTS
  Objects,   (* identities of trigger states *)
  Stamps,    (* emittedAt values *)
  Configs    (* trigger and sustain parts of rules *)

VARIABLE hist

Evaluation == [cond : BOOLEAN, at : Stamps, cfg : Configs, fired : BOOLEAN]

WasTrue(h) == h # <<>> /\ h[Len(h)].cond

(* Every evaluation from the i-th on was true and did not fire.            *)
InStreak(h, i) == \A k \in DOMAIN h : k >= i => h[k].cond /\ ~h[k].fired

(* The evaluation that opened the sustain period that is still running.    *)
Opens(h, i) ==
  /\ InStreak(h, i)
  /\ h[i].cfg.sustain > 0
  /\ \A k \in DOMAIN h : k < i /\ InStreak(h, k) => h[k].cfg.sustain = 0

HeldFor(h, at, d) == \E i \in DOMAIN h : Opens(h, i) /\ at - h[i].at >= d

CoolingDown(h, at, c) == \E i \in DOMAIN h : h[i].fired /\ at - h[i].at < c

ShouldFire(h, cond, at, cfg) ==
  /\ cond
  /\ IF cfg.sustain > 0
     THEN HeldFor(h, at, cfg.sustain)
     ELSE cfg.mode = "every" \/ ~WasTrue(h)
  /\ ~CoolingDown(h, at, cfg.cooldown)

Init == hist = [o \in Objects |-> <<>>]

Evaluate(o, cond, at, cfg) ==
  hist' = [hist EXCEPT ![o] =
             Append(@, [cond |-> cond, at |-> at, cfg |-> cfg,
                        fired |-> ShouldFire(@, cond, at, cfg)])]

Next == \E o \in Objects, cond \in BOOLEAN, at \in Stamps, cfg \in Configs :
           Evaluate(o, cond, at, cfg)

Spec == Init /\ [][Next]_hist

=============================================================================
