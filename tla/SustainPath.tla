------------------------------ MODULE SustainPath ------------------------------
(***************************************************************************)
(* A sustained rule from the payload to the firing: the observation store, *)
(* the context of the rule (internal/engine/evaluator.go) and the decision *)
(* of the trigger manager, over time.                                      *)
(*                                                                         *)
(* The rule holds when each of its regions reports TRUE, and is evaluated  *)
(* only when a payload for one of them comes.  The payloads are served one *)
(* at a time, and their senders' clocks are the engine's.                  *)
(***************************************************************************)
EXTENDS ObservationStore, TriggerLogic

CONSTANT Config  (* trigger and sustain parts of the rule *)

ASSUME SustainAssumption ==
  /\ Config \in TriggerConfig /\ Sustained(Config)
  /\ \A t \in 0..MaxTime : t \div PerSecond \in Stamps

VARIABLES
  state,  (* the rule's TriggerState *)
  fired,  (* what the last evaluation decided *)
  since,  (* history: the sustain period that was open before it *)
  broken  (* history: the last instant at which the rule was not known to hold *)

sustainVars == <<storeVars, state, fired, since, broken>>

SustainInit ==
  /\ StoreInit
  /\ state = NewTriggerState
  /\ fired = FALSE
  /\ since = 0
  /\ broken = 0

(* BuildRuleContext and evaluateRule: a region that is missing or stale    *)
(* makes the condition false.                                              *)
Good(k) == Fresh(k) /\ observations[k].value
Holds == \A k \in Keys : Good(k)

(* History: a region has reported, but not for as long as an observation is*)
(* good, less the second that the truncation may cost.                     *)
Silent(k) == arrived[k] # None /\ Age(k) > (TTL - 1) * PerSecond

(* ProcessState for one region: the observation is replaced, then the rule *)
(* is evaluated at the payload's time stamp.                               *)
Report(k, value) ==
  LET at == now \div PerSecond
  IN  /\ at > 0   \* the handler refuses 0
      /\ Update(k, value, at)
      /\ fired' = Fires(state, Holds', at, Config)
      /\ since' = state.start
      /\ state' = Evaluated(state, Holds', at, Config)
      /\ broken' = IF Holds' THEN broken ELSE now

(* Time passes, and with it the freshness of what was reported.            *)
Pass ==
  /\ Tick
  /\ fired' = FALSE
  /\ broken' = IF \A k \in Keys : Good(k)' \/ Silent(k)' THEN broken ELSE now'
  /\ UNCHANGED <<state, since>>

Forget ==
  /\ Cleanup
  /\ fired' = FALSE
  /\ UNCHANGED <<state, since, broken>>

SustainNext ==
  \/ \E k \in Keys, value \in Values : Report(k, value)
  \/ Pass
  \/ Forget

SustainSpec == SustainInit /\ [][SustainNext]_sustainVars

-----------------------------------------------------------------------------

(* "The condition must remain true continuously for 3 minutes": of the time*)
(* since the payload that opened the sustain period of a firing this much  *)
(* is true.  Every payload of the rule found it to hold; and at every      *)
(* instant in between each of its regions had reported TRUE and was good to*)
(* use, or was silent.  That a region is silent goes by unless a payload of*)
(* another comes meanwhile, so that the rule need not have held for 3      *)
(* minutes of observations anyone could have used.                         *)
HeldContinuously == fired => broken < (since + 1) * PerSecond

(* An open sustain period does not mean that the rule holds: refuted by a  *)
(* region that says nothing for longer than its last observation is good.  *)
OpenMeansHolds == state.start # 0 => Holds

=============================================================================
