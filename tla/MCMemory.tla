------------------------------- MODULE MCMemory --------------------------------
(***************************************************************************)
(* One instance for TLC of what the engine keeps in memory: the windows of *)
(* events (EventPath) and of states (StateWindow), the observations behind *)
(* a sustained rule (SustainPath), the memory of a rule (RuleMemory),      *)
(* instances of rules (RuleInstances), definitions of metrics              *)
(* (FactRegistry) and the entities (EntityStore).                          *)
(*                                                                         *)
(* The components share no state, so that a run in which one of them moves *)
(* and the others stand still loses nothing: `part` is the one that moves. *)
(***************************************************************************)
EXTENDS
  EventPath, StateWindow, SustainPath, RuleMemory, RuleInstances, FactRegistry, EntityStore,
  TLC

VARIABLE part

allVars ==
  <<part, vars, stateVars, sustainVars, ruleVars, instanceVars, factVars, entityVars>>

(* With a duration of 2, e1 and e2 fit one window, so do e2 and e3 (by a   *)
(* second exactly at the cutoff), and e1 leaves it when e3 arrives.        *)
EmittedAtThree == "e1" :> 1 @@ "e2" :> 3 @@ "e3" :> 5

(* Five instants and a duration of two: late ones fall on both sides.      *)
FiveInstants == 1..5

(* A clock of half seconds; an observation goes stale after 2 seconds.     *)
Seconds == 0..9
ThreeSeconds == [mode |-> "rising", cooldown |-> 1, sustain |-> 3]

Symmetry == Permutations(Cells)  \* of entities and of instances

(* All the components are sound in their types.                            *)
TypesOK ==
  /\ PathTypeOK /\ StateTypeOK /\ StoreTypeOK /\ RuleTypeOK
  /\ InstanceTypeOK /\ FactTypeOK /\ EntityTypeOK

-----------------------------------------------------------------------------

AllInit ==
  /\ part \in {"events", "states", "sustain", "rule", "instances", "facts", "entities"}
  /\ PathInit
  /\ StateInit
  /\ SustainInit
  /\ RuleInit
  /\ InstanceInit
  /\ FactInit
  /\ EntityInit

EventStep ==
  /\ part = "events" /\ PathNext
  /\ UNCHANGED <<stateVars, sustainVars, ruleVars, instanceVars, factVars, entityVars>>

StateStep ==
  /\ part = "states" /\ StateNext
  /\ UNCHANGED <<vars, sustainVars, ruleVars, instanceVars, factVars, entityVars>>

SustainStep ==
  /\ part = "sustain" /\ SustainNext
  /\ UNCHANGED <<vars, stateVars, ruleVars, instanceVars, factVars, entityVars>>

RuleStep ==
  /\ part = "rule" /\ RuleNext
  /\ UNCHANGED <<vars, stateVars, sustainVars, instanceVars, factVars, entityVars>>

InstanceStep ==
  /\ part = "instances" /\ InstanceNext
  /\ UNCHANGED <<vars, stateVars, sustainVars, ruleVars, factVars, entityVars>>

FactStep ==
  /\ part = "facts" /\ FactNext
  /\ UNCHANGED <<vars, stateVars, sustainVars, ruleVars, instanceVars, entityVars>>

EntityStep ==
  /\ part = "entities" /\ EntityNext
  /\ UNCHANGED <<vars, stateVars, sustainVars, ruleVars, instanceVars, factVars>>

AllNext ==
  /\ EventStep \/ StateStep \/ SustainStep \/ RuleStep \/ InstanceStep \/ FactStep \/ EntityStep
  /\ UNCHANGED part

AllSpec == AllInit /\ [][AllNext]_allVars

=============================================================================
