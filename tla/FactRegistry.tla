------------------------------ MODULE FactRegistry -----------------------------
(***************************************************************************)
(* The registry of aggregators (internal/fact/aggregator.go): for each     *)
(* metric of a region that rules ask for, one definition, shared by the    *)
(* rules and kept as long as one of them is registered.                    *)
(*                                                                         *)
(* Nothing in the engine calls the registry yet.  Its callers are taken to *)
(* be what those of the dependency index are (internal/engine/engine.go): a*)
(* rule is registered with its dependencies and unregistered with the same,*)
(* and one that is saved again is registered again, with whatever it asks  *)
(* for now, without having been unregistered.                              *)
(***************************************************************************)
EXTENDS Integers, Sequences, FiniteSets, FiniteSetsExt

CONSTANTS
  Rules,
  Metrics,  (* FactKeys: a camera, a region and an aggregation *)
  Sources,  (* "state" and "event" *)
  Durations,
  MaxDeps,  (* bound: the dependencies of a rule *)
  MaxLeaks, (* bound: the references left behind, per metric *)
  NoMetric

(* A dependency; one without a window asks for no metric.                  *)
Windowed == [metric : Metrics, source : Sources, duration : Durations]
Dependency == Windowed \union {NoMetric}
Dependencies == UNION {[1..n -> Dependency] : n \in 1..MaxDeps}

ASSUME RegistryAssumption ==
  MaxDeps \in Nat \ {0} /\ MaxLeaks \in Nat /\ IsFiniteSet(Sources) /\ NoMetric \notin Windowed

VARIABLES
  aggregators,  (* the map of definitions: the metric's dependency that made it, or NoMetric *)
  refCount,     (* the map of counts; 0 stands for a key that is not there *)
  registered,   (* history: the dependencies each rule was last registered with, or <<>> *)
  leaked,       (* history: the references of registrations that were replaced *)
  asked         (* history: the sources asked for since a metric was defined *)

factVars == <<aggregators, refCount, registered, leaked, asked>>

FactTypeOK ==
  /\ aggregators \in [Metrics -> Windowed \union {NoMetric}]
  /\ refCount \in [Metrics -> Nat]
  /\ registered \in [Rules -> Dependencies \union {<<>>}]
  /\ leaked \in [Metrics -> Nat]
  /\ asked \in [Metrics -> SUBSET Sources]

FactInit ==
  /\ aggregators = [m \in Metrics |-> NoMetric]
  /\ refCount = [m \in Metrics |-> 0]
  /\ registered = [r \in Rules |-> <<>>]
  /\ leaked = [m \in Metrics |-> 0]
  /\ asked = [m \in Metrics |-> {}]

(* The places in deps that ask for a metric.                               *)
Asking(deps, m) == {i \in DOMAIN deps : deps[i] # NoMetric /\ deps[i].metric = m}

(* History: what r asked for before is asked for by nobody any more, but   *)
(* its references stay.                                                    *)
Replace(r, deps) ==
  /\ registered' = [registered EXCEPT ![r] = deps]
  /\ leaked' = [m \in Metrics |-> leaked[m] + Cardinality(Asking(registered[r], m))]
  /\ \A m \in Metrics : leaked'[m] <= MaxLeaks

(* Mutant: a rule counts once.                                             *)
RegisterOnce(r, deps) ==
  /\ Replace(r, deps)
  /\ refCount' = [m \in Metrics |-> refCount[m] + (IF Asking(deps, m) = {} THEN 0 ELSE 1)]
  /\ aggregators' = [m \in Metrics |->
       IF aggregators[m] = NoMetric /\ Asking(deps, m) # {} THEN deps[Min(Asking(deps, m))]
       ELSE aggregators[m]]
  /\ asked' = [m \in Metrics |-> asked[m] \union {deps[i].source : i \in Asking(deps, m)}]

(* Register: one reference for each dependency; the first one to ask for a *)
(* metric defines it.                                                      *)
Register(r, deps) ==
  /\ Replace(r, deps)
  /\ refCount' = [m \in Metrics |-> refCount[m] + Cardinality(Asking(deps, m))]
  /\ aggregators' = [m \in Metrics |->
       IF aggregators[m] = NoMetric /\ Asking(deps, m) # {} THEN deps[Min(Asking(deps, m))]
       ELSE aggregators[m]]
  /\ asked' = [m \in Metrics |-> asked[m] \union {deps[i].source : i \in Asking(deps, m)}]

(* Unregister: the loop over the dependencies of the rule.  A count that   *)
(* has come to 0 is deleted; the next decrement would start from 0 again   *)
(* and be deleted, too.                                                    *)
Unregister(r) ==
  LET deps == registered[r]
      count(m) == Max({0, refCount[m] - Cardinality(Asking(deps, m))})
  IN  /\ deps # <<>>
      /\ registered' = [registered EXCEPT ![r] = <<>>]
      /\ refCount' = [m \in Metrics |-> count(m)]
      /\ aggregators' = [m \in Metrics |->
           IF Asking(deps, m) # {} /\ count(m) = 0 THEN NoMetric ELSE aggregators[m]]
      /\ asked' = [m \in Metrics |-> IF aggregators'[m] = NoMetric THEN {} ELSE asked[m]]
      /\ UNCHANGED leaked

FactNext ==
  \E r \in Rules :
    \/ \E deps \in Dependencies : Register(r, deps)
    \/ Unregister(r)

FactSpec == FactInit /\ [][FactNext]_factVars

(* Recompute: the metrics that are new when a payload of a source comes for*)
(* a region; of its regions, the metrics of only one are kept here.        *)
Recompute(source) == {m \in Metrics : aggregators[m] # NoMetric /\ aggregators[m].source = source}

-----------------------------------------------------------------------------

(* A metric is defined as long as a rule asks for it, and no longer, unless*)
(* a rule that asked for it was registered again, which leaves references  *)
(* behind for ever: rules that ask for the same one, once or more often, do*)
(* not take it from each other, nor leave it behind when they go.  And it  *)
(* is computed again when the data of such a rule come, unless somebody has*)
(* asked for the metric of the other source since it was defined, be it a  *)
(* rule that is gone: a key does not tell a metric of states from one of   *)
(* events, and the definition outlives the rule that made it.              *)
DefinitionsFit ==
  \A m \in Metrics :
    /\ aggregators[m] # NoMetric
         <=> leaked[m] > 0 \/ \E r \in Rules : Asking(registered[r], m) # {}
    /\ \A r \in Rules : \A i \in Asking(registered[r], m) :
         Cardinality(asked[m]) = 1 => m \in Recompute(registered[r][i].source)

=============================================================================
