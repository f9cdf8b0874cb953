----------------------------- MODULE Evaluation -----------------------------
(***************************************************************************)
(* From a payload to the decisions of the rules it concerns: ProcessState, *)
(* ProcessEvent and evaluateRule of internal/engine/engine.go, run by      *)
(* concurrent requests over the dependency index and the observation store.*)
(*                                                                         *)
(* A state payload is worked off region by region: the rules to evaluate   *)
(* are looked up, the observation is stored, then each rule is evaluated.  *)
(* An evaluation reads the rule's observations one at a time, each under   *)
(* the store's lock, and decides after the last: other requests may store  *)
(* newer observations anywhere in between.                                 *)
(*                                                                         *)
(* A region's value is whether the rules' condition holds of it.  Windows, *)
(* sustain and cooldown come after the decision (TriggerManager, EventPath)*)
(***************************************************************************)
EXTENDS ObservationStore, FiniteSets, Sequences

CONSTANTS
  Cameras, Rois, Kinds,
  Rules,       (* the active rules *)
  Deps,        (* Deps[r]: the sequence of dependencies of rule r *)
  Payloads,    (* what the requests may carry *)
  Workers,     (* requests served at a time *)
  MaxRequests  (* bound: how many requests are made *)

(* The empty roiId or eventKind, and the other way to say any kind.        *)
Blank == ""
Every == "*"

Dep == [camera : Cameras, roi : Rois \union {Blank}, source : {"state", "event"},
        kind : Kinds \union {Blank, Every}]

Region == [roi : Rois \union {Blank}, value : Values]

Payload == [source : {"state"}, camera : Cameras, emittedAt : Stamps, regions : Seq(Region)]
           \union
           [source : {"event"}, camera : Cameras, emittedAt : Stamps,
            roi : Rois \union {Blank}, kind : Kinds]

ASSUME KeysAssumption == Keys = Cameras \X (Rois \union {Blank})
ASSUME ValuesAssumption == Values = BOOLEAN
ASSUME DepsAssumption == Deps \in [Rules -> Seq(Dep)]
ASSUME PayloadsAssumption == Payloads \subseteq Payload
ASSUME BoundAssumption == MaxRequests \in Nat

VARIABLES
  work,      (* per worker: what it has yet to do, see Work *)
  requests,  (* how many requests were made *)
  version,   (* history: how often each observation was stored *)
  seen,      (* history: rules some evaluation of which saw what is stored *)
  decision,  (* history: what was last decided of each rule, or None *)
  crossed    (* history: rules an observation of which was replaced while they *)
             (* were being evaluated on the one before                         *)

vars == <<observations, now, arrived, work, requests, version, seen, decision, crossed>>

(* What Get answered: which version, whether it is fresh, its value.       *)
Answered == [version : Nat, fresh : BOOLEAN, value : Values]
Reading == Answered \union {None}

Work == [todo : Seq(Region), camera : Cameras, emittedAt : Stamps,
         rules : SUBSET Rules,             \* rules yet to be evaluated
         rule : Rules \union {None},       \* the rule being evaluated
         readings : Seq(Reading)]          \* its observations read so far

ASSUME NoneAssumption == None \notin Rules /\ None \notin Answered /\ None \notin Work

TypeOK ==
  /\ StoreTypeOK
  /\ work \in [Workers -> Work \union {None}]
  /\ requests \in 0..MaxRequests
  /\ version \in [Keys -> Nat]
  /\ seen \subseteq Rules
  /\ decision \in [Rules -> BOOLEAN \union {None}]
  /\ crossed \subseteq Rules

KeyOf(d) == <<d.camera, d.roi>>
DepsOf(r) == {Deps[r][i] : i \in DOMAIN Deps[r]}

-----------------------------------------------------------------------------

(* DepIndex.Lookup: rules with a dependency on exactly this stream.        *)
Lookup(camera, roi, source, kind) ==
  {r \in Rules : [camera |-> camera, roi |-> roi, source |-> source, kind |-> kind]
                    \in DepsOf(r)}

(* Mutant: only rules on any region of the camera are found.               *)
LookupCamera(camera, roi) == Lookup(camera, Blank, "state", Blank)

LookupState(camera, roi) == Lookup(camera, roi, "state", Blank)

LookupEvent(camera, kind) ==
  UNION {Lookup(camera, Blank, "event", k) : k \in {kind, Blank, Every}}

(* The observations a rule waits for: those of its state dependencies.     *)
StateKeys(r) == {KeyOf(d) : d \in {e \in DepsOf(r) : e.source = "state"}}

Init ==
  /\ StoreInit
  /\ work = [w \in Workers |-> None]
  /\ requests = 0
  /\ version = [k \in Keys |-> 0]
  /\ seen = Rules
  /\ decision = [r \in Rules |-> None]
  /\ crossed = {}

(* The handler accepted a payload, saved it and calls the engine.          *)
Receive(w, p) ==
  /\ work[w] = None
  /\ requests < MaxRequests
  /\ requests' = requests + 1
  /\ work' = [work EXCEPT ![w] =
       [todo |-> IF p.source = "state" THEN p.regions ELSE <<>>,
        camera |-> p.camera, emittedAt |-> p.emittedAt,
        rules |-> IF p.source = "event" THEN LookupEvent(p.camera, p.kind) ELSE {},
        rule |-> None, readings |-> <<>>]]
  /\ UNCHANGED <<storeVars, version, seen, decision, crossed>>

(* History: the rules being evaluated on what is stored under a key.       *)
ReadOn(key) ==
  {r \in Rules : \E w \in Workers :
     /\ work[w] # None /\ work[w].rule = r
     /\ \E i \in DOMAIN work[w].readings : KeyOf(Deps[r][i]) = key}

(* Mutant: rules that another request is evaluating are left to it.        *)
StoreAndLeave(w) ==
  /\ work[w] # None /\ work[w].rules = {} /\ work[w].todo # <<>>
  /\ LET camera == work[w].camera
         region == Head(work[w].todo)
         key == <<camera, region.roi>>
         others == {work[v].rule : v \in {u \in Workers \ {w} : work[u] # None}}
     IN  /\ Update(key, region.value, work[w].emittedAt)
         /\ work' = [work EXCEPT
              ![w].rules = (LookupState(camera, region.roi) \union LookupState(camera, Blank))
                             \ others,
              ![w].todo = Tail(work[w].todo)]
         /\ version' = [version EXCEPT ![key] = version[key] + 1]
         /\ seen' = {r \in seen : key \notin StateKeys(r)}
         /\ crossed' = crossed \union ReadOn(key)
  /\ UNCHANGED <<requests, decision>>

(* The next region of a state payload: its rules, then its observation.    *)
Store(w) ==
  /\ work[w] # None /\ work[w].rules = {} /\ work[w].todo # <<>>
  /\ LET camera == work[w].camera
         region == Head(work[w].todo)
         key == <<camera, region.roi>>
     IN  /\ Update(key, region.value, work[w].emittedAt)
         /\ work' = [work EXCEPT
              ![w].rules = LookupState(camera, region.roi) \union LookupState(camera, Blank),
              ![w].todo = Tail(work[w].todo)]
         /\ version' = [version EXCEPT ![key] = version[key] + 1]
         /\ seen' = {r \in seen : key \notin StateKeys(r)}
         /\ crossed' = crossed \union ReadOn(key)
  /\ UNCHANGED <<requests, decision>>

(* The loop over the rules found follows the order of a Go map: any.  An   *)
(* evaluation that has the rule to itself starts afresh.                   *)
Choose(w, r) ==
  /\ work[w] # None /\ work[w].rule = None /\ r \in work[w].rules
  /\ work' = [work EXCEPT ![w].rule = r]
  /\ crossed' = IF \E v \in Workers : work[v] # None /\ work[v].rule = r
                THEN crossed ELSE crossed \ {r}
  /\ UNCHANGED <<storeVars, requests, version, seen, decision>>

(* BuildRuleContext: the next dependency's observation.                    *)
Read(w) ==
  /\ work[w] # None /\ work[w].rule # None
  /\ LET deps == Deps[work[w].rule]
         i == Len(work[w].readings) + 1
         key == KeyOf(deps[i])
     IN  /\ i <= Len(deps)
         /\ work' = [work EXCEPT ![w].readings = Append(@,
              IF observations[key] = None THEN None
              ELSE [version |-> version[key], fresh |-> Fresh(key),
                    value |-> observations[key].value])]
  /\ UNCHANGED <<storeVars, requests, version, seen, decision, crossed>>

(* Mutant: only the first dependency's observation counts.                 *)
ConcludesFromFirst(r, readings) ==
  readings[1] # None /\ readings[1].fresh /\ readings[1].value

(* The condition is false unless every observation was fresh.  An event    *)
(* rule's own condition, on its window, is taken to hold.                  *)
Concludes(r, readings) ==
  \A i \in DOMAIN Deps[r] :
    /\ readings[i] # None
    /\ readings[i].fresh
    /\ Deps[r][i].source = "state" => readings[i].value

(* History: a reading is current when nothing was stored since, or when    *)
(* the cleanup had taken what was stored.                                  *)
IsCurrent(r, i, reading) ==
  LET key == KeyOf(Deps[r][i])
  IN  IF reading = None THEN observations[key] = None
      ELSE reading.version = version[key]

(* evaluateRule comes to its decision, and the worker to its next rule.    *)
Decide(w) ==
  /\ work[w] # None /\ work[w].rule # None
  /\ LET r == work[w].rule
         readings == work[w].readings
     IN  /\ Len(readings) = Len(Deps[r])
         /\ decision' = [decision EXCEPT ![r] = Concludes(r, readings)]
         /\ seen' = IF \A i \in DOMAIN readings : IsCurrent(r, i, readings[i])
                    THEN seen \union {r} ELSE seen
         /\ work' = [work EXCEPT ![w].rule = None, ![w].readings = <<>>,
                                 ![w].rules = @ \ {r}]
  /\ UNCHANGED <<storeVars, requests, version, crossed>>

Answer(w) ==
  /\ work[w] # None /\ work[w].rules = {} /\ work[w].todo = <<>>
  /\ work' = [work EXCEPT ![w] = None]
  /\ UNCHANGED <<storeVars, requests, version, seen, decision, crossed>>

(* The store's goroutine, and the time.                                    *)
Background ==
  /\ Cleanup \/ Tick
  /\ UNCHANGED <<work, requests, version, seen, decision, crossed>>

Next ==
  \/ \E w \in Workers, p \in Payloads : Receive(w, p)
  \/ \E w \in Workers, r \in Rules : Choose(w, r)
  \/ \E w \in Workers : Store(w) \/ Read(w) \/ Decide(w) \/ Answer(w)
  \/ Background

Spec == Init /\ [][Next]_vars

=============================================================================
