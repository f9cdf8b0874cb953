-------------------------- MODULE EvaluationProofs --------------------------
(***************************************************************************)
(* Theorems about Evaluation, for any number of requests served at a time, *)
(* any rules and any payloads.                                             *)
(*                                                                         *)
(* LatestSeen rests on who is still to evaluate a rule: a request whose    *)
(* evaluation has so far read nothing that was replaced since.  Storing an *)
(* observation makes the request that stores it such a one, for every rule *)
(* that waits for the observation; only a decision on current readings     *)
(* takes the last one away.                                                *)
(***************************************************************************)
EXTENDS EvaluationProps, ObservationStoreProofs

(* An evaluation in progress is one of the rules yet to be evaluated, and  *)
(* has read some of its observations; nothing is read without one.         *)
InProgress ==
  \A w \in Workers : work[w] # None =>
    /\ work[w].rule = None => work[w].readings = <<>>
    /\ work[w].rule # None => /\ work[w].rule \in work[w].rules
                              /\ Len(work[w].readings) <= Len(Deps[work[w].rule])

(* Request w is going to decide rule r of current observations.            *)
WillSee(w, r) ==
  /\ work[w] # None
  /\ r \in work[w].rules
  /\ work[w].rule = r =>
       \A i \in DOMAIN work[w].readings : IsCurrent(r, i, work[w].readings[i])

SeenOrToBe == \A r \in StateRules : r \in seen \/ \E w \in Workers : WillSee(w, r)

(* What was read is what a rule could use now, if all of it still can be.  *)
Up(r, i, reading) ==
  LET key == KeyOf(Deps[r][i])
  IN  Fresh(key) => /\ reading # None
                    /\ reading.fresh
                    /\ reading.value = observations[key].value

UpToDate ==
  \A w \in Workers : work[w] # None /\ work[w].rule \in StateRules \ crossed =>
    \A i \in DOMAIN work[w].readings : Up(work[w].rule, i, work[w].readings[i])

ToEvaluate(w, r) == work[w] # None /\ r \in work[w].rules

Concluded(r) == Decidable(r) => DecidedByLatest(r)

ConcludedOrToBe ==
  /\ UpToDate
  /\ \A r \in StateRules \ crossed : Concluded(r) \/ \E w \in Workers : ToEvaluate(w, r)

-----------------------------------------------------------------------------

(* What each action does to the work of the request it serves.             *)
LEMMA WorkFields ==
  ASSUME NEW job \in Work
  PROVE  /\ job # None
         /\ job.todo \in Seq(Region) /\ job.camera \in Cameras /\ job.emittedAt \in Stamps
         /\ job.rules \subseteq Rules /\ job.rule \in Rules \union {None}
         /\ job.readings \in Seq(Reading)
  BY NoneAssumption DEF Work

LEMMA WorkWith ==
  ASSUME NEW job \in Work, NEW readings \in Seq(Reading)
  PROVE  /\ [job EXCEPT !.readings = readings] \in Work
         /\ [job EXCEPT !.readings = readings].rule = job.rule
         /\ [job EXCEPT !.readings = readings].rules = job.rules
         /\ [job EXCEPT !.readings = readings].readings = readings
  BY DEF Work

LEMMA ReceiveFacts ==
  ASSUME TypeOK, NEW w \in Workers, NEW p \in Payloads, Receive(w, p)
  PROVE  /\ work[w] = None
         /\ \E job \in Work :
              /\ job.rule = None /\ job.readings = <<>>
              /\ work' = [work EXCEPT ![w] = job]
         /\ requests' \in 0..MaxRequests
         /\ UNCHANGED <<storeVars, version, seen, decision, crossed>>
<1> DEFINE job == [todo |-> IF p.source = "state" THEN p.regions ELSE <<>>,
                   camera |-> p.camera, emittedAt |-> p.emittedAt,
                   rules |-> IF p.source = "event" THEN LookupEvent(p.camera, p.kind) ELSE {},
                   rule |-> None, readings |-> <<>>]
<1>1. p \in Payload
  BY PayloadsAssumption
<1>2. p.camera \in Cameras /\ p.emittedAt \in Stamps
  BY <1>1 DEF Payload
<1>3. (IF p.source = "state" THEN p.regions ELSE <<>>) \in Seq(Region)
  BY <1>1 DEF Payload
<1>4. LookupEvent(p.camera, p.kind) \subseteq Rules
  BY DEF LookupEvent, Lookup
<1>5. job \in Work
  BY <1>2, <1>3, <1>4 DEF Work
<1>6. requests' \in 0..MaxRequests
  BY BoundAssumption DEF Receive, TypeOK
<1>7. /\ work[w] = None /\ work' = [work EXCEPT ![w] = job]
      /\ UNCHANGED <<storeVars, version, seen, decision, crossed>>
  BY DEF Receive
<1>8. job.rule = None /\ job.readings = <<>>
  OBVIOUS
<1> HIDE DEF job
<1> QED
  BY <1>5, <1>6, <1>7, <1>8

(* A stored observation makes the request that stores it evaluate every    *)
(* rule that waits for it.                                                 *)
LEMMA StoreFacts ==
  ASSUME TypeOK, NEW w \in Workers, Store(w)
  PROVE  /\ work[w] # None /\ work[w].rules = {}
         /\ \E job \in Work, key \in Keys, value \in Values, at \in Stamps :
              /\ job.rule = work[w].rule /\ job.readings = work[w].readings
              /\ \A r \in StateRules : key \in StateKeys(r) => r \in job.rules
              /\ work' = [work EXCEPT ![w] = job]
              /\ Update(key, value, at)
              /\ version' = [version EXCEPT ![key] = version[key] + 1]
              /\ \A r \in seen : key \notin StateKeys(r) => r \in seen'
              /\ seen' \subseteq seen
              /\ crossed' = crossed \union ReadOn(key)
         /\ UNCHANGED <<requests, decision>>
<1> DEFINE old == work[w]
           camera == old.camera
           region == Head(old.todo)
           rules == LookupState(camera, region.roi) \union LookupState(camera, Blank)
           job == [old EXCEPT !.rules = rules, !.todo = Tail(old.todo)]
<1>1. old # None /\ old \in Work /\ old.rules = {} /\ old.todo # <<>>
  BY DEF Store, TypeOK
<1>2. region \in Region /\ Tail(old.todo) \in Seq(Region)
  BY <1>1, WorkFields
<1>3. region.roi \in Rois \union {Blank} /\ region.value \in Values
  BY <1>2 DEF Region
<1>4. rules \subseteq Rules
  BY DEF LookupState, Lookup
<1>5. job \in Work /\ job.rule = old.rule /\ job.readings = old.readings /\ job.rules = rules
  BY <1>1, <1>2, <1>4 DEF Work
<1>6. camera \in Cameras /\ old.emittedAt \in Stamps
  BY <1>1, WorkFields
<1>7. PICK key \in Keys : key = <<camera, region.roi>>
  BY <1>3, <1>6, KeysAssumption
<1>8. work' = [work EXCEPT ![w] = job]
  BY <1>1 DEF Store, TypeOK
<1>9. /\ Update(key, region.value, old.emittedAt)
      /\ version' = [version EXCEPT ![key] = version[key] + 1]
      /\ seen' = {r \in seen : key \notin StateKeys(r)}
      /\ crossed' = crossed \union ReadOn(key)
      /\ UNCHANGED <<requests, decision>>
  BY <1>7 DEF Store
<1>10. ASSUME NEW r \in StateRules, key \in StateKeys(r)
       PROVE  r \in job.rules
  <2>1. PICK d \in DepsOf(r) : KeyOf(d) = key
    BY <1>10 DEF StateKeys
  <2>2. r \in Rules /\ d.source = "state" /\ d.kind = Blank
    BY <2>1 DEF StateRules
  <2>3. d \in Dep
    BY <2>1, <2>2, DepsAssumption DEF DepsOf
  <2>4. d.camera = camera /\ d.roi = region.roi
    BY <1>7, <2>1 DEF KeyOf
  <2>5. d = [camera |-> camera, roi |-> region.roi, source |-> "state", kind |-> Blank]
    BY <2>2, <2>3, <2>4 DEF Dep
  <2>6. r \in LookupState(camera, region.roi)
    BY <2>1, <2>2, <2>5 DEF LookupState, Lookup
  <2> QED
    BY <1>5, <2>6
<1> HIDE DEF job, rules, region, camera, old
<1>11. work[w] # None /\ work[w].rules = {} /\ old = work[w]
  BY <1>1 DEF old
<1> QED
  BY <1>3, <1>5, <1>6, <1>8, <1>9, <1>10, <1>11

LEMMA ChooseFacts ==
  ASSUME TypeOK, NEW w \in Workers, NEW r \in Rules, Choose(w, r)
  PROVE  /\ work[w] # None /\ work[w].rule = None /\ r \in work[w].rules
         /\ \E job \in Work :
              /\ job.rule = r /\ job.readings = work[w].readings /\ job.rules = work[w].rules
              /\ work' = [work EXCEPT ![w] = job]
         /\ crossed' \in {crossed, crossed \ {r}}
         /\ (\E v \in Workers : work[v] # None /\ work[v].rule = r) => crossed' = crossed
         /\ UNCHANGED <<storeVars, requests, version, seen, decision>>
<1> DEFINE job == [work[w] EXCEPT !.rule = r]
<1>1. work[w] \in Work /\ work[w] # None /\ work[w].rule = None /\ r \in work[w].rules
  BY DEF Choose, TypeOK
<1>2. job \in Work /\ job.rule = r /\ job.readings = work[w].readings
      /\ job.rules = work[w].rules
  BY <1>1 DEF Work
<1>3. /\ work' = [work EXCEPT ![w] = job]
      /\ crossed' \in {crossed, crossed \ {r}}
      /\ (\E v \in Workers : work[v] # None /\ work[v].rule = r) => crossed' = crossed
      /\ UNCHANGED <<storeVars, requests, version, seen, decision>>
  BY DEF Choose
<1> HIDE DEF job
<1> QED
  BY <1>1, <1>2, <1>3

LEMMA ReadFacts ==
  ASSUME TypeOK, InProgress, NEW w \in Workers, Read(w)
  PROVE  /\ work[w] # None /\ work[w].rule \in Rules
         /\ \E job \in Work, i \in Nat, reading \in Reading :
              /\ job.rule = work[w].rule /\ job.rules = work[w].rules
              /\ i = Len(work[w].readings) + 1 /\ i \in DOMAIN Deps[job.rule]
              /\ job.readings = Append(work[w].readings, reading)
              /\ Deps[job.rule][i] \in DepsOf(job.rule)
              /\ KeyOf(Deps[job.rule][i]) \in Keys
              /\ reading = IF observations[KeyOf(Deps[job.rule][i])] = None THEN None
                           ELSE [version |-> version[KeyOf(Deps[job.rule][i])],
                                 fresh |-> Fresh(KeyOf(Deps[job.rule][i])),
                                 value |-> observations[KeyOf(Deps[job.rule][i])].value]
              /\ work' = [work EXCEPT ![w] = job]
         /\ UNCHANGED <<storeVars, requests, version, seen, decision, crossed>>
<1> DEFINE old == work[w]
           i == Len(old.readings) + 1
           dep == Deps[old.rule][i]
           key == KeyOf(dep)
           reading == IF observations[key] = None THEN None
                      ELSE [version |-> version[key], fresh |-> Fresh(key),
                            value |-> observations[key].value]
           job == [old EXCEPT !.readings = Append(old.readings, reading)]
<1>1. old # None /\ old \in Work /\ old.rule # None /\ i <= Len(Deps[old.rule])
  BY DEF Read, TypeOK
<1>2. old.rule \in Rules /\ old.readings \in Seq(Reading)
  BY <1>1, WorkFields
<1>3. Deps[old.rule] \in Seq(Dep)
  BY <1>2, DepsAssumption
<1>4. i \in Nat /\ i \in DOMAIN Deps[old.rule]
  BY <1>1, <1>2, <1>3
<1>5. dep \in Dep /\ dep \in DepsOf(old.rule)
  BY <1>3, <1>4 DEF DepsOf
<1>6. key \in Keys
  BY <1>5, KeysAssumption DEF KeyOf, Dep
<1>7. reading \in Reading
  <2>1. CASE observations[key] = None
    BY <2>1 DEF Reading
  <2>2. CASE observations[key] # None
    <3>1. observations[key].value \in Values /\ version[key] \in Nat
      BY <1>6, <2>2 DEF TypeOK, StoreTypeOK, Observation
    <3>2. Fresh(key) \in BOOLEAN
      BY DEF Fresh, IsStale
    <3> QED
      BY <2>2, <3>1, <3>2 DEF Reading, Answered
  <2> QED
    BY <2>1, <2>2
<1>8. work' = [work EXCEPT ![w] = job]
      /\ UNCHANGED <<storeVars, requests, version, seen, decision, crossed>>
  BY DEF Read
<1> HIDE DEF reading
<1>9. job \in Work /\ job.rule = old.rule /\ job.rules = old.rules
      /\ job.readings = Append(old.readings, reading)
  <2>1. Append(old.readings, reading) \in Seq(Reading)
    BY <1>2, <1>7
  <2> QED
    BY <1>1, <2>1, WorkWith
<1> HIDE DEF job
<1> QED
  BY <1>1, <1>2, <1>4, <1>5, <1>6, <1>7, <1>8, <1>9 DEF reading

LEMMA DecideFacts ==
  ASSUME TypeOK, NEW w \in Workers, Decide(w)
  PROVE  \E r \in Rules, readings \in Seq(Reading), job \in Work :
           /\ work[w] # None /\ r = work[w].rule /\ readings = work[w].readings
           /\ Len(readings) = Len(Deps[r])
           /\ job.rule = None /\ job.readings = <<>> /\ job.rules = work[w].rules \ {r}
           /\ decision' = [decision EXCEPT ![r] = Concludes(r, readings)]
           /\ seen \subseteq seen' /\ seen' \subseteq seen \union {r}
           /\ (\A i \in DOMAIN readings : IsCurrent(r, i, readings[i])) => r \in seen'
           /\ work' = [work EXCEPT ![w] = job]
           /\ UNCHANGED <<storeVars, requests, version, crossed>>
<1> DEFINE old == work[w]
           r == old.rule
           job == [old EXCEPT !.rule = None, !.readings = <<>>, !.rules = old.rules \ {r}]
<1>1. old # None /\ old \in Work /\ old.rule # None
  BY DEF Decide, TypeOK
<1>2. r \in Rules /\ old.readings \in Seq(Reading) /\ old.rules \subseteq Rules
  BY <1>1, WorkFields
<1>3. job \in Work /\ job.rule = None /\ job.readings = <<>> /\ job.rules = old.rules \ {r}
  <2> DEFINE readings == <<>>
             rules == old.rules \ {r}
  <2>1. readings \in Seq(Reading) /\ rules \in SUBSET Rules
    BY <1>2
  <2>2. job = [old EXCEPT !.rule = None, !.readings = readings, !.rules = rules]
    OBVIOUS
  <2> HIDE DEF readings, rules, job, old
  <2>3. job \in Work /\ job.rule = None /\ job.readings = readings /\ job.rules = rules
    BY <1>1, <2>1, <2>2 DEF Work
  <2> QED
    BY <2>3 DEF readings, rules
<1>4. work' = [work EXCEPT ![w] = job]
  BY <1>1 DEF Decide, TypeOK
<1>5. /\ Len(old.readings) = Len(Deps[r])
      /\ decision' = [decision EXCEPT ![r] = Concludes(r, old.readings)]
      /\ seen' = IF \A i \in DOMAIN old.readings : IsCurrent(r, i, old.readings[i])
                 THEN seen \union {r} ELSE seen
      /\ UNCHANGED <<storeVars, requests, version, crossed>>
  BY DEF Decide
<1> HIDE DEF job
<1> QED
  BY <1>1, <1>2, <1>3, <1>4, <1>5

LEMMA InProgressStep ==
  ASSUME TypeOK, InProgress, [Next]_vars
  PROVE  InProgress'
<1> DEFINE Fit(job) == /\ job.rule = None => job.readings = <<>>
                       /\ job.rule # None => /\ job.rule \in job.rules
                                             /\ Len(job.readings) <= Len(Deps[job.rule])
<1>1. ASSUME NEW w \in Workers, NEW job \in Work, work' = [work EXCEPT ![w] = job], Fit(job)
      PROVE  InProgress'
  <2>1. \A v \in Workers : work'[v] = IF v = w THEN job ELSE work[v]
    BY <1>1 DEF TypeOK
  <2> QED
    BY <1>1, <2>1 DEF InProgress
<1>2. ASSUME NEW w \in Workers, NEW p \in Payloads, Receive(w, p)
      PROVE  InProgress'
  BY <1>1, <1>2, ReceiveFacts
<1>3. ASSUME NEW w \in Workers, NEW r \in Rules, Choose(w, r)
      PROVE  InProgress'
  <2>1. PICK job \in Work :
          /\ job.rule = r /\ job.readings = work[w].readings /\ job.rules = work[w].rules
          /\ work' = [work EXCEPT ![w] = job]
    BY <1>3, ChooseFacts
  <2>2. work[w].readings = <<>> /\ r \in work[w].rules /\ r # None
    BY <1>3, ChooseFacts, NoneAssumption DEF InProgress
  <2>3. Len(Deps[r]) \in Nat
    BY DepsAssumption
  <2>4. Fit(job)
    BY <2>1, <2>2, <2>3
  <2> QED
    BY <1>1, <2>1, <2>4
<1>4. ASSUME NEW w \in Workers, Store(w)
      PROVE  InProgress'
  <2>1. PICK job \in Work :
          /\ job.rule = work[w].rule /\ job.readings = work[w].readings
          /\ work' = [work EXCEPT ![w] = job]
    BY <1>4, StoreFacts
  <2>2. work[w] # None /\ work[w].rules = {}
    BY <1>4, StoreFacts
  <2>3. work[w].rule = None /\ work[w].readings = <<>>
    BY <2>2 DEF InProgress
  <2> QED
    BY <1>1, <2>1, <2>3
<1>5. ASSUME NEW w \in Workers, Read(w)
      PROVE  InProgress'
  <2>1. PICK job \in Work, i \in Nat, reading \in Reading :
          /\ job.rule = work[w].rule /\ job.rules = work[w].rules
          /\ i = Len(work[w].readings) + 1 /\ i \in DOMAIN Deps[job.rule]
          /\ job.readings = Append(work[w].readings, reading)
          /\ work' = [work EXCEPT ![w] = job]
    BY <1>5, ReadFacts
  <2>2. work[w] # None /\ work[w].rule \in Rules
    BY <1>5, ReadFacts
  <2>3. work[w].rule \in work[w].rules /\ work[w].readings \in Seq(Reading)
    BY <2>2, NoneAssumption, WorkFields DEF InProgress, TypeOK
  <2>4. Len(job.readings) = i /\ i <= Len(Deps[job.rule])
    BY <2>1, <2>2, <2>3, DepsAssumption
  <2>5. Fit(job)
    BY <2>1, <2>2, <2>3, <2>4, NoneAssumption
  <2> QED
    BY <1>1, <2>1, <2>5
<1>6. ASSUME NEW w \in Workers, Decide(w)
      PROVE  InProgress'
  BY <1>1, <1>6, DecideFacts
<1>7. ASSUME NEW w \in Workers, Answer(w)
      PROVE  InProgress'
  BY <1>7 DEF Answer, InProgress, TypeOK
<1>8. CASE Background
  BY <1>8 DEF Background, InProgress
<1>9. CASE UNCHANGED vars
  BY <1>9 DEF vars, InProgress
<1> QED
  BY <1>2, <1>3, <1>4, <1>5, <1>6, <1>7, <1>8, <1>9 DEF Next

(* What the engine does to the store, the store allows.                    *)
LEMMA StoreSteps ==
  ASSUME TypeOK, [Next]_vars
  PROVE  [StoreNext]_storeVars
<1>1. ASSUME NEW w \in Workers, Store(w)
      PROVE  StoreNext
  BY <1>1, StoreFacts DEF StoreNext
<1>2. CASE Background
  BY <1>2 DEF Background, StoreNext
<1> QED
  BY <1>1, <1>2 DEF Next, vars, storeVars, Receive, Choose, Read, Decide, Answer

(* Evaluations are well-typed: in particular the requests that are served  *)
(* carry regions of known keys, and read what the store can answer.        *)
THEOREM TypesHold == Spec => []TypeOK
<1>1. Init => TypeOK
  <2> SUFFICES ASSUME Init
               PROVE  TypeOK
    OBVIOUS
  <2>1. StoreTypeOK
    BY TTLAssumption DEF Init, StoreInit, StoreTypeOK
  <2> QED
    BY <2>1, BoundAssumption DEF Init, TypeOK
<1>2. TypeOK /\ InProgress /\ [Next]_vars => TypeOK'
  <2> SUFFICES ASSUME TypeOK, InProgress, [Next]_vars
               PROVE  TypeOK'
    OBVIOUS
  <2>1. StoreTypeOK'
    BY StoreSteps, StoreTypedStep DEF TypeOK
  <2>2. ASSUME NEW w \in Workers, NEW p \in Payloads, Receive(w, p)
        PROVE  TypeOK'
    BY <2>1, <2>2, ReceiveFacts DEF TypeOK
  <2>3. ASSUME NEW w \in Workers, NEW r \in Rules, Choose(w, r)
        PROVE  TypeOK'
    BY <2>1, <2>3, ChooseFacts DEF TypeOK
  <2>4. ASSUME NEW w \in Workers, Store(w)
        PROVE  TypeOK'
    <3>1. PICK job \in Work, key \in Keys, value \in Values, at \in Stamps :
            /\ work' = [work EXCEPT ![w] = job]
            /\ version' = [version EXCEPT ![key] = version[key] + 1]
            /\ seen' \subseteq seen
            /\ crossed' = crossed \union ReadOn(key)
      BY <2>4, StoreFacts
    <3>2. version[key] + 1 \in Nat
      BY DEF TypeOK
    <3>3. requests' = requests /\ decision' = decision
      BY <2>4, StoreFacts
    <3> QED
      BY <2>1, <3>1, <3>2, <3>3 DEF TypeOK, ReadOn
  <2>5. ASSUME NEW w \in Workers, Read(w)
        PROVE  TypeOK'
    BY <2>1, <2>5, ReadFacts DEF TypeOK
  <2>6. ASSUME NEW w \in Workers, Decide(w)
        PROVE  TypeOK'
    <3>1. PICK r \in Rules, readings \in Seq(Reading), job \in Work :
            /\ decision' = [decision EXCEPT ![r] = Concludes(r, readings)]
            /\ seen \subseteq seen' /\ seen' \subseteq seen \union {r}
            /\ work' = [work EXCEPT ![w] = job]
            /\ UNCHANGED <<storeVars, requests, version, crossed>>
      BY <2>6, DecideFacts
    <3>2. Concludes(r, readings) \in BOOLEAN
      BY DEF Concludes
    <3> QED
      BY <2>1, <3>1, <3>2 DEF TypeOK
  <2>7. ASSUME NEW w \in Workers, Answer(w)
        PROVE  TypeOK'
    BY <2>1, <2>7 DEF Answer, TypeOK
  <2>8. CASE Background
    BY <2>1, <2>8 DEF Background, TypeOK
  <2>9. CASE UNCHANGED vars
    BY <2>1, <2>9 DEF vars, TypeOK
  <2> QED
    BY <2>2, <2>3, <2>4, <2>5, <2>6, <2>7, <2>8, <2>9 DEF Next
<1>3. Init => InProgress
  BY DEF Init, InProgress
<1>4. TypeOK /\ InProgress /\ [Next]_vars => InProgress'
  BY InProgressStep
<1> QED
  BY <1>1, <1>2, <1>3, <1>4, PTL DEF Spec

(* So the engine's store is the store, and its theorems hold of it.        *)
THEOREM StoreBehindEngine == Spec => StoreSpec
<1>1. Init => StoreInit
  BY DEF Init
<1>2. TypeOK /\ [Next]_vars => [StoreNext]_storeVars
  BY StoreSteps
<1> QED
  BY <1>1, <1>2, TypesHold, PTL DEF Spec, StoreSpec

-----------------------------------------------------------------------------

LEMMA InProgressHolds == Spec => []InProgress
<1>1. Init => InProgress
  BY DEF Init, InProgress
<1>2. TypeOK /\ InProgress /\ [Next]_vars => InProgress'
  BY InProgressStep
<1> QED
  BY <1>1, <1>2, TypesHold, PTL DEF Spec

LEMMA KeysKnown ==
  ASSUME NEW r \in StateRules, NEW k \in StateKeys(r)
  PROVE  k \in Keys
<1>1. PICK d \in DepsOf(r) : k = KeyOf(d)
  BY DEF StateKeys
<1>2. r \in Rules
  BY DEF StateRules
<1>3. d \in Dep
  BY <1>1, <1>2, DepsAssumption DEF DepsOf
<1> QED
  BY <1>1, <1>3, KeysAssumption DEF KeyOf, Dep

(* What a state rule has read is one of the observations it waits for.     *)
LEMMA ReadKeys ==
  ASSUME TypeOK, InProgress, NEW r \in StateRules, NEW w \in Workers,
         work[w] # None, work[w].rule = r, NEW i \in DOMAIN work[w].readings
  PROVE  /\ i \in DOMAIN Deps[r] /\ Deps[r][i] \in DepsOf(r)
         /\ KeyOf(Deps[r][i]) \in StateKeys(r) /\ KeyOf(Deps[r][i]) \in Keys
         /\ work[w].readings[i] \in Reading
<1>1. r \in Rules /\ Deps[r] \in Seq(Dep)
  BY DepsAssumption DEF StateRules
<1>2. work[w].readings \in Seq(Reading) /\ Len(work[w].readings) <= Len(Deps[r])
  BY <1>1, NoneAssumption, WorkFields DEF TypeOK, InProgress
<1>3. i \in DOMAIN Deps[r] /\ work[w].readings[i] \in Reading
  BY <1>1, <1>2
<1>4. Deps[r][i] \in DepsOf(r) /\ Deps[r][i] \in Dep
  BY <1>1, <1>3 DEF DepsOf
<1>5. Deps[r][i].source = "state"
  BY <1>4 DEF StateRules
<1>6. KeyOf(Deps[r][i]) \in StateKeys(r)
  BY <1>4, <1>5 DEF StateKeys
<1>7. KeyOf(Deps[r][i]) \in Keys
  BY <1>4, KeysAssumption DEF KeyOf, Dep
<1> QED
  BY <1>3, <1>4, <1>6, <1>7

(* A request that another's step leaves alone still is going to see what is*)
(* stored, if the step changes nothing the rule waits for.                 *)
LEMMA StillToSee ==
  ASSUME TypeOK, InProgress, NEW r \in StateRules, NEW w \in Workers, WillSee(w, r),
         work'[w] = work[w],
         \A k \in StateKeys(r) :
           /\ version'[k] = version[k]
           /\ observations[k] = None => observations'[k] = None
  PROVE  WillSee(w, r)'
<1> SUFFICES ASSUME work[w].rule = r, NEW i \in DOMAIN work[w].readings
             PROVE  IsCurrent(r, i, work[w].readings[i])'
  BY DEF WillSee
<1>1. IsCurrent(r, i, work[w].readings[i])
  BY DEF WillSee
<1>2. KeyOf(Deps[r][i]) \in StateKeys(r) /\ work[w] # None
  BY ReadKeys DEF WillSee
<1> QED
  BY <1>1, <1>2 DEF IsCurrent

LEMMA SeenOrToBeStep ==
  ASSUME TypeOK, InProgress, SeenOrToBe, [Next]_vars
  PROVE  SeenOrToBe'
<1> SUFFICES ASSUME NEW r \in StateRules
             PROVE  r \in seen' \/ \E w \in Workers : WillSee(w, r)'
  BY DEF SeenOrToBe
<1>0. r \in seen \/ \E w \in Workers : WillSee(w, r)
  BY DEF SeenOrToBe
<1>1. ASSUME UNCHANGED <<storeVars, version>>, seen \subseteq seen', NEW w \in Workers,
             NEW job, work' = [work EXCEPT ![w] = job],
             WillSee(w, r) => WillSee(w, r)' \/ r \in seen'
      PROVE  r \in seen' \/ \E v \in Workers : WillSee(v, r)'
  <2>1. \A v \in Workers : v # w => work'[v] = work[v]
    BY <1>1 DEF TypeOK
  <2>2. version' = version /\ observations' = observations
    BY <1>1 DEF storeVars
  <2>3. \A v \in Workers : v # w /\ WillSee(v, r) => WillSee(v, r)'
    BY <2>1, <2>2, StillToSee
  <2> QED
    BY <1>0, <1>1, <2>3
<1>2. ASSUME NEW w \in Workers, NEW p \in Payloads, Receive(w, p)
      PROVE  r \in seen' \/ \E v \in Workers : WillSee(v, r)'
  <2>1. work[w] = None /\ UNCHANGED <<storeVars, version, seen, decision>>
    BY <1>2, ReceiveFacts
  <2>2. ~WillSee(w, r)
    BY <2>1 DEF WillSee
  <2>3. PICK job : work' = [work EXCEPT ![w] = job]
    BY <1>2, ReceiveFacts
  <2> QED
    BY <1>1, <2>1, <2>2, <2>3
<1>3. ASSUME NEW w \in Workers, NEW q \in Rules, Choose(w, q)
      PROVE  r \in seen' \/ \E v \in Workers : WillSee(v, r)'
  <2>1. PICK job \in Work :
          /\ job.rule = q /\ job.readings = work[w].readings /\ job.rules = work[w].rules
          /\ work' = [work EXCEPT ![w] = job]
    BY <1>3, ChooseFacts
  <2>2. UNCHANGED <<storeVars, version, seen>> /\ work[w] # None /\ work[w].rule = None
    BY <1>3, ChooseFacts
  <2>3. job.readings = <<>> /\ job # None /\ work'[w] = job
    BY <2>1, <2>2, WorkFields DEF InProgress, TypeOK
  <2>4. WillSee(w, r) => WillSee(w, r)'
    BY <2>1, <2>3 DEF WillSee
  <2> QED
    BY <1>1, <2>1, <2>2, <2>4
<1>4. ASSUME NEW w \in Workers, Store(w)
      PROVE  r \in seen' \/ \E v \in Workers : WillSee(v, r)'
  <2>1. PICK job \in Work, key \in Keys, value \in Values, at \in Stamps :
          /\ job.rule = work[w].rule /\ job.readings = work[w].readings
          /\ \A q \in StateRules : key \in StateKeys(q) => q \in job.rules
          /\ work' = [work EXCEPT ![w] = job]
          /\ Update(key, value, at)
          /\ version' = [version EXCEPT ![key] = version[key] + 1]
          /\ \A q \in seen : key \notin StateKeys(q) => q \in seen'
    BY <1>4, StoreFacts
  <2>2. work[w] # None /\ work[w].rules = {}
    BY <1>4, StoreFacts
  <2>3. CASE key \in StateKeys(r)
    <3>1. work[w].rule = None /\ work[w].readings = <<>>
      BY <2>2 DEF InProgress
    <3>2. work'[w] = job /\ job # None /\ job.readings = <<>> /\ r \in job.rules
      BY <2>1, <2>3, <3>1, WorkFields DEF TypeOK
    <3>3. WillSee(w, r)'
      BY <3>2 DEF WillSee
    <3> QED
      BY <3>3
  <2>4. CASE key \notin StateKeys(r)
    <3>1. \A k \in StateKeys(r) : k \in Keys
      BY KeysKnown
    <3>2. \A k \in StateKeys(r) : version'[k] = version[k] /\ observations'[k] = observations[k]
      BY <2>1, <2>4, <3>1 DEF Update, TypeOK, StoreTypeOK
    <3>3. \A v \in Workers : v # w => work'[v] = work[v]
      BY <2>1 DEF TypeOK
    <3>4. ~WillSee(w, r)
      BY <2>2 DEF WillSee
    <3>5. \A v \in Workers : WillSee(v, r) => WillSee(v, r)'
      BY <3>2, <3>3, <3>4, StillToSee
    <3> QED
      BY <1>0, <2>1, <2>4, <3>5
  <2> QED
    BY <2>3, <2>4
<1>5. ASSUME NEW w \in Workers, Read(w)
      PROVE  r \in seen' \/ \E v \in Workers : WillSee(v, r)'
  <2>1. PICK job \in Work, i \in Nat, reading \in Reading :
          /\ job.rule = work[w].rule /\ job.rules = work[w].rules
          /\ i = Len(work[w].readings) + 1
          /\ job.readings = Append(work[w].readings, reading)
          /\ KeyOf(Deps[job.rule][i]) \in Keys
          /\ reading = IF observations[KeyOf(Deps[job.rule][i])] = None THEN None
                       ELSE [version |-> version[KeyOf(Deps[job.rule][i])],
                             fresh |-> Fresh(KeyOf(Deps[job.rule][i])),
                             value |-> observations[KeyOf(Deps[job.rule][i])].value]
          /\ work' = [work EXCEPT ![w] = job]
    BY <1>5, ReadFacts
  <2>2. UNCHANGED <<storeVars, version, seen>> /\ work[w] # None /\ work[w] \in Work
    BY <1>5, ReadFacts DEF TypeOK
  <2>3. observations' = observations /\ version' = version /\ work'[w] = job /\ job # None
    BY <2>1, <2>2, NoneAssumption DEF storeVars, TypeOK
  <2>4. ASSUME WillSee(w, r), job.rule = r
        PROVE  \A j \in DOMAIN job.readings : IsCurrent(r, j, job.readings[j])
    <3>1. work[w].readings \in Seq(Reading)
      BY <2>2, WorkFields
    <3>2. \A j \in DOMAIN work[w].readings : IsCurrent(r, j, work[w].readings[j])
      BY <2>1, <2>4 DEF WillSee
    <3>3. IsCurrent(r, i, reading)
      <4>1. CASE observations[KeyOf(Deps[r][i])] = None
        BY <2>1, <2>4, <4>1 DEF IsCurrent
      <4>2. CASE observations[KeyOf(Deps[r][i])] # None
        <5>1. /\ version[KeyOf(Deps[r][i])] \in Nat
              /\ observations[KeyOf(Deps[r][i])].value \in Values
              /\ Fresh(KeyOf(Deps[r][i])) \in BOOLEAN
          BY <2>1, <2>4, <4>2 DEF TypeOK, StoreTypeOK, Observation, Fresh, IsStale
        <5>2. reading \in Answered /\ reading.version = version[KeyOf(Deps[r][i])]
          BY <2>1, <2>4, <4>2, <5>1 DEF Answered
        <5> QED
          BY <5>2, NoneAssumption DEF IsCurrent
      <4> QED
        BY <4>1, <4>2
    <3>4. \A j \in DOMAIN job.readings :
            \/ j \in DOMAIN work[w].readings /\ job.readings[j] = work[w].readings[j]
            \/ j = i /\ job.readings[j] = reading
      BY <2>1, <3>1
    <3> QED
      BY <3>2, <3>3, <3>4
  <2>5. WillSee(w, r) => WillSee(w, r)'
    BY <2>1, <2>3, <2>4 DEF WillSee, IsCurrent
  <2> QED
    BY <1>1, <2>1, <2>2, <2>5
<1>6. ASSUME NEW w \in Workers, Decide(w)
      PROVE  r \in seen' \/ \E v \in Workers : WillSee(v, r)'
  <2>1. PICK q \in Rules, readings \in Seq(Reading), job \in Work :
          /\ work[w] # None /\ q = work[w].rule /\ readings = work[w].readings
          /\ job.rule = None /\ job.readings = <<>> /\ job.rules = work[w].rules \ {q}
          /\ seen \subseteq seen'
          /\ (\A i \in DOMAIN readings : IsCurrent(q, i, readings[i])) => q \in seen'
          /\ work' = [work EXCEPT ![w] = job]
          /\ UNCHANGED <<storeVars, requests, version>>
    BY <1>6, DecideFacts
  <2>2. work'[w] = job /\ job # None
    BY <2>1, NoneAssumption DEF TypeOK
  <2>3. WillSee(w, r) /\ r = q => r \in seen'
    BY <2>1 DEF WillSee
  <2>4. WillSee(w, r) /\ r # q => WillSee(w, r)'
    BY <2>1, <2>2 DEF WillSee
  <2> QED
    BY <1>1, <2>1, <2>3, <2>4
<1>7. ASSUME NEW w \in Workers, Answer(w)
      PROVE  r \in seen' \/ \E v \in Workers : WillSee(v, r)'
  <2>1. ~WillSee(w, r) /\ work' = [work EXCEPT ![w] = None]
        /\ UNCHANGED <<storeVars, version, seen>>
    BY <1>7 DEF Answer, WillSee
  <2> QED
    BY <1>1, <2>1
<1>8. CASE Background
  <2>1. UNCHANGED <<work, version, seen>>
        /\ \A k \in Keys : observations[k] = None => observations'[k] = None
    BY <1>8 DEF Background, Cleanup, Tick, Fresh
  <2>2. \A k \in StateKeys(r) : k \in Keys
    BY KeysKnown
  <2>3. \A w \in Workers : WillSee(w, r) => WillSee(w, r)'
    BY <2>1, <2>2, StillToSee
  <2> QED
    BY <1>0, <2>1, <2>3
<1>9. CASE UNCHANGED vars
  BY <1>0, <1>9 DEF vars, WillSee, IsCurrent
<1> QED
  BY <1>2, <1>3, <1>4, <1>5, <1>6, <1>7, <1>8, <1>9 DEF Next

(* No lost wake-up, for any number of concurrent requests: whatever is     *)
(* stored, an evaluation of each rule that waits for it sees it together   *)
(* with the latest of its other observations, or a request still has the   *)
(* rule to evaluate.                                                       *)
THEOREM LatestSeenHolds == Spec => []LatestSeen
<1>1. Init => SeenOrToBe
  BY DEF Init, SeenOrToBe, StateRules
<1>2. TypeOK /\ InProgress /\ SeenOrToBe /\ [Next]_vars => SeenOrToBe'
  BY SeenOrToBeStep
<1>3. SeenOrToBe => LatestSeen
  BY DEF SeenOrToBe, LatestSeen, WillSee
<1> QED
  BY <1>1, <1>2, <1>3, TypesHold, InProgressHolds, PTL DEF Spec

-----------------------------------------------------------------------------

(* Time and the cleanup only take observations away from the rules.        *)
LEMMA OnlyFades ==
  ASSUME TypeOK, Background, NEW k \in Keys, Fresh(k)'
  PROVE  Fresh(k) /\ observations'[k] = observations[k]
<1>1. now \in Nat
  BY TTLAssumption DEF TypeOK, StoreTypeOK
<1>2. CASE Cleanup
  <2>1. observations'[k] = (IF Fresh(k) THEN observations[k] ELSE None) /\ now' = now
    BY <1>2 DEF Cleanup
  <2> QED
    BY <2>1 DEF Fresh
<1>3. CASE Tick
  <2>1. observations' = observations /\ now' = now + 1
    BY <1>3 DEF Tick
  <2>2. observations[k] # None /\ observations[k].receivedAt \in Nat
    BY <2>1 DEF Fresh, TypeOK, StoreTypeOK, Observation
  <2>3. observations[k].receivedAt * PerSecond \in Nat
    BY <2>2, Second
  <2> QED
    BY <1>1, <2>1, <2>2, <2>3, Second DEF Fresh, IsStale
<1> QED
  BY <1>2, <1>3 DEF Background

(* What was concluded stays right, and what is being read stays usable,    *)
(* when nothing comes to the rule's observations.                          *)
LEMMA StillConcluded ==
  ASSUME NEW r \in StateRules, Concluded(r), decision'[r] = decision[r],
         \A k \in StateKeys(r) : Fresh(k)' => Fresh(k) /\ observations'[k] = observations[k]
  PROVE  Concluded(r)'
<1>1. \A d \in DepsOf(r) : KeyOf(d) \in StateKeys(r)
  BY DEF StateKeys, StateRules
<1> QED
  BY <1>1 DEF Concluded, Decidable, DecidedByLatest

(* The decision on readings that are usable now is the one on what is      *)
(* stored now.                                                             *)
LEMMA DecidesRight ==
  ASSUME TypeOK, UpToDate, NEW r \in StateRules, NEW w \in Workers, work[w] # None,
         work[w].rule = r, r \notin crossed, Len(work[w].readings) = Len(Deps[r]),
         \A d \in DepsOf(r) : Fresh(KeyOf(d))
  PROVE  Concludes(r, work[w].readings)
           = (\A d \in DepsOf(r) : observations[KeyOf(d)].value)
<1>1. r \in Rules /\ Deps[r] \in Seq(Dep)
  BY DepsAssumption DEF StateRules
<1>2. work[w].readings \in Seq(Reading)
  BY <1>1, WorkFields DEF TypeOK
<1>3. DOMAIN work[w].readings = DOMAIN Deps[r]
  BY <1>1, <1>2
<1>4. ASSUME NEW i \in DOMAIN Deps[r]
      PROVE  /\ work[w].readings[i] # None /\ work[w].readings[i].fresh
             /\ work[w].readings[i].value = observations[KeyOf(Deps[r][i])].value
             /\ Deps[r][i].source = "state"
  <2>1. Deps[r][i] \in DepsOf(r)
    BY DEF DepsOf
  <2>2. Up(r, i, work[w].readings[i])
    BY <1>3 DEF UpToDate
  <2> QED
    BY <2>1, <2>2 DEF Up, StateRules
<1>5. Concludes(r, work[w].readings)
        <=> \A i \in DOMAIN Deps[r] : observations[KeyOf(Deps[r][i])].value
  BY <1>4 DEF Concludes
<1>6. (\A i \in DOMAIN Deps[r] : observations[KeyOf(Deps[r][i])].value)
        <=> \A d \in DepsOf(r) : observations[KeyOf(d)].value
  BY DEF DepsOf
<1> QED
  BY <1>5, <1>6 DEF Concludes

(* What another request stores makes the readings of an evaluation old     *)
(* only if the rule is crossed by it.                                      *)
LEMMA UpToDateStep ==
  ASSUME TypeOK, InProgress, UpToDate, [Next]_vars
  PROVE  UpToDate'
<1> SUFFICES ASSUME NEW w \in Workers, work'[w] # None,
                    work'[w].rule \in StateRules \ crossed',
                    NEW i \in DOMAIN work'[w].readings
             PROVE  Up(work[w].rule, i, work[w].readings[i])'
  BY DEF UpToDate
<1>0. PICK r \in StateRules : r = work'[w].rule /\ r \notin crossed' /\ r # None /\ r \in Rules
  BY NoneAssumption DEF StateRules
<1> DEFINE key == KeyOf(Deps[r][i])
<1>1. ASSUME work'[w] = work[w], r \notin crossed,
             Fresh(key)' => Fresh(key) /\ observations'[key] = observations[key]
      PROVE  Up(work[w].rule, i, work[w].readings[i])'
  <2>1. Up(r, i, work[w].readings[i])
    BY <1>0, <1>1 DEF UpToDate
  <2> QED
    BY <1>0, <1>1, <2>1 DEF Up
<1>2. ASSUME work'[w] = work[w], crossed' = crossed, UNCHANGED storeVars
      PROVE  Up(work[w].rule, i, work[w].readings[i])'
  BY <1>0, <1>1, <1>2 DEF storeVars, Fresh, IsStale
<1>3. ASSUME NEW v \in Workers, NEW p \in Payloads, Receive(v, p)
      PROVE  Up(work[w].rule, i, work[w].readings[i])'
  <2>1. CASE v = w
    BY <1>0, <1>3, <2>1, ReceiveFacts DEF TypeOK
  <2>2. CASE v # w
    BY <1>2, <1>3, <2>2, ReceiveFacts DEF TypeOK
  <2> QED
    BY <2>1, <2>2
<1>4. ASSUME NEW v \in Workers, NEW q \in Rules, Choose(v, q)
      PROVE  Up(work[w].rule, i, work[w].readings[i])'
  <2>1. CASE v = w
    <3>1. work'[w].readings = work[w].readings
      BY <1>4, <2>1, ChooseFacts DEF TypeOK
    <3>2. work[w].readings = <<>>
      BY <1>4, <2>1, ChooseFacts DEF InProgress
    <3> QED
      BY <3>1, <3>2
  <2>2. CASE v # w
    <3>1. work'[w] = work[w] /\ UNCHANGED storeVars
      BY <1>4, <2>2, ChooseFacts DEF TypeOK
    <3>2. crossed' = crossed \/ crossed' = crossed \ {q}
      BY <1>4, ChooseFacts
    <3>3. r = q => crossed' = crossed
      BY <1>0, <1>4, <3>1, ChooseFacts
    <3>4. r \notin crossed
      BY <1>0, <3>2, <3>3
    <3> QED
      BY <1>1, <3>1, <3>4 DEF storeVars, Fresh, IsStale
  <2> QED
    BY <2>1, <2>2
<1>5. ASSUME NEW v \in Workers, Store(v)
      PROVE  Up(work[w].rule, i, work[w].readings[i])'
  <2>1. PICK job \in Work, k \in Keys, value \in Values, at \in Stamps :
          /\ job.rule = work[v].rule
          /\ work' = [work EXCEPT ![v] = job]
          /\ Update(k, value, at)
          /\ crossed' = crossed \union ReadOn(k)
    BY <1>5, StoreFacts
  <2>2. work[v] # None /\ work[v].rules = {}
    BY <1>5, StoreFacts
  <2>3. work[v].rule = None
    BY <2>2 DEF InProgress
  <2>4. CASE v = w
    BY <1>0, <2>1, <2>3, <2>4 DEF TypeOK
  <2>5. CASE v # w
    <3>1. work'[w] = work[w] /\ r \notin crossed /\ r \notin ReadOn(k)
      BY <1>0, <2>1, <2>5 DEF TypeOK
    <3>2. key # k
      BY <1>0, <3>1 DEF ReadOn
    <3>3. key \in StateKeys(r)
      BY <1>0, <2>5, <3>1, ReadKeys
    <3>4. key \in Keys
      BY <3>3, KeysKnown
    <3>5. observations'[key] = observations[key] /\ now' = now
      BY <2>1, <3>2, <3>4 DEF Update, TypeOK, StoreTypeOK
    <3> QED
      BY <1>1, <3>1, <3>5 DEF Fresh, IsStale
  <2> QED
    BY <2>4, <2>5
<1>6. ASSUME Read(w)
      PROVE  Up(work[w].rule, i, work[w].readings[i])'
  <2>1. PICK job \in Work, n \in Nat, reading \in Reading :
          /\ job.rule = work[w].rule
          /\ n = Len(work[w].readings) + 1
          /\ job.readings = Append(work[w].readings, reading)
          /\ KeyOf(Deps[job.rule][n]) \in Keys
          /\ reading = IF observations[KeyOf(Deps[job.rule][n])] = None THEN None
                       ELSE [version |-> version[KeyOf(Deps[job.rule][n])],
                             fresh |-> Fresh(KeyOf(Deps[job.rule][n])),
                             value |-> observations[KeyOf(Deps[job.rule][n])].value]
          /\ work' = [work EXCEPT ![w] = job]
    BY <1>6, ReadFacts
  <2>2. UNCHANGED storeVars /\ work[w] # None /\ work[w].readings \in Seq(Reading)
    BY <1>6, ReadFacts, WorkFields DEF TypeOK
  <2>3. /\ observations' = observations /\ now' = now /\ work'[w] = job
        /\ r = work[w].rule
    BY <1>0, <2>1, <2>2 DEF storeVars, TypeOK
  <2>6. r \notin crossed
    BY <1>0, <1>6, ReadFacts
  <2>4. CASE i \in DOMAIN work[w].readings
    <3>1. Up(r, i, work[w].readings[i])
      BY <2>2, <2>3, <2>4, <2>6 DEF UpToDate
    <3>2. job.readings[i] = work[w].readings[i]
      BY <2>1, <2>2, <2>4
    <3> QED
      BY <1>0, <2>3, <3>1, <3>2 DEF Up, Fresh, IsStale
  <2>5. CASE i \notin DOMAIN work[w].readings
    <3>1. i = n /\ job.readings[i] = reading
      BY <1>0, <2>1, <2>2, <2>3, <2>5
    <3>2. ASSUME Fresh(key)
          PROVE  reading # None /\ reading.fresh /\ reading.value = observations[key].value
      <4>1. observations[key] # None /\ key \in Keys
        BY <2>1, <2>3, <3>1, <3>2 DEF Fresh
      <4>2. /\ version[key] \in Nat /\ observations[key].value \in Values
            /\ Fresh(key) \in BOOLEAN
        BY <3>2, <4>1 DEF TypeOK, StoreTypeOK, Observation
      <4>3. reading = [version |-> version[key], fresh |-> Fresh(key),
                       value |-> observations[key].value]
        BY <2>1, <2>3, <3>1, <4>1
      <4> HIDE DEF key
      <4>4. reading \in Answered
        BY <4>2, <4>3 DEF Answered
      <4> QED
        BY <3>2, <4>3, <4>4, NoneAssumption
    <3> QED
      BY <1>0, <2>3, <3>1, <3>2 DEF Up, Fresh, IsStale
  <2> QED
    BY <2>4, <2>5
<1>7. ASSUME NEW v \in Workers, v # w, Read(v)
      PROVE  Up(work[w].rule, i, work[w].readings[i])'
  BY <1>2, <1>7, ReadFacts DEF TypeOK
<1>8. ASSUME NEW v \in Workers, Decide(v)
      PROVE  Up(work[w].rule, i, work[w].readings[i])'
  <2>1. PICK job \in Work : job.rule = None /\ work' = [work EXCEPT ![v] = job]
                            /\ UNCHANGED <<storeVars, crossed>>
    BY <1>8, DecideFacts
  <2>2. CASE v = w
    BY <1>0, <2>1, <2>2 DEF TypeOK
  <2>3. CASE v # w
    BY <1>2, <2>1, <2>3 DEF TypeOK
  <2> QED
    BY <2>2, <2>3
<1>9. ASSUME NEW v \in Workers, Answer(v)
      PROVE  Up(work[w].rule, i, work[w].readings[i])'
  BY <1>2, <1>9 DEF Answer, TypeOK
<1>10. CASE Background
  <2>1. work' = work /\ crossed' = crossed
    BY <1>10 DEF Background
  <2>2. key \in StateKeys(r)
    BY <1>0, <2>1, ReadKeys
  <2>3. Fresh(key)' => Fresh(key) /\ observations'[key] = observations[key]
    BY <1>10, <2>2, OnlyFades, KeysKnown
  <2> QED
    BY <1>0, <1>1, <2>1, <2>3
<1>11. CASE UNCHANGED vars
  BY <1>2, <1>11 DEF vars, storeVars
<1> HIDE DEF key
<1> QED
  BY <1>3, <1>4, <1>5, <1>6, <1>7, <1>8, <1>9, <1>10, <1>11 DEF Next

LEMMA ConcludedOrToBeStep ==
  ASSUME TypeOK, InProgress, ConcludedOrToBe, [Next]_vars
  PROVE  ConcludedOrToBe'
<1> SUFFICES ASSUME NEW r \in StateRules, r \notin crossed'
             PROVE  Concluded(r)' \/ \E w \in Workers : ToEvaluate(w, r)'
  BY UpToDateStep DEF ConcludedOrToBe
<1> DEFINE Goal == Concluded(r)' \/ \E w \in Workers : ToEvaluate(w, r)'
<1>0. r \notin crossed => Concluded(r) \/ \E w \in Workers : ToEvaluate(w, r)
  BY DEF ConcludedOrToBe
(* Other requests go on having to evaluate the rule.                       *)
<1>a. ASSUME NEW w \in Workers, NEW job \in Work, work' = [work EXCEPT ![w] = job],
             r \in work[w].rules => r \in job.rules,
             NEW v \in Workers, ToEvaluate(v, r)
      PROVE  ToEvaluate(v, r)'
  BY <1>a, NoneAssumption DEF ToEvaluate, TypeOK
<1>b. ASSUME UNCHANGED storeVars, decision'[r] = decision[r], Concluded(r)
      PROVE  Concluded(r)'
  BY <1>b DEF storeVars, Concluded, Decidable, DecidedByLatest, Fresh, IsStale
<1>2. ASSUME NEW w \in Workers, NEW p \in Payloads, Receive(w, p)
      PROVE  Goal
  <2>1. PICK job \in Work : work' = [work EXCEPT ![w] = job]
    BY <1>2, ReceiveFacts
  <2>2. work[w] = None /\ UNCHANGED storeVars /\ decision' = decision /\ crossed' = crossed
    BY <1>2, ReceiveFacts
  <2>3. \A v \in Workers : ToEvaluate(v, r) => ToEvaluate(v, r)'
    BY <2>1, <2>2 DEF ToEvaluate, TypeOK
  <2> QED
    BY <1>0, <1>b, <2>2, <2>3
<1>3. ASSUME NEW w \in Workers, NEW q \in Rules, Choose(w, q)
      PROVE  Goal
  <2>1. PICK job \in Work : job.rules = work[w].rules /\ work' = [work EXCEPT ![w] = job]
    BY <1>3, ChooseFacts
  <2>2. /\ UNCHANGED storeVars /\ decision' = decision
        /\ crossed' = crossed \/ crossed' = crossed \ {q}
        /\ work[w] # None /\ q \in work[w].rules
    BY <1>3, ChooseFacts
  <2>3. \A v \in Workers : ToEvaluate(v, r) => ToEvaluate(v, r)'
    BY <1>a, <2>1
  <2>4. CASE r = q
    <3>1. ToEvaluate(w, r)
      BY <2>2, <2>4 DEF ToEvaluate
    <3> QED
      BY <2>3, <3>1
  <2>5. CASE r # q
    BY <1>0, <1>b, <2>2, <2>3, <2>5
  <2> QED
    BY <2>4, <2>5
<1>4. ASSUME NEW w \in Workers, Store(w)
      PROVE  Goal
  <2>1. PICK job \in Work, key \in Keys, value \in Values, at \in Stamps :
          /\ \A q \in StateRules : key \in StateKeys(q) => q \in job.rules
          /\ work' = [work EXCEPT ![w] = job]
          /\ Update(key, value, at)
          /\ crossed' = crossed \union ReadOn(key)
    BY <1>4, StoreFacts
  <2>2. work[w] # None /\ work[w].rules = {} /\ decision' = decision
    BY <1>4, StoreFacts
  <2>3. CASE key \in StateKeys(r)
    <3>1. ToEvaluate(w, r)'
      BY <2>1, <2>3, NoneAssumption DEF ToEvaluate, TypeOK
    <3> QED
      BY <3>1
  <2>4. CASE key \notin StateKeys(r)
    <3>1. \A k \in StateKeys(r) : Fresh(k)' => Fresh(k) /\ observations'[k] = observations[k]
      BY <2>1, <2>4, KeysKnown DEF Update, Fresh, IsStale, TypeOK, StoreTypeOK
    <3>2. Concluded(r) => Concluded(r)'
      BY <2>2, <3>1, StillConcluded
    <3>3. \A v \in Workers : ToEvaluate(v, r) => ToEvaluate(v, r)'
      BY <1>a, <2>1, <2>2
    <3>4. r \notin crossed
      BY <2>1
    <3> QED
      BY <1>0, <3>2, <3>3, <3>4
  <2> QED
    BY <2>3, <2>4
<1>5. ASSUME NEW w \in Workers, Read(w)
      PROVE  Goal
  <2>1. PICK job \in Work : job.rules = work[w].rules /\ work' = [work EXCEPT ![w] = job]
    BY <1>5, ReadFacts
  <2>2. UNCHANGED storeVars /\ decision' = decision /\ crossed' = crossed
    BY <1>5, ReadFacts
  <2>3. \A v \in Workers : ToEvaluate(v, r) => ToEvaluate(v, r)'
    BY <1>a, <2>1
  <2> QED
    BY <1>0, <1>b, <2>2, <2>3
<1>6. ASSUME NEW w \in Workers, Decide(w)
      PROVE  Goal
  <2>1. PICK q \in Rules, readings \in Seq(Reading), job \in Work :
          /\ work[w] # None /\ q = work[w].rule /\ readings = work[w].readings
          /\ Len(readings) = Len(Deps[q])
          /\ job.rules = work[w].rules \ {q}
          /\ decision' = [decision EXCEPT ![q] = Concludes(q, readings)]
          /\ work' = [work EXCEPT ![w] = job]
          /\ UNCHANGED <<storeVars, requests, version, crossed>>
    BY <1>6, DecideFacts
  <2>2. UNCHANGED storeVars /\ crossed' = crossed /\ r \notin crossed /\ r \in Rules
    BY <2>1 DEF StateRules
  <2>3. CASE r = q
    <3>1. decision'[r] = Concludes(r, readings)
      BY <2>1, <2>2, <2>3 DEF TypeOK
    <3>2. (\A d \in DepsOf(r) : Fresh(KeyOf(d)))
            => Concludes(r, readings) = (\A d \in DepsOf(r) : observations[KeyOf(d)].value)
      BY <2>1, <2>2, <2>3, DecidesRight DEF ConcludedOrToBe
    <3> QED
      BY <2>2, <3>1, <3>2 DEF storeVars, Concluded, Decidable, DecidedByLatest, Fresh, IsStale
  <2>4. CASE r # q
    <3>1. decision'[r] = decision[r]
      BY <2>1, <2>2, <2>4 DEF TypeOK
    <3>2. \A v \in Workers : ToEvaluate(v, r) => ToEvaluate(v, r)'
      BY <1>a, <2>1, <2>4
    <3> QED
      BY <1>0, <1>b, <2>2, <3>1, <3>2
  <2> QED
    BY <2>3, <2>4
<1>7. ASSUME NEW w \in Workers, Answer(w)
      PROVE  Goal
  <2>1. /\ work[w].rules = {} /\ work' = [work EXCEPT ![w] = None]
        /\ UNCHANGED storeVars /\ decision' = decision /\ crossed' = crossed
    BY <1>7 DEF Answer
  <2>2. \A v \in Workers : ToEvaluate(v, r) => ToEvaluate(v, r)'
    BY <2>1 DEF ToEvaluate, TypeOK
  <2> QED
    BY <1>0, <1>b, <2>1, <2>2
<1>8. CASE Background
  <2>1. UNCHANGED <<work, decision, crossed>>
    BY <1>8 DEF Background
  <2>2. \A k \in StateKeys(r) : Fresh(k)' => Fresh(k) /\ observations'[k] = observations[k]
    BY <1>8, OnlyFades, KeysKnown
  <2>3. Concluded(r) => Concluded(r)'
    BY <2>1, <2>2, StillConcluded
  <2> QED
    BY <1>0, <2>1, <2>3 DEF ToEvaluate
<1>9. CASE UNCHANGED vars
  <2>1. UNCHANGED <<work, decision, crossed>> /\ UNCHANGED storeVars
    BY <1>9 DEF vars, storeVars
  <2> QED
    BY <1>0, <1>b, <2>1 DEF ToEvaluate
<1> QED
  BY <1>2, <1>3, <1>4, <1>5, <1>6, <1>7, <1>8, <1>9 DEF Next

(* The last word on a rule is that of its latest observations, however many*)
(* requests are served at a time, whenever the cleanup runs and however    *)
(* long a request takes, unless an observation was replaced under an       *)
(* evaluation that had read it and none has had the rule to itself since.  *)
THEOREM LastWordUnlessCrossedHolds == Spec => []LastWordUnlessCrossed
<1>1. Init => ConcludedOrToBe
  <2> SUFFICES ASSUME Init
               PROVE  ConcludedOrToBe
    OBVIOUS
  <2>1. UpToDate
    BY DEF Init, UpToDate
  <2>2. ASSUME NEW r \in StateRules
        PROVE  ~Decidable(r)
    <3> SUFFICES ASSUME Deps[r] # <<>>
                 PROVE  \E d \in DepsOf(r) : ~Fresh(KeyOf(d))
      BY DEF Decidable
    <3>1. r \in Rules /\ Deps[r] \in Seq(Dep)
      BY DepsAssumption DEF StateRules
    <3>2. 1 \in DOMAIN Deps[r]
      BY <3>1
    <3>3. Deps[r][1] \in DepsOf(r) /\ Deps[r][1] \in Dep
      BY <3>1, <3>2 DEF DepsOf
    <3>4. KeyOf(Deps[r][1]) \in Keys
      BY <3>3, KeysAssumption DEF KeyOf, Dep
    <3> QED
      BY <3>3, <3>4 DEF Init, StoreInit, Fresh
  <2> QED
    BY <2>1, <2>2 DEF ConcludedOrToBe, Concluded
<1>2. TypeOK /\ InProgress /\ ConcludedOrToBe /\ [Next]_vars => ConcludedOrToBe'
  BY ConcludedOrToBeStep
<1>3. ConcludedOrToBe => LastWordUnlessCrossed
  BY DEF ConcludedOrToBe, LastWordUnlessCrossed, Idle, Concluded, ToEvaluate
<1> QED
  BY <1>1, <1>2, <1>3, TypesHold, InProgressHolds, PTL DEF Spec

=============================================================================
