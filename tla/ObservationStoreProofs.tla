----------------------- MODULE ObservationStoreProofs -----------------------
(* Proofs about the observation store and the sustained rules that read it,*)
(* for every TTL and every resolution of the clock.                        *)
EXTENDS SustainPath, TLAPS

(* The whole second an observation is received in, and the part of it that *)
(* the truncation drops.                                                   *)
LEMMA Truncation ==
  ASSUME NEW t \in Nat
  PROVE  /\ t \div PerSecond \in Nat
         /\ (t \div PerSecond) * PerSecond <= t
         /\ t < (t \div PerSecond) * PerSecond + PerSecond
  BY TTLAssumption, Z3

LEMMA StoreTypedStep ==
  ASSUME StoreTypeOK, [StoreNext]_storeVars
  PROVE  StoreTypeOK'
<1>1. ASSUME NEW k \in Keys, NEW v \in Values, NEW at \in Stamps, Update(k, v, at)
      PROVE  StoreTypeOK'
  <2>1. now \in Nat /\ now \div PerSecond \in Nat
    BY TTLAssumption, Truncation DEF StoreTypeOK
  <2> QED
    BY <1>1, <2>1 DEF Update, StoreTypeOK, Observation
<1>2. CASE Cleanup
  BY <1>2 DEF Cleanup, StoreTypeOK
<1>3. CASE Tick
  BY <1>3, TTLAssumption DEF Tick, StoreTypeOK
<1>4. CASE UNCHANGED storeVars
  BY <1>4 DEF storeVars, StoreTypeOK
<1> QED
  BY <1>1, <1>2, <1>3, <1>4 DEF StoreNext

(* The store never holds anything but observations, and the history knows  *)
(* the time each was received at.                                          *)
THEOREM StoreTyped == StoreSpec => []StoreTypeOK
<1>1. StoreInit => StoreTypeOK
  BY TTLAssumption DEF StoreInit, StoreTypeOK
<1>2. StoreTypeOK /\ [StoreNext]_storeVars => StoreTypeOK'
  BY StoreTypedStep
<1> QED
  BY <1>1, <1>2, PTL DEF StoreSpec

(* What is held was received in the second it says, and what is gone was   *)
(* received too long ago.                                                  *)
Held(k) ==
  observations[k] # None =>
    /\ arrived[k] # None
    /\ observations[k].receivedAt * PerSecond <= arrived[k]
    /\ arrived[k] < observations[k].receivedAt * PerSecond + PerSecond

Gone(k) ==
  observations[k] = None /\ arrived[k] # None =>
    Age(k) > TTL * PerSecond - PerSecond

Received == \A k \in Keys : Held(k) /\ Gone(k)

LEMMA Second ==
  /\ TTL * PerSecond \in Nat /\ PerSecond \in Nat
  /\ (TTL - 1) * PerSecond = TTL * PerSecond - PerSecond
  /\ \A n \in Nat : n * PerSecond \in Nat
  BY TTLAssumption, Z3

LEMMA ReceivedHolds == StoreSpec => []Received
<1>1. StoreInit => Received
  BY DEF StoreInit, Received, Held, Gone
<1>2. StoreTypeOK /\ Received /\ [StoreNext]_storeVars => Received'
  <2> SUFFICES ASSUME StoreTypeOK, Received, [StoreNext]_storeVars, NEW k \in Keys
               PROVE  Held(k)' /\ Gone(k)'
    BY DEF Received
  <2>0. Held(k) /\ Gone(k) /\ now \in Nat
    BY TTLAssumption DEF Received, StoreTypeOK
  <2>1. ASSUME NEW j \in Keys, NEW v \in Values, NEW at \in Stamps, Update(j, v, at)
        PROVE  Held(k)' /\ Gone(k)'
    <3>1. CASE j = k
      <4>1. /\ observations'[k] = [value |-> v, emittedAt |-> at,
                                   receivedAt |-> now \div PerSecond]
            /\ arrived'[k] = now
        BY <2>1, <3>1 DEF Update, StoreTypeOK
      <4>2. now \div PerSecond \in Nat
        BY <2>0, Truncation
      <4>3. observations'[k] \in Observation
        BY <4>1, <4>2 DEF Observation
      <4>4. observations'[k] # None /\ arrived'[k] # None
        BY <2>0, <4>1, <4>3, NoneIsNoObservation
      <4> QED
        BY <2>0, <4>1, <4>4, Truncation DEF Held, Gone
    <3>2. CASE j # k
      <4>1. observations'[k] = observations[k] /\ arrived'[k] = arrived[k] /\ now' = now
        BY <2>1, <3>2 DEF Update, StoreTypeOK
      <4> QED
        BY <2>0, <4>1 DEF Held, Gone, Age
    <3> QED
      BY <3>1, <3>2
  <2>2. CASE Cleanup
    <3>1. /\ observations'[k] = IF Fresh(k) THEN observations[k] ELSE None
          /\ arrived'[k] = arrived[k] /\ now' = now
      BY <2>2 DEF Cleanup
    <3>2. CASE observations'[k] = observations[k]
      BY <2>0, <3>1, <3>2 DEF Held, Gone, Age
    <3>3. CASE observations'[k] # observations[k]
      <4>1. observations[k] # None /\ observations'[k] = None /\ IsStale(observations[k])
        BY <3>1, <3>3 DEF Fresh
      <4>2. observations[k].receivedAt \in Nat /\ arrived[k] \in Nat
        BY <2>0, <4>1 DEF Held, StoreTypeOK, Observation
      <4>3. Age(k) > TTL * PerSecond - PerSecond
        BY <2>0, <4>1, <4>2, Second DEF Held, IsStale, Age
      <4> QED
        BY <3>1, <4>1, <4>3 DEF Held, Gone, Age
    <3> QED
      BY <3>2, <3>3
  <2>3. CASE Tick
    <3>1. observations'[k] = observations[k] /\ arrived'[k] = arrived[k] /\ now' = now + 1
      BY <2>3 DEF Tick
    <3>2. arrived[k] # None => arrived[k] \in Nat
      BY DEF StoreTypeOK
    <3> QED
      BY <2>0, <3>1, <3>2, Second DEF Held, Gone, Age
  <2>4. CASE UNCHANGED storeVars
    BY <2>0, <2>4 DEF storeVars, Held, Gone, Age
  <2> QED
    BY <2>1, <2>2, <2>3, <2>4 DEF StoreNext
<1> QED
  BY <1>1, <1>2, StoreTyped, PTL DEF StoreSpec

(* An observation can be used for TTL seconds, but for the fraction of a   *)
(* second the truncation costs, and no longer.                             *)
THEOREM UsableForTTL == StoreSpec => []FreshForTTL
<1>1. ASSUME StoreTypeOK, Received, NEW k \in Keys
      PROVE  /\ arrived[k] # None /\ Age(k) <= (TTL - 1) * PerSecond => Fresh(k)
             /\ Fresh(k) => arrived[k] # None /\ Age(k) <= TTL * PerSecond
  <2>1. Held(k) /\ Gone(k) /\ now \in Nat
    BY <1>1, TTLAssumption DEF Received, StoreTypeOK
  <2>2. arrived[k] # None => arrived[k] \in Nat
    BY <1>1 DEF StoreTypeOK
  <2>3. observations[k] # None => observations[k].receivedAt \in Nat
    BY <1>1 DEF StoreTypeOK, Observation
  <2>4. observations[k] # None => observations[k].receivedAt * PerSecond \in Nat
    BY <2>3, Second
  <2>5. ASSUME arrived[k] # None, Age(k) <= (TTL - 1) * PerSecond
        PROVE  Fresh(k)
    <3>1. observations[k] # None
      BY <2>1, <2>2, <2>5, Second DEF Gone, Age
    <3> QED
      BY <2>1, <2>2, <2>4, <2>5, <3>1, Second DEF Held, Fresh, IsStale, Age
  <2>6. ASSUME Fresh(k)
        PROVE  arrived[k] # None /\ Age(k) <= TTL * PerSecond
    BY <2>1, <2>2, <2>4, <2>6, Second DEF Held, Fresh, IsStale, Age
  <2> QED
    BY <2>5, <2>6
<1>2. StoreTypeOK /\ Received => FreshForTTL
  BY <1>1 DEF FreshForTTL, KeptForTTL, NotUsedBeyondTTL
<1> QED
  BY <1>2, StoreTyped, ReceivedHolds, PTL

(* Whenever the cleanup runs, rules see what they would have seen.         *)
THEOREM CleanupUnseen == StoreSpec => CleanupIsInvisible
<1>1. ASSUME Cleanup
      PROVE  View' = View
  <2>1. ASSUME NEW k \in Keys
        PROVE  View'[k] = View[k]
    <3>1. observations'[k] = (IF Fresh(k) THEN observations[k] ELSE None) /\ now' = now
      BY <1>1, <2>1 DEF Cleanup
    <3>2. CASE Fresh(k)
      BY <2>1, <3>1, <3>2 DEF View, Fresh, IsStale
    <3>3. CASE ~Fresh(k)
      BY <2>1, <3>1, <3>3 DEF View, Fresh
    <3> QED
      BY <3>2, <3>3
  <2> QED
    BY <2>1 DEF View
<1> QED
  BY <1>1, PTL DEF StoreSpec, CleanupIsInvisible

-----------------------------------------------------------------------------

(* The payloads of a sustained rule use the store as anybody does.         *)
THEOREM SustainUsesStore == SustainSpec => StoreSpec
<1>1. ASSUME StoreTypeOK, [SustainNext]_sustainVars
      PROVE  [StoreNext]_storeVars
  <2>1. ASSUME NEW k \in Keys, NEW value \in Values, Report(k, value)
        PROVE  StoreNext
    BY <1>1, <2>1, SustainAssumption DEF Report, StoreNext, StoreTypeOK
  <2>2. CASE Pass \/ Forget
    BY <2>2 DEF Pass, Forget, StoreNext
  <2>3. CASE UNCHANGED sustainVars
    BY <2>3 DEF sustainVars
  <2> QED
    BY <1>1, <2>1, <2>2, <2>3 DEF SustainNext
<1>2. SustainInit => StoreInit /\ StoreTypeOK
  BY TTLAssumption DEF SustainInit, StoreInit, StoreTypeOK
<1>3. StoreTypeOK /\ [SustainNext]_sustainVars => StoreTypeOK'
  BY <1>1, StoreTypedStep
<1> QED
  BY <1>1, <1>2, <1>3, PTL DEF SustainSpec, StoreSpec

(* An open sustain period means that each region was good to use and TRUE  *)
(* ever since, or is silent, and that no payload found it otherwise since  *)
(* the second that opened it.                                              *)
Open ==
  /\ state \in TriggerState
  /\ broken \in 0..now
  /\ state.start # 0 => /\ \A k \in Keys : Good(k) \/ Silent(k)
                        /\ broken < (state.start + 1) * PerSecond

SustainInv == Open /\ HeldContinuously

(* One evaluation: what it leaves open, and what it takes to fire.         *)
LEMMA EvaluationOpens ==
  ASSUME NEW st \in TriggerState, NEW cond \in BOOLEAN, NEW at \in Nat, at > 0
  PROVE  LET next == Evaluated(st, cond, at, Config)
         IN  /\ next \in TriggerState
             /\ next.start # 0 => cond /\ next.start \in {st.start, at}
             /\ next.start # 0 /\ st.start # 0 => next.start = st.start
             /\ Fires(st, cond, at, Config) => cond /\ st.start # 0
  BY SustainAssumption
     DEF Evaluated, Fires, SustainPending, Sustained, TriggerState, TriggerConfig

(* What stops being good to use without a payload does so by silence.      *)
LEMMA FadesInSilence ==
  ASSUME StoreTypeOK, Received, Received', now' \in Nat, Tick \/ Cleanup \/ UNCHANGED storeVars,
         NEW k \in Keys, Good(k) \/ Silent(k)
  PROVE  (Good(k) \/ Silent(k))'
<1>1. /\ arrived' = arrived /\ now' >= now /\ now \in Nat
      /\ observations'[k] = observations[k] \/ observations'[k] = None
  BY TTLAssumption DEF Tick, Cleanup, storeVars, StoreTypeOK
<1>2. Held(k) /\ Held(k)' /\ Gone(k)'
  BY DEF Received
<1>3. arrived[k] # None => arrived[k] \in Nat
  BY DEF StoreTypeOK
<1>4. CASE Silent(k)
  <2>1. Age(k)' >= Age(k) /\ arrived'[k] # None
    BY <1>1, <1>3, <1>4 DEF Silent, Age
  <2>2. Age(k) \in Int /\ Age(k)' \in Int
    BY <1>1, <1>3, <1>4 DEF Silent, Age
  <2> QED
    BY <1>4, <2>1, <2>2, Second DEF Silent
<1>5. CASE Good(k)
  <2>1. observations[k] # None /\ arrived'[k] # None /\ arrived'[k] \in Nat
    BY <1>1, <1>2, <1>3, <1>5 DEF Good, Fresh, Held
  <2>2. Age(k)' \in Int
    BY <1>1, <2>1 DEF Age
  <2>3. CASE observations'[k] = None
    BY <1>2, <2>1, <2>2, <2>3, Second DEF Gone, Silent
  <2>4. CASE observations'[k] # None /\ ~IsStale(observations[k])'
    BY <1>1, <1>5, <2>4 DEF Good, Fresh
  <2>5. CASE observations'[k] # None /\ IsStale(observations[k])'
    <3>1. observations'[k].receivedAt \in Nat
      BY <1>1, <2>1, <2>5 DEF StoreTypeOK, Observation
    <3>2. now' - observations'[k].receivedAt * PerSecond > TTL * PerSecond
      BY <2>5 DEF IsStale
    <3>3. arrived'[k] < observations'[k].receivedAt * PerSecond + PerSecond
      BY <1>2, <2>5 DEF Held
    <3> QED
      BY <2>1, <3>1, <3>2, <3>3, Second DEF Silent, Age
  <2> QED
    BY <2>3, <2>4, <2>5
<1> QED
  BY <1>4, <1>5

LEMMA SustainInvStep ==
  ASSUME StoreTypeOK, StoreTypeOK', Received, Received', SustainInv, [SustainNext]_sustainVars
  PROVE  SustainInv'
<1> USE DEF SustainInv
<1>1. now \in Nat /\ now' \in Nat /\ PerSecond \in Nat /\ PerSecond > 0
  BY TTLAssumption DEF StoreTypeOK
<1>2. ASSUME NEW k \in Keys, NEW value \in Values, Report(k, value)
      PROVE  SustainInv'
  <2>1. PICK at \in Nat :
          /\ at = now \div PerSecond /\ at > 0 /\ now < (at + 1) * PerSecond
          /\ Update(k, value, at)
          /\ fired' = Fires(state, Holds', at, Config)
          /\ since' = state.start
          /\ state' = Evaluated(state, Holds', at, Config)
          /\ broken' = IF Holds' THEN broken ELSE now
    <3>1. PICK at \in Nat : at = now \div PerSecond /\ now < at * PerSecond + PerSecond
      BY <1>1, Truncation
    <3>2. (at + 1) * PerSecond = at * PerSecond + PerSecond
      BY <1>1, <3>1, Z3
    <3>3. /\ at > 0 /\ Update(k, value, at)
          /\ fired' = Fires(state, Holds', at, Config)
          /\ since' = state.start
          /\ state' = Evaluated(state, Holds', at, Config)
          /\ broken' = IF Holds' THEN broken ELSE now
      BY <1>2, <3>1, Zenon DEF Report
    <3> QED
      BY <3>1, <3>2, <3>3
  <2>2. now' = now /\ state \in TriggerState /\ broken \in 0..now
    BY <2>1 DEF Update, Open
  <2>3. PICK holds \in BOOLEAN : holds = Holds'
    <3>1. Holds' \in BOOLEAN
      BY DEF Holds
    <3> QED
      BY <3>1
  <2>4. /\ state' \in TriggerState
        /\ state'.start # 0 => holds /\ state'.start \in {state.start, at}
        /\ state'.start # 0 /\ state.start # 0 => state'.start = state.start
        /\ fired' => holds /\ state.start # 0
    BY <2>1, <2>2, <2>3, EvaluationOpens
  <2>5. broken' \in 0..now' /\ (holds => broken' = broken)
    BY <1>1, <2>1, <2>2, <2>3
  <2>6. state'.start # 0 => broken' < (state'.start + 1) * PerSecond
    BY <1>1, <2>1, <2>2, <2>4, <2>5 DEF Open
  <2>7. state'.start # 0 => \A q \in Keys : Good(q)'
    BY <2>3, <2>4 DEF Holds
  <2>8. HeldContinuously'
    BY <2>1, <2>4, <2>5 DEF HeldContinuously, Open
  <2> QED
    BY <2>4, <2>5, <2>6, <2>7, <2>8 DEF Open
<1>3. ASSUME Pass \/ Forget \/ UNCHANGED sustainVars
      PROVE  SustainInv'
  <2>1. /\ Tick \/ Cleanup \/ UNCHANGED storeVars
        /\ state' = state /\ now' >= now
        /\ \/ broken' = broken
           \/ broken' = now' /\ ~ \A q \in Keys : Good(q)' \/ Silent(q)'
    BY <1>1, <1>3 DEF Pass, Forget, Tick, Cleanup, sustainVars, storeVars
  <2>2. state'.start # 0 => \A q \in Keys : (Good(q) \/ Silent(q))'
    BY <1>1, <2>1, FadesInSilence DEF Open
  <2>3. state'.start # 0 => broken' = broken
    BY <2>1, <2>2
  <2>4. Open'
    BY <1>1, <2>1, <2>2, <2>3 DEF Open
  <2>5. HeldContinuously'
    BY <1>3 DEF Pass, Forget, sustainVars, HeldContinuously
  <2> QED
    BY <2>4, <2>5
<1> QED
  BY <1>2, <1>3 DEF SustainNext

(* A sustained rule fires only when every payload since the one that opened*)
(* its sustain period found it to hold, and each of its regions had been   *)
(* reported TRUE and was good to use in between, or silent: for any number *)
(* of regions that come and go silent as they like, any times and any      *)
(* trigger configuration.                                                  *)
THEOREM HeldContinuouslyHolds == SustainSpec => []HeldContinuously
<1>1. SustainInit => SustainInv
  BY DEF SustainInit, StoreInit, SustainInv, Open, HeldContinuously, NewTriggerState, TriggerState
<1>2. /\ StoreTypeOK /\ StoreTypeOK' /\ Received /\ Received'
      /\ SustainInv /\ [SustainNext]_sustainVars
      => SustainInv'
  BY SustainInvStep
<1>3. SustainInv => HeldContinuously
  BY DEF SustainInv
<1> QED
  BY <1>1, <1>2, <1>3, SustainUsesStore, StoreTyped, ReceivedHolds, PTL DEF SustainSpec

=============================================================================
