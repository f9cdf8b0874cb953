---------------------------- MODULE TriggerProofs ---------------------------
(***************************************************************************)
(* Theorems about TriggerManager, for any number of rules, workers, trigger*)
(* states, time stamps and configurations.                                 *)
(*                                                                         *)
(* The heart is Linked: the three scalars of a trigger state say about the *)
(* history exactly what the decision needs.  prev is the last condition,   *)
(* last is the greatest stamp that fired (a firing is never older than an  *)
(* earlier one, because cooldowns are not negative), start is the stamp of *)
(* the evaluation that opened the running sustain period.                  *)
(***************************************************************************)
EXTENDS TriggerManager, TLAPS

LEMMA AppendFacts ==
  ASSUME NEW S, NEW h \in Seq(S), NEW e \in S
  PROVE  /\ Append(h, e) \in Seq(S)
         /\ Len(h) \in Nat
         /\ DOMAIN h = 1..Len(h)
         /\ Len(Append(h, e)) = Len(h) + 1
         /\ DOMAIN Append(h, e) = 1..(Len(h) + 1)
         /\ Append(h, e)[Len(h) + 1] = e
         /\ \A k \in 1..Len(h) : Append(h, e)[k] = h[k] /\ h[k] \in S
  OBVIOUS

-----------------------------------------------------------------------------

(* One decision keeps a trigger state well-typed.                          *)
LEMMA EvaluatedType ==
  ASSUME NEW st \in TriggerState, NEW cond \in BOOLEAN, NEW at \in Nat,
         NEW cfg \in TriggerConfig
  PROVE  Evaluated(st, cond, at, cfg) \in TriggerState
  BY DEF Evaluated, TriggerState, TriggerConfig, Sustained

LEMMA FiresType ==
  ASSUME NEW st \in TriggerState, NEW cond \in BOOLEAN, NEW at \in Nat,
         NEW cfg \in TriggerConfig
  PROVE  Fires(st, cond, at, cfg) \in BOOLEAN
  BY DEF Fires

(* The type invariant: in particular a caller that is about to decide      *)
(* holds an allocated trigger state.                                       *)
THEOREM TypeCorrect == Spec => []TypeOK
<1>1. Init => TypeOK
  BY DEF Init, TypeOK, NewTriggerState, TriggerState
<1>2. TypeOK /\ [Next]_vars => TypeOK'
  <2> SUFFICES ASSUME TypeOK, [Next]_vars
               PROVE  TypeOK'
    OBVIOUS
  <2> USE DEF TypeOK
  <2>1. ASSUME NEW w \in Workers, NEW r \in Rules, NEW cond \in BOOLEAN,
               NEW at \in Stamps, NEW cfg \in Configs,
               Lookup(w, r, cond, at, cfg)
        PROVE  TypeOK'
    BY <2>1 DEF Lookup, Call
  <2>2. ASSUME NEW w \in Workers, CreateFound(w)
        PROVE  TypeOK'
    <3> DEFINE c == [call[w] EXCEPT !.pc = "decide", !.obj = states[call[w].rule]]
    <3>1. call[w] \in Call /\ call[w].rule \in Rules
      BY <2>2 DEF CreateFound, Call
    <3>2. c \in Call /\ c.pc = "decide" /\ c.obj \in used
      BY <2>2, <3>1 DEF CreateFound, Call
    <3>3. call' = [call EXCEPT ![w] = c] /\ UNCHANGED <<states, heap, used, dropped, hist>>
      BY <2>2 DEF CreateFound
    <3> HIDE DEF c
    <3>4. call' \in [Workers -> Call \union {None}]
      BY <3>2, <3>3
    <3>5. \A v \in Workers : call'[v] # None /\ call'[v].pc = "decide"
                               => call'[v].obj \in used'
      BY <3>2, <3>3
    <3> QED
      BY <3>3, <3>4, <3>5
  <2>3. ASSUME NEW w \in Workers, CreateNew(w)
        PROVE  TypeOK'
    <3>1. PICK o \in Objects \ used :
            /\ states' = [states EXCEPT ![call[w].rule] = o]
            /\ heap' = [heap EXCEPT ![o] = NewTriggerState]
            /\ used' = used \union {o}
            /\ call' = [call EXCEPT ![w] = [@ EXCEPT !.pc = "decide", !.obj = o]]
      BY <2>3 DEF CreateNew
    <3> DEFINE c == [call[w] EXCEPT !.pc = "decide", !.obj = o]
    <3>2. call[w] \in Call /\ call[w].rule \in Rules
      BY <2>3 DEF CreateNew, Call
    <3>3. c \in Call /\ c.pc = "decide" /\ c.obj = o
      BY <3>2 DEF Call
    <3>4. call' = [call EXCEPT ![w] = c]
      BY <3>1
    <3>5. NewTriggerState \in TriggerState
      BY DEF NewTriggerState, TriggerState
    <3> HIDE DEF c
    <3>6. heap' \in [Objects -> TriggerState]
      BY <3>1, <3>5
    <3>7. states' \in [Rules -> used' \union {None}]
      BY <3>1, <3>2
    <3>8. call' \in [Workers -> Call \union {None}]
      BY <3>3, <3>4
    <3>9. \A v \in Workers : call'[v] # None /\ call'[v].pc = "decide"
                               => call'[v].obj \in used'
      BY <3>1, <3>3, <3>4
    <3> QED
      BY <2>3, <3>1, <3>6, <3>7, <3>8, <3>9 DEF CreateNew
  <2>4. ASSUME NEW w \in Workers, Decide(w)
        PROVE  TypeOK'
    <3> DEFINE c == call[w]
               e == [cond |-> c.cond, at |-> c.at, cfg |-> c.cfg,
                     fired |-> Fires(heap[c.obj], c.cond, c.at, c.cfg)]
    <3>1. c \in Call /\ c.obj \in Objects
      BY <2>4 DEF Decide
    <3>2. /\ c.cond \in BOOLEAN /\ c.at \in Stamps /\ c.cfg \in Configs
          /\ c.at \in Nat /\ c.cfg \in TriggerConfig /\ heap[c.obj] \in TriggerState
      BY <3>1, StampsAssumption, ConfigsAssumption DEF Call
    <3>3. Evaluated(heap[c.obj], c.cond, c.at, c.cfg) \in TriggerState
      BY <3>2, EvaluatedType
    <3>4. e \in Evaluation
      BY <3>2, FiresType DEF Evaluation
    <3>5. /\ heap' = [heap EXCEPT ![c.obj] = Evaluated(heap[c.obj], c.cond, c.at, c.cfg)]
          /\ hist' = [hist EXCEPT ![c.obj] = Append(hist[c.obj], e)]
          /\ call' = [call EXCEPT ![w] = None]
          /\ UNCHANGED <<states, used, dropped>>
      BY <2>4, <3>1 DEF Decide
    <3> HIDE DEF c, e
    <3>6. Append(hist[c.obj], e) \in Seq(Evaluation)
      BY <3>1, <3>4, AppendFacts
    <3> QED
      BY <3>1, <3>3, <3>5, <3>6
  <2>5. ASSUME NEW r \in Rules, Remove(r)
        PROVE  TypeOK'
    BY <2>5 DEF Remove
  <2>6. CASE UNCHANGED vars
    BY <2>6 DEF vars
  <2> QED
    BY <2>1, <2>2, <2>3, <2>4, <2>5, <2>6 DEF Next
<1> QED
  BY <1>1, <1>2, PTL DEF Spec

-----------------------------------------------------------------------------

(* At most one evaluation has opened the running sustain period.           *)
LEMMA OneOpener ==
  ASSUME NEW h \in Seq(Evaluation), NEW i \in DOMAIN h, NEW j \in DOMAIN h,
         Abstract!Opens(h, i), Abstract!Opens(h, j)
  PROVE  i = j
<1>1. DOMAIN h = 1..Len(h) /\ Len(h) \in Nat
  OBVIOUS
<1>2. ~(i < j) /\ ~(j < i)
  BY <1>1 DEF Abstract!Opens
<1> QED
  BY <1>1, <1>2

(* With linked scalars the code decides as the abstract specification does.*)
LEMMA SameDecision ==
  ASSUME NEW st \in TriggerState, NEW h \in Seq(Evaluation), NEW cond \in BOOLEAN,
         NEW at \in Nat, NEW cfg \in TriggerConfig, Linked(st, h)
  PROVE  Fires(st, cond, at, cfg) = Abstract!ShouldFire(h, cond, at, cfg)
<1>1. /\ DOMAIN h = 1..Len(h) /\ Len(h) \in Nat
      /\ \A i \in DOMAIN h : h[i].at \in Nat
  <2>1. DOMAIN h = 1..Len(h) /\ Len(h) \in Nat /\ \A i \in DOMAIN h : h[i] \in Evaluation
    OBVIOUS
  <2> QED
    BY <2>1, StampsAssumption DEF Evaluation
<1>2. /\ st.prev \in BOOLEAN /\ st.start \in Nat /\ st.last \in Nat
      /\ cfg.sustain \in Nat /\ cfg.cooldown \in Nat
  BY DEF TriggerState, TriggerConfig
<1>3. ASSUME cfg.sustain > 0
      PROVE  (~SustainPending(st, at, cfg)) <=> Abstract!HeldFor(h, at, cfg.sustain)
  <2>1. CASE st.start = 0
    BY <1>3, <2>1 DEF SustainPending, Sustained, Linked, Abstract!HeldFor, Abstract!Opens
  <2>2. CASE st.start # 0
    <3>1. PICK i \in DOMAIN h : Abstract!Opens(h, i) /\ h[i].at = st.start
      BY <2>2 DEF Linked
    <3>2. \A j \in DOMAIN h : Abstract!Opens(h, j) => j = i
      BY <3>1, OneOpener
    <3>3. Abstract!HeldFor(h, at, cfg.sustain) <=> at - h[i].at >= cfg.sustain
      BY <3>1, <3>2 DEF Abstract!HeldFor
    <3>4. SustainPending(st, at, cfg) <=> at - st.start < cfg.sustain
      BY <1>3, <2>2 DEF SustainPending, Sustained
    <3> QED
      BY <1>2, <3>1, <3>3, <3>4
  <2> QED
    BY <2>1, <2>2
<1>4. InCooldown(st, at, cfg) <=> Abstract!CoolingDown(h, at, cfg.cooldown)
  <2>1. CASE st.last = 0
    BY <1>1, <2>1 DEF InCooldown, Abstract!CoolingDown, Linked
  <2>2. CASE st.last # 0
    <3>1. PICK i \in DOMAIN h : h[i].fired /\ h[i].at = st.last
      BY <2>2 DEF Linked
    <3>2. \A j \in DOMAIN h : h[j].fired => h[j].at <= st.last
      BY DEF Linked
    <3>3. ASSUME Abstract!CoolingDown(h, at, cfg.cooldown)
          PROVE  at - st.last < cfg.cooldown
      <4>1. PICK j \in DOMAIN h : h[j].fired /\ at - h[j].at < cfg.cooldown
        BY <3>3 DEF Abstract!CoolingDown
      <4> QED
        BY <1>1, <1>2, <3>2, <4>1
    <3>4. ASSUME at - st.last < cfg.cooldown
          PROVE  Abstract!CoolingDown(h, at, cfg.cooldown)
      BY <3>1, <3>4 DEF Abstract!CoolingDown
    <3> QED
      BY <1>2, <2>2, <3>3, <3>4 DEF InCooldown
  <2> QED
    BY <2>1, <2>2
<1>5. st.prev <=> Abstract!WasTrue(h)
  BY DEF Linked
<1>6. Fires(st, cond, at, cfg) \in BOOLEAN /\ Abstract!ShouldFire(h, cond, at, cfg) \in BOOLEAN
  BY DEF Fires, Abstract!ShouldFire
<1>7. CASE cfg.sustain > 0
  BY <1>3, <1>4, <1>6, <1>7 DEF Fires, Abstract!ShouldFire, EdgeSatisfied, Sustained
<1>8. CASE ~(cfg.sustain > 0)
  BY <1>4, <1>5, <1>6, <1>8
  DEF Fires, Abstract!ShouldFire, EdgeSatisfied, Sustained, SustainPending
<1> QED
  BY <1>7, <1>8

(* One decision keeps the scalars linked to the history it extends.        *)
LEMMA LinkedStep ==
  ASSUME NEW st \in TriggerState, NEW h \in Seq(Evaluation), NEW cond \in BOOLEAN,
         NEW at \in Stamps, NEW cfg \in Configs, Accepted(at), Linked(st, h)
  PROVE  Linked(Evaluated(st, cond, at, cfg),
                Append(h, [cond |-> cond, at |-> at, cfg |-> cfg,
                           fired |-> Fires(st, cond, at, cfg)]))
<1> DEFINE f == Fires(st, cond, at, cfg)
           e == [cond |-> cond, at |-> at, cfg |-> cfg, fired |-> f]
           g == Append(h, e)
           n == Len(h) + 1
           nx == Evaluated(st, cond, at, cfg)
<1>1. /\ at \in Nat /\ at # 0 /\ cfg \in TriggerConfig
      /\ cfg.sustain \in Nat /\ cfg.cooldown \in Nat /\ f \in BOOLEAN
  BY StampsAssumption, ConfigsAssumption, FiresType DEF Accepted, TriggerConfig
<1>2. e \in Evaluation /\ e.cond = cond /\ e.at = at /\ e.cfg = cfg /\ e.fired = f
  BY <1>1 DEF Evaluation
<1>3. /\ Len(h) \in Nat /\ DOMAIN h = 1..Len(h) /\ Len(g) = n /\ DOMAIN g = 1..n
      /\ g[n] = e /\ \A k \in DOMAIN h : g[k] = h[k]
  BY <1>2, AppendFacts
<1>4. /\ n \in DOMAIN g /\ g[n].at = at /\ g[n].cfg = cfg
      /\ g[n].cond <=> cond
      /\ g[n].fired <=> f
  <2>1. n \in DOMAIN g
    BY <1>3
  <2>2. g[n].at = at /\ g[n].cfg = cfg /\ g[n].cond = cond /\ g[n].fired = f
    BY <1>2, <1>3, Zenon
  <2> QED
    BY <2>1, <2>2, Zenon
<1>5. \A k \in DOMAIN h : h[k].at \in Nat /\ h[k].cond \in BOOLEAN /\ h[k].fired \in BOOLEAN
  <2>1. \A k \in DOMAIN h : h[k] \in Evaluation
    BY <1>3
  <2> QED
    BY <2>1, StampsAssumption DEF Evaluation
<1>6. st.prev \in BOOLEAN /\ st.start \in Nat /\ st.last \in Nat
  BY DEF TriggerState
<1>7. f => cond /\ ~SustainPending(st, at, cfg) /\ ~InCooldown(st, at, cfg)
  BY DEF Fires
<1>8. /\ nx.prev = cond
      /\ nx.last = IF f THEN at ELSE st.last
      /\ nx.start = IF ~cond \/ f THEN 0
                    ELSE IF Sustained(cfg) /\ st.start = 0 THEN at ELSE st.start
  BY <1>7 DEF Evaluated, TriggerState
<1> HIDE DEF f, e, g, nx
<1>9. nx.prev <=> Abstract!WasTrue(g)
  BY <1>2, <1>3, <1>8 DEF Abstract!WasTrue
<1>10. \A k \in DOMAIN g : g[k].at # 0 /\ (g[k].fired => g[k].at <= nx.last)
  <2>1. f => st.last <= at
    BY <1>1, <1>6, <1>7 DEF InCooldown
  <2>2. st.last <= nx.last
    BY <1>1, <1>6, <1>8, <2>1
  <2>3. \A k \in DOMAIN h : h[k].at # 0 /\ (h[k].fired => h[k].at <= st.last)
    BY DEF Linked
  <2>4. nx.last \in Nat
    BY <1>1, <1>6, <1>8
  <2>5. ASSUME NEW k \in DOMAIN h
        PROVE  g[k].at # 0 /\ (g[k].fired => g[k].at <= nx.last)
    BY <1>3, <1>5, <1>6, <2>2, <2>3, <2>4
  <2>6. g[n].at # 0 /\ (g[n].fired => g[n].at <= nx.last)
    BY <1>1, <1>2, <1>3, <1>8
  <2> QED
    BY <1>3, <2>5, <2>6
<1>11. ASSUME nx.last # 0
       PROVE  \E k \in DOMAIN g : g[k].fired /\ g[k].at = nx.last
  <2>1. CASE f
    <3>1. n \in DOMAIN g /\ g[n].fired /\ g[n].at = at /\ nx.last = at
      BY <1>4, <1>8, <2>1, Zenon
    <3> QED
      BY <3>1
  <2>2. CASE ~f
    <3>1. PICK k \in DOMAIN h : h[k].fired /\ h[k].at = st.last
      BY <1>8, <1>11, <2>2 DEF Linked
    <3> QED
      BY <1>3, <1>8, <2>2, <3>1
  <2> QED
    BY <2>1, <2>2
<1>12. ~cond \/ f => \A k \in DOMAIN g : ~Abstract!InStreak(g, k)
  BY <1>2, <1>3 DEF Abstract!InStreak
<1>13. ASSUME cond, ~f
       PROVE  /\ Abstract!InStreak(g, n)
              /\ \A k \in DOMAIN h : Abstract!InStreak(g, k) <=> Abstract!InStreak(h, k)
  <2>1. n \in DOMAIN g /\ g[n].cond /\ ~g[n].fired
    BY <1>4, <1>13, Zenon
  <2>2. \A k \in DOMAIN g : k = n \/ (k \in DOMAIN h /\ g[k] = h[k])
    BY <1>3
  <2>3. Abstract!InStreak(g, n)
    <3>1. \A k \in DOMAIN g : k >= n => k = n
      BY <1>3
    <3> QED
      BY <2>1, <3>1 DEF Abstract!InStreak
  <2>4. \A k \in DOMAIN h : k \in DOMAIN g
    BY <1>3
  <2>5. ASSUME NEW k \in DOMAIN h
        PROVE  Abstract!InStreak(g, k) <=> Abstract!InStreak(h, k)
    BY <2>1, <2>2, <2>4 DEF Abstract!InStreak
  <2> QED
    BY <2>3, <2>5
<1>14. ASSUME nx.start = 0
       PROVE  \A k \in DOMAIN g : Abstract!InStreak(g, k) => g[k].cfg.sustain = 0
  <2>1. CASE ~cond \/ f
    BY <1>12, <2>1
  <2>2. CASE cond /\ ~f
    <3>1. st.start = 0 /\ ~Sustained(cfg)
      BY <1>1, <1>8, <1>14, <2>2
    <3>2. \A k \in DOMAIN h : Abstract!InStreak(h, k) => h[k].cfg.sustain = 0
      BY <3>1 DEF Linked
    <3>3. g[n].cfg.sustain = 0
      BY <1>1, <1>2, <1>3, <3>1 DEF Sustained
    <3> QED
      BY <1>3, <1>13, <2>2, <3>2, <3>3
  <2> QED
    BY <2>1, <2>2
<1>15. ASSUME nx.start # 0
       PROVE  \E k \in DOMAIN g : Abstract!Opens(g, k) /\ g[k].at = nx.start
  <2>1. cond /\ ~f
    BY <1>8, <1>15
  <2>2. CASE st.start # 0
    <3>1. PICK i \in DOMAIN h : Abstract!Opens(h, i) /\ h[i].at = st.start
      BY <2>2 DEF Linked
    <3>2. i \in DOMAIN g /\ g[i] = h[i] /\ nx.start = st.start
      BY <1>3, <1>8, <2>1, <2>2
    <3>3. \A k \in DOMAIN g : k < i => k \in DOMAIN h
      BY <1>3
    <3>4. Abstract!Opens(g, i)
      BY <1>3, <1>13, <2>1, <3>1, <3>2, <3>3 DEF Abstract!Opens
    <3> QED
      BY <3>1, <3>2, <3>4
  <2>3. CASE st.start = 0
    <3>1. Sustained(cfg) /\ nx.start = at
      BY <1>8, <1>15, <2>1, <2>3
    <3>2. \A k \in DOMAIN h : Abstract!InStreak(h, k) => h[k].cfg.sustain = 0
      BY <2>3 DEF Linked
    <3>3. \A k \in DOMAIN g : k < n => k \in DOMAIN h
      BY <1>3
    <3>4. n \in DOMAIN g /\ g[n].cfg.sustain > 0 /\ g[n].at = at
      BY <1>2, <1>3, <3>1 DEF Sustained
    <3>5. Abstract!Opens(g, n)
      BY <1>3, <1>13, <2>1, <3>2, <3>3, <3>4 DEF Abstract!Opens
    <3> QED
      BY <3>1, <3>4, <3>5
  <2> QED
    BY <2>2, <2>3
<1>16. Linked(nx, g)
  BY <1>9, <1>10, <1>11, <1>14, <1>15 DEF Linked
<1> QED
  BY <1>16 DEF nx, g, e, f

-----------------------------------------------------------------------------

LEMMA LinkedNew == Linked(NewTriggerState, <<>>)
  BY DEF Linked, NewTriggerState, Abstract!WasTrue

(* What Decide does, with the evaluated message named.                     *)
LEMMA DecideStep ==
  ASSUME TypeOK, Linkage, NEW w \in Workers, Decide(w)
  PROVE  \E o \in used, cond \in BOOLEAN, at \in Stamps, cfg \in Configs :
           /\ Accepted(at)
           /\ heap' = [heap EXCEPT ![o] = Evaluated(heap[o], cond, at, cfg)]
           /\ hist' = [hist EXCEPT ![o] =
                Append(hist[o], [cond |-> cond, at |-> at, cfg |-> cfg,
                                 fired |-> Fires(heap[o], cond, at, cfg)])]
           /\ call' = [call EXCEPT ![w] = None]
           /\ UNCHANGED <<states, used, dropped>>
<1> DEFINE c == call[w]
<1>1. c \in Call /\ c.obj \in used /\ Accepted(c.at)
  BY DEF Decide, TypeOK, Linkage
<1>2. c.cond \in BOOLEAN /\ c.at \in Stamps /\ c.cfg \in Configs
  BY <1>1 DEF Call
<1>3. /\ heap' = [heap EXCEPT ![c.obj] = Evaluated(heap[c.obj], c.cond, c.at, c.cfg)]
      /\ hist' = [hist EXCEPT ![c.obj] =
           Append(hist[c.obj], [cond |-> c.cond, at |-> c.at, cfg |-> c.cfg,
                                fired |-> Fires(heap[c.obj], c.cond, c.at, c.cfg)])]
      /\ call' = [call EXCEPT ![w] = None]
      /\ UNCHANGED <<states, used, dropped>>
  BY DEF Decide, TypeOK
<1> HIDE DEF c
<1> QED
  BY <1>1, <1>2, <1>3

(* Only Decide extends a history.                                          *)
LEMMA QuietSteps ==
  ASSUME [Next]_vars
  PROVE  (\E w \in Workers : Decide(w)) \/ UNCHANGED hist
  BY DEF Next, vars, Lookup, CreateFound, CreateNew, Remove

(* The inductive step of Linkage, by the actions of Next.                  *)
LEMMA LinkageStep ==
  ASSUME TypeOK, Linkage, [Next]_vars
  PROVE  Linkage'
<1>1. ASSUME NEW w \in Workers, NEW r \in Rules, NEW cond \in BOOLEAN,
             NEW at \in Stamps, NEW cfg \in Configs,
             Lookup(w, r, cond, at, cfg)
      PROVE  Linkage'
  <2>1. call' = [call EXCEPT ![w] =
           [pc |-> IF states[r] = None THEN "create" ELSE "decide", rule |-> r,
            obj |-> states[r], cond |-> cond, at |-> at, cfg |-> cfg]]
        /\ UNCHANGED <<states, heap, used, dropped, hist>> /\ Accepted(at)
    BY <1>1 DEF Lookup
  <2>2. \A v \in Workers : call'[v] # None => Accepted(call'[v].at)
    BY <2>1 DEF TypeOK, Linkage
  <2> QED
    BY <2>1, <2>2 DEF Linkage
<1>2. ASSUME NEW w \in Workers, CreateFound(w)
      PROVE  Linkage'
  <2>1. call[w] \in Call
    BY <1>2 DEF CreateFound, TypeOK
  <2>2. /\ call' = [call EXCEPT ![w] =
              [call[w] EXCEPT !.pc = "decide", !.obj = states[call[w].rule]]]
        /\ UNCHANGED <<states, heap, used, dropped, hist>>
    BY <1>2 DEF CreateFound
  <2>3. [call[w] EXCEPT !.pc = "decide", !.obj = states[call[w].rule]].at = call[w].at
    BY <2>1 DEF Call
  <2>4. \A v \in Workers : call'[v] # None => Accepted(call'[v].at)
    BY <1>2, <2>2, <2>3 DEF TypeOK, Linkage, CreateFound
  <2> QED
    BY <2>2, <2>4 DEF Linkage
<1>3. ASSUME NEW w \in Workers, CreateNew(w)
      PROVE  Linkage'
  <2>1. PICK o \in Objects \ used :
          /\ heap' = [heap EXCEPT ![o] = NewTriggerState]
          /\ used' = used \union {o}
          /\ call' = [call EXCEPT ![w] = [@ EXCEPT !.pc = "decide", !.obj = o]]
    BY <1>3 DEF CreateNew
  <2>2. call[w] \in Call /\ UNCHANGED hist
    BY <1>3 DEF CreateNew, TypeOK
  <2>3. [call[w] EXCEPT !.pc = "decide", !.obj = o].at = call[w].at
    BY <2>2 DEF Call
  <2>4. \A v \in Workers : call'[v] # None => Accepted(call'[v].at)
    BY <1>3, <2>1, <2>3 DEF TypeOK, Linkage, CreateNew
  <2>5. \A p \in Objects : Linked(heap'[p], hist'[p])
    <3>1. Linked(heap'[o], hist'[o])
      BY <2>1, <2>2, LinkedNew DEF TypeOK, Linkage
    <3>2. ASSUME NEW p \in Objects, p # o
          PROVE  Linked(heap'[p], hist'[p])
      BY <2>1, <2>2, <3>2 DEF TypeOK, Linkage
    <3> QED
      BY <3>1, <3>2
  <2>6. \A p \in Objects \ used' : hist'[p] = <<>>
    BY <2>1, <2>2 DEF Linkage
  <2> QED
    BY <2>4, <2>5, <2>6 DEF Linkage
<1>4. ASSUME NEW w \in Workers, Decide(w)
      PROVE  Linkage'
  <2>1. PICK o \in used, cond \in BOOLEAN, at \in Stamps, cfg \in Configs :
           /\ Accepted(at)
           /\ heap' = [heap EXCEPT ![o] = Evaluated(heap[o], cond, at, cfg)]
           /\ hist' = [hist EXCEPT ![o] =
                Append(hist[o], [cond |-> cond, at |-> at, cfg |-> cfg,
                                 fired |-> Fires(heap[o], cond, at, cfg)])]
           /\ call' = [call EXCEPT ![w] = None]
           /\ UNCHANGED <<states, used, dropped>>
    BY <1>4, DecideStep
  <2>2. o \in Objects /\ heap[o] \in TriggerState /\ hist[o] \in Seq(Evaluation)
        /\ Linked(heap[o], hist[o])
    BY DEF TypeOK, Linkage
  <2>3. Linked(Evaluated(heap[o], cond, at, cfg),
               Append(hist[o], [cond |-> cond, at |-> at, cfg |-> cfg,
                                fired |-> Fires(heap[o], cond, at, cfg)]))
    BY <2>1, <2>2, LinkedStep
  <2>4. \A p \in Objects : Linked(heap'[p], hist'[p])
    BY <2>1, <2>2, <2>3 DEF TypeOK, Linkage
  <2>5. \A p \in Objects \ used' : hist'[p] = <<>>
    BY <2>1, <2>2 DEF TypeOK, Linkage
  <2>6. \A v \in Workers : call'[v] # None => Accepted(call'[v].at)
    BY <2>1 DEF TypeOK, Linkage
  <2> QED
    BY <2>4, <2>5, <2>6 DEF Linkage
<1>5. ASSUME NEW r \in Rules, Remove(r)
      PROVE  Linkage'
  BY <1>5 DEF Remove, Linkage
<1>6. CASE UNCHANGED vars
  BY <1>6 DEF vars, Linkage
<1> QED
  BY <1>1, <1>2, <1>3, <1>4, <1>5, <1>6 DEF Next

(* The scalars the code keeps always summarise the history they stand for. *)
THEOREM LinkageCorrect == Spec => []Linkage
<1>1. Init => Linkage
  BY LinkedNew DEF Init, Linkage
<1>2. TypeOK /\ Linkage /\ [Next]_vars => Linkage'
  BY LinkageStep
<1> QED
  BY <1>1, <1>2, TypeCorrect, PTL DEF Spec

(* The trigger manager implements the abstract specification: whatever the *)
(* interleaving of callers, each decision is the one the whole history of  *)
(* the trigger state calls for.                                            *)
THEOREM Implements == Spec => AbstractSpec
<1>1. Init => Abstract!Init
  BY DEF Init, Abstract!Init
<1>2. TypeOK /\ Linkage /\ [Next]_vars => [Abstract!Next]_hist
  <2> SUFFICES ASSUME TypeOK, Linkage, [Next]_vars, hist' # hist
               PROVE  Abstract!Next
    OBVIOUS
  <2>1. PICK w \in Workers : Decide(w)
    BY QuietSteps
  <2>2. PICK o \in used, cond \in BOOLEAN, at \in Stamps, cfg \in Configs :
           /\ Accepted(at)
           /\ heap' = [heap EXCEPT ![o] = Evaluated(heap[o], cond, at, cfg)]
           /\ hist' = [hist EXCEPT ![o] =
                Append(hist[o], [cond |-> cond, at |-> at, cfg |-> cfg,
                                 fired |-> Fires(heap[o], cond, at, cfg)])]
           /\ call' = [call EXCEPT ![w] = None]
           /\ UNCHANGED <<states, used, dropped>>
    BY <2>1, DecideStep
  <2>3. /\ o \in Objects /\ at \in Nat /\ cfg \in TriggerConfig
        /\ heap[o] \in TriggerState /\ hist[o] \in Seq(Evaluation)
        /\ Linked(heap[o], hist[o])
    BY StampsAssumption, ConfigsAssumption DEF TypeOK, Linkage
  <2>4. Fires(heap[o], cond, at, cfg) = Abstract!ShouldFire(hist[o], cond, at, cfg)
    BY <2>3, SameDecision
  <2>5. Abstract!Evaluate(o, cond, at, cfg)
    BY <2>2, <2>4 DEF Abstract!Evaluate
  <2> QED
    BY <2>3, <2>5 DEF Abstract!Next
<1> QED
  BY <1>1, <1>2, TypeCorrect, LinkageCorrect, PTL DEF Spec, AbstractSpec, Abstract!Spec

-----------------------------------------------------------------------------

(* Appending an evaluation that fires only outside the cooldown keeps the  *)
(* firings of a history a cooldown apart.                                  *)
Spaced(h) ==
  \A i, j \in DOMAIN h :
    i < j /\ h[i].fired /\ h[j].fired => h[j].at - h[i].at >= h[j].cfg.cooldown

LEMMA SpacedStep ==
  ASSUME NEW h \in Seq(Evaluation), NEW e \in Evaluation, Spaced(h),
         e.fired => ~Abstract!CoolingDown(h, e.at, e.cfg.cooldown)
  PROVE  Spaced(Append(h, e))
<1> DEFINE g == Append(h, e)
<1>1. /\ DOMAIN h = 1..Len(h) /\ Len(h) \in Nat /\ DOMAIN g = 1..(Len(h) + 1)
      /\ g[Len(h) + 1] = e /\ \A k \in DOMAIN h : g[k] = h[k] /\ h[k] \in Evaluation
  BY AppendFacts
<1>2. /\ \A k \in DOMAIN h : h[k].at \in Nat
      /\ e.at \in Nat /\ e.cfg.cooldown \in Nat
  BY <1>1, StampsAssumption, ConfigsAssumption DEF Evaluation, TriggerConfig
<1> HIDE DEF g
<1> SUFFICES ASSUME NEW i \in DOMAIN g, NEW j \in DOMAIN g, i < j, g[i].fired, g[j].fired
             PROVE  g[j].at - g[i].at >= g[j].cfg.cooldown
  BY DEF Spaced, g
<1>3. i \in DOMAIN h /\ g[i] = h[i]
  BY <1>1
<1>4. CASE j \in DOMAIN h
  BY <1>1, <1>3, <1>4 DEF Spaced
<1>5. CASE j \notin DOMAIN h
  <2>1. g[j] = e
    BY <1>1, <1>5
  <2>2. ~Abstract!CoolingDown(h, e.at, e.cfg.cooldown)
    BY <2>1
  <2>3. ~(e.at - h[i].at < e.cfg.cooldown)
    BY <1>3, <2>2 DEF Abstract!CoolingDown
  <2> QED
    BY <1>2, <1>3, <2>1, <2>3
<1> QED
  BY <1>4, <1>5

(* Two firings of one trigger state are a cooldown apart, however the      *)
(* callers interleave and in whatever order the messages arrive.           *)
THEOREM CooldownHolds == Spec => []CooldownRespected
<1>1. Init => CooldownRespected
  BY DEF Init, CooldownRespected
<1>2. TypeOK /\ Linkage /\ CooldownRespected /\ [Next]_vars => CooldownRespected'
  <2> SUFFICES ASSUME TypeOK, Linkage, CooldownRespected, [Next]_vars
               PROVE  CooldownRespected'
    OBVIOUS
  <2>1. CASE UNCHANGED hist
    BY <2>1 DEF CooldownRespected
  <2>2. ASSUME NEW w \in Workers, Decide(w)
        PROVE  CooldownRespected'
    <3>1. PICK o \in used, cond \in BOOLEAN, at \in Stamps, cfg \in Configs :
             /\ Accepted(at)
             /\ heap' = [heap EXCEPT ![o] = Evaluated(heap[o], cond, at, cfg)]
             /\ hist' = [hist EXCEPT ![o] =
                  Append(hist[o], [cond |-> cond, at |-> at, cfg |-> cfg,
                                   fired |-> Fires(heap[o], cond, at, cfg)])]
             /\ call' = [call EXCEPT ![w] = None]
             /\ UNCHANGED <<states, used, dropped>>
      BY <2>2, DecideStep
    <3> DEFINE f == Fires(heap[o], cond, at, cfg)
               e == [cond |-> cond, at |-> at, cfg |-> cfg, fired |-> f]
    <3>2. /\ o \in Objects /\ at \in Nat /\ cfg \in TriggerConfig
          /\ heap[o] \in TriggerState /\ hist[o] \in Seq(Evaluation)
          /\ Linked(heap[o], hist[o])
      BY StampsAssumption, ConfigsAssumption DEF TypeOK, Linkage
    <3>3. f = Abstract!ShouldFire(hist[o], cond, at, cfg)
      BY <3>2, SameDecision
    <3>4. f => ~Abstract!CoolingDown(hist[o], at, cfg.cooldown)
      BY <3>3 DEF Abstract!ShouldFire
    <3>5. f \in BOOLEAN
      BY <3>2, FiresType
    <3> HIDE DEF f
    <3>6. e \in Evaluation /\ (e.fired => f) /\ e.at = at /\ e.cfg = cfg
      BY <3>5 DEF Evaluation
    <3>7. e.fired => ~Abstract!CoolingDown(hist[o], e.at, e.cfg.cooldown)
      BY <3>4, <3>6
    <3>8. Spaced(hist[o])
      BY <3>2 DEF CooldownRespected, Spaced
    <3>9. hist' = [hist EXCEPT ![o] = Append(hist[o], e)]
      BY <3>1 DEF f
    <3> HIDE DEF e
    <3>10. Spaced(Append(hist[o], e))
      BY <3>2, <3>6, <3>7, <3>8, SpacedStep
    <3>11. \A p \in Objects : Spaced(hist'[p])
      BY <3>2, <3>9, <3>10 DEF TypeOK, CooldownRespected, Spaced
    <3> QED
      BY <3>11 DEF CooldownRespected, Spaced
  <2> QED
    BY <2>1, <2>2, QuietSteps
<1> QED
  BY <1>1, <1>2, TypeCorrect, LinkageCorrect, PTL DEF Spec

-----------------------------------------------------------------------------

(* What FiringsJustified asks of the history of one trigger state.         *)
Justified(h) ==
  \A j \in DOMAIN h : h[j].fired =>
    /\ Sustained(h[j].cfg) =>
         \E i \in 1..(j - 1) :
           /\ h[j].at - h[i].at >= h[j].cfg.sustain
           /\ \A k \in i..(j - 1) : h[k].cond /\ ~h[k].fired
    /\ h[j].cfg.mode # "every" /\ ~Sustained(h[j].cfg) => j = 1 \/ ~h[j - 1].cond

(* An evaluation that fires only when the abstract specification calls for *)
(* it has its reason in the history before it.                             *)
LEMMA JustifiedStep ==
  ASSUME NEW h \in Seq(Evaluation), NEW e \in Evaluation, Justified(h),
         e.fired => Abstract!ShouldFire(h, e.cond, e.at, e.cfg)
  PROVE  Justified(Append(h, e))
<1> DEFINE g == Append(h, e)
           n == Len(h) + 1
<1>1. /\ DOMAIN h = 1..Len(h) /\ Len(h) \in Nat /\ DOMAIN g = 1..n
      /\ g[n] = e /\ \A k \in DOMAIN h : g[k] = h[k] /\ h[k] \in Evaluation
  BY AppendFacts
<1>2. e.cfg \in TriggerConfig
  BY ConfigsAssumption DEF Evaluation
<1> HIDE DEF g
<1> SUFFICES ASSUME NEW j \in DOMAIN g, g[j].fired
             PROVE  /\ Sustained(g[j].cfg) =>
                         \E i \in 1..(j - 1) :
                           /\ g[j].at - g[i].at >= g[j].cfg.sustain
                           /\ \A k \in i..(j - 1) : g[k].cond /\ ~g[k].fired
                    /\ g[j].cfg.mode # "every" /\ ~Sustained(g[j].cfg)
                         => j = 1 \/ ~g[j - 1].cond
  BY DEF Justified, g
<1>3. CASE j \in DOMAIN h
  <2>1. \A k \in 1..j : g[k] = h[k]
    BY <1>1, <1>3
  <2>2. j - 1 \in Nat /\ (j # 1 => j - 1 \in 1..j) /\ j \in 1..j
    BY <1>1, <1>3
  <2>3. g[j] = h[j] /\ (j # 1 => g[j - 1] = h[j - 1])
    BY <2>1, <2>2
  <2>4. ASSUME Sustained(g[j].cfg)
        PROVE  \E i \in 1..(j - 1) :
                 /\ g[j].at - g[i].at >= g[j].cfg.sustain
                 /\ \A k \in i..(j - 1) : g[k].cond /\ ~g[k].fired
    <3>1. PICK i \in 1..(j - 1) :
            /\ h[j].at - h[i].at >= h[j].cfg.sustain
            /\ \A k \in i..(j - 1) : h[k].cond /\ ~h[k].fired
      BY <1>3, <2>3, <2>4 DEF Justified
    <3>2. i \in 1..j /\ \A k \in i..(j - 1) : k \in 1..j
      BY <2>2
    <3>3. \A k \in i..(j - 1) : g[k].cond /\ ~g[k].fired
      BY <2>1, <3>1, <3>2
    <3> QED
      BY <2>1, <2>3, <3>1, <3>2, <3>3
  <2> QED
    BY <1>3, <2>3, <2>4 DEF Justified
<1>4. CASE j \notin DOMAIN h
  <2>1. j = n /\ g[j] = e
    BY <1>1, <1>4
  <2>2. Abstract!ShouldFire(h, e.cond, e.at, e.cfg)
    BY <2>1
  <2>3. ASSUME Sustained(e.cfg)
        PROVE  \E i \in 1..(n - 1) :
                 /\ e.at - g[i].at >= e.cfg.sustain
                 /\ \A k \in i..(n - 1) : g[k].cond /\ ~g[k].fired
    <3>1. PICK i \in DOMAIN h : Abstract!Opens(h, i) /\ e.at - h[i].at >= e.cfg.sustain
      BY <2>2, <2>3 DEF Sustained, Abstract!ShouldFire, Abstract!HeldFor
    <3>2. \A k \in DOMAIN h : k >= i => h[k].cond /\ ~h[k].fired
      BY <3>1 DEF Abstract!Opens, Abstract!InStreak
    <3>3. i \in 1..(n - 1) /\ g[i] = h[i]
      BY <1>1
    <3>4. \A k \in i..(n - 1) : k \in DOMAIN h /\ k >= i
      BY <1>1
    <3>5. \A k \in i..(n - 1) : g[k].cond /\ ~g[k].fired
      BY <1>1, <3>2, <3>4
    <3> QED
      BY <3>1, <3>3, <3>5
  <2>4. ASSUME e.cfg.mode # "every", ~Sustained(e.cfg)
        PROVE  n = 1 \/ ~g[n - 1].cond
    <3>1. ~Abstract!WasTrue(h)
      BY <1>2, <2>2, <2>4 DEF Sustained, TriggerConfig, Abstract!ShouldFire
    <3>2. h = <<>> \/ ~h[Len(h)].cond
      BY <3>1 DEF Abstract!WasTrue
    <3>3. h = <<>> => n = 1
      OBVIOUS
    <3>4. n # 1 => n - 1 = Len(h) /\ Len(h) \in DOMAIN h
      BY <1>1
    <3> QED
      BY <1>1, <3>2, <3>3, <3>4
  <2> QED
    BY <2>1, <2>3, <2>4
<1> QED
  BY <1>3, <1>4

(* Each firing has its reason in the history: a sustained one a streak of  *)
(* true evaluations at least that long, a rising one an edge.              *)
THEOREM FiringsJustifiedHolds == Spec => []FiringsJustified
<1> DEFINE AllJustified == \A o \in Objects : Justified(hist[o])
<1>1. Init => AllJustified
  BY DEF Init, Justified
<1>2. TypeOK /\ Linkage /\ AllJustified /\ [Next]_vars => AllJustified'
  <2> SUFFICES ASSUME TypeOK, Linkage, AllJustified, [Next]_vars
               PROVE  AllJustified'
    OBVIOUS
  <2>1. CASE UNCHANGED hist
    BY <2>1 DEF Justified
  <2>2. ASSUME NEW w \in Workers, Decide(w)
        PROVE  AllJustified'
    <3>1. PICK o \in used, cond \in BOOLEAN, at \in Stamps, cfg \in Configs :
             /\ Accepted(at)
             /\ heap' = [heap EXCEPT ![o] = Evaluated(heap[o], cond, at, cfg)]
             /\ hist' = [hist EXCEPT ![o] =
                  Append(hist[o], [cond |-> cond, at |-> at, cfg |-> cfg,
                                   fired |-> Fires(heap[o], cond, at, cfg)])]
             /\ call' = [call EXCEPT ![w] = None]
             /\ UNCHANGED <<states, used, dropped>>
      BY <2>2, DecideStep
    <3> DEFINE f == Fires(heap[o], cond, at, cfg)
               e == [cond |-> cond, at |-> at, cfg |-> cfg, fired |-> f]
    <3>2. /\ o \in Objects /\ at \in Nat /\ cfg \in TriggerConfig
          /\ heap[o] \in TriggerState /\ hist[o] \in Seq(Evaluation)
          /\ Linked(heap[o], hist[o])
      BY StampsAssumption, ConfigsAssumption DEF TypeOK, Linkage
    <3>3. f = Abstract!ShouldFire(hist[o], cond, at, cfg)
      BY <3>2, SameDecision
    <3>4. f \in BOOLEAN
      BY <3>2, FiresType
    <3> HIDE DEF f
    <3>5. e \in Evaluation /\ e.fired = f /\ e.cond = cond /\ e.at = at /\ e.cfg = cfg
      BY <3>4 DEF Evaluation
    <3>6. e.fired => Abstract!ShouldFire(hist[o], e.cond, e.at, e.cfg)
      BY <3>3, <3>5
    <3>7. hist' = [hist EXCEPT ![o] = Append(hist[o], e)]
      BY <3>1 DEF f
    <3> HIDE DEF e
    <3>8. Justified(Append(hist[o], e))
      BY <3>2, <3>5, <3>6, JustifiedStep
    <3>9. hist' \in [Objects -> Seq(Evaluation)]
          /\ \A p \in Objects : hist'[p] = IF p = o THEN Append(hist[o], e) ELSE hist[p]
      BY <3>2, <3>5, <3>7, AppendFacts DEF TypeOK
    <3>10. \A p \in Objects : Justified(hist'[p])
      BY <3>8, <3>9
    <3> QED
      BY <3>10 DEF Justified
  <2> QED
    BY <2>1, <2>2, QuietSteps
<1>3. AllJustified => FiringsJustified
  <2> SUFFICES ASSUME AllJustified
               PROVE  SustainedContinuously /\ RisingOnEdge
    BY DEF FiringsJustified
  <2>1. SustainedContinuously
    BY DEF SustainedContinuously, Justified
  <2>2. RisingOnEdge
    BY DEF RisingOnEdge, Justified
  <2> QED
    BY <2>1, <2>2
<1> HIDE DEF AllJustified
<1> QED
  BY <1>1, <1>2, <1>3, TypeCorrect, LinkageCorrect, PTL DEF Spec

-----------------------------------------------------------------------------

(* The double-checked creation gives a rule one trigger state at a time:   *)
(* every allocated state that Remove has not taken out is in the map, under*)
(* exactly one rule.                                                       *)
THEOREM OneLiveStateHolds == Spec => []OneLiveState
<1>1. Init => OneLiveState
  BY DEF Init, OneLiveState
<1>2. TypeOK /\ OneLiveState /\ [Next]_vars => OneLiveState'
  <2> SUFFICES ASSUME TypeOK, OneLiveState, [Next]_vars
               PROVE  OneLiveState'
    OBVIOUS
  <2>1. CASE UNCHANGED <<states, used, dropped>>
    BY <2>1 DEF OneLiveState
  <2>2. ASSUME NEW w \in Workers, CreateNew(w)
        PROVE  OneLiveState'
    <3>1. PICK o \in Objects \ used :
            /\ states' = [states EXCEPT ![call[w].rule] = o]
            /\ used' = used \union {o}
      BY <2>2 DEF CreateNew
    <3>2. call[w].rule \in Rules /\ states[call[w].rule] = None /\ dropped' = dropped
      BY <2>2 DEF CreateNew, TypeOK, Call
    <3>3. \A q \in Rules : states[q] # o
      BY <3>1, NoneAssumption DEF TypeOK
    <3>4. ASSUME NEW p \in used' \ dropped'
          PROVE  \E r \in Rules : states'[r] = p /\ \A q \in Rules \ {r} : states'[q] # p
      <4>1. CASE p = o
        BY <3>1, <3>2, <3>3, <4>1 DEF TypeOK
      <4>2. CASE p # o
        <5>1. PICK r \in Rules : states[r] = p /\ \A q \in Rules \ {r} : states[q] # p
          BY <3>1, <3>2, <3>4, <4>2 DEF OneLiveState
        <5>2. r # call[w].rule
          BY <3>1, <3>2, <3>4, <5>1, NoneAssumption DEF TypeOK
        <5> QED
          BY <3>1, <3>2, <4>2, <5>1, <5>2 DEF TypeOK
      <4> QED
        BY <4>1, <4>2
    <3> QED
      BY <3>4 DEF OneLiveState
  <2>3. ASSUME NEW r \in Rules, Remove(r)
        PROVE  OneLiveState'
    <3>1. /\ states' = [states EXCEPT ![r] = None] /\ used' = used
          /\ dropped' = dropped \union {states[r]}
      BY <2>3 DEF Remove
    <3>2. ASSUME NEW p \in used' \ dropped'
          PROVE  \E s \in Rules : states'[s] = p /\ \A q \in Rules \ {s} : states'[q] # p
      <4>1. PICK s \in Rules : states[s] = p /\ \A q \in Rules \ {s} : states[q] # p
        BY <3>1, <3>2 DEF OneLiveState
      <4>2. s # r /\ p # None
        BY <3>1, <3>2, <4>1, NoneAssumption DEF TypeOK
      <4> QED
        BY <3>1, <4>1, <4>2 DEF TypeOK
    <3> QED
      BY <3>2 DEF OneLiveState
  <2> QED
    BY <2>1, <2>2, <2>3 DEF Next, vars, Lookup, CreateFound, Decide
<1> QED
  BY <1>1, <1>2, TypeCorrect, PTL DEF Spec

=============================================================================
