----------------------------- MODULE MemoryProofs -----------------------------
(***************************************************************************)
(* Proofs about what the engine keeps in memory, for any values of the     *)
(* constants: the memory of a rule (RuleMemory), instances of rules        *)
(* (RuleInstances), windows of states (StateWindow), definitions of        *)
(* metrics (FactRegistry) and entities (EntityStore); and, with what is    *)
(* proved of EventPath and SustainPath, about their composition MCMemory.  *)
(***************************************************************************)
EXTENDS
  MCMemory, EventPathProofs, ObservationStoreProofs, FiniteSetTheorems, SequenceTheorems,
  WellFoundedInduction, TLAPS

-----------------------------------------------------------------------------

(* The memory of a rule.  Unless a deletion has met an evaluation, all that*)
(* is there was made for the active rule, the evaluations under way        *)
(* included: what they are going to leave behind is its own, too.          *)
EvaluationsOwn ==
  \A w \in Evaluators : eval[w] # NoRule =>
    /\ active # NoRule
    /\ eval[w].version.generation = active.generation
    /\ ~replaced => eval[w].version.duration = active.duration

WindowOwn ==
  ruleWindow # NoRule =>
    /\ active # NoRule
    /\ ruleWindow.entries \subseteq {active.generation}
    /\ ~replaced => ruleWindow.duration = active.duration

TriggerOwn ==
  trigger # NoRule =>
    /\ active # NoRule \/ removing
    /\ active # NoRule => trigger \subseteq {active.generation}

RuleInv ==
  /\ RuleTypeOK
  /\ removing => active = NoRule
  /\ ~overlapped => EvaluationsOwn /\ WindowOwn /\ TriggerOwn

LEMMA Widened ==
  ASSUME NEW found \in RuleWindow, NEW g \in Generations
  PROVE  LET wider == [found EXCEPT !.entries = @ \union {g}]
         IN  /\ wider \in RuleWindow
             /\ wider.entries = found.entries \union {g}
             /\ wider.duration = found.duration
  BY DEF RuleWindow

LEMMA RuleTypes ==
  ASSUME RuleTypeOK, [RuleNext]_ruleVars
  PROVE  RuleTypeOK'
<1> USE DEF RuleTypeOK
<1>1. ASSUME NEW duration \in RuleDurations, CreateRule(duration)
      PROVE  RuleTypeOK'
  <2>1. generation' \in 1..MaxGeneration /\ active' \in Version
    BY <1>1, GenerationAssumption DEF CreateRule, Version, Generations
  <2>2. removing' \in BOOLEAN /\ overlapped' \in BOOLEAN /\ replaced' \in BOOLEAN
    BY <1>1 DEF CreateRule
  <2>3. UNCHANGED <<ruleWindow, trigger, eval>> /\ generation' \in 0..MaxGeneration
    BY <1>1, <2>1, GenerationAssumption DEF CreateRule
  <2> QED
    BY <2>1, <2>2, <2>3
<1>2. ASSUME NEW duration \in RuleDurations, ReplaceRule(duration)
      PROVE  RuleTypeOK'
  BY <1>2, NoRuleAssumption DEF ReplaceRule, Version
<1>3. CASE UnregisterRule
  BY <1>3 DEF UnregisterRule, ruleHistory
<1>4. CASE RemoveTrigger
  BY <1>4 DEF RemoveTrigger, ruleHistory
<1>5. ASSUME NEW w \in Evaluators, FindRule(w)
      PROVE  RuleTypeOK'
  <2>1. [version |-> active, pc |-> "add"] \in Evaluation
    BY <1>5 DEF FindRule, Evaluation
  <2> QED
    BY <1>5, <2>1 DEF FindRule, ruleHistory
<1>6. ASSUME NEW w \in Evaluators, eval[w] # NoRule
      PROVE  /\ eval[w].version \in Version
             /\ eval[w].version.generation \in Generations
             /\ GetOrCreate(eval[w].version) \in RuleWindow
             /\ \A pc \in {"judge", "trigger"} :
                  [eval EXCEPT ![w].pc = pc] \in [Evaluators -> Evaluation \union {NoRule}]
  <2>1. eval[w] \in Evaluation
    BY <1>6
  <2> QED
    BY <1>6, <2>1 DEF GetOrCreate, Evaluation, Version, RuleWindow
<1>7. ASSUME NEW w \in Evaluators, AddToRuleWindow(w)
      PROVE  RuleTypeOK'
  <2> DEFINE found == GetOrCreate(eval[w].version)
  <2>1. /\ found \in RuleWindow
        /\ ruleWindow' = [found EXCEPT !.entries = @ \union {eval[w].version.generation}]
        /\ eval' = [eval EXCEPT ![w].pc = "judge"]
        /\ UNCHANGED <<active, trigger, removing, generation, overlapped, replaced>>
    BY <1>6, <1>7 DEF AddToRuleWindow, Stands, ruleHistory
  <2>2. ruleWindow' \in RuleWindow
    <3>1. eval[w].version.generation \in Generations
      BY <1>6, <1>7 DEF AddToRuleWindow, Stands
    <3> HIDE DEF found, RuleTypeOK
    <3> QED
      BY <2>1, <3>1, Widened
  <2> QED
    BY <1>6, <1>7, <2>1, <2>2 DEF AddToRuleWindow, Stands
<1>8. ASSUME NEW w \in Evaluators, Count(w)
      PROVE  RuleTypeOK'
  BY <1>6, <1>8 DEF Count, Stands, ruleHistory
<1>9. ASSUME NEW w \in Evaluators, ShouldTrigger(w)
      PROVE  RuleTypeOK'
  BY <1>6, <1>9 DEF ShouldTrigger, Stands, ruleHistory
<1>10. CASE UNCHANGED ruleVars
  BY <1>10 DEF ruleVars, ruleHistory
<1> QED
  BY <1>1, <1>2, <1>3, <1>4, <1>5, <1>7, <1>8, <1>9, <1>10 DEF RuleNext

LEMMA RuleInvHolds == RuleSpec => []RuleInv
<1>1. RuleInit => RuleInv
  <2> SUFFICES ASSUME RuleInit PROVE RuleInv
    OBVIOUS
  <2>1. RuleTypeOK
    <3>1. removing \in BOOLEAN /\ overlapped \in BOOLEAN /\ replaced \in BOOLEAN
      BY DEF RuleInit
    <3>2. eval \in [Evaluators -> Evaluation \union {NoRule}]
      BY DEF RuleInit
    <3>3. generation \in 0..MaxGeneration
      BY GenerationAssumption DEF RuleInit
    <3> QED
      BY <3>1, <3>2, <3>3 DEF RuleInit, RuleTypeOK
  <2>2. EvaluationsOwn /\ WindowOwn /\ TriggerOwn
    BY DEF RuleInit, EvaluationsOwn, WindowOwn, TriggerOwn
  <2>3. active = NoRule
    BY DEF RuleInit
  <2> QED
    BY <2>1, <2>2, <2>3 DEF RuleInv
<1>2. ASSUME RuleInv, [RuleNext]_ruleVars
      PROVE  RuleInv'
  <2> USE <1>2 DEF RuleInv
  <2>1. RuleTypeOK'
    BY RuleTypes
  <2>2. ASSUME NEW duration \in RuleDurations, CreateRule(duration)
        PROVE  RuleInv'
    BY <2>1, <2>2 DEF CreateRule, EvaluationsOwn, WindowOwn, TriggerOwn
  <2>3. ASSUME NEW duration \in RuleDurations, ReplaceRule(duration)
        PROVE  RuleInv'
    <3>1. /\ active \in Version /\ active # NoRule /\ active' # NoRule
          /\ active'.generation = active.generation /\ active'.duration = duration
          /\ ~replaced' => ~replaced /\ active'.duration = active.duration
          /\ UNCHANGED <<ruleWindow, trigger, removing, eval, generation, overlapped>>
      BY <2>1, <2>3, NoRuleAssumption DEF ReplaceRule, RuleTypeOK, Version
    <3> QED
      BY <2>1, <3>1 DEF EvaluationsOwn, WindowOwn, TriggerOwn
  <2>4. CASE UnregisterRule
    BY <2>1, <2>4
       DEF UnregisterRule, NobodyEvaluates, EvaluationsOwn, WindowOwn, TriggerOwn
  <2>5. CASE RemoveTrigger
    BY <2>1, <2>5 DEF RemoveTrigger, ruleHistory, EvaluationsOwn, WindowOwn, TriggerOwn
  <2>6. ASSUME NEW w \in Evaluators, FindRule(w)
        PROVE  RuleInv'
    BY <2>1, <2>6 DEF FindRule, ruleHistory, EvaluationsOwn, WindowOwn, TriggerOwn, RuleTypeOK
  <2>7. ASSUME NEW w \in Evaluators, eval[w] # NoRule
        PROVE  LET found == GetOrCreate(eval[w].version)
               IN  /\ found \in RuleWindow
                   /\ ~overlapped => /\ found.entries \subseteq {active.generation}
                                     /\ ~replaced => found.duration = active.duration
    <3>1. eval[w] \in Evaluation
      BY <2>7 DEF RuleTypeOK
    <3> QED
      BY <2>7, <3>1
         DEF GetOrCreate, RuleTypeOK, Evaluation, Version, RuleWindow, EvaluationsOwn, WindowOwn
  <2>8. ASSUME NEW w \in Evaluators, eval[w] # NoRule, NEW pc \in {"judge", "trigger"},
               eval' = [eval EXCEPT ![w].pc = pc],
               UNCHANGED <<active, overlapped, replaced>>
        PROVE  EvaluationsOwn => EvaluationsOwn'
    <3>1. \A v \in Evaluators : /\ eval'[v] = NoRule <=> eval[v] = NoRule
                                /\ eval[v] # NoRule => eval'[v].version = eval[v].version
      BY <2>1, <2>8, NoRuleAssumption DEF RuleTypeOK, Evaluation
    <3> QED
      BY <2>8, <3>1 DEF EvaluationsOwn
  <2>9. ASSUME NEW w \in Evaluators, AddToRuleWindow(w)
        PROVE  RuleInv'
    <3> DEFINE found == GetOrCreate(eval[w].version)
    <3>1. /\ eval[w] # NoRule
          /\ ruleWindow' = [found EXCEPT !.entries = @ \union {eval[w].version.generation}]
          /\ eval' = [eval EXCEPT ![w].pc = "judge"]
          /\ UNCHANGED <<active, trigger, removing, overlapped, replaced>>
      BY <2>9 DEF AddToRuleWindow, Stands, ruleHistory
    <3>2. ~overlapped => WindowOwn'
      BY <2>7, <3>1 DEF WindowOwn, EvaluationsOwn, RuleWindow
    <3> QED
      BY <2>1, <2>8, <3>1, <3>2 DEF TriggerOwn
  <2>10. ASSUME NEW w \in Evaluators, Count(w)
        PROVE  RuleInv'
    <3>1. /\ eval[w] # NoRule
          /\ ruleWindow' = GetOrCreate(eval[w].version)
          /\ eval' = [eval EXCEPT ![w].pc = "trigger"]
          /\ UNCHANGED <<active, trigger, removing, overlapped, replaced>>
      BY <2>10 DEF Count, Stands, ruleHistory
    <3>2. ~overlapped => WindowOwn'
      BY <2>7, <3>1 DEF WindowOwn, EvaluationsOwn
    <3> QED
      BY <2>1, <2>8, <3>1, <3>2 DEF TriggerOwn
  <2>11. ASSUME NEW w \in Evaluators, ShouldTrigger(w)
        PROVE  RuleInv'
    <3>1. /\ eval[w] # NoRule
          /\ trigger' = (IF trigger = NoRule THEN {} ELSE trigger)
                          \union {eval[w].version.generation}
          /\ eval' = [eval EXCEPT ![w] = NoRule]
          /\ UNCHANGED <<active, ruleWindow, removing, overlapped, replaced>>
      BY <2>11 DEF ShouldTrigger, Stands, ruleHistory
    <3>2. ~overlapped => EvaluationsOwn' /\ WindowOwn'
      BY <3>1 DEF EvaluationsOwn, WindowOwn, RuleTypeOK
    <3>3. ~overlapped => TriggerOwn'
      BY <3>1 DEF EvaluationsOwn, TriggerOwn
    <3> QED
      BY <2>1, <3>1, <3>2, <3>3
  <2>12. CASE UNCHANGED ruleVars
    BY <2>1, <2>12 DEF ruleVars, ruleHistory, EvaluationsOwn, WindowOwn, TriggerOwn
  <2> QED
    BY <2>2, <2>3, <2>4, <2>5, <2>6, <2>9, <2>10, <2>11, <2>12 DEF RuleNext
<1> QED
  BY <1>1, <1>2, PTL DEF RuleSpec

(* A rule remembers nothing of an earlier one of its id, with any number of*)
(* evaluations at a time and of rules that follow each other.              *)
THEOREM OwnMemoryHolds == RuleSpec => []OwnMemory
<1>1. RuleInv => OwnMemory
  BY DEF RuleInv, OwnMemory, WindowOwn, TriggerOwn
<1> QED
  BY <1>1, RuleInvHolds, PTL

-----------------------------------------------------------------------------

(* Instances of rules.  Addresses in hand and completed ones are in use, so*)
(* that none is given to another instance; and what is in the map had not  *)
(* passed its deadline when the cleanup ran last.                          *)
InUse ==
  /\ \A p \in Holders : hand[p] # NoInstance => cell[hand[p]] # NoInstance
  /\ \A c \in completed : cell[c] # NoInstance

HandsShared ==
  \A p \in Holders :
    hand[p] # NoInstance /\ Timely(cell[hand[p]], clock) /\ hand[p] \notin completed
      => instances[cell[hand[p]].key] = hand[p]

Swept == \A k \in MatchKeys : instances[k] # NoInstance => Timely(cell[instances[k]], cleaned)

InstanceInv == InstanceTypeOK /\ InUse /\ HandsShared /\ Swept

LEMMA InstanceInvHolds == InstanceSpec => []InstanceInv
<1> USE DeadlineAssumption DEF Timely
<1>1. InstanceInit => InstanceInv
  BY DEF InstanceInit, InstanceInv, InstanceTypeOK, InUse, HandsShared, Swept
<1>2. ASSUME InstanceInv, [InstanceNext]_instanceVars
      PROVE  InstanceInv'
  <2> USE <1>2 DEF InstanceInv
  <2>1. \A c \in Cells : cell[c] # NoInstance => /\ cell[c].deadline \in Nat
                                                 /\ cell[c].key \in MatchKeys
    BY DEF InstanceTypeOK, Instance
  <2>2. ASSUME NEW p \in Holders, NEW k \in MatchKeys, CreateInstance(p, k)
        PROVE  InstanceInv'
    <3>0. PICK deadline \in {0} \union {clock + l : l \in Lifetimes} :
            \E c \in Cells :
              /\ cell[c] = NoInstance
              /\ instances' = [instances EXCEPT ![k] = c]
              /\ cell' = [cell EXCEPT ![c] = [key |-> k, deadline |-> deadline]]
              /\ hand' = [hand EXCEPT ![p] = c]
              /\ UNCHANGED <<clock, cleaned, completed>>
      BY <2>2 DEF CreateInstance
    <3> DEFINE new == [key |-> k, deadline |-> deadline]
    <3>1. PICK c \in Cells :
            /\ cell[c] = NoInstance
            /\ instances' = [instances EXCEPT ![k] = c]
            /\ cell' = [cell EXCEPT ![c] = new]
            /\ hand' = [hand EXCEPT ![p] = c]
            /\ UNCHANGED <<clock, cleaned, completed>>
      BY <3>0
    <3>2. /\ new \in Instance /\ new # NoInstance /\ new.key = k
          /\ new.deadline \in Nat /\ (new.deadline = 0 \/ new.deadline > clock)
      BY DEF InstanceTypeOK, Instance
    <3>3. /\ \A q \in MatchKeys : instances[q] # c
          /\ \A q \in Holders : hand[q] # c
          /\ c \notin completed
      BY <3>1 DEF InstanceTypeOK, InUse
    <3> HIDE DEF new
    <3>4. InstanceTypeOK'
      BY <3>1, <3>2, <3>3 DEF InstanceTypeOK
    <3>5. InUse'
      BY <3>1, <3>2, <3>3 DEF InUse, InstanceTypeOK
    <3>6. HandsShared'
      BY <2>1, <2>2, <3>1, <3>2, <3>3 DEF HandsShared, InstanceTypeOK, CreateInstance, InUse
    <3>7. ASSUME NEW q \in MatchKeys, instances'[q] # NoInstance
          PROVE  Timely(cell'[instances'[q]], cleaned)
      <4>1. CASE q = k
        <5>1. instances'[q] = c /\ cell'[c] = new
          BY <3>1, <4>1 DEF InstanceTypeOK
        <5> QED
          BY <2>1, <3>2, <5>1 DEF InstanceTypeOK
      <4>2. CASE q # k
        <5>1. instances'[q] = instances[q] /\ instances[q] \in Cells
          BY <3>1, <3>7, <4>2 DEF InstanceTypeOK
        <5>2. cell'[instances[q]] = cell[instances[q]]
          BY <3>1, <3>3, <5>1 DEF InstanceTypeOK
        <5> QED
          BY <3>7, <5>1, <5>2 DEF Swept
      <4> QED
        BY <4>1, <4>2
    <3>8. Swept'
      BY <3>1, <3>7 DEF Swept
    <3> QED
      BY <3>4, <3>5, <3>6, <3>8
  <2>3. ASSUME NEW p \in Holders, NEW k \in MatchKeys, FindInstance(p, k)
        PROVE  InstanceInv'
    BY <2>3 DEF FindInstance, InstanceTypeOK, InUse, HandsShared, Swept
  <2>4. ASSUME NEW p \in Holders, Complete(p)
        PROVE  InstanceInv'
    <3> DEFINE k == cell[hand[p]].key
    <3>1. /\ hand[p] # NoInstance
          /\ instances' = [instances EXCEPT ![k] = NoInstance]
          /\ completed' = completed \union ({instances[k]} \ {NoInstance})
          /\ hand' = [hand EXCEPT ![p] = NoInstance]
          /\ UNCHANGED <<cell, clock, cleaned>>
      BY <2>4 DEF Complete
    <3>2. k \in MatchKeys
      BY <2>1, <3>1 DEF InUse, InstanceTypeOK
    <3> HIDE DEF k
    <3>3. InstanceTypeOK'
      BY <3>1, <3>2 DEF InstanceTypeOK
    <3>4. InUse' /\ Swept'
      BY <3>1, <3>2 DEF InUse, Swept, InstanceTypeOK
    <3>5. HandsShared'
      BY <3>1, <3>2 DEF HandsShared, InstanceTypeOK
    <3> QED
      BY <3>3, <3>4, <3>5
  <2>5. ASSUME NEW p \in Holders, DropInstance(p)
        PROVE  InstanceInv'
    BY <2>5 DEF DropInstance, InstanceTypeOK, InUse, HandsShared, Swept
  <2>6. CASE CleanupInstances
    <3>1. InstanceTypeOK'
      BY <2>6 DEF CleanupInstances, InstanceTypeOK
    <3>2. InUse'
      BY <2>6 DEF CleanupInstances, InUse
    <3>3. HandsShared'
      BY <2>1, <2>6 DEF CleanupInstances, Overdue, HandsShared, InstanceTypeOK, InUse
    <3>4. Swept'
      BY <2>1, <2>6 DEF CleanupInstances, Overdue, Swept, InstanceTypeOK, InUse
    <3> QED
      BY <3>1, <3>2, <3>3, <3>4
  <2>7. CASE InstanceTick
    BY <2>1, <2>7 DEF InstanceTick, InstanceTypeOK, InUse, HandsShared, Swept
  <2>8. ASSUME NEW c \in Cells, FreeInstance(c)
        PROVE  InstanceInv'
    BY <2>8 DEF FreeInstance, InstanceTypeOK, InUse, HandsShared, Swept
  <2>9. CASE UNCHANGED instanceVars
    BY <2>9 DEF instanceVars, InstanceTypeOK, InUse, HandsShared, Swept
  <2> QED
    BY <2>2, <2>3, <2>4, <2>5, <2>6, <2>7, <2>8, <2>9 DEF InstanceNext
<1> QED
  BY <1>1, <1>2, PTL DEF InstanceSpec

(* Callers of one key share an instance while it is good, and none that is *)
(* past its deadline is given out once the cleanup has come by, with any   *)
(* number of callers, keys, addresses and lifetimes, and however late the  *)
(* cleanup is.                                                             *)
THEOREM HeldIsCurrentHolds == InstanceSpec => []HeldIsCurrent
<1>1. InstanceInv => HeldIsCurrent
  <2> SUFFICES ASSUME InstanceInv PROVE HeldIsCurrent
    OBVIOUS
  <2> QED
    BY DEF InstanceInv, HandsShared, Swept, HeldIsCurrent
<1> QED
  BY <1>1, InstanceInvHolds, PTL

-----------------------------------------------------------------------------

(* Windows of states.  The window is the part of the history not older than*)
(* Span before the newest instant, and that instant has a first snapshot.  *)
IsFirst(i) ==
  /\ i \in DOMAIN added
  /\ \A j \in DOMAIN added : /\ added[j].emittedAt <= added[i].emittedAt
                             /\ added[j].emittedAt = added[i].emittedAt => i <= j

WindowInv ==
  /\ added \in Seq(Entry)
  /\ latest \in Nat
  /\ \A i \in DOMAIN added : added[i].emittedAt <= latest
  /\ added = <<>> => latest = 0
  /\ added # <<>> => \E i \in DOMAIN added : IsFirst(i) /\ added[i].emittedAt = latest
  /\ DOMAIN entries = {i \in DOMAIN added : added[i].emittedAt >= latest - Span}
  /\ \A i \in DOMAIN entries : entries[i] = added[i]

LEMMA SnapshotDated ==
  /\ \A entry \in Entry : entry.emittedAt \in Nat
  /\ added \in Seq(Entry) => \A i \in DOMAIN added : added[i].emittedAt \in Nat
<1>1. \A entry \in Entry : entry.emittedAt \in Instants
  BY DEF Entry
<1>2. \A entry \in Entry : entry.emittedAt \in Nat
  BY <1>1, SpanAssumption
<1>3. added \in Seq(Entry) => \A i \in DOMAIN added : added[i] \in Entry
  OBVIOUS
<1> QED
  BY <1>2, <1>3

LEMMA WindowInvHolds == StateSpec => []WindowInv
<1> USE SpanAssumption
<1>1. StateInit => WindowInv
  BY DEF StateInit, WindowInv
<1>2. ASSUME WindowInv, [StateNext]_stateVars
      PROVE  WindowInv'
  <2> USE <1>2 DEF WindowInv
  <2>1. ASSUME NEW entry \in Entry, AddSnapshot(entry)
        PROVE  WindowInv'
    <3> DEFINE found == Appended(entries, entry)
    <3>0. PICK n \in Nat : n = Len(added) + 1
      OBVIOUS
    <3>1. /\ added' = Append(added, entry)
          /\ latest' = IF entry.emittedAt > latest THEN entry.emittedAt ELSE latest
          /\ entries' = Kept(found, latest' - Span)
      BY <2>1 DEF AddSnapshot
    <3>2. entry.emittedAt \in Nat /\ \A i \in DOMAIN added : added[i].emittedAt \in Nat
      BY SnapshotDated DEF WindowInv
    <3>3. /\ added' \in Seq(Entry) /\ DOMAIN added' = DOMAIN added \union {n}
          /\ n \notin DOMAIN added /\ \A i \in DOMAIN added : i < n
          /\ added'[n] = entry /\ \A i \in DOMAIN added : added'[i] = added[i]
      BY <3>0, <3>1
    <3>4. /\ latest' \in Nat /\ latest' >= latest /\ latest' >= entry.emittedAt
          /\ latest' = latest \/ latest' = entry.emittedAt
      BY <3>1, <3>2
    <3>5. /\ DOMAIN found = DOMAIN entries \union {n}
          /\ found[n] = entry
          /\ \A i \in DOMAIN entries : i # n /\ found[i] = added[i]
      BY <3>0, <3>3 DEF Appended
    <3> HIDE DEF found
    <3>6. /\ DOMAIN entries' = {i \in DOMAIN found : found[i].emittedAt >= latest' - Span}
          /\ \A i \in DOMAIN entries' : entries'[i] = found[i]
      BY <3>1 DEF Kept
    <3>7. \A i \in DOMAIN entries' : entries'[i] = added'[i]
      BY <3>3, <3>5, <3>6
    <3>8. DOMAIN entries' = {i \in DOMAIN added' : added'[i].emittedAt >= latest' - Span}
      <4>1. ASSUME NEW i \in DOMAIN added, added[i].emittedAt >= latest' - Span
            PROVE  i \in DOMAIN entries
        BY <3>2, <3>4, <4>1
      <4>2. ASSUME NEW i \in DOMAIN added'
            PROVE  i \in DOMAIN entries' <=> added'[i].emittedAt >= latest' - Span
        <5>1. CASE i = n
          BY <3>3, <3>5, <3>6, <5>1
        <5>2. CASE i \in DOMAIN added
          BY <3>3, <3>5, <3>6, <4>1, <5>2
        <5> QED
          BY <3>3, <5>1, <5>2
      <4> QED
        BY <3>3, <3>5, <3>6, <4>2
    <3>9. \A i \in DOMAIN added' : added'[i].emittedAt <= latest'
      BY <3>2, <3>3, <3>4
    <3>10. \E i \in DOMAIN added' : IsFirst(i)' /\ added'[i].emittedAt = latest'
      <4>1. CASE entry.emittedAt > latest
        <5>1. latest' = entry.emittedAt /\ \A i \in DOMAIN added : added[i].emittedAt < latest'
          BY <3>1, <3>2, <4>1
        <5>2. IsFirst(n)'
          BY <3>2, <3>3, <3>9, <5>1 DEF IsFirst
        <5> QED
          BY <3>3, <5>1, <5>2
      <4>2. CASE ~(entry.emittedAt > latest) /\ added # <<>>
        <5>1. PICK i \in DOMAIN added : IsFirst(i) /\ added[i].emittedAt = latest
          BY <4>2
        <5>2. latest' = latest
          BY <3>1, <4>2
        <5>3. IsFirst(i)'
          BY <3>2, <3>3, <3>9, <5>1, <5>2 DEF IsFirst
        <5> QED
          BY <3>3, <5>1, <5>2, <5>3
      <4>3. CASE ~(entry.emittedAt > latest) /\ added = <<>>
        <5>1. added'[n].emittedAt = latest' /\ DOMAIN added' = {n}
          BY <3>1, <3>2, <3>3, <4>3
        <5>2. IsFirst(n)'
          <6>1. \A j \in DOMAIN added' : j = n /\ j <= n /\ added'[j].emittedAt <= latest'
            BY <3>0, <3>9, <5>1
          <6> QED
            BY <5>1, <6>1 DEF IsFirst
        <5> QED
          BY <5>1, <5>2
      <4> QED
        BY <4>1, <4>2, <4>3
    <3>11. added' # <<>>
      BY <3>3
    <3> QED
      BY <3>3, <3>4, <3>7, <3>8, <3>9, <3>10, <3>11
  <2>2. CASE UNCHANGED stateVars
    BY <2>2 DEF stateVars, IsFirst
  <2> QED
    BY <2>1, <2>2 DEF StateNext
<1> QED
  BY <1>1, <1>2, PTL DEF StateSpec

(* The window is well-typed: its newest instant is that of a snapshot.     *)
THEOREM StateTypeCorrect == StateSpec => []StateTypeOK
<1>1. WindowInv => StateTypeOK
  <2> SUFFICES ASSUME WindowInv
               PROVE  StateTypeOK
    OBVIOUS
  <2>1. \A i \in DOMAIN added : added[i] \in Entry
    BY DEF WindowInv
  <2>2. \A entry \in Entry : entry.emittedAt \in Instants
    BY DEF Entry
  <2>3. latest \in Instants \union {0}
    BY <2>1, <2>2 DEF WindowInv
  <2>4. QED
    BY <2>1, <2>3 DEF WindowInv, StateTypeOK
<1>2. QED
  BY <1>1, WindowInvHolds, PTL

(* What is read of a window of states is what an observer of all snapshots *)
(* would read, however many there are and in whatever order they came.     *)
THEOREM WindowReadsHolds == StateSpec => []WindowReads
<1> SUFFICES ASSUME WindowInv PROVE WindowReads
  BY WindowInvHolds, PTL
<1> USE SpanAssumption DEF WindowInv
<1>1. \A i \in DOMAIN added : added[i].emittedAt \in Nat
  BY SnapshotDated
<1>2. ASSUME NEW first \in DOMAIN added, IsFirst(first), added[first].emittedAt = latest
      PROVE  /\ Recent = DOMAIN entries
             /\ FirstOfNewest = added[first]
             /\ Span >= 0 => entries # <<>> /\ LatestEntry(entries) = added[first]
  <2>1. Tops = {i \in DOMAIN added : added[i].emittedAt = latest} /\ first \in Tops
    BY <1>1, <1>2 DEF Tops, IsFirst
  <2>2. Recent = DOMAIN entries
    BY <1>1, <1>2, <2>1 DEF Recent
  <2>3. \A i \in Tops : (\A j \in Tops : i <= j) <=> i = first
    BY <1>1, <1>2, <2>1 DEF IsFirst
  <2>4. FirstOfNewest = added[first]
    BY <2>1, <2>3 DEF FirstOfNewest
  <2>5. ASSUME Span >= 0
        PROVE  entries # <<>> /\ LatestEntry(entries) = added[first]
    <3>1. first \in DOMAIN entries
      BY <1>1, <1>2, <2>5
    <3>2. \A i \in DOMAIN entries :
            (\A j \in DOMAIN entries : entries[j].emittedAt <= entries[i].emittedAt
                 /\ (entries[j].emittedAt = entries[i].emittedAt => i <= j))
              <=> i = first
      BY <1>1, <1>2, <3>1 DEF IsFirst
    <3>3. (CHOOSE i \in DOMAIN entries :
             \A j \in DOMAIN entries : entries[j].emittedAt <= entries[i].emittedAt
                 /\ (entries[j].emittedAt = entries[i].emittedAt => i <= j)) = first
      BY <3>1, <3>2
    <3>4. LatestEntry(entries) = entries[first]
      BY <3>3 DEF LatestEntry
    <3>5. entries # <<>>
      <4>1. DOMAIN <<>> = {}
        OBVIOUS
      <4> QED
        BY <3>1, <4>1, Zenon
    <3> QED
      BY <3>1, <3>4, <3>5
  <2> QED
    BY <2>2, <2>4, <2>5
<1>3. Recent = DOMAIN entries
  <2>1. CASE added = <<>>
    BY <2>1 DEF Recent
  <2>2. CASE added # <<>>
    BY <1>2, <2>2
  <2> QED
    BY <2>1, <2>2
<1>4. \A type \in Types :
        UniqueTrackIds(entries, type)
          = {track \in Tracks : \E i \in Recent : <<type, track>> \in added[i].entities}
  BY <1>3 DEF UniqueTrackIds
<1>5. Span >= 0 /\ added # <<>> => entries # <<>> /\ LatestEntry(entries) = FirstOfNewest
  BY <1>2
<1> QED
  BY <1>4, <1>5 DEF WindowReads

-----------------------------------------------------------------------------

(* The least of some naturals is one of them; so is a difference that the  *)
(* loop of Unregister need not stop at 0.                                  *)
LEMMA LeastIsMember ==
  ASSUME NEW S \in SUBSET Nat, S # {}
  PROVE  Min(S) \in S
<1>1. \E x \in S : \A y \in S : ~(<<y, x>> \in OpToRel(<, Nat))
  BY NatLessThanWellFounded, WFMin
<1>2. \E x \in S : \A y \in S : ~(y < x)
  BY <1>1 DEF OpToRel
<1>3. \E x \in S : \A y \in S : x <= y
  BY <1>2
<1> QED
  BY <1>3 DEF Min

LEMMA NotBelowZero ==
  ASSUME NEW a \in Nat, NEW b \in Nat, b <= a
  PROVE  Max({0, a - b}) = a - b
  BY DEF Max

LEMMA NeverNegative ==
  ASSUME NEW a \in Nat, NEW b \in Nat
  PROVE  Max({0, a - b}) \in Nat
<1>1. \E x \in {0, a - b} : \A y \in {0, a - b} : x >= y
  OBVIOUS
<1>2. Max({0, a - b}) \in {0, a - b} /\ Max({0, a - b}) >= 0
  BY <1>1 DEF Max
<1> QED
  BY <1>2

(* Definitions of metrics.  The count of a metric is the number of places  *)
(* in registered rules that ask for it, and of the references that were    *)
(* left behind; the metric is defined while the count is not 0, and what it*)
(* was defined for and what such places ask for has been asked for.        *)
References(m) == {p \in Rules \X Nat : p[2] \in Asking(registered[p[1]], m)}

Counted(m) ==
  IsFiniteSet(References(m)) /\ refCount[m] = Cardinality(References(m)) + leaked[m]

Asked(m) ==
  /\ aggregators[m] # NoMetric => aggregators[m].source \in asked[m]
  /\ \A p \in References(m) : registered[p[1]][p[2]].source \in asked[m]

FactInv ==
  /\ FactTypeOK
  /\ \A m \in Metrics :
       Counted(m) /\ Asked(m) /\ (aggregators[m] # NoMetric <=> refCount[m] # 0)

LEMMA NoPlaces == \A m : Asking(<<>>, m) = {}
  BY DEF Asking

LEMMA Places ==
  ASSUME NEW deps \in Dependencies \union {<<>>}, NEW m \in Metrics
  PROVE  /\ Asking(deps, m) \subseteq Nat
         /\ IsFiniteSet(Asking(deps, m))
         /\ \A i \in Asking(deps, m) : deps[i] \in Windowed
<1>1. CASE deps = <<>>
  BY <1>1, FS_EmptySet DEF Asking
<1>2. CASE deps \in Dependencies
  <2>1. PICK n \in 1..MaxDeps : deps \in [1..n -> Dependency]
    BY <1>2 DEF Dependencies
  <2>2. n \in Int /\ IsFiniteSet(1..n)
    BY RegistryAssumption, FS_Interval
  <2>3. Asking(deps, m) \subseteq 1..n
    BY <2>1 DEF Asking
  <2>4. \A i \in Asking(deps, m) : deps[i] \in Windowed
    BY <2>1 DEF Asking, Dependency
  <2> QED
    BY <2>2, <2>3, <2>4, FS_Subset
<1> QED
  BY <1>1, <1>2

(* The places of one rule.                                                 *)
LEMMA PlacesOf ==
  ASSUME NEW r, NEW deps \in Dependencies \union {<<>>}, NEW m \in Metrics
  PROVE  /\ IsFiniteSet({r} \X Asking(deps, m))
         /\ Cardinality({r} \X Asking(deps, m)) = Cardinality(Asking(deps, m))
         /\ Cardinality(Asking(deps, m)) \in Nat
<1>1. IsFiniteSet({r}) /\ Cardinality({r}) = 1
  BY FS_Singleton
<1>2. IsFiniteSet(Asking(deps, m)) /\ Cardinality(Asking(deps, m)) \in Nat
  BY Places, FS_CardinalityType
<1> QED
  BY <1>1, <1>2, FS_Product

(* What remains of the references when a rule gives up its own.            *)
LEMMA RuleLeaves ==
  ASSUME FactTypeOK, NEW r \in Rules, NEW m \in Metrics, Counted(m)
  PROVE  LET old  == {r} \X Asking(registered[r], m)
             kept == References(m) \ old
         IN  /\ IsFiniteSet(kept) /\ Cardinality(kept) \in Nat
             /\ Cardinality(kept)
                  = Cardinality(References(m)) - Cardinality(Asking(registered[r], m))
             /\ Cardinality(References(m)) \in Nat
             /\ Cardinality(Asking(registered[r], m)) \in Nat
<1> DEFINE old == {r} \X Asking(registered[r], m)
<1>1. registered[r] \in Dependencies \union {<<>>}
  BY DEF FactTypeOK
<1>2. /\ IsFiniteSet(old) /\ Cardinality(old) = Cardinality(Asking(registered[r], m))
      /\ Cardinality(Asking(registered[r], m)) \in Nat
  <2>1. PICK deps \in Dependencies \union {<<>>} : deps = registered[r]
    BY <1>1
  <2>2. /\ IsFiniteSet({r} \X Asking(deps, m))
        /\ Cardinality({r} \X Asking(deps, m)) = Cardinality(Asking(deps, m))
        /\ Cardinality(Asking(deps, m)) \in Nat
    BY PlacesOf
  <2> QED
    BY <2>1, <2>2, Zenon
<1>3. References(m) \cap old = old
  <2>1. Asking(registered[r], m) \subseteq Nat
    BY <1>1, Places
  <2> QED
    BY <2>1 DEF References
<1>4. IsFiniteSet(References(m)) /\ Cardinality(References(m)) \in Nat
  BY FS_CardinalityType DEF Counted
<1> HIDE DEF old
<1>5. /\ IsFiniteSet(References(m) \ old)
      /\ Cardinality(References(m) \ old)
           = Cardinality(References(m)) - Cardinality(References(m) \cap old)
  BY <1>4, FS_Difference, Zenon
<1>6. Cardinality(References(m) \ old) \in Nat
  BY <1>5, FS_CardinalityType
<1> QED
  BY <1>2, <1>3, <1>4, <1>5, <1>6 DEF old

LEMMA FactTypes ==
  ASSUME FactTypeOK, [FactNext]_factVars
  PROVE  FactTypeOK'
<1> USE DEF FactTypeOK
<1>1. ASSUME NEW r \in Rules, NEW deps \in Dependencies, Register(r, deps)
      PROVE  FactTypeOK'
  <2>1. \A m \in Metrics : /\ Cardinality(Asking(deps, m)) \in Nat
                           /\ \A i \in Asking(deps, m) : deps[i] \in Windowed
                           /\ Asking(deps, m) \subseteq Nat
    BY Places, PlacesOf
  <2>2. \A m \in Metrics : Asking(deps, m) # {} => deps[Min(Asking(deps, m))] \in Windowed
    BY <2>1, LeastIsMember
  <2>3. refCount' \in [Metrics -> Nat]
    BY <1>1, <2>1 DEF Register
  <2>4. aggregators' \in [Metrics -> Windowed \union {NoMetric}]
    BY <1>1, <2>2 DEF Register
  <2>5. asked' \in [Metrics -> SUBSET Sources]
    BY <1>1, <2>1 DEF Register, Windowed
  <2>6. leaked' \in [Metrics -> Nat]
    <3>1. \A m \in Metrics : Cardinality(Asking(registered[r], m)) \in Nat
      BY PlacesOf
    <3> QED
      BY <1>1, <3>1 DEF Register, Replace
  <2> QED
    BY <1>1, <2>3, <2>4, <2>5, <2>6 DEF Register, Replace
<1>2. ASSUME NEW r \in Rules, Unregister(r)
      PROVE  FactTypeOK'
  <2> DEFINE deps == registered[r]
             count(m) == Max({0, refCount[m] - Cardinality(Asking(deps, m))})
  <2>1. ASSUME NEW m \in Metrics
        PROVE  count(m) \in Nat
    <3>1. Cardinality(Asking(deps, m)) \in Nat /\ refCount[m] \in Nat
      BY PlacesOf
    <3> QED
      BY <3>1, NeverNegative
  <2>2. refCount' \in [Metrics -> Nat]
    BY <1>2, <2>1 DEF Unregister
  <2>3. aggregators' \in [Metrics -> Windowed \union {NoMetric}]
    BY <1>2 DEF Unregister
  <2>4. asked' \in [Metrics -> SUBSET Sources]
    BY <1>2 DEF Unregister
  <2> QED
    BY <1>2, <2>2, <2>3, <2>4 DEF Unregister
<1>3. CASE UNCHANGED factVars
  BY <1>3 DEF factVars
<1> QED
  BY <1>1, <1>2, <1>3 DEF FactNext

LEMMA FactInvHolds == FactSpec => []FactInv
<1>1. FactInit => FactInv
  <2> SUFFICES ASSUME FactInit PROVE FactInv
    OBVIOUS
  <2>1. FactTypeOK
    BY DEF FactInit, FactTypeOK
  <2>2. ASSUME NEW m \in Metrics
        PROVE  References(m) = {} /\ refCount[m] = 0 /\ leaked[m] = 0 /\ aggregators[m] = NoMetric
    BY DEF FactInit, References, Asking
  <2>3. ASSUME NEW m \in Metrics
        PROVE  Counted(m) /\ Asked(m)
    <3>1. References(m) = {} /\ refCount[m] = 0 /\ leaked[m] = 0 /\ aggregators[m] = NoMetric
      BY <2>2
    <3> QED
      BY <3>1, FS_EmptySet DEF Counted, Asked
  <2>4. \A m \in Metrics : (aggregators[m] # NoMetric <=> refCount[m] # 0)
    BY <2>2
  <2> QED
    BY <2>1, <2>3, <2>4 DEF FactInv
<1>2. ASSUME FactInv, [FactNext]_factVars
      PROVE  FactInv'
  <2>1. FactTypeOK'
    BY <1>2, FactTypes DEF FactInv
  <2>2. ASSUME NEW r \in Rules, NEW deps \in Dependencies, Register(r, deps),
               NEW m \in Metrics
        PROVE  Counted(m)' /\ Asked(m)' /\ (aggregators'[m] # NoMetric <=> refCount'[m] # 0)
    <3> DEFINE old  == {r} \X Asking(registered[r], m)
               new  == {r} \X Asking(deps, m)
               kept == References(m) \ old
    <3>1. /\ registered' = [registered EXCEPT ![r] = deps]
          /\ registered \in [Rules -> Dependencies \union {<<>>}]
          /\ refCount'[m] = refCount[m] + Cardinality(Asking(deps, m))
          /\ leaked'[m] = leaked[m] + Cardinality(Asking(registered[r], m))
          /\ aggregators'[m] = IF aggregators[m] = NoMetric /\ Asking(deps, m) # {}
                               THEN deps[Min(Asking(deps, m))] ELSE aggregators[m]
          /\ asked'[m] = asked[m] \union {deps[i].source : i \in Asking(deps, m)}
      BY <1>2, <2>2 DEF Register, Replace, FactInv, FactTypeOK
    <3>2. /\ Asking(deps, m) \subseteq Nat /\ IsFiniteSet(Asking(deps, m))
          /\ \A i \in Asking(deps, m) : deps[i] \in Windowed
      BY Places
    <3>3. /\ References(m)' = kept \union new
          /\ kept \cap new = {}
      BY <3>1, <3>2 DEF References
    <3>4. Counted(m)'
      <4>1. /\ IsFiniteSet(new) /\ Cardinality(new) = Cardinality(Asking(deps, m))
            /\ Cardinality(new) \in Nat
        <5>1. deps \in Dependencies \union {<<>>}
          OBVIOUS
        <5>2. /\ IsFiniteSet({r} \X Asking(deps, m))
              /\ Cardinality({r} \X Asking(deps, m)) = Cardinality(Asking(deps, m))
              /\ Cardinality(Asking(deps, m)) \in Nat
          BY <5>1, PlacesOf
        <5> QED
          BY <5>2, Zenon
      <4>2. /\ IsFiniteSet(kept) /\ Cardinality(kept) \in Nat
            /\ Cardinality(kept) = Cardinality(References(m)) - Cardinality(Asking(registered[r], m))
            /\ Cardinality(References(m)) \in Nat /\ Cardinality(Asking(registered[r], m)) \in Nat
        BY <1>2, RuleLeaves DEF FactInv
      <4> HIDE DEF kept, new
      <4>3. /\ IsFiniteSet(kept \union new)
            /\ Cardinality(kept \union new)
                 = Cardinality(kept) + Cardinality(new) - Cardinality({})
        BY <3>3, <4>1, <4>2, FS_Union
      <4>4. refCount[m] = Cardinality(References(m)) + leaked[m] /\ leaked[m] \in Nat
        BY <1>2 DEF FactInv, Counted, FactTypeOK
      <4> QED
        BY <3>1, <3>3, <4>1, <4>2, <4>3, <4>4, FS_EmptySet DEF Counted
    <3>5. Asking(deps, m) # {} =>
            Min(Asking(deps, m)) \in Asking(deps, m) /\ deps[Min(Asking(deps, m))] \in Windowed
      BY <3>2, LeastIsMember
    <3>6. aggregators'[m] # NoMetric <=> refCount'[m] # 0
      <4>1. /\ Cardinality(Asking(deps, m)) \in Nat
            /\ Cardinality(Asking(deps, m)) = 0 <=> Asking(deps, m) = {}
        BY <3>2, FS_EmptySet, FS_CardinalityType
      <4>2. (aggregators[m] # NoMetric <=> refCount[m] # 0) /\ refCount[m] \in Nat
        BY <1>2 DEF FactInv, FactTypeOK
      <4>3. Asking(deps, m) # {} => deps[Min(Asking(deps, m))] # NoMetric
        BY <3>5, RegistryAssumption
      <4> QED
        BY <3>1, <4>1, <4>2, <4>3
    <3>7. aggregators'[m] # NoMetric => aggregators'[m].source \in asked'[m]
      BY <1>2, <3>1, <3>5 DEF FactInv, Asked
    <3>8. ASSUME NEW p \in References(m)'
          PROVE  registered'[p[1]][p[2]].source \in asked'[m]
      <4>1. CASE p \in new
        BY <3>1, <4>1
      <4>2. CASE p \in kept
        <5>1. p \in References(m) /\ p[1] \in Rules /\ p[1] # r
          BY <4>2 DEF References
        <5> QED
          BY <1>2, <3>1, <5>1 DEF FactInv, Asked
      <4> QED
        BY <3>3, <4>1, <4>2
    <3> QED
      BY <3>4, <3>6, <3>7, <3>8 DEF Asked
  <2>3. ASSUME NEW r \in Rules, Unregister(r), NEW m \in Metrics
        PROVE  Counted(m)' /\ Asked(m)' /\ (aggregators'[m] # NoMetric <=> refCount'[m] # 0)
    <3> DEFINE kept == References(m) \ ({r} \X Asking(registered[r], m))
               card == Cardinality(Asking(registered[r], m))
    <3>1. /\ registered' = [registered EXCEPT ![r] = <<>>]
          /\ registered \in [Rules -> Dependencies \union {<<>>}]
          /\ refCount'[m] = Max({0, refCount[m] - card})
          /\ aggregators'[m] = IF Asking(registered[r], m) # {} /\ refCount'[m] = 0
                               THEN NoMetric ELSE aggregators[m]
          /\ asked'[m] = IF aggregators'[m] = NoMetric THEN {} ELSE asked[m]
          /\ leaked' = leaked
      BY <1>2, <2>3 DEF Unregister, FactInv, FactTypeOK
    <3>2. References(m)' = kept
      BY <3>1, NoPlaces DEF References
    <3>3. /\ IsFiniteSet(kept) /\ Cardinality(kept) \in Nat
          /\ Cardinality(kept) = Cardinality(References(m)) - card
          /\ Cardinality(References(m)) \in Nat /\ card \in Nat
      BY <1>2, RuleLeaves DEF FactInv
    <3>4. /\ refCount[m] = Cardinality(References(m)) + leaked[m]
          /\ leaked[m] \in Nat /\ refCount[m] \in Nat
      BY <1>2 DEF FactInv, Counted, FactTypeOK
    <3> HIDE DEF kept, card
    <3>5. card <= refCount[m]
      BY <3>3, <3>4
    <3>6. refCount'[m] = refCount[m] - card
      BY <3>1, <3>3, <3>4, <3>5, NotBelowZero
    <3>7. Counted(m)'
      BY <3>1, <3>2, <3>3, <3>4, <3>6 DEF Counted
    <3>8. Asking(registered[r], m) = {} => refCount'[m] = refCount[m]
      BY <3>4, <3>6, FS_EmptySet DEF card
    <3>9. aggregators'[m] # NoMetric <=> refCount'[m] # 0
      <4>1. (aggregators[m] # NoMetric <=> refCount[m] # 0)
        BY <1>2 DEF FactInv
      <4>2. refCount'[m] # 0 => refCount[m] # 0
        BY <3>3, <3>4, <3>5, <3>6
      <4>3. CASE Asking(registered[r], m) = {}
        BY <3>1, <3>8, <4>1, <4>3
      <4>4. CASE Asking(registered[r], m) # {} /\ refCount'[m] = 0
        BY <3>1, <4>4
      <4>5. CASE Asking(registered[r], m) # {} /\ refCount'[m] # 0
        BY <3>1, <4>1, <4>2, <4>5
      <4> QED
        BY <4>3, <4>4, <4>5
    <3>10. aggregators'[m] # NoMetric => aggregators'[m].source \in asked'[m]
      BY <1>2, <3>1 DEF FactInv, Asked
    <3>11. ASSUME NEW p \in References(m)'
           PROVE  registered'[p[1]][p[2]].source \in asked'[m]
      <4>1. p \in References(m) /\ p[1] \in Rules /\ p[1] # r
        BY <3>2 DEF References, kept
      <4>2. Cardinality(kept) # 0
        BY <3>2, <3>3, FS_EmptySet
      <4>3. asked'[m] = asked[m]
        BY <3>1, <3>3, <3>4, <3>6, <3>9, <4>2
      <4> QED
        BY <1>2, <3>1, <4>1, <4>3 DEF FactInv, Asked
    <3> QED
      BY <3>7, <3>9, <3>10, <3>11 DEF Asked
  <2>4. CASE UNCHANGED factVars
    BY <1>2, <2>4 DEF factVars, FactInv, FactTypeOK, Counted, Asked, References
  <2> QED
    BY <1>2, <2>1, <2>2, <2>3, <2>4 DEF FactNext, FactInv
<1> QED
  BY <1>1, <1>2, PTL DEF FactSpec

(* A metric is defined while a rule asks for it or references were left    *)
(* behind, and computed when the data of such a rule come unless both      *)
(* sources were asked for: for any rules, metrics and dependencies, asking *)
(* once or often and registered again whenever they like.                  *)
THEOREM DefinitionsFitHolds == FactSpec => []DefinitionsFit
<1> SUFFICES ASSUME FactInv PROVE DefinitionsFit
  BY FactInvHolds, PTL
<1> SUFFICES ASSUME NEW m \in Metrics
             PROVE  /\ aggregators[m] # NoMetric
                         <=> leaked[m] > 0 \/ \E r \in Rules : Asking(registered[r], m) # {}
                    /\ \A r \in Rules : \A i \in Asking(registered[r], m) :
                         Cardinality(asked[m]) = 1 => m \in Recompute(registered[r][i].source)
  BY DEF DefinitionsFit
<1>1. \A r \in Rules : Asking(registered[r], m) \subseteq Nat
  BY Places DEF FactInv, FactTypeOK
<1>2. aggregators[m] # NoMetric
        <=> leaked[m] > 0 \/ \E r \in Rules : Asking(registered[r], m) # {}
  <2>1. aggregators[m] # NoMetric <=> leaked[m] > 0 \/ References(m) # {}
    <3>1. (aggregators[m] # NoMetric <=> refCount[m] # 0)
      BY DEF FactInv
    <3>2. refCount[m] = Cardinality(References(m)) + leaked[m] /\ leaked[m] \in Nat
      BY DEF FactInv, Counted, FactTypeOK
    <3>3. /\ Cardinality(References(m)) \in Nat
          /\ Cardinality(References(m)) = 0 <=> References(m) = {}
      BY FS_EmptySet, FS_CardinalityType DEF FactInv, Counted
    <3> QED
      BY <3>1, <3>2, <3>3
  <2>2. ASSUME NEW r \in Rules, NEW i \in Asking(registered[r], m)
        PROVE  <<r, i>> \in References(m)
    BY <1>1, <2>2 DEF References
  <2>3. \A p \in References(m) : p[1] \in Rules /\ p[2] \in Asking(registered[p[1]], m)
    BY DEF References
  <2> QED
    BY <2>1, <2>2, <2>3
<1>3. ASSUME NEW r \in Rules, NEW i \in Asking(registered[r], m), Cardinality(asked[m]) = 1
      PROVE  m \in Recompute(registered[r][i].source)
  <2>1. aggregators[m] # NoMetric /\ <<r, i>> \in References(m)
    BY <1>1, <1>2, <1>3 DEF References
  <2>2. aggregators[m].source \in asked[m] /\ registered[r][i].source \in asked[m]
    BY <2>1 DEF FactInv, Asked
  <2>3. IsFiniteSet(asked[m])
    BY RegistryAssumption, FS_Subset DEF FactInv, FactTypeOK
  <2>4. aggregators[m].source = registered[r][i].source
    BY <1>3, <2>2, <2>3, FS_Singleton
  <2> QED
    BY <2>1, <2>4 DEF Recompute
<1> QED
  BY <1>2, <1>3

-----------------------------------------------------------------------------

(* Entities.  The state a caller has in hand is that of the key it asked   *)
(* for or is in the map no more, and what is to be read of it now has been *)
(* right at some time since it asked.                                      *)
Pending(c) ==
  find[c] # NoEntity =>
    /\ \A k \in Tracked : entities[k] # NoEntity /\ entities[k] = find[c].got => k = find[c].key
    /\ Matches(find[c].got, find[c].across) \in could[c]

(* An entity is as old as the last of its sightings, which is the newest of*)
(* them as long as they came in their order.                               *)
Dated(st, seen) ==
  /\ seen.times # <<>>
  /\ st.lastSeen = seen.times[Len(seen.times)]
  /\ InOrder(seen.times) => \A i \in DOMAIN seen.times : seen.times[i] <= st.lastSeen

Remembered(k) ==
  /\ entities[k] = NoEntity => sightings[k] = Unseen
  /\ entities[k] # NoEntity => /\ Dated(heap[entities[k]], sightings[k])
                               /\ Reflects(heap[entities[k]], sightings[k])

EntityInv ==
  /\ EntityTypeOK
  /\ \A c \in Callers : Pending(c)
  /\ \A k \in Tracked : Remembered(k)

(* What both kinds of updates do: what is seen of k is noted in the state  *)
(* of k, which is a free one when k had none.                              *)
Put(k, seen, o, st) ==
  /\ entities[k] = o \/ (entities[k] = NoEntity /\ Free(o))
  /\ entities' = [entities EXCEPT ![k] = o]
  /\ heap' = [heap EXCEPT ![o] = st]
  /\ sightings' = [sightings EXCEPT ![k] = seen]
  /\ UNCHANGED <<today, find, answer>>
  /\ Track

LEMMA SightedTyped ==
  ASSUME NEW st \in EntityState, NEW at \in Days, NEW camera \in EntityCameras,
         NEW roi \in Rois \union {Blank}
  PROVE  Sighted(st, camera, roi, at) \in EntityState /\ Sighted(st, camera, roi, at).lastSeen = at
  BY DEF Sighted, EntityState

LEMMA NotedTyped ==
  ASSUME NEW st \in EntityState, NEW at \in Days
  PROVE  Noted(st, at) \in EntityState /\ Noted(st, at).lastSeen = at
<1>1. ASSUME NEW h \in Seq(Days)
      PROVE  /\ Append(h, at) \in Seq(Days)
             /\ Len(Append(h, at)) > HistoryLimit => Tail(Append(h, at)) \in Seq(Days)
  BY LimitAssumption
<1>2. st.history \in Seq(Days)
  BY DEF EntityState
<1>3. PICK h \in Seq(Days) : Noted(st, at) = [st EXCEPT !.lastSeen = at, !.history = h]
  BY <1>1, <1>2 DEF Noted
<1> QED
  BY <1>3 DEF EntityState

LEMMA NewStateTyped == NewState \in EntityState
  BY LimitAssumption DEF NewState, EntityState, Days

LEMMA NewReflects == Reflects(NewState, Unseen)
  BY LimitAssumption DEF Reflects, PlacesKept, Moves, LastOf, NewState, Unseen

LEMMA Grown ==
  ASSUME NEW S, NEW s \in Seq(S), NEW x \in S, NEW n \in Nat, n = Len(s)
  PROVE  LET t == Append(s, x)
         IN  /\ t \in Seq(S) /\ t # <<>> /\ Len(t) = n + 1
             /\ t[n + 1] = x /\ \A i \in 1..n : t[i] = s[i]
             /\ DOMAIN t = 1..(n + 1) /\ DOMAIN s = 1..n
<1> DEFINE t == Append(s, x)
<1>1. /\ t \in Seq(S) /\ t # <<>> /\ Len(t) = n + 1
      /\ t[n + 1] = x /\ \A i \in 1..n : t[i] = s[i]
  BY AppendProperties
<1>2. DOMAIN t = 1..(n + 1) /\ DOMAIN s = 1..n
  BY <1>1
<1> QED
  BY <1>1, <1>2

(* One more time: the last is the newest while they come in their order.   *)
LEMMA LaterDated ==
  ASSUME NEW dates \in Seq(Days), NEW at \in Days, NEW last \in Days,
         dates # <<>> => /\ last = dates[Len(dates)]
                         /\ InOrder(dates) => \A i \in DOMAIN dates : dates[i] <= last
  PROVE  LET grown == Append(dates, at)
         IN  /\ grown \in Seq(Days) /\ grown # <<>> /\ grown[Len(grown)] = at
             /\ InOrder(grown) => \A i \in DOMAIN grown : grown[i] <= at
<1> DEFINE grown == Append(dates, at)
<1>1. PICK n \in Nat : n = Len(dates)
  OBVIOUS
<1>2. /\ grown \in Seq(Days) /\ grown # <<>> /\ Len(grown) = n + 1
      /\ grown[n + 1] = at /\ \A i \in 1..n : grown[i] = dates[i]
      /\ DOMAIN grown = 1..(n + 1) /\ DOMAIN dates = 1..n
  BY <1>1, Grown
<1>3. at \in Nat /\ \A i \in 1..n : dates[i] \in Nat
  BY <1>2, LimitAssumption DEF Days
<1> HIDE DEF grown
<1>4. ASSUME InOrder(grown), NEW i \in 1..n
      PROVE  dates[i] <= at
  <2>1. InOrder(dates)
    <3>1. ASSUME NEW j \in 1..n, j > 1
          PROVE  dates[j - 1] <= dates[j]
      <4>1. j \in DOMAIN grown /\ j - 1 \in 1..n
        BY <1>2, <3>1
      <4>2. grown[j - 1] <= grown[j]
        BY <1>4, <3>1, <4>1 DEF InOrder
      <4> QED
        BY <1>2, <4>1, <4>2
    <3> QED
      BY <1>2, <3>1 DEF InOrder
  <2>2. dates[i] <= dates[n]
    BY <1>1, <1>2, <2>1
  <2>3. n \in 1..n /\ n + 1 \in DOMAIN grown /\ n + 1 > 1 /\ (n + 1) - 1 = n
    BY <1>2
  <2>4. grown[(n + 1) - 1] <= grown[n + 1]
    BY <1>4, <2>3 DEF InOrder
  <2>5. dates[n] <= at
    BY <1>2, <2>3, <2>4
  <2> QED
    BY <1>3, <2>2, <2>3, <2>5
<1>5. InOrder(grown) => \A i \in DOMAIN grown : grown[i] <= at
  BY <1>2, <1>3, <1>4
<1> QED
  BY <1>2, <1>5 DEF grown

LEMMA PlaceAdded ==
  ASSUME NEW s \in Seq(Place), NEW place \in Place, NEW st, NEW next,
         PlacesKept(st, s),
         next.current = place.roi,
         next.previous = IF st.current \notin {place.roi, Blank} THEN st.current ELSE st.previous,
         next.cameras = st.cameras \union {place.camera},
         next.rois = st.rois \union {place.roi}
  PROVE  PlacesKept(next, Append(s, place))
<1> DEFINE t == Append(s, place)
<1>1. PICK n \in Nat : n = Len(s)
  OBVIOUS
<1>2. /\ t # <<>> /\ Len(t) = n + 1 /\ t[n + 1] = place /\ \A i \in 1..n : t[i] = s[i]
      /\ DOMAIN t = 1..(n + 1) /\ DOMAIN s = 1..n
  BY <1>1, Grown
<1>3. n = 0 <=> s = <<>>
  BY <1>1
<1> HIDE DEF t
<1>4. next.current = t[Len(t)].roi
  BY <1>2
<1>11. next.current = IF t = <<>> THEN Blank ELSE t[Len(t)].roi
  BY <1>2, <1>4
<1>5. next.cameras = {t[i].camera : i \in DOMAIN t}
  BY <1>2 DEF PlacesKept
<1>6. next.rois = {t[i].roi : i \in DOMAIN t}
  BY <1>2 DEF PlacesKept
<1>7. \A i \in 1..(n - 1) : i \in Moves(t) <=> i \in Moves(s)
  BY <1>1, <1>2 DEF Moves
<1>8. Moves(t) \subseteq 1..n /\ Moves(s) \subseteq 1..(n - 1)
  BY <1>1, <1>2 DEF Moves
<1>9. CASE n > 0 /\ s[n].roi \notin {place.roi, Blank}
  <2>1. next.previous = s[n].roi
    BY <1>1, <1>3, <1>9 DEF PlacesKept
  <2>2. n \in Moves(t)
    BY <1>2, <1>9 DEF Moves
  <2>3. next.previous = t[n].roi
    BY <1>2, <1>9, <2>1
  <2>4. \A j \in Moves(t) : j <= n
    BY <1>8
  <2>5. Moves(t) # {} /\ \E i \in Moves(t) : (\A j \in Moves(t) : j <= i)
                                              /\ next.previous = t[i].roi
    BY <2>2, <2>3, <2>4
  <2> QED
    BY <1>11, <1>5, <1>6, <2>5, Zenon DEF PlacesKept, t
<1>10. CASE ~(n > 0 /\ s[n].roi \notin {place.roi, Blank})
  <2>1. next.previous = st.previous
    BY <1>1, <1>3, <1>10 DEF PlacesKept
  <2>2. n \notin Moves(t)
    BY <1>2, <1>10 DEF Moves
  <2>3. Moves(t) = Moves(s)
    <3>1. \A i \in 1..n : i # n => i \in 1..(n - 1)
      OBVIOUS
    <3> QED
      BY <1>7, <1>8, <2>2, <3>1
  <2>4. \A i \in Moves(s) : t[i] = s[i]
    BY <1>2, <1>8
  <2>5. IF Moves(t) = {} THEN next.previous = Blank
        ELSE \E i \in Moves(t) : (\A j \in Moves(t) : j <= i) /\ next.previous = t[i].roi
    <3>1. CASE Moves(s) = {}
      BY <2>1, <2>3, <3>1 DEF PlacesKept
    <3>2. CASE Moves(s) # {}
      <4>1. PICK i \in Moves(s) : (\A j \in Moves(s) : j <= i) /\ st.previous = s[i].roi
        BY <3>2 DEF PlacesKept
      <4> QED
        BY <2>1, <2>3, <2>4, <3>2, <4>1
    <3> QED
      BY <3>1, <3>2
  <2> QED
    BY <1>11, <1>5, <1>6, <2>5, Zenon DEF PlacesKept, t
<1> QED
  BY <1>9, <1>10

LEMMA SightedReflects ==
  ASSUME NEW st \in EntityState, NEW seen \in Seen, NEW at \in Days,
         NEW camera \in EntityCameras, NEW roi \in Rois \union {Blank},
         Reflects(st, seen), Dated(st, seen) \/ seen = Unseen
  PROVE  LET next == InState(seen, camera, roi, at)
             updated == Sighted(st, camera, roi, at)
         IN  next \in Seen /\ Dated(updated, next) /\ Reflects(updated, next)
<1> DEFINE next == InState(seen, camera, roi, at)
           updated == Sighted(st, camera, roi, at)
           place == [camera |-> camera, roi |-> roi]
<1>1. /\ seen.states \in Seq(Place) /\ seen.times \in Seq(Days)
      /\ place \in Place /\ place.camera = camera /\ place.roi = roi
  BY DEF Seen, Place
<1>2. /\ next.states = Append(seen.states, place)
      /\ next.times = Append(seen.times, at)
      /\ next.events = seen.events
      /\ next \in Seen
  <2>1. Append(seen.states, place) \in Seq(Place) /\ Append(seen.times, at) \in Seq(Days)
    BY <1>1
  <2>2. ASSUME NEW a \in Seq(Place), NEW b \in Seq(Days)
        PROVE  LET r == [seen EXCEPT !.states = a, !.times = b]
               IN  r.states = a /\ r.times = b /\ r.events = seen.events /\ r \in Seen
    BY DEF Seen
  <2> QED
    BY <2>1, <2>2 DEF InState
<1>3. /\ updated.current = roi /\ updated.lastSeen = at /\ updated.history = st.history
      /\ updated.previous = IF st.current \notin {roi, Blank} THEN st.current ELSE st.previous
      /\ updated.cameras = st.cameras \union {camera}
      /\ updated.rois = st.rois \union {roi}
  BY DEF Sighted, EntityState
<1>4. st.lastSeen \in Days
  BY DEF EntityState
<1> HIDE DEF next, updated, place
<1>5. PlacesKept(updated, next.states)
  <2>1. PlacesKept(updated, Append(seen.states, place))
    BY <1>1, <1>3, PlaceAdded DEF Reflects
  <2>2. QED
    BY <1>2, <2>1
<1>6. Dated(updated, next)
  BY <1>1, <1>2, <1>3, <1>4, LaterDated DEF Dated, Unseen
<1> QED
  BY <1>2, <1>3, <1>5, <1>6 DEF Reflects, next, updated

(* One more event: the history goes on with it, and is cut at its limit.   *)
LEMMA EventAdded ==
  ASSUME NEW e \in Seq(Days), NEW at \in Days
  PROVE  LET all == Append(LastOf(e), at)
         IN  (IF Len(all) > HistoryLimit THEN Tail(all) ELSE all) = LastOf(Append(e, at))
<1> USE LimitAssumption
<1> DEFINE kept == IF Len(e) < HistoryLimit THEN Len(e) ELSE HistoryLimit
           f == Append(e, at)
<1>1. PICK n \in Nat : n = Len(e)
  OBVIOUS
<1>2. /\ f \in Seq(Days) /\ Len(f) = n + 1 /\ f[n + 1] = at /\ \A i \in 1..n : f[i] = e[i]
  BY <1>1, Grown
<1>3. PICK k \in Nat : k = kept /\ k <= n /\ k <= HistoryLimit /\ (k < HistoryLimit => k = n)
  BY <1>1
<1>4. LastOf(e) = [i \in 1..k |-> e[n - k + i]]
  BY <1>1, <1>3 DEF LastOf
<1>5. \A i \in 1..k : e[n - k + i] \in Days
  <2>1. \A i \in 1..k : n - k + i \in 1..n
    BY <1>3
  <2>2. \A j \in 1..n : e[j] \in Days
    BY <1>1
  <2> QED
    BY <2>1, <2>2
<1>6. LastOf(e) \in Seq(Days) /\ Len(LastOf(e)) = k
  BY <1>4, <1>5, IsASeq
<1> DEFINE all == Append(LastOf(e), at)
<1>7. /\ all \in Seq(Days) /\ Len(all) = k + 1 /\ all[k + 1] = at /\ all # <<>>
      /\ \A i \in 1..k : all[i] = e[n - k + i]
  <2>1. /\ all \in Seq(Days) /\ all # <<>> /\ Len(all) = k + 1
        /\ all[k + 1] = at /\ \A i \in 1..k : all[i] = LastOf(e)[i]
    BY <1>6, Grown
  <2> HIDE DEF all
  <2> QED
    BY <1>4, <2>1
<1> HIDE DEF f, all, kept
<1>8. \A i \in 1..(k + 1) : n - k + i \in 1..(n + 1) /\ all[i] = f[n - k + i]
  BY <1>2, <1>3, <1>7
<1>9. CASE k < HistoryLimit
  <2>1. LastOf(f) = [i \in 1..(k + 1) |-> f[n - k + i]]
    BY <1>2, <1>3, <1>9 DEF LastOf
  <2>2. all = [i \in 1..(k + 1) |-> all[i]]
    BY <1>7
  <2>3. all = LastOf(f)
    BY <1>8, <2>1, <2>2
  <2> QED
    BY <1>7, <1>9, <2>3 DEF all, f
<1>10. CASE k = HistoryLimit
  <2>1. LastOf(f) = [i \in 1..k |-> f[n + 1 - k + i]]
    BY <1>2, <1>3, <1>10 DEF LastOf
  <2>2. PICK rest \in Seq(Days) :
          /\ rest = Tail(all) /\ Len(rest) = k /\ \A i \in 1..k : rest[i] = all[i + 1]
    <3>1. /\ Tail(all) \in Seq(Days) /\ Len(Tail(all)) = Len(all) - 1
          /\ \A i \in 1..Len(Tail(all)) : Tail(all)[i] = all[i + 1]
      BY <1>7, HeadTailProperties
    <3>2. Len(Tail(all)) = k
      BY <1>7, <3>1
    <3> QED
      BY <3>1, <3>2
  <2>3. \A i \in 1..k : rest[i] = f[n + 1 - k + i] /\ f[n + 1 - k + i] \in Days
    BY <1>8, <2>2
  <2>4. LastOf(f) \in Seq(Days) /\ Len(LastOf(f)) = k
    <3>1. k \in Nat /\ \A i \in 1..k : f[n + 1 - k + i] \in Days
      BY <2>3
    <3> QED
      BY <2>1, <3>1, IsASeq
  <2>5. Tail(all) = LastOf(f)
    BY <2>1, <2>2, <2>3, <2>4, SeqEqual
  <2> QED
    BY <1>7, <1>10, <2>5 DEF all, f
<1> QED
  BY <1>3, <1>9, <1>10

LEMMA NotedReflects ==
  ASSUME NEW st \in EntityState, NEW seen \in Seen, NEW at \in Days,
         Reflects(st, seen), Dated(st, seen) \/ seen = Unseen
  PROVE  LET next == ByEvent(seen, at)
             updated == Noted(st, at)
         IN  next \in Seen /\ Dated(updated, next) /\ Reflects(updated, next)
<1> DEFINE next == ByEvent(seen, at)
           updated == Noted(st, at)
           all == Append(st.history, at)
<1>1. /\ seen.events \in Seq(Days) /\ seen.times \in Seq(Days)
      /\ st.history = LastOf(seen.events)
  BY DEF Seen, Reflects
<1>2. /\ next.states = seen.states
      /\ next.times = Append(seen.times, at)
      /\ next.events = Append(seen.events, at)
      /\ next \in Seen
  <2>1. Append(seen.events, at) \in Seq(Days) /\ Append(seen.times, at) \in Seq(Days)
    BY <1>1
  <2>2. ASSUME NEW a \in Seq(Days), NEW b \in Seq(Days)
        PROVE  LET r == [seen EXCEPT !.events = a, !.times = b]
               IN  r.events = a /\ r.times = b /\ r.states = seen.states /\ r \in Seen
    BY DEF Seen
  <2> QED
    BY <2>1, <2>2 DEF ByEvent
<1>3. /\ updated.current = st.current /\ updated.previous = st.previous
      /\ updated.cameras = st.cameras /\ updated.rois = st.rois
      /\ updated.lastSeen = at
      /\ updated.history = IF Len(all) > HistoryLimit THEN Tail(all) ELSE all
  BY DEF Noted, EntityState
<1>4. st.lastSeen \in Days
  BY DEF EntityState
<1>5. updated.history = LastOf(next.events)
  BY <1>1, <1>2, <1>3, EventAdded
<1> HIDE DEF next, updated, all
<1>6. PlacesKept(updated, next.states)
  BY <1>2, <1>3 DEF Reflects, PlacesKept
<1>7. Dated(updated, next)
  BY <1>1, <1>2, <1>3, <1>4, LaterDated DEF Dated, Unseen
<1> QED
  BY <1>2, <1>5, <1>6, <1>7 DEF Reflects, next, updated

LEMMA UpdatesPut ==
  ASSUME EntityTypeOK, \A k \in Tracked : Remembered(k), NEW k \in Tracked, NEW at \in 0..today,
         \/ UpdateFromEvent(k, at)
         \/ \E camera \in EntityCameras, roi \in Rois \union {Blank} :
              UpdateFromState(k, camera, roi, at)
  PROVE  \E seen \in Seen, o \in Objects, st \in EntityState :
           Put(k, seen, o, st) /\ Dated(st, seen) /\ Reflects(st, seen)
<1>1. at \in Days
  BY LimitAssumption DEF EntityTypeOK, Days
<1>2. PICK old \in EntityState :
        /\ Reflects(old, sightings[k])
        /\ Dated(old, sightings[k]) \/ sightings[k] = Unseen
        /\ entities[k] # NoEntity => entities[k] \in Objects /\ old = heap[entities[k]]
        /\ entities[k] = NoEntity => old = NewState
  <2>1. CASE entities[k] = NoEntity
    BY <2>1, NewStateTyped, NewReflects DEF Remembered
  <2>2. CASE entities[k] # NoEntity
    BY <2>2, BlankAssumption DEF Remembered, EntityTypeOK
  <2> QED
    BY <2>1, <2>2
<1>3. sightings[k] \in Seen
  BY DEF EntityTypeOK
<1>4. ASSUME NEW camera \in EntityCameras, NEW roi \in Rois \union {Blank},
             UpdateFromState(k, camera, roi, at)
      PROVE  \E seen \in Seen, o \in Objects, st \in EntityState :
               Put(k, seen, o, st) /\ Dated(st, seen) /\ Reflects(st, seen)
  <2> DEFINE seen == InState(sightings[k], camera, roi, at)
             st == Sighted(old, camera, roi, at)
  <2>1. PICK o \in Objects : Put(k, seen, o, st)
    <3>1. CASE entities[k] # NoEntity
      BY <1>2, <1>4, <3>1 DEF UpdateFromState, Note, Put, EntityTypeOK
    <3>2. CASE entities[k] = NoEntity
      BY <1>2, <1>4, <3>2 DEF UpdateFromState, Note, Put
    <3> QED
      BY <3>1, <3>2
  <2>2. st \in EntityState /\ seen \in Seen /\ Dated(st, seen) /\ Reflects(st, seen)
    BY <1>1, <1>2, <1>3, SightedTyped, SightedReflects
  <2> HIDE DEF seen, st
  <2> QED
    BY <2>1, <2>2
<1>5. CASE UpdateFromEvent(k, at)
  <2> DEFINE seen == ByEvent(sightings[k], at)
             st == Noted(old, at)
  <2>1. PICK o \in Objects : Put(k, seen, o, st)
    <3>1. CASE entities[k] # NoEntity
      BY <1>2, <1>5, <3>1 DEF UpdateFromEvent, Note, Put, EntityTypeOK
    <3>2. CASE entities[k] = NoEntity
      BY <1>2, <1>5, <3>2 DEF UpdateFromEvent, Note, Put
    <3> QED
      BY <3>1, <3>2
  <2>2. st \in EntityState /\ seen \in Seen /\ Dated(st, seen) /\ Reflects(st, seen)
    BY <1>1, <1>2, <1>3, NotedTyped, NotedReflects
  <2> HIDE DEF seen, st
  <2> QED
    BY <2>1, <2>2
<1> QED
  BY <1>4, <1>5

(* What is in the hands of those who asked is not touched by an update of  *)
(* another key, and what it does to the key they asked for is noted.       *)
LEMMA PutKeepsInv ==
  ASSUME EntityInv, NEW k \in Tracked, NEW seen \in Seen, NEW o \in Objects,
         NEW st \in EntityState, Put(k, seen, o, st), Dated(st, seen), Reflects(st, seen)
  PROVE  EntityInv'
<1> USE BlankAssumption DEF EntityInv
<1>1. EntityTypeOK'
  <2>1. \A q \in Tracked : q # k => entities[q] # o
    BY DEF Put, EntityTypeOK, Free
  <2>2. /\ entities' \in [Tracked -> Objects \union {NoEntity}]
        /\ heap' \in [Objects -> EntityState \union {NoEntity}]
        /\ sightings' \in [Tracked -> Seen]
    BY DEF Put, EntityTypeOK
  <2>3. could' \in [Callers -> SUBSET BOOLEAN]
    BY DEF Put, Track, Matches, EntityTypeOK
  <2>4. \A q, p \in Tracked : entities'[q] = entities'[p] /\ entities'[q] # NoEntity => q = p
    BY <2>1 DEF Put, EntityTypeOK
  <2>5. \A q \in Tracked : entities'[q] # NoEntity => heap'[entities'[q]] # NoEntity
    BY <2>1 DEF Put, EntityTypeOK
  <2> QED
    BY <2>2, <2>3, <2>4, <2>5 DEF Put, EntityTypeOK
<1>2. ASSUME NEW c \in Callers
      PROVE  Pending(c)'
  <2> SUFFICES ASSUME find[c] # NoEntity
               PROVE  /\ \A q \in Tracked : entities'[q] # NoEntity /\ entities'[q] = find[c].got
                           => q = find[c].key
                      /\ Matches(find[c].got, find[c].across)' \in could'[c]
    BY DEF Pending, Put
  <2>1. find[c] \in Question
    BY DEF EntityTypeOK
  <2>2. find[c].key \in Tracked /\ find[c].got \in Objects \union {NoEntity}
    BY <2>1 DEF Question
  <2>3. could'[c] = could[c] \union {Matches(entities[find[c].key], find[c].across)'}
    BY DEF Put, Track
  <2>4. find[c].got = o => find[c].key = k /\ entities'[k] = o
    BY DEF Put, Pending, Free, EntityTypeOK
  <2>5. \A q \in Tracked : entities'[q] # NoEntity /\ entities'[q] = find[c].got
          => q = find[c].key
    BY <2>4 DEF Put, Pending, EntityTypeOK
  <2>6. CASE find[c].got = o
    <3>1. Matches(entities[find[c].key], find[c].across)' = Matches(find[c].got, find[c].across)'
      BY <2>4, <2>6 DEF Matches, Put
    <3> QED
      BY <2>3, <2>5, <3>1
  <2>7. CASE find[c].got # o
    <3>1. heap'[find[c].got] = heap[find[c].got] \/ find[c].got = NoEntity
      BY <2>2, <2>7 DEF Put, EntityTypeOK
    <3>2. Matches(find[c].got, find[c].across)' = Matches(find[c].got, find[c].across)
      BY <3>1 DEF Matches, Put
    <3> QED
      BY <2>3, <2>5, <3>2 DEF Pending
  <2> QED
    BY <2>6, <2>7
<1>3. ASSUME NEW q \in Tracked
      PROVE  Remembered(q)'
  <2>1. CASE q = k
    <3>1. entities'[q] = o /\ o # NoEntity /\ heap'[o] = st /\ sightings'[q] = seen
      BY <2>1 DEF Put, EntityTypeOK
    <3> QED
      BY <3>1 DEF Remembered
  <2>2. CASE q # k
    <3>1. /\ entities'[q] = entities[q] /\ sightings'[q] = sightings[q]
          /\ entities[q] # NoEntity => heap'[entities[q]] = heap[entities[q]]
      BY <2>2 DEF Put, EntityTypeOK, Free
    <3> QED
      BY <3>1 DEF Remembered
  <2> QED
    BY <2>1, <2>2
<1> QED
  BY <1>1, <1>2, <1>3

LEMMA EntityInvStep ==
  ASSUME EntityInv, [EntityNext]_entityVars
  PROVE  EntityInv'
<1> USE DEF EntityInv
<1>1. ASSUME NEW k \in Tracked, NEW camera \in EntityCameras, NEW roi \in Rois \union {Blank},
             NEW at \in 0..today, UpdateFromState(k, camera, roi, at)
      PROVE  EntityInv'
  BY <1>1, UpdatesPut, PutKeepsInv
<1>2. ASSUME NEW k \in Tracked, NEW at \in 0..today, UpdateFromEvent(k, at)
      PROVE  EntityInv'
  BY <1>2, UpdatesPut, PutKeepsInv
<1>3. CASE CleanupEntities
  <2>1. /\ \A k \in Tracked : /\ entities'[k] \in {entities[k], NoEntity}
                              /\ entities'[k] # entities[k] => sightings'[k] = Unseen
                              /\ entities'[k] = entities[k] => sightings'[k] = sightings[k]
        /\ entities' \in [Tracked -> Objects \union {NoEntity}]
        /\ sightings' \in [Tracked -> Seen]
        /\ UNCHANGED <<today, heap, find, times, answer>>
        /\ Track
    <3>1. Unseen \in Seen
      BY DEF Unseen, Seen
    <3> QED
      BY <1>3, <3>1 DEF CleanupEntities, Expired, EntityTypeOK
  <2>2. EntityTypeOK'
    <3>1. could' \in [Callers -> SUBSET BOOLEAN]
      BY <2>1 DEF Track, Matches, EntityTypeOK
    <3> QED
      BY <2>1, <3>1 DEF EntityTypeOK
  <2>3. ASSUME NEW c \in Callers
        PROVE  Pending(c)'
    <3>1. find[c] # NoEntity => could[c] \subseteq could'[c]
      BY <2>1 DEF Track
    <3>2. Matches(find[c].got, find[c].across)' = Matches(find[c].got, find[c].across)
      BY <2>1 DEF Matches
    <3> QED
      BY <2>1, <3>1, <3>2 DEF Pending
  <2>4. ASSUME NEW k \in Tracked
        PROVE  Remembered(k)'
    BY <2>1 DEF Remembered
  <2> QED
    BY <2>2, <2>3, <2>4
<1>4. CASE EntityTick
  <2>1. EntityTypeOK'
    BY <1>4, LimitAssumption DEF EntityTick, EntityTypeOK, Days
  <2>2. \A c \in Callers : Pending(c)'
    BY <1>4 DEF EntityTick, Pending, Matches
  <2>3. \A k \in Tracked : Remembered(k)'
    BY <1>4 DEF EntityTick, Remembered
  <2> QED
    BY <2>1, <2>2, <2>3
<1>5. ASSUME NEW c \in Callers, NEW k \in Tracked, NEW across \in Senses, Get(c, k, across)
      PROVE  EntityInv'
  <2> DEFINE question == [key |-> k, across |-> across, got |-> entities[k]]
  <2>1. question \in Question
    BY DEF Question, EntityTypeOK
  <2>2. Matches(entities[k], across) \in BOOLEAN
    BY DEF Matches
  <2>3. EntityTypeOK'
    BY <1>5, <2>1, <2>2 DEF Get, EntityTypeOK
  <2>4. ASSUME NEW d \in Callers
        PROVE  Pending(d)'
    <3>1. CASE d = c
      <4>1. find'[d] = question /\ could'[d] = {Matches(entities[k], across)}
        BY <1>5, <3>1 DEF Get, EntityTypeOK
      <4>2. find'[d].got = entities[k] /\ find'[d].key = k /\ find'[d].across = across
        BY <4>1
      <4>3. Matches(find[d].got, find[d].across)' = Matches(entities[k], across)
        BY <1>5, <4>2 DEF Get, Matches
      <4>4. \A q \in Tracked : entities'[q] # NoEntity /\ entities'[q] = find'[d].got => q = k
        BY <1>5, <4>2 DEF Get, EntityTypeOK
      <4> QED
        BY <4>1, <4>2, <4>3, <4>4 DEF Pending
    <3>2. CASE d # c
      BY <1>5, <3>2 DEF Get, EntityTypeOK, Pending, Matches
    <3> QED
      BY <3>1, <3>2
  <2>5. \A q \in Tracked : Remembered(q)'
    BY <1>5 DEF Get, Remembered
  <2> QED
    BY <2>3, <2>4, <2>5
<1>6. ASSUME NEW c \in Callers, Judge(c)
      PROVE  EntityInv'
  <2>1. Matches(find[c].got, find[c].across) \in BOOLEAN
    BY DEF Matches
  <2>2. EntityTypeOK'
    BY <1>6, <2>1 DEF Judge, EntityTypeOK
  <2>3. \A d \in Callers : Pending(d)'
    BY <1>6 DEF Judge, EntityTypeOK, Pending, Matches
  <2>4. \A q \in Tracked : Remembered(q)'
    BY <1>6 DEF Judge, Remembered
  <2> QED
    BY <2>2, <2>3, <2>4
<1>7. CASE UNCHANGED entityVars
  BY <1>7 DEF entityVars, EntityTypeOK, Pending, Matches, Remembered
<1> QED
  BY <1>1, <1>2, <1>3, <1>4, <1>5, <1>6, <1>7 DEF EntityNext

LEMMA EntityInvHolds == EntitySpec => []EntityInv
<1>1. EntityInit => EntityInv
  BY LimitAssumption, BlankAssumption
     DEF EntityInit, EntityInv, EntityTypeOK, Pending, Remembered, Days, Seen, Unseen
<1>2. EntityInv /\ [EntityNext]_entityVars => EntityInv'
  BY EntityInvStep
<1> QED
  BY <1>1, <1>2, PTL DEF EntitySpec

(* The answer of the correlator was right at some time since its question, *)
(* for any number of callers, keys, cameras and regions.                   *)
THEOREM AnswerBracketedHolds == EntitySpec => AnswerBracketed
<1>1. ASSUME EntityInv, [EntityNext]_entityVars, NEW c \in Callers,
             find[c] # NoEntity, find'[c] = NoEntity
      PROVE  answer'[c] \in could[c]
  <2>1. ASSUME NEW d \in Callers, Judge(d)
        PROVE  answer'[c] \in could[c]
    BY <1>1, <2>1 DEF Judge, EntityInv, EntityTypeOK, Pending
  <2>2. ASSUME NEW d \in Callers, NEW k \in Tracked, NEW across \in Senses, Get(d, k, across)
        PROVE  FALSE
    BY <1>1, <2>2 DEF Get, EntityInv, EntityTypeOK
  <2> QED
    BY <1>1, <2>1, <2>2
       DEF EntityNext, UpdateFromState, UpdateFromEvent, CleanupEntities, EntityTick, entityVars
<1>2. EntityInv /\ [EntityNext]_entityVars
        => [\A c \in Callers : find[c] # NoEntity /\ find'[c] = NoEntity
                                 => answer'[c] \in could[c]]_entityVars
  BY <1>1
<1> QED
  BY <1>2, EntityInvHolds, PTL DEF EntitySpec, AnswerBracketed

(* The store reflects all that was seen of an entity since it became known,*)
(* for any number of sightings, regions and cameras and any limit of the   *)
(* history.                                                                *)
THEOREM SightingsKeptHolds == EntitySpec => []SightingsKept
<1>1. EntityInv => SightingsKept
  BY DEF EntityInv, Remembered, SightingsKept
<1> QED
  BY <1>1, EntityInvHolds, PTL

(* An entity seen in order is not forgotten within a TTL of any sighting,  *)
(* whatever the TTL and however many sightings there are.                  *)
THEOREM RememberedForTTLHolds == EntitySpec => RememberedForTTL
<1>1. ASSUME EntityInv, [EntityNext]_entityVars, NEW k \in Tracked,
             entities[k] # NoEntity, entities'[k] = NoEntity, InOrder(sightings[k].times),
             NEW i \in DOMAIN sightings[k].times
      PROVE  today - sightings[k].times[i] > EntityTTL
  <2>1. CASE CleanupEntities
    <3>1. today - heap[entities[k]].lastSeen > EntityTTL
      BY <1>1, <2>1 DEF CleanupEntities, Expired
    <3>2. sightings[k].times[i] <= heap[entities[k]].lastSeen
      BY <1>1 DEF EntityInv, Remembered, Dated
    <3>3. sightings[k].times \in Seq(Days) /\ heap[entities[k]].lastSeen \in Days
      BY <1>1, BlankAssumption DEF EntityInv, EntityTypeOK, EntityState, Seen
    <3>4. /\ sightings[k].times[i] \in Nat /\ heap[entities[k]].lastSeen \in Nat
          /\ today \in Nat
      BY <1>1, <3>3, LimitAssumption DEF EntityInv, EntityTypeOK, Days
    <3> QED
      BY <3>1, <3>2, <3>4, LimitAssumption
  <2>2. ASSUME NEW q \in Tracked, NEW seen \in Seen, NEW o \in Objects,
               NEW st \in EntityState, Put(q, seen, o, st)
        PROVE  FALSE
    BY <1>1, <2>2, BlankAssumption DEF Put, EntityInv, EntityTypeOK
  <2>3. ASSUME NEW q \in Tracked, NEW at \in 0..today,
               \/ UpdateFromEvent(q, at)
               \/ \E camera \in EntityCameras, roi \in Rois \union {Blank} :
                    UpdateFromState(q, camera, roi, at)
        PROVE  FALSE
    BY <1>1, <2>2, <2>3, UpdatesPut DEF EntityInv
  <2> QED
    BY <1>1, <2>1, <2>3 DEF EntityNext, EntityTick, Get, Judge, entityVars
<1>2. EntityInv /\ [EntityNext]_entityVars
        => [\A k \in Tracked :
              entities[k] # NoEntity /\ entities'[k] = NoEntity /\ InOrder(sightings[k].times)
                => \A i \in DOMAIN sightings[k].times :
                     today - sightings[k].times[i] > EntityTTL]_entityVars
  BY <1>1
<1> QED
  BY <1>2, EntityInvHolds, PTL DEF EntitySpec, RememberedForTTL

-----------------------------------------------------------------------------

(* Put together, each component does what it does alone, whichever moves.  *)
THEOREM PartsBehave ==
  AllSpec => /\ PathSpec /\ StateSpec /\ SustainSpec /\ RuleSpec
             /\ InstanceSpec /\ FactSpec /\ EntitySpec
<1> USE DEF AllNext, allVars, EventStep, StateStep, SustainStep, RuleStep, InstanceStep,
            FactStep, EntityStep
<1>1. AllInit => /\ PathInit /\ StateInit /\ SustainInit /\ RuleInit
                 /\ InstanceInit /\ FactInit /\ EntityInit
  BY DEF AllInit
<1>2. [AllNext]_allVars => [PathNext]_vars
  OBVIOUS
<1>3. [AllNext]_allVars => [StateNext]_stateVars
  OBVIOUS
<1>4. [AllNext]_allVars => [SustainNext]_sustainVars
  OBVIOUS
<1>5. [AllNext]_allVars => [RuleNext]_ruleVars
  OBVIOUS
<1>6. [AllNext]_allVars => [InstanceNext]_instanceVars
  OBVIOUS
<1>7. [AllNext]_allVars => [FactNext]_factVars
  OBVIOUS
<1>8. [AllNext]_allVars => [EntityNext]_entityVars
  OBVIOUS
<1>9. QED
  BY <1>1, <1>2, <1>3, <1>4, <1>5, <1>6, <1>7, <1>8, PTL
  DEF AllSpec, PathSpec, StateSpec, SustainSpec, RuleSpec, InstanceSpec, FactSpec, EntitySpec

(* So all of them are sound in their types.                                *)
THEOREM AllTypesHold == AllSpec => []TypesOK
<1>1. (RuleInv => RuleTypeOK) /\ (InstanceInv => InstanceTypeOK)
  BY DEF RuleInv, InstanceInv
<1>2. (FactInv => FactTypeOK) /\ (EntityInv => EntityTypeOK)
  BY DEF FactInv, EntityInv
<1>3. PathTypeOK /\ StateTypeOK /\ StoreTypeOK /\ RuleTypeOK
        /\ InstanceTypeOK /\ FactTypeOK /\ EntityTypeOK => TypesOK
  BY DEF TypesOK
<1>4. QED
  BY <1>1, <1>2, <1>3, PartsBehave, PathTypeCorrect, StateTypeCorrect, StoreTyped,
     SustainUsesStore, RuleInvHolds, InstanceInvHolds, FactInvHolds, EntityInvHolds, PTL

(* And what is proved of each component holds of the composition.          *)
THEOREM MemoryIsTrue ==
  AllSpec => /\ [](CountsExact /\ WindowReads /\ OwnMemory /\ HeldIsCurrent)
             /\ [](DefinitionsFit /\ SightingsKept /\ HeldContinuously /\ FreshForTTL)
             /\ CleanupIsInvisible /\ AnswerBracketed /\ RememberedForTTL
  BY PartsBehave, CountsExactHolds, WindowReadsHolds, OwnMemoryHolds, HeldIsCurrentHolds,
     DefinitionsFitHolds, SightingsKeptHolds, HeldContinuouslyHolds, SustainUsesStore,
     UsableForTTL, CleanupUnseen, AnswerBracketedHolds, RememberedForTTLHolds, PTL

=============================================================================
