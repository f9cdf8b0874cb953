--------------------------- MODULE TriggerManager ---------------------------
(***************************************************************************)
(* TriggerManager (internal/engine/trigger.go) under concurrent callers.   *)
(*                                                                         *)
(* Every HTTP request that reaches the engine runs in a goroutine of its   *)
(* own and calls ShouldTrigger for each rule it evaluates.  ShouldTrigger  *)
(* is three critical sections: the lookup of the rule's trigger state      *)
(* under the read lock of the map, its creation under the write lock (with *)
(* a second lookup), and the decision under the mutex of the state itself. *)
(* Remove, called when a rule is unregistered, only takes the map lock, so *)
(* a caller may decide on a state that has left the map.                   *)
(*                                                                         *)
(* Objects are the heap cells of *TriggerState; `used` are those allocated *)
(* so far.  `dropped` and `hist` are history variables: the cells Remove   *)
(* took out of the map, and the evaluations each cell has decided.         *)
(***************************************************************************)
EXTENDS TriggerLogic, Sequences, FiniteSets

LOCAL INSTANCE FiniteSetsExt

CONSTANTS
  Rules,     (* rule ids *)
  Workers,   (* goroutines that evaluate rules *)
  Objects,   (* heap cells that can hold a trigger state *)
  Stamps,    (* emittedAt values of the messages posted *)
  Configs,   (* trigger and sustain parts of rules *)
  MaxEvals,  (* bound: calls of ShouldTrigger *)
  None       (* no object, no call *)

ASSUME StampsAssumption == Stamps \subseteq Nat
ASSUME ConfigsAssumption == Configs \subseteq TriggerConfig
ASSUME NoneAssumption == None \notin Objects

VARIABLES
  states,    (* the map of the manager: Rules -> Objects or None *)
  heap,      (* the contents of each object *)
  used,      (* objects allocated *)
  call,      (* the call each worker is in: None, or where it stands *)
  dropped,   (* history: objects removed from the map *)
  hist       (* history: evaluations decided on each object *)

vars == <<states, heap, used, call, dropped, hist>>

Call == [pc : {"create", "decide"}, rule : Rules, obj : Objects \union {None},
         cond : BOOLEAN, at : Stamps, cfg : Configs]

Evaluation == [cond : BOOLEAN, at : Stamps, cfg : Configs, fired : BOOLEAN]

TypeOK ==
  /\ states \in [Rules -> used \union {None}]
  /\ heap \in [Objects -> TriggerState]
  /\ used \subseteq Objects
  /\ call \in [Workers -> Call \union {None}]
  /\ \A w \in Workers : call[w] # None /\ call[w].pc = "decide"
                          => call[w].obj \in used
  /\ dropped \subseteq used
  /\ hist \in [Objects -> Seq(Evaluation)]

-----------------------------------------------------------------------------

Init ==
  /\ states = [r \in Rules |-> None]
  /\ heap = [o \in Objects |-> NewTriggerState]
  /\ used = {}
  /\ call = [w \in Workers |-> None]
  /\ dropped = {}
  /\ hist = [o \in Objects |-> <<>>]

(* Both ingestion handlers answer 400 to a message whose emittedAt is 0,   *)
(* so 0 never reaches the manager, where it means "none".                  *)
Accepted(at) == at # 0

(* The calls of ShouldTrigger so far, which MaxEvals bounds.               *)
Calls ==
  MapThenSumSet(LAMBDA o : Len(hist[o]), Objects)
    + Cardinality({w \in Workers : call[w] # None})

(* Mutant: a missing state is not created.                                 *)
LookupOnly(w, r, cond, at, cfg) ==
  /\ call[w] = None
  /\ Calls < MaxEvals
  /\ Accepted(at)
  /\ call' = [call EXCEPT ![w] =
       [pc |-> "decide", rule |-> r, obj |-> states[r], cond |-> cond, at |-> at,
        cfg |-> cfg]]
  /\ UNCHANGED <<states, heap, used, dropped, hist>>

(* getOrCreateState, first critical section: the map lookup.               *)
Lookup(w, r, cond, at, cfg) ==
  /\ call[w] = None
  /\ Calls < MaxEvals
  /\ Accepted(at)
  /\ call' = [call EXCEPT ![w] =
       [pc |-> IF states[r] = None THEN "create" ELSE "decide",
        rule |-> r, obj |-> states[r], cond |-> cond, at |-> at, cfg |-> cfg]]
  /\ UNCHANGED <<states, heap, used, dropped, hist>>

(* getOrCreateState, second critical section, when the lookup of another   *)
(* worker has been faster: the state it created is the one to use.         *)
CreateFound(w) ==
  /\ call[w] # None
  /\ call[w].pc = "create"
  /\ states[call[w].rule] # None
  /\ call' = [call EXCEPT ![w] = [@ EXCEPT !.pc = "decide", !.obj = states[call[w].rule]]]
  /\ UNCHANGED <<states, heap, used, dropped, hist>>

(* Mutant: the second lookup, under the write lock, is left out.           *)
CreateBlindly(w) ==
  /\ call[w] # None
  /\ call[w].pc = "create"
  /\ \E o \in Objects \ used :
       /\ states' = [states EXCEPT ![call[w].rule] = o]
       /\ heap' = [heap EXCEPT ![o] = NewTriggerState]
       /\ used' = used \union {o}
       /\ call' = [call EXCEPT ![w] = [@ EXCEPT !.pc = "decide", !.obj = o]]
  /\ UNCHANGED <<dropped, hist>>

CreateNew(w) ==
  /\ call[w] # None
  /\ call[w].pc = "create"
  /\ states[call[w].rule] = None
  /\ \E o \in Objects \ used :
       /\ states' = [states EXCEPT ![call[w].rule] = o]
       /\ heap' = [heap EXCEPT ![o] = NewTriggerState]
       /\ used' = used \union {o}
       /\ call' = [call EXCEPT ![w] = [@ EXCEPT !.pc = "decide", !.obj = o]]
  /\ UNCHANGED <<dropped, hist>>

(* The rest of ShouldTrigger, under the mutex of the object.               *)
Decide(w) ==
  /\ call[w] # None
  /\ call[w].pc = "decide"
  /\ LET c == call[w]
         o == c.obj
     IN  /\ heap' = [heap EXCEPT ![o] = Evaluated(@, c.cond, c.at, c.cfg)]
         /\ hist' = [hist EXCEPT ![o] =
              Append(@, [cond |-> c.cond, at |-> c.at, cfg |-> c.cfg,
                         fired |-> Fires(heap[o], c.cond, c.at, c.cfg)])]
  /\ call' = [call EXCEPT ![w] = None]
  /\ UNCHANGED <<states, used, dropped>>

(* Remove (and Reset, which is the same call).                             *)
Remove(r) ==
  /\ states[r] # None
  /\ dropped' = dropped \union {states[r]}
  /\ states' = [states EXCEPT ![r] = None]
  /\ UNCHANGED <<heap, used, call, hist>>

Next ==
  \/ \E w \in Workers, r \in Rules, cond \in BOOLEAN, at \in Stamps, cfg \in Configs :
       Lookup(w, r, cond, at, cfg)
  \/ \E w \in Workers : CreateFound(w)
  \/ \E w \in Workers : CreateNew(w)
  \/ \E w \in Workers : Decide(w)
  \/ \E r \in Rules : Remove(r)

Spec == Init /\ [][Next]_vars

-----------------------------------------------------------------------------

(* The double-checked lookup never splits a rule over two trigger states:  *)
(* a state in use is the one the map holds unless Remove took it out.      *)
(* Two states for one rule would each see an edge and fire twice.          *)
OneLiveState ==
  \A o \in used \ dropped :
    \E r \in Rules : states[r] = o /\ \A q \in Rules \ {r} : states[q] # o

(* Two firings of one trigger state are a cooldown apart, by the cooldown  *)
(* in force at the later one, in whatever order messages arrive and        *)
(* although only the last firing is remembered (PRD: "Once triggered, the  *)
(* action cannot execute again until the cooldown expires").               *)
CooldownRespected ==
  \A o \in Objects : \A i, j \in DOMAIN hist[o] :
    i < j /\ hist[o][i].fired /\ hist[o][j].fired
      => hist[o][j].at - hist[o][i].at >= hist[o][j].cfg.cooldown

(* A sustained rule that fires was true at every evaluation since one that *)
(* is at least the sustain duration older, and did not fire in between.    *)
SustainedContinuously ==
  \A o \in Objects : \A j \in DOMAIN hist[o] :
    hist[o][j].fired /\ Sustained(hist[o][j].cfg) =>
      \E i \in 1..(j - 1) :
        /\ hist[o][j].at - hist[o][i].at >= hist[o][j].cfg.sustain
        /\ \A k \in i..(j - 1) : hist[o][k].cond /\ ~hist[o][k].fired

(* A rising rule without a sustain part fires once per rising edge: its    *)
(* condition was false, or never evaluated, just before.                   *)
RisingOnEdge ==
  \A o \in Objects : \A j \in DOMAIN hist[o] :
    hist[o][j].fired /\ hist[o][j].cfg.mode # "every" /\ ~Sustained(hist[o][j].cfg)
      => j = 1 \/ ~hist[o][j - 1].cond

(* Whatever happened in between, repeated, late or refused messages and a  *)
(* removal of the rule included, a firing has its reason in the history.   *)
FiringsJustified == SustainedContinuously /\ RisingOnEdge

(* Every step of the code is a step of the abstract trigger specification, *)
(* which decides from the complete history of each trigger state.          *)
Abstract == INSTANCE TriggerSpec
AbstractSpec == Abstract!Spec

(* The inductive invariant behind these: what the three scalars of a       *)
(* trigger state say about its history.                                    *)
Linked(st, h) ==
  /\ st.prev <=> Abstract!WasTrue(h)
  /\ \A i \in DOMAIN h : h[i].at # 0 /\ (h[i].fired => h[i].at <= st.last)
  /\ st.last # 0 => \E i \in DOMAIN h : h[i].fired /\ h[i].at = st.last
  /\ st.start = 0 =>
       \A i \in DOMAIN h : Abstract!InStreak(h, i) => h[i].cfg.sustain = 0
  /\ st.start # 0 =>
       \E i \in DOMAIN h : Abstract!Opens(h, i) /\ h[i].at = st.start

Linkage ==
  /\ \A o \in Objects : Linked(heap[o], hist[o])
  /\ \A o \in Objects \ used : hist[o] = <<>>
  /\ \A w \in Workers : call[w] # None => Accepted(call[w].at)

(* The documentation's reading of a rising rule: one firing per period in  *)
(* which the condition stays true ("A continuously true condition does not *)
(* repeatedly trigger on every 5-second state update"), sustained or not,  *)
(* when messages arrive in order.                                          *)
InOrder(h) == \A k \in DOMAIN h : k > 1 => h[k - 1].at < h[k].at

OncePerEpisode ==
  \A o \in Objects : InOrder(hist[o]) => \A i, j \in DOMAIN hist[o] :
    i < j /\ hist[o][i].fired /\ hist[o][j].fired /\ hist[o][j].cfg.mode # "every"
      => \E k \in i..j : ~hist[o][k].cond

=============================================================================
