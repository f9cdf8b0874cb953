----------------------------- MODULE RuleMemory -----------------------------
(***************************************************************************)
(* What the engine remembers of one rule between evaluations: its window   *)
(* (internal/window/manager.go) and its trigger state, against the requests*)
(* that create, replace and delete the rule.                               *)
(*                                                                         *)
(* Both are made when an evaluation first asks for them and dropped by     *)
(* UnregisterRule.  An evaluation works on the version of the rule it found*)
(* when its payload was looked up, takes no lock from then on, and asks for*)
(* the memory three times.  Each rule created under the id is a generation;*)
(* what an evaluation leaves behind is marked with the generation it found.*)
(*                                                                         *)
(* Two things spoil the memory, and two history variables remember them: a *)
(* rule deleted while an evaluation of it is under way (`overlapped`), and *)
(* a PUT that changes the duration of the window (`replaced`).             *)
(***************************************************************************)
EXTENDS Integers

CONSTANTS
  RuleDurations,  (* window durations of the versions clients send *)
  Evaluators,     (* payloads being evaluated at a time *)
  MaxGeneration,  (* bound: how often the rule is created *)
  NoRule

ASSUME GenerationAssumption == MaxGeneration \in Nat

Generations == 1..MaxGeneration

Version == [generation : Generations, duration : RuleDurations]
RuleWindow == [duration : RuleDurations, entries : SUBSET Generations]
Evaluation == [version : Version, pc : {"add", "judge", "trigger"}]

ASSUME NoRuleAssumption ==
  NoRule \notin Version /\ NoRule \notin RuleWindow /\ NoRule \notin Evaluation

VARIABLES
  active,      (* Engine.rules: the active Version, or NoRule *)
  ruleWindow,  (* Manager: the rule's Window, or NoRule *)
  trigger,     (* TriggerManager: the generations its state comes from, or NoRule *)
  removing,    (* UnregisterRule holds the engine's lock, its last step to come *)
  eval,        (* per worker: its Evaluation, or NoRule *)
  generation,  (* how often the rule was created *)
  overlapped,  (* history: the rule was deleted during an evaluation *)
  replaced     (* history: the window's duration changed since the creation *)

ruleHistory == <<overlapped, replaced>>
ruleVars == <<active, ruleWindow, trigger, removing, eval, generation, ruleHistory>>

RuleTypeOK ==
  /\ active \in Version \union {NoRule}
  /\ ruleWindow \in RuleWindow \union {NoRule}
  /\ trigger \in (SUBSET Generations) \union {NoRule}
  /\ removing \in BOOLEAN
  /\ eval \in [Evaluators -> Evaluation \union {NoRule}]
  /\ generation \in 0..MaxGeneration
  /\ overlapped \in BOOLEAN /\ replaced \in BOOLEAN

NobodyEvaluates == \A w \in Evaluators : eval[w] = NoRule

RuleInit ==
  /\ active = NoRule
  /\ ruleWindow = NoRule
  /\ trigger = NoRule
  /\ removing = FALSE
  /\ eval = [w \in Evaluators |-> NoRule]
  /\ generation = 0
  /\ overlapped = FALSE /\ replaced = FALSE

-----------------------------------------------------------------------------

(* RegisterRule, for a new rule and for one that is replaced: the memory   *)
(* is left alone.                                                          *)
CreateRule(duration) ==
  /\ active = NoRule /\ ~removing /\ generation < MaxGeneration
  /\ generation' = generation + 1
  /\ active' = [generation |-> generation + 1, duration |-> duration]
  /\ replaced' = FALSE
  /\ UNCHANGED <<ruleWindow, trigger, removing, eval, overlapped>>

ReplaceRule(duration) ==
  /\ active # NoRule
  /\ active' = [active EXCEPT !.duration = duration]
  /\ replaced' = (replaced \/ duration # active.duration)
  /\ UNCHANGED <<ruleWindow, trigger, removing, eval, generation, overlapped>>

(* Mutant: the trigger state stays.                                        *)
KeepTrigger ==
  /\ removing
  /\ removing' = FALSE
  /\ UNCHANGED <<active, ruleWindow, trigger, eval, generation, ruleHistory>>

(* UnregisterRule: the rule and its windows, then its trigger state, with  *)
(* the engine locked, which evaluations do not notice.                     *)
UnregisterRule ==
  /\ ~removing
  /\ overlapped' = (overlapped \/ ~NobodyEvaluates)
  /\ active' = NoRule
  /\ ruleWindow' = NoRule
  /\ removing' = TRUE
  /\ UNCHANGED <<trigger, eval, generation, replaced>>

RemoveTrigger ==
  /\ removing
  /\ trigger' = NoRule
  /\ removing' = FALSE
  /\ UNCHANGED <<active, ruleWindow, eval, generation, ruleHistory>>

(* ProcessState and ProcessEvent find the rule.                            *)
FindRule(w) ==
  /\ eval[w] = NoRule /\ active # NoRule
  /\ eval' = [eval EXCEPT ![w] = [version |-> active, pc |-> "add"]]
  /\ UNCHANGED <<active, ruleWindow, trigger, removing, generation, ruleHistory>>

(* GetOrCreateStateWindow and GetOrCreateEventWindow: one that is there    *)
(* keeps the duration it was made with.                                    *)
GetOrCreate(version) ==
  IF ruleWindow = NoRule THEN [duration |-> version.duration, entries |-> {}] ELSE ruleWindow

Stands(w, pc) == eval[w] # NoRule /\ eval[w].pc = pc

AddToRuleWindow(w) ==
  /\ Stands(w, "add")
  /\ LET version == eval[w].version
         found == GetOrCreate(version)
     IN  ruleWindow' = [found EXCEPT !.entries = @ \union {version.generation}]
  /\ eval' = [eval EXCEPT ![w].pc = "judge"]
  /\ UNCHANGED <<active, trigger, removing, generation, ruleHistory>>

(* evaluateRule asks for the window again, to count what is in it.         *)
Count(w) ==
  /\ Stands(w, "judge")
  /\ ruleWindow' = GetOrCreate(eval[w].version)
  /\ eval' = [eval EXCEPT ![w].pc = "trigger"]
  /\ UNCHANGED <<active, trigger, removing, generation, ruleHistory>>

(* ShouldTrigger: the state is made if need be, and changed.               *)
ShouldTrigger(w) ==
  /\ Stands(w, "trigger")
  /\ trigger' = (IF trigger = NoRule THEN {} ELSE trigger)
                  \union {eval[w].version.generation}
  /\ eval' = [eval EXCEPT ![w] = NoRule]
  /\ UNCHANGED <<active, ruleWindow, removing, generation, ruleHistory>>

RuleNext ==
  \/ \E duration \in RuleDurations : CreateRule(duration) \/ ReplaceRule(duration)
  \/ UnregisterRule \/ RemoveTrigger
  \/ \E w \in Evaluators : FindRule(w) \/ AddToRuleWindow(w) \/ Count(w) \/ ShouldTrigger(w)

RuleSpec == RuleInit /\ [][RuleNext]_ruleVars

-----------------------------------------------------------------------------

(* A rule starts with an empty memory: its window and its trigger state    *)
(* hold nothing that was made for an earlier rule of the same id, so it is *)
(* neither kept from firing by that rule's cooldown nor fired by its       *)
(* events, and the window is as long as the active version says until a PUT*)
(* changes the duration; unless a deletion met an evaluation, which makes  *)
(* window and trigger state anew, and nobody drops them.                   *)
OwnMemory ==
  ~overlapped /\ active # NoRule =>
    /\ ruleWindow # NoRule => ruleWindow.entries \subseteq {active.generation}
    /\ trigger # NoRule => trigger \subseteq {active.generation}
    /\ ruleWindow # NoRule /\ ~replaced => ruleWindow.duration = active.duration

=============================================================================
