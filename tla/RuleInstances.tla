----------------------------- MODULE RuleInstances -----------------------------
(***************************************************************************)
(* The store of rule instances (internal/rulestate/instance.go): what a    *)
(* rule over several events has matched so far, per correlation key, until *)
(* it is completed or its deadline has passed.                             *)
(*                                                                         *)
(* GetOrCreate hands out a pointer, which its caller goes on using without *)
(* the store's lock; Complete and the background Cleanup take the instance *)
(* out of the map meanwhile.  Nothing in the engine calls the store yet:   *)
(* the callers below use each of its operations at any time.               *)
(***************************************************************************)
EXTENDS Naturals, FiniteSets

CONSTANTS
  MatchKeys,
  Holders,
  Cells,         (* the addresses of instances *)
  Lifetimes,     (* the deadlines that callers give, counted from now *)
  LastInstant,   (* bound on the clock *)
  NoInstance

Instance == [key : MatchKeys, deadline : Nat]

ASSUME DeadlineAssumption ==
  /\ Lifetimes \subseteq Nat \ {0} /\ LastInstant \in Nat
  /\ NoInstance \notin Cells /\ NoInstance \notin Instance

VARIABLES
  instances,  (* the map: an address for each key, or NoInstance *)
  cell,       (* per address: the instance there, or NoInstance *)
  hand,       (* per caller: the address it holds, or NoInstance *)
  clock,      (* the clock, in the unit of the deadlines *)
  cleaned,    (* history: when the cleanup ran last *)
  completed   (* history: the addresses completed *)

instanceVars == <<instances, cell, hand, clock, cleaned, completed>>

InstanceTypeOK ==
  /\ instances \in [MatchKeys -> Cells \union {NoInstance}]
  /\ cell \in [Cells -> Instance \union {NoInstance}]
  /\ hand \in [Holders -> Cells \union {NoInstance}]
  /\ \A k \in MatchKeys : instances[k] # NoInstance =>
       cell[instances[k]] # NoInstance /\ cell[instances[k]].key = k
  /\ clock \in 0..LastInstant
  /\ cleaned \in 0..clock
  /\ completed \subseteq Cells

InstanceInit ==
  /\ instances = [k \in MatchKeys |-> NoInstance]
  /\ cell = [c \in Cells |-> NoInstance]
  /\ hand = [p \in Holders |-> NoInstance]
  /\ clock = 0
  /\ cleaned = 0
  /\ completed = {}

-----------------------------------------------------------------------------

(* GetOrCreate of a key that is not there, with the deadline that the      *)
(* caller gives; 0 stands for none ...                                     *)
CreateInstance(p, k) ==
  /\ hand[p] = NoInstance
  /\ instances[k] = NoInstance
  /\ \E c \in Cells, deadline \in {0} \union {clock + l : l \in Lifetimes} :
       /\ cell[c] = NoInstance
       /\ instances' = [instances EXCEPT ![k] = c]
       /\ cell' = [cell EXCEPT ![c] = [key |-> k, deadline |-> deadline]]
       /\ hand' = [hand EXCEPT ![p] = c]
  /\ UNCHANGED <<clock, cleaned, completed>>

(* ... and of one that is: whatever its deadline, and keeping it.          *)
FindInstance(p, k) ==
  /\ hand[p] = NoInstance
  /\ instances[k] # NoInstance
  /\ hand' = [hand EXCEPT ![p] = instances[k]]
  /\ UNCHANGED <<instances, cell, clock, cleaned, completed>>

(* Complete, which takes a key and not an instance: what it removes may be *)
(* another one than its caller's.                                          *)
Complete(p) ==
  /\ hand[p] # NoInstance
  /\ LET k == cell[hand[p]].key
     IN  /\ instances' = [instances EXCEPT ![k] = NoInstance]
         /\ completed' = completed \union ({instances[k]} \ {NoInstance})
  /\ hand' = [hand EXCEPT ![p] = NoInstance]
  /\ UNCHANGED <<cell, clock, cleaned>>

(* The caller is done for now.                                             *)
DropInstance(p) ==
  /\ hand[p] # NoInstance
  /\ hand' = [hand EXCEPT ![p] = NoInstance]
  /\ UNCHANGED <<instances, cell, clock, cleaned, completed>>

(* Mutant: the deadline itself is too late.                                *)
OverdueAtDeadline(c) == cell[c].deadline > 0 /\ clock >= cell[c].deadline

(* What Cleanup removes.                                                   *)
Overdue(c) == cell[c].deadline > 0 /\ clock > cell[c].deadline

(* The ticker's; it may be late by any time.                               *)
CleanupInstances ==
  /\ instances' = [k \in MatchKeys |->
       IF instances[k] # NoInstance /\ Overdue(instances[k]) THEN NoInstance
       ELSE instances[k]]
  /\ cleaned' = clock
  /\ UNCHANGED <<cell, hand, clock, completed>>

InstanceTick ==
  /\ clock < LastInstant
  /\ clock' = clock + 1
  /\ UNCHANGED <<instances, cell, hand, cleaned, completed>>

(* The garbage collector.                                                  *)
FreeInstance(c) ==
  /\ cell[c] # NoInstance
  /\ \A k \in MatchKeys : instances[k] # c
  /\ \A p \in Holders : hand[p] # c
  /\ cell' = [cell EXCEPT ![c] = NoInstance]
  /\ completed' = completed \ {c}
  /\ UNCHANGED <<instances, hand, clock, cleaned>>

InstanceNext ==
  \/ \E p \in Holders :
       \/ \E k \in MatchKeys : CreateInstance(p, k) \/ FindInstance(p, k)
       \/ Complete(p) \/ DropInstance(p)
  \/ CleanupInstances \/ InstanceTick
  \/ \E c \in Cells : FreeInstance(c)

InstanceSpec == InstanceInit /\ [][InstanceNext]_instanceVars

-----------------------------------------------------------------------------

(* An instance is good until its deadline, if it has one.                  *)
Timely(i, instant) == i.deadline = 0 \/ instant <= i.deadline

(* An instance is in the map as long as it is good, and not much longer.   *)
(* Whoever holds one that was not completed and has not passed its deadline*)
(* holds the one that others get, so that what the one matches is not lost *)
(* on the other; and one that is past its deadline is handed out only until*)
(* the cleanup comes by.                                                   *)
HeldIsCurrent ==
  /\ \A p \in Holders :
       hand[p] # NoInstance /\ Timely(cell[hand[p]], clock) /\ hand[p] \notin completed
         => instances[cell[hand[p]].key] = hand[p]
  /\ \A k \in MatchKeys : instances[k] # NoInstance => Timely(cell[instances[k]], cleaned)

=============================================================================
