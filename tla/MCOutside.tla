------------------------------ MODULE MCOutside --------------------------------
(***************************************************************************)
(* One instance for TLC of what is around the engine: the files and rows of*)
(* its actions (ActionExecution), the page that shows them (Dashboard) and *)
(* the simulator that feeds it (Simulator).                                *)
(*                                                                         *)
(* The components share no state, so that a run in which one of them moves *)
(* and the others stand still loses nothing: `part` is the one that moves. *)
(***************************************************************************)
EXTENDS ActionExecution, Dashboard, Simulator, TLC

VARIABLE part

allVars == <<part, vars, pageVars, simulatorVars>>

(* Two actions share a file, the first of them with the longer record.     *)
FileOf == "a1" :> "n1" @@ "a2" :> "n1" @@ "a3" :> "n2"
Lengths == "a1" :> 2 @@ "a2" :> 1 @@ "a3" :> 1

(* Four executions, two with one time stamp, for a list of three.          *)
Stamps == "e1" :> 2 @@ "e2" :> 1 @@ "e3" :> 2 @@ "e4" :> 3

Spawn(roi) == [do |-> "spawn", roi |-> roi]
Staff(roi) == [do |-> "staff", roi |-> roi]
Despawn(roi, n) == [do |-> "despawn", roi |-> roi, count |-> n]

(* One scenario brings in two and takes them away, another keeps staff, and*)
(* brings in one and takes it away.                                        *)
Scripts ==
  "s1" :> <<Spawn("door"), Spawn("door"), Despawn("door", 2)>> @@
  "s2" :> <<Staff("queue"), Spawn("queue"), Despawn("queue", 1)>>

(* All the components are sound in their types.                            *)
TypesOK == TypeOK /\ PageTypeOK /\ SimulatorTypeOK

-----------------------------------------------------------------------------

AllInit ==
  /\ part \in {"actions", "page", "simulator"}
  /\ Init
  /\ PageInit
  /\ SimulatorInit
  /\ part # "simulator" => \A r \in DOMAIN stored : stored[r] = "none"

ActionStep == part = "actions" /\ Next /\ UNCHANGED <<part, pageVars, simulatorVars>>
PageStep == part = "page" /\ PageNext /\ UNCHANGED <<part, vars, simulatorVars>>
SimulatorStep == part = "simulator" /\ SimulatorNext /\ UNCHANGED <<part, vars, pageVars>>

AllNext == ActionStep \/ PageStep \/ SimulatorStep

AllSpec == AllInit /\ [][AllNext]_allVars

=============================================================================
