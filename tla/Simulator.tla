------------------------------- MODULE Simulator -------------------------------
(***************************************************************************)
(* The simulator (cmd/simulator): it provisions its rules, and then several*)
(* goroutines play scenarios on one world of regions and entities, while   *)
(* another reports that world once a second.                               *)
(*                                                                         *)
(* The world is made of maps that nobody guards: one with the camera in it,*)
(* one of the regions of a camera, and one of the entities in each region. *)
(* A write to a map takes a while; whoever uses the map meanwhile either   *)
(* gets by, and then one of two writes may be lost, or is caught by the    *)
(* runtime, and then the process ends ("concurrent map iteration and map   *)
(* write").  Goroutines that do not find the camera make one each.         *)
(*                                                                         *)
(* The sleeps between the operations are left out.                         *)
(***************************************************************************)
EXTENDS Naturals, Sequences, FiniteSets

CONSTANTS
  Rules,
  Rois,
  Ids,        (* trackIds, which are drawn at random and may repeat *)
  Scenarios,
  Script,     (* per scenario: its operations *)
  Nothing     (* no entity, no region, no camera *)

Events == {"line_crossed", "exit"} \X Ids

Ticker == "ticker"
Procs == Scenarios \union {Ticker}

(* The maps, by the way that leads to them: the cameras, the regions of one*)
(* (which is named after the scenario that made it), the entities of one.  *)
Maps == {<<>>} \union {<<c>> : c \in Scenarios} \union (Scenarios \X Rois)

Operation == [do : {"spawn", "staff"}, roi : Rois]
               \union [do : {"despawn"}, roi : Rois, count : Nat]

ASSUME ScriptAssumption == Script \in [Scenarios -> Seq(Operation)]

(* A region belongs to one scenario.                                       *)
ASSUME OwnersAssumption ==
  \A p, q \in Scenarios : \A i \in DOMAIN Script[p], j \in DOMAIN Script[q] :
    Script[p][i].roi = Script[q][j].roi => p = q

ASSUME NothingAssumption == Nothing \notin Ids \union Scenarios /\ Ticker \notin Scenarios

VARIABLES
  stored,    (* the rules of the engine: none, one from an earlier start, or ours *)
  asked,     (* per rule: which of its two requests comes next *)
  late,      (* per rule: the DELETE that its sender has given up, if it is still due *)
  reported,  (* the rules reported as provisioned *)
  camera,    (* w.Cameras: the camera that is there, or Nothing *)
  rois,      (* per camera: the map of its regions *)
  entities,  (* per camera and region: the map of the entities *)
  writing,   (* per map: who is in the middle of a write *)
  cam,       (* per scenario: the camera that GetROI has found or made last *)
  step,      (* per scenario: where it is in its operation *)
  next,      (* per scenario: the number of that operation *)
  left,      (* per scenario: how many are left to despawn *)
  hand,      (* per scenario: the entity it is at *)
  tick,      (* where Tick is, and what it has visited *)
  fatal,
  fired,     (* history, per region: the events sent *)
  gone       (* history, per region: the entities in one that the map has lost *)

simulatorVars ==
  <<stored, asked, late, reported, camera, rois, entities, writing, cam, step, next, left, hand,
    tick, fatal, fired, gone>>
provisioning == <<stored, asked, late, reported>>
world == <<camera, rois, entities, writing, fired, gone>>

SimulatorTypeOK ==
  /\ stored \in [Rules -> {"none", "old", "new"}]
  /\ asked \in [Rules -> {"delete", "post", "done"}]
  /\ late \in [Rules -> {"no", "due", "served"}]
  /\ reported \subseteq Rules
  /\ camera \in Scenarios \union {Nothing}
  /\ rois \in [Scenarios -> SUBSET Rois]
  /\ entities \in [Scenarios \X Rois -> SUBSET Ids]
  /\ writing \in [Maps -> SUBSET Scenarios]
  /\ cam \in [Scenarios -> Scenarios \union {Nothing}]
  /\ step \in [Scenarios -> {"get", "camera", "region", "create", "write", "insert", "crossed",
                             "iterate", "delete", "exit"}]
  /\ next \in [Scenarios -> Nat \ {0}]
  /\ left \in [Scenarios -> Nat]
  /\ hand \in [Scenarios -> Ids \union {Nothing}]
  /\ tick \in [at : {"idle", "cameras", "regions", "entities"}, cam : Scenarios \union {Nothing},
               seen : SUBSET Rois, roi : Rois \union {Nothing}, listed : SUBSET Ids]
  /\ tick.at \in {"regions", "entities"} => tick.cam \in Scenarios
  /\ tick.at = "entities" => tick.roi \in Rois
  /\ fatal \in BOOLEAN
  /\ fired \in [Rois -> Seq(Events)]
  /\ gone \in [Rois -> SUBSET Ids]

Idle == [at |-> "idle", cam |-> Nothing, seen |-> {}, roi |-> Nothing, listed |-> {}]

SimulatorInit ==
  /\ stored \in [Rules -> {"none", "old"}]
  /\ asked = [r \in Rules |-> "delete"]
  /\ late = [r \in Rules |-> "no"]
  /\ reported = {}
  /\ camera = Nothing
  /\ rois = [c \in Scenarios |-> {}]
  /\ entities = [region \in Scenarios \X Rois |-> {}]
  /\ writing = [m \in Maps |-> {}]
  /\ cam = [p \in Scenarios |-> Nothing]
  /\ step = [p \in Scenarios |-> "get"]
  /\ next = [p \in Scenarios |-> 1]
  /\ left = [p \in Scenarios |-> 0]
  /\ hand = [p \in Scenarios |-> Nothing]
  /\ tick = Idle
  /\ fatal = FALSE
  /\ fired = [r \in Rois |-> <<>>]
  /\ gone = [r \in Rois |-> {}]

-----------------------------------------------------------------------------

(* provisionRule: a DELETE, whose outcome is not looked at: it may be      *)
(* served, lost, or given up by its sender and yet on its way, ...         *)
ProvisionDelete(r) ==
  /\ asked[r] = "delete"
  /\ \A q \in Rules : asked[q] # "post"
  /\ asked' = [asked EXCEPT ![r] = "post"]
  /\ \/ stored' = [stored EXCEPT ![r] = "none"] /\ UNCHANGED late
     \/ UNCHANGED <<stored, late>>
     \/ late' = [late EXCEPT ![r] = "due"] /\ UNCHANGED stored
  /\ UNCHANGED <<reported, world, cam, step, next, left, hand, tick, fatal>>

LateDelete(r) ==
  /\ late[r] = "due"
  /\ late' = [late EXCEPT ![r] = "served"]
  /\ stored' = [stored EXCEPT ![r] = "none"]
  /\ UNCHANGED <<asked, reported, world, cam, step, next, left, hand, tick, fatal>>

(* ... and a POST, which is refused if the rule is still there, and whose  *)
(* request or answer may be lost.                                          *)
ProvisionPost(r) ==
  /\ asked[r] = "post"
  /\ asked' = [asked EXCEPT ![r] = "done"]
  /\ \/ /\ stored[r] = "none"
        /\ stored' = [stored EXCEPT ![r] = "new"]
        /\ reported' \in {reported, reported \union {r}}
     \/ UNCHANGED <<stored, reported>>
  /\ UNCHANGED <<late, world, cam, step, next, left, hand, tick, fatal>>

Provisioned == \A r \in Rules : asked[r] = "done"

-----------------------------------------------------------------------------

Op(p) == Script[p][next[p]]

At(p, s) == Provisioned /\ ~fatal /\ step[p] = s /\ next[p] <= Len(Script[p])

Continue(p, s) == step' = [step EXCEPT ![p] = s] /\ UNCHANGED next

(* What follows GetROI in the operation.                                   *)
Act(p) ==
  CASE Op(p).do = "spawn" -> /\ Continue(p, "write") /\ UNCHANGED left
    [] Op(p).do = "despawn" -> /\ Continue(p, "iterate")
                               /\ left' = [left EXCEPT ![p] = Op(p).count]
    [] Op(p).do = "staff" -> /\ step' = [step EXCEPT ![p] = "get"]
                             /\ next' = [next EXCEPT ![p] = @ + 1]
                             /\ UNCHANGED left

EndOfOp(p) == step' = [step EXCEPT ![p] = "get"] /\ next' = [next EXCEPT ![p] = @ + 1]

BeginWrite(p, m) == writing' = [writing EXCEPT ![m] = @ \union {p}]
EndWrite(p, m) == writing' = [writing EXCEPT ![m] = @ \ {p}]

(* The region that GetROI has returned.                                    *)
Region(p) == <<cam[p], Op(p).roi>>

(* GetROI: the camera is there, ...                                        *)
FindCamera(p) ==
  /\ At(p, "get")
  /\ camera # Nothing
  /\ cam' = [cam EXCEPT ![p] = camera]
  /\ Continue(p, "region")
  /\ UNCHANGED <<provisioning, world, left, hand, tick, fatal>>

(* ... or was not there when p looked: p makes one and puts it in, whether *)
(* or not another has done so in the meantime.                             *)
MissCamera(p) ==
  /\ At(p, "get")
  /\ camera = Nothing
  /\ BeginWrite(p, <<>>)
  /\ Continue(p, "camera")
  /\ UNCHANGED <<provisioning, camera, rois, entities, fired, gone, cam, left, hand, tick, fatal>>

CreateCamera(p) ==
  /\ At(p, "camera")
  /\ camera' = p
  /\ cam' = [cam EXCEPT ![p] = p]
  /\ EndWrite(p, <<>>)
  /\ Continue(p, "region")
  /\ UNCHANGED <<provisioning, rois, entities, fired, gone, left, hand, tick, fatal>>

(* Then the region, of the camera that p has, be it the one in w.Cameras   *)
(* or not.                                                                 *)
GetKnown(p) ==
  /\ At(p, "region")
  /\ Op(p).roi \in rois[cam[p]]
  /\ Act(p)
  /\ UNCHANGED <<provisioning, world, cam, hand, tick, fatal>>

GetNew(p) ==
  /\ At(p, "region")
  /\ Op(p).roi \notin rois[cam[p]]
  /\ BeginWrite(p, <<cam[p]>>)
  /\ Continue(p, "create")
  /\ UNCHANGED <<provisioning, camera, rois, entities, fired, gone, cam, left, hand, tick, fatal>>

(* A region without entities.  Of two writes at once one may be lost, and  *)
(* so is then, for those who come later, what is put in the region.        *)
Create(p) ==
  /\ At(p, "create")
  /\ \/ rois' = [rois EXCEPT ![cam[p]] = @ \union {Op(p).roi}]
     \/ writing[<<cam[p]>>] # {p} /\ UNCHANGED rois
  /\ gone' = [gone EXCEPT ![Op(p).roi] = @ \union entities[Region(p)]]
  /\ entities' = [entities EXCEPT ![Region(p)] = {}]
  /\ EndWrite(p, <<cam[p]>>)
  /\ Act(p)
  /\ UNCHANGED <<provisioning, camera, fired, cam, hand, tick, fatal>>

(* Spawn.                                                                  *)
BeginInsert(p) ==
  /\ At(p, "write")
  /\ BeginWrite(p, Region(p))
  /\ Continue(p, "insert")
  /\ UNCHANGED <<provisioning, camera, rois, entities, fired, gone, cam, left, hand, tick, fatal>>

Insert(p) ==
  /\ At(p, "insert")
  /\ \E id \in Ids :
       /\ entities' = [entities EXCEPT ![Region(p)] = @ \union {id}]
       /\ hand' = [hand EXCEPT ![p] = id]
  /\ EndWrite(p, Region(p))
  /\ Continue(p, "crossed")
  /\ UNCHANGED <<provisioning, camera, rois, fired, gone, cam, left, tick, fatal>>

FireCrossed(p) ==
  /\ At(p, "crossed")
  /\ fired' = [fired EXCEPT ![Op(p).roi] = Append(@, <<"line_crossed", hand[p]>>)]
  /\ hand' = [hand EXCEPT ![p] = Nothing]
  /\ EndOfOp(p)
  /\ UNCHANGED <<provisioning, camera, rois, entities, writing, gone, cam, left, tick, fatal>>

(* Despawn: the loop over the entities, which ends after count of them.    *)
BeginDelete(p) ==
  /\ At(p, "iterate")
  /\ left[p] > 0
  /\ \E id \in entities[Region(p)] : hand' = [hand EXCEPT ![p] = id]
  /\ BeginWrite(p, Region(p))
  /\ Continue(p, "delete")
  /\ UNCHANGED <<provisioning, camera, rois, entities, fired, gone, cam, left, tick, fatal>>

(* Mutant: the entity stays in the map.                                    *)
DeleteNothing(p) ==
  /\ At(p, "delete")
  /\ EndWrite(p, Region(p))
  /\ Continue(p, "exit")
  /\ UNCHANGED <<provisioning, camera, rois, entities, fired, gone, cam, left, hand, tick, fatal>>

Delete(p) ==
  /\ At(p, "delete")
  /\ entities' = [entities EXCEPT ![Region(p)] = @ \ {hand[p]}]
  /\ EndWrite(p, Region(p))
  /\ Continue(p, "exit")
  /\ UNCHANGED <<provisioning, camera, rois, fired, gone, cam, left, hand, tick, fatal>>

FireExit(p) ==
  /\ At(p, "exit")
  /\ fired' = [fired EXCEPT ![Op(p).roi] = Append(@, <<"exit", hand[p]>>)]
  /\ hand' = [hand EXCEPT ![p] = Nothing]
  /\ left' = [left EXCEPT ![p] = @ - 1]
  /\ Continue(p, "iterate")
  /\ UNCHANGED <<provisioning, camera, rois, entities, writing, gone, cam, tick, fatal>>

EndDespawn(p) ==
  /\ At(p, "iterate")
  /\ left[p] = 0 \/ entities[Region(p)] = {}
  /\ EndOfOp(p)
  /\ UNCHANGED <<provisioning, world, cam, left, hand, tick, fatal>>

-----------------------------------------------------------------------------

(* Tick: the loops over the cameras, over the regions of each and over the *)
(* entities of each.  What is added meanwhile may be passed over.          *)
Tick ==
  /\ Provisioned /\ ~fatal
  /\ \/ /\ tick.at = "idle"
        /\ tick' = [Idle EXCEPT !.at = "cameras"]
     \/ /\ tick.at = "cameras" /\ tick.cam = Nothing /\ camera # Nothing
        /\ tick' = [Idle EXCEPT !.at = "regions", !.cam = camera]
     \/ /\ tick.at = "cameras"
        /\ tick' = Idle
     \/ /\ tick.at = "regions"
        /\ \E r \in rois[tick.cam] \ tick.seen :
             tick' = [tick EXCEPT !.at = "entities", !.seen = @ \union {r}, !.roi = r]
     \/ /\ tick.at = "regions"
        /\ tick' = [Idle EXCEPT !.at = "cameras", !.cam = tick.cam]
     \/ /\ tick.at = "entities"
        /\ \E id \in entities[<<tick.cam, tick.roi>>] \ tick.listed :
             tick' = [tick EXCEPT !.listed = @ \union {id}]
     \/ /\ tick.at = "entities"
        /\ tick' = [tick EXCEPT !.at = "regions", !.roi = Nothing, !.listed = {}]
  /\ UNCHANGED <<provisioning, world, cam, step, next, left, hand, fatal>>

(* The map that a goroutine uses in its next step.                         *)
Uses(p) ==
  IF p = Ticker
  THEN CASE tick.at = "cameras" -> {<<>>}
         [] tick.at = "regions" -> {<<tick.cam>>}
         [] tick.at = "entities" -> {<<tick.cam, tick.roi>>}
         [] OTHER -> {}
  ELSE CASE step[p] \in {"get", "camera"} -> {<<>>}
         [] step[p] \in {"region", "create"} -> {<<cam[p]>>}
         [] step[p] \in {"write", "insert", "iterate", "delete"} -> {Region(p)}
         [] OTHER -> {}

Running(p) == IF p = Ticker THEN TRUE ELSE next[p] <= Len(Script[p])

(* The runtime finds the map in the middle of somebody else's write.       *)
Throw ==
  /\ ~fatal
  /\ \E p \in Procs : Running(p) /\ \E m \in Uses(p) : writing[m] \ {p} # {}
  /\ fatal' = TRUE
  /\ UNCHANGED <<provisioning, world, cam, step, next, left, hand, tick>>

SimulatorNext ==
  \/ \E r \in Rules : ProvisionDelete(r) \/ LateDelete(r) \/ ProvisionPost(r)
  \/ \E p \in Scenarios :
       \/ FindCamera(p) \/ MissCamera(p) \/ CreateCamera(p)
       \/ GetKnown(p) \/ GetNew(p) \/ Create(p)
       \/ BeginInsert(p) \/ Insert(p) \/ FireCrossed(p)
       \/ BeginDelete(p) \/ Delete(p) \/ FireExit(p) \/ EndDespawn(p)
  \/ Tick
  \/ Throw

SimulatorSpec == SimulatorInit /\ [][SimulatorNext]_simulatorVars

-----------------------------------------------------------------------------

(* The last of the events about the entity is that it came in.             *)
Crossed(events, id) ==
  \E i \in DOMAIN events :
    /\ events[i] = <<"line_crossed", id>>
    /\ \A j \in DOMAIN events : j > i => events[j][2] # id

Busy(roi) == \E p \in Scenarios : hand[p] # Nothing /\ Op(p).roi = roi

(* The entity is in the state that Tick reports of the region, ...         *)
Reachable(roi, id) ==
  camera # Nothing /\ roi \in rois[camera] /\ id \in entities[<<camera, roi>>]

(* ... or in a region that no way leads to any more: its camera was        *)
(* replaced, or the map of the camera has lost it.                         *)
Lost(roi, id) ==
  \/ id \in gone[roi]
  \/ \E c \in Scenarios :
       (c = camera => roi \notin rois[c]) /\ id \in entities[<<c, roi>>]

(* What the simulator says is so.  "Provisioned Rule" is not said of a rule*)
(* that the engine does not have in this start's version, be it that       *)
(* requests are lost or refused, unless a DELETE came late.  And the events*)
(* tell of the world what the states do, except for the entity whose event *)
(* is being sent: who is shown in a region has crossed the line and not    *)
(* left since; who has crossed the line and not left since is shown, unless*)
(* it was lost where two goroutines met in a map.                          *)
SimulatorTellsTrue ==
  /\ \A r \in reported : stored[r] = "new" \/ (stored[r] = "none" /\ late[r] = "served")
  /\ \A roi \in Rois : ~Busy(roi) =>
       \A id \in Ids :
         /\ Reachable(roi, id) => Crossed(fired[roi], id)
         /\ Crossed(fired[roi], id) => Reachable(roi, id) \/ Lost(roi, id)

(* Refuted: nobody is lost.  Goroutines that miss the camera at the same   *)
(* time make one each, and that of all but the last is forgotten.          *)
NobodyLost == \A roi \in Rois, id \in Ids : ~Lost(roi, id)

(* "STARTING ROBUST EDGE SIMULATOR" (cmd/simulator/main.go:50): refuted, as*)
(* the goroutines meet in the maps.                                        *)
Robust == ~fatal

=============================================================================
