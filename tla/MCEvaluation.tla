---------------------------- MODULE MCEvaluation ----------------------------
(* Small instances of Evaluation for TLC.                                  *)
EXTENDS EvaluationProps, TLC

CONSTANTS r1, r2, r3

C == "C1"
MCKeys == Cameras \X (Rois \union {Blank})

State(roi) == [camera |-> C, roi |-> roi, source |-> "state", kind |-> Blank]
Event(roi, kind) == [camera |-> C, roi |-> roi, source |-> "event", kind |-> kind]

(* A rule that joins two regions, and one that joins any region and the    *)
(* camera's events.                                                        *)
MixedDeps == r1 :> <<State("A"), State("B")>> @@ r2 :> <<State(Blank), Event(Blank, Every)>>
KindDeps == r1 :> <<Event(Blank, "crossed")>>

(* One region of a camera, any region of it, the events of one region.     *)
AreaDeps == r1 :> <<State("A")>>
AnyDeps == r1 :> <<State(Blank)>>
DoorDeps == r1 :> <<Event("A", "crossed")>>

Regions(at, regions) ==
  [source |-> "state", camera |-> C, emittedAt |-> at, regions |-> regions]
In(roi, value) == [roi |-> roi, value |-> value]

Singles == {Regions(1, <<In(roi, x)>>) : roi \in Rois, x \in BOOLEAN}

Dated == {Regions(at, <<In("A", TRUE)>>) : at \in Stamps}

Crossed == {[source |-> "event", camera |-> C, emittedAt |-> 1, roi |-> roi, kind |-> "crossed"]
              : roi \in Rois}

(* Payloads with one region, one with both, in the other order, one whose  *)
(* region has no name, and an event.                                       *)
Mixed == Singles \union
  {Regions(2, <<In("B", TRUE), In("A", FALSE)>>), Regions(2, <<In(Blank, TRUE)>>),
   [source |-> "event", camera |-> C, emittedAt |-> 1, roi |-> "A", kind |-> "crossed"]}

=============================================================================
