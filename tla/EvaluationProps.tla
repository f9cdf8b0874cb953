-------------------------- MODULE EvaluationProps ---------------------------
(* What should hold of Evaluation.                                         *)
EXTENDS Evaluation

(* Rules on states alone, in the form the index looks for.                 *)
StateRules == {r \in Rules : \A d \in DepsOf(r) : d.source = "state" /\ d.kind = Blank}

(* No lost wake-up: whatever is stored, some evaluation of each rule that  *)
(* depends on it sees it together with the latest of the rule's other      *)
(* observations, or is on its way: storing comes before reading, so of the *)
(* requests that store observations of one rule at the same time, the last *)
(* sees them all.                                                          *)
LatestSeen ==
  \A r \in StateRules : r \in seen \/ \E w \in Workers : work[w] # None /\ r \in work[w].rules

(* And it comes to its decision, however the requests interleave.          *)
EventuallySeen == \A r \in StateRules : r \notin seen ~> r \in seen

Idle == \A w \in Workers : work[w] = None

(* All a rule reads is there and fresh.                                    *)
Decidable(r) == Deps[r] # <<>> /\ \A d \in DepsOf(r) : Fresh(KeyOf(d))

DecidedByLatest(r) == decision[r] = (\A d \in DepsOf(r) : observations[KeyOf(d)].value)

(* The last word on a rule is that of its latest observations, unless two  *)
(* requests crossed: between the lookup and the decision of an evaluation, *)
(* which no lock holds together (engine.go), another request replaced what *)
(* it had read.  However many requests evaluate the rule at a time, when   *)
(* all are answered what was last decided of it is what its observations   *)
(* say; and a crossing does no harm once an evaluation has had the rule to *)
(* itself.                                                                 *)
LastWordUnlessCrossed ==
  Idle => \A r \in StateRules \ crossed : Decidable(r) => DecidedByLatest(r)

(* "The engine must ensure that concurrent state/event handling does not   *)
(* corrupt rule state": and if they crossed, too.  Refuted: the evaluation *)
(* that read the older observation may be the last to decide.              *)
LastWord == Idle => \A r \in StateRules : Decidable(r) => DecidedByLatest(r)

(* "event/state ordering" goes by emittedAt: an observation is not replaced*)
(* by an older one.                                                        *)
ForwardInTime ==
  [][\A k \in Keys : observations[k] # None /\ observations'[k] # None
       => observations'[k].emittedAt >= observations[k].emittedAt]_vars

(* "The engine correctly evaluates: entrance count >= N within 120         *)
(* seconds": an event rule whose window fulfils its condition concludes so.*)
EventRulesConclude ==
  \A r \in Rules : (\A d \in DepsOf(r) : d.source = "event") => decision[r] # FALSE

(* The rules on the camera of an event, its region of interest or any, and *)
(* its kind or any.                                                        *)
InScope(p) ==
  {r \in Rules : \E d \in DepsOf(r) :
     /\ d.source = "event" /\ d.camera = p.camera
     /\ d.roi \in {p.roi, Blank} /\ d.kind \in {p.kind, Blank, Every}}

(* "Rules should be indexed by relevant scope": an event leads to all the  *)
(* rules in its scope.                                                     *)
EventsReachScope ==
  [][\A w \in Workers, p \in Payloads :
       p.source = "event" /\ Receive(w, p) => InScope(p) \subseteq work'[w].rules]_vars

(* "(Any ROI)", as the rule editor shows a dependency without roiId: when  *)
(* the condition holds of every region of the camera, it holds.            *)
AnyRoiConcludes ==
  \A r \in Rules, c \in Cameras :
    /\ Idle
    /\ DepsOf(r) = {[camera |-> c, roi |-> Blank, source |-> "state", kind |-> Blank]}
    /\ \E roi \in Rois : Fresh(<<c, roi>>)
    /\ \A roi \in Rois : observations[<<c, roi>>] # None
                           => Fresh(<<c, roi>>) /\ observations[<<c, roi>>].value
    => decision[r] = TRUE

-----------------------------------------------------------------------------

(* Requests go on when they can: goroutines are scheduled, and the locks   *)
(* they take are held for a moment only.  New requests, the cleanup and    *)
(* the clock need not come.                                                *)
Serve(w) ==
  Store(w) \/ Read(w) \/ Decide(w) \/ Answer(w) \/ \E r \in Rules : Choose(w, r)

FairSpec == Spec /\ \A w \in Workers : WF_vars(Serve(w))

=============================================================================
