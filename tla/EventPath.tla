------------------------------ MODULE EventPath -----------------------------
(***************************************************************************)
(* The way of an event from its sender to the window and the evaluation of *)
(* a rule: handlePostEvent (internal/api/event_handler.go), the event      *)
(* store, the cleaner and Engine.ProcessEvent for one rule with a window.  *)
(*                                                                         *)
(* Each request runs in a goroutine of its own.  Its steps are the points  *)
(* where it touches shared state: Exists and Save are two statements on    *)
(* the database, Add runs under the lock of the window and the evaluation  *)
(* reads the count under the same lock later on.  The process may stop at  *)
(* any point and is started again; memory is lost, the database is not.    *)
(* An answer may be lost on its way.                                       *)
(*                                                                         *)
(* Senders deliver at least once: they may post an event again at any time,*)
(* after an error, after an answer that got lost, or for no reason.        *)
(***************************************************************************)
EXTENDS EventWindow

CONSTANTS
  Workers,     (* request goroutines *)
  Serial,      (* senders post an event again only after the last answer *)
  Crashes,     (* bound: how often the process is restarted *)
  Failures,    (* bound: how often a database statement fails *)
  Posts,       (* bound: how often an event is posted *)
  Thresholds,  (* emitted_at values the cleaner may delete up to *)
  NoRequest

VARIABLES
  stored,                    (* the events table *)
  req,                       (* the request each worker serves, or NoRequest *)
  crashes, failures, posts,  (* how much of each bound is used *)
  accepted,                  (* history: how often a sender was told "accepted" of an event *)
  duplicate,                 (* history: events of which it was told "duplicate" *)
  evaluated                  (* history: how often an event was evaluated *)

engine == <<window, posted, evaluated>>
answers == <<accepted, duplicate>>
bounds == <<crashes, failures, posts>>
vars == <<window, posted, stored, req, bounds, answers, evaluated>>

Request == [pc : {"exists", "save", "add", "evaluate", "answer"}, ev : Events]

ASSUME NoRequestAssumption == NoRequest \notin Request
ASSUME BoundsAssumption == {Crashes, Failures, Posts} \subseteq Nat

PathTypeOK ==
  /\ TypeOK
  /\ stored \subseteq Events
  /\ req \in [Workers -> Request \union {NoRequest}]
  /\ crashes \in 0..Crashes
  /\ failures \in 0..Failures
  /\ posts \in [Events -> 0..Posts]
  /\ accepted \in [Events -> Nat]
  /\ duplicate \subseteq Events
  /\ evaluated \in [Events -> Nat]

At(w, pc) == req[w] # NoRequest /\ req[w].pc = pc

GoTo(w, pc) == req' = [req EXCEPT ![w].pc = pc]

Reply(w) == req' = [req EXCEPT ![w] = NoRequest]

InFlight(e) == \E w \in Workers : req[w] # NoRequest /\ req[w].ev = e

-----------------------------------------------------------------------------

PathInit ==
  /\ Init
  /\ stored = {}
  /\ req = [w \in Workers |-> NoRequest]
  /\ crashes = 0 /\ failures = 0 /\ posts = [e \in Events |-> 0]
  /\ accepted = [e \in Events |-> 0]
  /\ duplicate = {}
  /\ evaluated = [e \in Events |-> 0]

(* A well-formed event reaches the handler.                                *)
Post(w, e) ==
  /\ req[w] = NoRequest
  /\ posts[e] < Posts
  /\ Serial => ~InFlight(e)
  /\ req' = [req EXCEPT ![w] = [pc |-> "exists", ev |-> e]]
  /\ posts' = [posts EXCEPT ![e] = @ + 1]
  /\ UNCHANGED <<engine, stored, crashes, failures, answers>>

(* eventStore.Exists.                                                      *)
CheckExists(w) ==
  /\ At(w, "exists")
  /\ IF req[w].ev \in stored
     THEN /\ Reply(w)
          /\ duplicate' \in {duplicate, duplicate \union {req[w].ev}}
     ELSE /\ GoTo(w, "save")
          /\ UNCHANGED duplicate
  /\ UNCHANGED <<engine, stored, bounds, accepted>>

(* eventStore.Save: INSERT OR IGNORE, which a row that another request has *)
(* inserted in the meantime does not make fail.                            *)
SaveEvent(w) ==
  /\ At(w, "save")
  /\ stored' = stored \union {req[w].ev}
  /\ GoTo(w, "add")
  /\ UNCHANGED <<engine, bounds, answers>>

(* Mutant: an INSERT that reports an error has been done.                  *)
FailsButStores(w) ==
  /\ At(w, "exists") \/ At(w, "save")
  /\ failures < Failures
  /\ failures' = failures + 1
  /\ stored' = IF At(w, "save") THEN stored \union {req[w].ev} ELSE stored
  /\ Reply(w)
  /\ UNCHANGED <<engine, crashes, posts, answers>>

(* Mutant: an error of Exists is taken for an event that exists.           *)
FailsAsDuplicate(w) ==
  /\ At(w, "exists") \/ At(w, "save")
  /\ failures < Failures
  /\ failures' = failures + 1
  /\ duplicate' = IF At(w, "exists") THEN duplicate \union {req[w].ev} ELSE duplicate
  /\ Reply(w)
  /\ UNCHANGED <<engine, stored, crashes, posts, accepted>>

(* Either statement fails: the handler answers 500 and stops.              *)
StoreFails(w) ==
  /\ At(w, "exists") \/ At(w, "save")
  /\ failures < Failures
  /\ failures' = failures + 1
  /\ Reply(w)
  /\ UNCHANGED <<engine, stored, crashes, posts, answers>>

(* ProcessEvent: the event enters the window of the rule.                  *)
AddToWindow(w) ==
  /\ At(w, "add")
  /\ Add(req[w].ev)
  /\ GoTo(w, "evaluate")
  /\ UNCHANGED <<stored, bounds, answers, evaluated>>

(* evaluateRule.                                                           *)
Evaluate(w) ==
  /\ At(w, "evaluate")
  /\ evaluated' = [evaluated EXCEPT ![req[w].ev] = @ + 1]
  /\ GoTo(w, "answer")
  /\ UNCHANGED <<window, posted, stored, bounds, answers>>

(* "accepted".                                                             *)
Answer(w) ==
  /\ At(w, "answer")
  /\ accepted' \in {accepted, [accepted EXCEPT ![req[w].ev] = @ + 1]}
  /\ Reply(w)
  /\ UNCHANGED <<engine, stored, bounds, duplicate>>

(* The cleaner deletes events emitted before the retention threshold.      *)
CleanUp(t) ==
  /\ \E e \in stored : EmittedAt[e] < t
  /\ stored' = {e \in stored : EmittedAt[e] >= t}
  /\ UNCHANGED <<engine, req, bounds, answers>>

(* The process stops and is started again: windows and requests are gone.  *)
Restart ==
  /\ crashes < Crashes
  /\ crashes' = crashes + 1
  /\ window' = NewWindow
  /\ posted' = {}
  /\ req' = [w \in Workers |-> NoRequest]
  /\ UNCHANGED <<stored, failures, posts, answers, evaluated>>

Handler(w) ==
  CheckExists(w) \/ SaveEvent(w) \/ AddToWindow(w) \/ Evaluate(w) \/ Answer(w)

PathNext ==
  \/ \E w \in Workers, e \in Events : Post(w, e)
  \/ \E w \in Workers : Handler(w) \/ StoreFails(w)
  \/ \E t \in Thresholds : CleanUp(t)
  \/ Restart

PathSpec == PathInit /\ [][PathNext]_vars

(* Goroutines are scheduled fairly, and a sender posts an event until it   *)
(* has an answer other than an error.                                      *)
Answered(e) == accepted[e] > 0 \/ e \in duplicate

Retry(e) == ~Answered(e) /\ ~InFlight(e) /\ \E w \in Workers : Post(w, e)

FairPathSpec ==
  /\ PathSpec
  /\ \A w \in Workers : WF_vars(Handler(w))
  /\ \A e \in Events : SF_vars(Retry(e))

-----------------------------------------------------------------------------

(* However deliveries are duplicated, interleaved, retried, forgotten by   *)
(* the cleaner or cut short by a restart, the window counts each event     *)
(* that reached it since the start at most once, and misses none.          *)
CountsExact == ExactFor(window, posted)

(* A sender that waits for its answer before it posts an event again gets  *)
(* "accepted" at most once, and its event is evaluated at most once, also  *)
(* across failures, restarts and lost answers, as long as the cleaner keeps*)
(* the event.                                                              *)
EvaluatedOnce == \A e \in Events : accepted[e] <= evaluated[e] /\ evaluated[e] <= 1

(* Seen through the table and the evaluations done, the handler implements *)
(* the ledger of events for such senders: row, evaluation and answer are   *)
(* steps of one event's life, taken in order and once each, whatever is    *)
(* retried.                                                                *)
Status == [e \in Events |-> IF evaluated[e] > 0 THEN "evaluated"
                           ELSE IF e \in stored THEN "entered" ELSE "new"]

Ledger == INSTANCE EventLedger WITH status <- Status

LedgerSpec == Ledger!Spec

(* An event that was saved and that nobody is going to evaluate.           *)
Orphaned(e) == e \in stored /\ evaluated[e] = 0 /\ ~InFlight(e)

(* A sender that keeps posting gets its event evaluated, however often the *)
(* database fails in between and the process stops, unless a restart finds *)
(* the event saved and not yet evaluated (which the code does not recover).*)
EventuallyEvaluated ==
  \A e \in Events : <>(evaluated[e] > 0 \/ (crashes > 0 /\ Orphaned(e)))

(* "Because eventId is unique, the ingestion layer should be able to       *)
(* detect duplicate event delivery": an event is accepted once.            *)
AcceptedOnce == \A e \in Events : accepted[e] <= 1

(* "Incoming data reaches the rule engine": an event that was answered     *)
(* with success has been evaluated.                                        *)
AnsweredWasEvaluated == \A e \in Events : Answered(e) => evaluated[e] > 0

=============================================================================
