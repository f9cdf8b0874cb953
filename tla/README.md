# A verification project for the edge rule engine

TLA+ models of the edge rule engine (`src/`, Go), the TLC runs that check them on
small instances, and theorems about them that TLAPS proves for every value of the
constants. Paths below are relative to `src/`; "PRD" is `PRD — Edge Rule Engine.md`.

Contents: 1 the system, 2 the modules, 3 the runs, 4 the bounds, 5 fairness,
6 the proofs, 7 statements that do not hold, 8 what is not modelled, 9 the plan.

## 1. The system

The engine receives **states** (every camera's regions of interest with the
entities in them, about every 5 s) and **events** (single crossings, with a unique
id) over HTTP, keeps them for a while in SQLite, and evaluates **rules** over them:
an expression over the latest observations and over rolling windows, a trigger mode,
an optional sustain period and a cooldown. A rule that fires writes an action file.

Every request runs in a goroutine of its own, and so does every action. There is no
lock around a request: what goroutines share is protected piece by piece.

| Component (source) | State it keeps | Operations | Called by |
|---|---|---|---|
| Trigger manager (`internal/engine/trigger.go`) | per rule: previous result, start of the sustain period, last firing | `ShouldTrigger`, `Remove`, `Reset` | evaluation, `UnregisterRule` |
| Event window (`internal/window/event_window.go`) | entries, ids seen, newest stamp | `Add`, counts | `ProcessEvent`, evaluation |
| State window (`internal/window/state_window.go`) | snapshots, newest stamp | `Add`, `UniqueTrackIds`, `Aggregate` | `ProcessState`, evaluation |
| Window manager (`internal/window/manager.go`) | per rule: one window of each kind | `GetOrCreate...`, `RemoveWindows` | `Process...`, `evaluateRule`, `UnregisterRule` |
| Observation store (`internal/observation/store.go`) | per camera and region: the latest observation, when it was received | `Update`, `Get`, `Cleanup` | `ProcessState`, `BuildRuleContext`, its own goroutine |
| Dependency index (`internal/graph/dep_index.go`) | stream → rules | `Register`, `Unregister`, `LookupState`, `LookupEvent` | the engine |
| Engine (`internal/engine/engine.go`, `evaluator.go`) | active rules | `RegisterRule`, `UnregisterRule`, `ProcessState`, `ProcessEvent` | handlers, `main` |
| Ingestion (`internal/api/event_handler.go`, `state_handler.go`, `internal/store/event_store.go`, `state_store.go`) | tables `events`, `states` | post an event, post a state | senders |
| Rule API (`internal/api/rule_handler.go`, `internal/store/rule_store.go`) | table `task_rules` | create, update, delete | clients, `main` at the start |
| Actions (`internal/action/file_executor.go`, `internal/store/execution_store.go`) | files, table `rule_executions` | `Execute`, `Record` | `executeAction` |
| Cleaner (`internal/cleanup/cleanup.go`) | none | deletes old events and states | its own goroutine |
| Streaming broker (`internal/api/stream.go`) | clients with a channel each, behind a read-write lock | `ServeHTTP`, `Broadcast` | clients; actions, every log line |
| Process (`cmd/engine/main.go`) | database, server, cleaner | start, shutdown on a signal | the operating system |
| Entity store, correlator (`internal/entity`) | per trackId: where and when it was seen | `UpdateFromState`, `UpdateFromEvent`, `Get`, `Cleanup`; `FindCorrelated` | `ProcessState`, `ProcessEvent`; nothing reads it yet |
| Timer queue (`internal/scheduler/timer.go`) | tasks by id | `Schedule`, `Cancel`, `GetDueTasks`, `Run` | nothing yet |
| Rule instances (`internal/rulestate/instance.go`) | partial matches by key, with deadlines | `GetOrCreate`, `Complete`, `Cleanup` | nothing yet |
| Facts (`internal/fact/aggregator.go`) | definitions of metrics, with counts of references | `Register`, `Unregister`, `Recompute` | nothing yet |
| Patterns, replay, three-valued logic | none | - | nothing |
| Simulator (`cmd/simulator`) | a world of regions and entities in unguarded maps | scenarios, a ticker, provisioning | is a client of the engine |
| Page (`ui/src/App.tsx`) | the list of executions | snapshot, stream | is a client of the engine |

How they interact. A **state** is saved; then, region by region, the rules concerned
are looked up, the observation is stored, and each rule gets its snapshot, its context
(one `Get` for each dependency), its Expr result, and the answer of `ShouldTrigger`. An
**event** is looked for, saved, added to the window of each rule concerned, and each
rule is evaluated. A **rule** is registered with the engine and then stored (delete:
the other way round). A **firing** starts a goroutine that writes a temporary file,
renames it, records a row and tells the streaming clients.

What is hard here, and what makes each part correct:

- *Concurrency without a request lock.* Two payloads that concern one rule interleave
  at every lock. Correct: no trigger state is split in two; some evaluation sees the
  latest of all observations; the index and the active rules fit; no torn files.
- *Two copies of every rule*, changed in separate steps, one of which may fail.
  Correct: table and engine agree whenever nobody is changing the rule.
- *Order.* `emittedAt` comes from senders, and payloads come late, twice and out of
  order. Correct: windows count what a reader of the whole history would; cooldowns
  and sustain periods measured from scalars agree with the history.
- *Delivery at least once.* Correct: an event is counted once, and evaluated once.
- *Time.* An observation is usable for 30 s, by a clock cut to seconds.
- *Crashes.* Memory is lost, tables are not. Correct: what is loaded again is what
  should be active, whole files stay whole.
- *Memory of rules that are gone.* Correct: a new rule of the same id inherits nothing.
- *Locks and channels of several parties.* Correct: no client of the stream can stop a
  broadcast, no broadcast a client that leaves, and no message goes to a closed channel.
- *Pointers that outlive their lock* (entities, instances). Correct: what is read behind
  them was true at some moment of the call.
- *The end of the process.* Correct: it ends, whatever its clients do, and cuts nothing
  that it has accepted. (Actions it does cut: section 7.)
- *Two sources of one list* (the page). Correct: together they miss nothing.

PROJECT.json lists these hazards at the lines where they bite, with their properties.

## 2. The modules

| Module | Models | State → code |
|---|---|---|
| `TriggerLogic` | the decision of `ShouldTrigger`, as operators on one trigger state | `prev`, `start`, `last` → `PreviousResult`, `SustainStartTime`, `LastTriggeredAt` |
| `TriggerManager` | concurrent callers: lookup (read lock), creation (write lock), decision (state's mutex), `Remove` | `states` → the map, `heap` → the `*TriggerState` cells, `call` → where each goroutine stands; `hist`, `dropped` are history |
| `TriggerSpec` | what a trigger promises: every decision defined from the whole history of evaluations, no scalars | `hist` only |
| `EventWindow` | `Add` with its pruning, for one window | `window` → entries, seen ids, newest; `posted` is history |
| `EventPath` | one event rule's way from the sender to its evaluation and back: `Exists`, `Save`, `Add`, evaluation, an answer that may be lost, failures, cleaner, restart | `stored` → table, `req` → where each request stands; `accepted`, `duplicate` (the answers that came), `evaluated` are history |
| `RuleLifecycle`, `RuleLifecycleProps` | create, update, delete against engine, index and table; restart | `db` → `task_rules`, `rules` → `Engine.rules`, `index` → `DepIndex`, `req` → requests; `strayed` is history |
| `ObservationStore` | `Update`, staleness, `Cleanup` and a clock finer than a second | `observations` → the map, `now` → the wall clock; `arrived` is history |
| `Evaluation`, `EvaluationProps` | `ProcessState`, `ProcessEvent`, `evaluateRule` for concurrent requests, over `ObservationStore` and the index's lookups | `work` → where each request stands; `version`, `seen`, `decision`, `crossed` are history |
| `ActionExecution` | the goroutine of each action: temporary file, rename, row, broadcast | `temp`, `file`, `content`, `fd` → the directory and inodes, `rows` → `rule_executions`; `crossed` is history |
| `RuleMemory` | window and trigger state of one rule id over the rules that bear it | `ruleWindow`, `trigger`, `active`, `removing` (a deletion under the engine's lock), `eval` (evaluations under way); `overlapped`, `replaced` are history |
| `StateWindow` | `Add`, `UniqueTrackIds`, `LatestEntry` | `entries` → the slice, each snapshot by the number it arrived with, `latest`; `added` is history |
| `WindowCalls` | the calls on one state window with their locks, `Aggregate`'s nested one among them | `windowMu` → the lock, `call` → where each goroutine is; `crossed` is history |
| `SustainPath` | one sustained rule from payload to firing, over time | the store's variables, `state` → its `TriggerState`; `since`, `broken` are history |
| `EventLedger` | what the handler of events promises: enter, evaluate, accept or refuse | one status for each event; abstract, no code |
| `RWMutex` | Go's `sync.RWMutex`: writers announce themselves, readers queue behind them | external |
| `Broker` | the streaming broker: handlers of clients, broadcasts | `mu`, `clients`, `chan` → `SSEBroker` and its channels, `at`, `pc` → where goroutines are; `told`, `earlier`, `full` are history |
| `Shutdown` | `main` from the configuration to its return, with server, connections, cleaner, requests and actions | `main`, `server`, `cleaner` → where each goroutine is, `db`, `signalled` → `quit` |
| `EntityStore` | the entity store and the correlator | `entities` → the map, `heap` → the `EntityState` cells, `find` → calls of `FindCorrelated`; `sightings`, `could` are history |
| `TimerQueue` | the queue and `Run` with its ticker | `tasks` → the map, `batch` → what `Run` has taken, `tick` → the ticker's channel; `dropped`, `handled` are history |
| `RuleInstances` | the store of instances and callers that keep pointers | `instances` → the map, `cell` → the instances at their addresses, `hand` → the callers' pointers |
| `FactRegistry` | the registry of aggregators | `aggregators`, `refCount`; `registered`, `leaked`, `asked` are history |
| `Simulator` | provisioning, scenarios, world and ticker | `camera`, `rois`, `entities` → the maps (a camera is named after the scenario that made it), `writing` → writes under way, `cam` → the camera that `GetROI` has in hand, `step`, `tick` → where goroutines are, `late` → a DELETE given up by its sender; `fired`, `gone` are history |
| `Dashboard` | the page's list of executions, from the goroutine of an action to the browser | `recorded` → `rule_executions`, `channel` → the client's channel, `fetch`, `answer` → the request, `list` → the state of the page |
| `...Proofs` | the theorems of section 6 | |
| `MCTriggerManager`, `MCEventPath`, `MCRuleLifecycle`, `MCEvaluation`, `MCDashboard` | the instances of one component each that TLC checks | |
| `MCWaiting` | `Broker`, `WindowCalls`, `TimerQueue`, `Shutdown` together | `part` is the one that moves |
| `MCMemory` | `EntityStore`, `RuleInstances`, `FactRegistry`, `RuleMemory`, `StateWindow`, `EventPath`, `SustainPath` together | `part` likewise |
| `MCOutside` | `ActionExecution`, `Dashboard`, `Simulator` together | `part` likewise |

Composition: `TriggerManager` uses `TriggerLogic` and implements `TriggerSpec`;
`EventPath` extends `EventWindow` and implements `EventLedger`; `Evaluation` extends
`ObservationStore`; `SustainPath` puts `ObservationStore` and `TriggerLogic` together;
`Broker` and `WindowCalls` are made over instances of `RWMutex`.

`MCWaiting`, `MCMemory` and `MCOutside` extend components that share no state, each with
variables and operators of its own name (so `TypeOK` is the broker's or the actions', and
`PageTypeOK` the page's), and put them into one specification: the initial states choose the
`part` that moves, and the others stand still. The state graph is the sum of the components'
graphs and not their product, which loses nothing, as no property relates two of them. That a
behaviour of the composition is one of each component is proved (`PartsBehave`, section 6).

Steps are cut where goroutines can meet: a step is one critical section, one SQL
statement or one system call. `EventPath`'s `Add` and `Evaluate` are two steps because
`ProcessEvent` releases the window's lock in between; `Evaluation`'s `Read` is one step
for each dependency because `Get` takes the lock each time. The exception is
`RegisterRule`, which changes map and index in one critical section of `Engine.mu`.

Operators named in a comment "Mutant" are deliberate faults: definitions with a
plausible bug, each of which breaks one property. They are used by no specification.

Abstractions that matter:

- An expression is a Boolean: whether it compiles (`RuleLifecycle`), whether it holds
  of a region (`Evaluation`), what it said (`TriggerManager`).
- Time stamps are small naturals; 0 is "none" in the trigger manager, and the handlers
  reject it. Negative stamps, which the handlers accept, are left out.
- A request's SQL statements are atomic (SQLite serialises writers); that a statement
  fails is an action of its own, with no effect on the table.
- A lock is a step where only its effect matters, and an `RWMutex` where waiting does
  (`Broker`, `WindowCalls`).
- What nothing calls yet (timers, instances, facts, correlator, `Aggregate`) is used in
  the models by callers who may make any legal call at any time.
- In `EntityStore`, dwell times and attributes are left out: they are assigned, and read
  by nobody. The correlator's rule is its `Across`.
- In `Simulator`, the map of a camera's regions may lose one of two writes that meet, and
  the runtime may end the process when it notices that two goroutines meet; a read that
  meets a write and goes unnoticed reads what was there before or after. The sleeps between
  operations are left out, so that any of them may be arbitrarily slow.
- A record written to a file is one `write`. Two writers of one inode leave it whole
  or torn by the length of their records.

## 3. The runs

`tlc -config <cfg> <module>`; sizes are distinct states.

| Run | Module, cfg | States | Properties | What it shows |
|---|---|---|---|---|
| `trigger` | MCTriggerManager | 817 k | TypeOK, OneLiveState, CooldownRespected, FiringsJustified, AbstractSpec | two goroutines, four calls, the rule removed in between: decisions follow the history, and no trigger state is split |
| `event_serial` | MCEventPath_serial | 32.5 k | LedgerSpec, EventuallyEvaluated | senders that wait for answers: the handler implements the ledger, and evaluates every event unless a restart orphans it |
| `rule_lifecycle` | MCRuleLifecycle | 3.8 M | IndexFits, ActiveIsSound, Agreement | two rules, two clients who may do anything, failures, a restart |
| `evaluation_concurrent` | MCEvaluation_concurrent | 493 k | LatestSeen, LastWordUnlessCrossed, EventuallySeen | two payloads at a time: the latest observations are seen together, and have the last word unless the payloads crossed |
| `waiting` | MCWaiting | 556 k | TypesOK, and of the broker SendsAreSafe, StreamFaithful, BroadcastReturns, GoneIsForgotten; of the window's lock ReturnsUnlessCrossed; of the timers OneFate, EveryTaskHandled; of the process ServedInFull, SignalEnds | what waits is served, or the one order in which it is not is named |
| `memory` | MCMemory | 2.1 M | TypesOK, and of entities SightingsKept, RememberedForTTL, AnswerBracketed; of instances HeldIsCurrent; of metrics DefinitionsFit; of a rule OwnMemory; of windows WindowReads, CountsExact; of a sustained rule and its observations HeldContinuously, FreshForTTL, CleanupIsInvisible | what is in memory says what the messages said, in whatever order they came |
| `outside` | MCOutside | 5.4 M | TypesOK, and of actions FilesAreWhole, RowsTellTheTruth; of the page ListShowsHistory; of the simulator SimulatorTellsTrue | shared file names, failed calls, the end of the process, a slow page, two scenarios that meet in one world |
| `event_duplicate` | MCEventPath_duplicate | - | AcceptedOnce (violated) | see section 7 |
| `rule_disable` | MCRuleLifecycle_disable | - | DisabledIsInactive (violated) | see section 7 |
| `evaluation_crossed` | MCEvaluation_crossed | - | LastWord (violated) | see section 7 |
| `evaluation_events` | MCEvaluation_events | - | EventRulesConclude (violated) | see section 7 |
| `dashboard_empty` | MCDashboard_empty | - | EmptyIsShown (violated) | see section 7 |

Some properties are conjunctions of named parts, or of clauses that one hazard calls for
together. Each is checked against a mutant of the code that breaks it.

The properties in words:

- *AbstractSpec*: the trigger manager implements `TriggerSpec`. Three scalars for each
  rule are enough to decide as the whole history would; `Linkage` says why.
- *OneLiveState*: the double-checked creation never gives one rule two trigger states.
- *CooldownRespected*, *FiringsJustified* (`SustainedContinuously` and `RisingOnEdge`):
  firings are a cooldown apart even when messages come late; a sustained firing rests on
  an unbroken run of true results; a plain rising firing on an edge.
- *CountsExact*: the window counts what the history of additions defines. (Its set of ids
  too, `SeenExact`: proved.)
- *LedgerSpec*, *EventuallyEvaluated*: for senders that post an event again only when
  the last request is over, and go on until they have an answer. Behind its statements,
  failures, lost answers and restarts the handler does to each event only what `EventLedger`
  has it do: enter once, then evaluate once, then accept once; refuse what is known. (That it
  evaluates once, `EvaluatedOnce`: proved.)
- *IndexFits* (`IndexCoversActive` and `IndexOnlyActive`), *ActiveIsSound*: under any use.
- *Agreement*: a rule stored as disabled is not active, one stored as enabled is, an
  active one is stored, in the same version - as long as nothing careless has happened
  since the process started. Careless is: two requests for one rule at a time, a POST
  with an existing id, a PUT to an unknown one, a PUT that disables, a rule without a
  scope, a failed UPDATE. A restart makes good whatever carelessness did.
- *LatestSeen*, *EventuallySeen*: there is no lost wake-up. Storing comes before reading,
  so the last of several concurrent payloads sees all of them.
- *LastWordUnlessCrossed*: when all payloads are answered, a rule stands decided by its
  latest observations, unless two payloads crossed: between the reading and the decision of
  an evaluation, which no lock holds together, another payload replaced what was read. An
  evaluation that afterwards has the rule to itself makes that good. (Without the exception
  it is `LastWord`, which the run `evaluation_crossed` refutes: section 7.)
- *FreshForTTL* (`KeptForTTL` and `NotUsedBeyondTTL`), *CleanupIsInvisible*: usable for TTL seconds, less what
  cutting the time of reception to seconds may cost, never longer; and when the cleanup
  runs makes no difference.
- *FilesAreWhole*, *RowsTellTheTruth*: a reader of the directory never finds a partial
  record, and the rows recorded agree with the directory. Actions may share a file name;
  excepted are the names on which two goroutines have met (`crossed`: one opened the
  temporary file while another was writing or about to rename it). Of those, section 7.
- *OwnMemory*: what a deleted rule leaves to the next of its id is nothing, unless it was
  deleted during an evaluation; and its window is as long as it says, unless a PUT has
  changed that.
- *WindowReads*: the unique counts are those of the snapshots at most a duration older than
  the newest, in whatever order they came; `LatestEntry` is the first to arrive of the
  newest ones, if the duration is not negative.
- *ReturnsUnlessCrossed*: calls on a window return unless a writer announces itself between
  the two locks of an `Aggregate`. Then the writer waits for the first lock and `Aggregate`
  behind the writer: the deadlock is real, and only the missing caller keeps it from
  happening. (That until then one of them can always go on, `NeverStuck`: proved.)
- *HeldContinuously*: when a sustained rule fires, every payload since the one that opened
  its sustain period found it to hold, and at every instant in between each of its regions
  was good to use or silent. Silences may be of any length. That the rule held of
  observations good to use throughout is not so: section 7.
- *SendsAreSafe*: no broadcast visits a client whose channel is closed.
- *StreamFaithful*: a client that was told "connected" and is still there
  has each later message, or its channel was full; messages that follow one another
  arrive in that order, and none twice.
- *BroadcastReturns*, *GoneIsForgotten*: neither waits for the other, although both wait
  for the lock, and although a client may never read again.
- *ServedInFull*, *SignalEnds*: no request meets an engine that has loaded
  a part of its rules; the database is closed after the last request, also those that
  open connections bring during the drain; a signal ends the
  process - after 10 seconds and with an error if a stream is open.
- *SightingsKept*: the two regions kept are where the entity was seen last
  and the last one with a name that it was seen to leave; its cameras, regions and last
  events are those of its sightings since it became known.
- *RememberedForTTL*: an entity whose sightings came in order is kept a TTL after each of
  them. A late sighting sets `LastSeen` back and may cost it the rest.
- *AnswerBracketed*: what the correlator answers was true between question and answer.
- *OneFate*, *EveryTaskHandled*: a task runs less than a second early, once, not
  if it was cancelled or replaced in the queue, and it does run, whatever ticks are lost.
- *HeldIsCurrent*: callers of one key share one instance unless one of theirs was completed
  or has expired; an expired instance is handed out until the cleanup comes by, however late
  its ticker. Lifetimes differ from call to call, and may be none.
- *DefinitionsFit*: a metric is defined exactly while a rule
  asks for it, or one that did was registered again, which leaves its references behind;
  and computed when its data come, unless rules ask for it of both sources.
- *SimulatorTellsTrue*: what is reported as provisioned is stored as this start made it,
  unless a DELETE that its sender had given up came late. The last event about an entity
  tells whether it is shown, but for entities that were lost: in a region of a camera that
  another goroutine replaced, or that a map has lost where two writes met.
- *ListShowsHistory*: a page whose stream was open before its query lists
  every execution recorded and broadcast, but for a full channel, a full list and what a
  late snapshot has overwritten; one is listed twice only if both ways brought it.

`CHECK_DEADLOCK FALSE` stands where a bound (calls, posts, failures, entries, actions)
ends the model, not the system.

## 4. The bounds, and why they are enough

- `trigger`: two goroutines are what a race needs; one rule, as rules share nothing
  but the map; two cells, so that a rule removed in a call gets a second one. Four
  calls cover: open, hold, fire, fire again. Stamps 1 and 3 with durations of 2 put
  every comparison on its boundary; 0 is posted and must be rejected. Symmetry in
  goroutines and cells is sound: nothing names one of them. (So in `memory`, for the cells.)
- `memory`, the window of events: three events so that one is pruned by the third and shares a window,
  exactly at its cutoff, with the second. Each is posted twice, two at a time.
- `event_serial`: a post more than failures and restarts together, so that a sender
  can succeed after all of them; any answer may be lost.
- `rule_lifecycle`: two clients are enough for each race, two rules to show that they
  do not disturb one another; six bodies: two good ones on different streams, a
  disabled one, one that does not compile, one without a scope, one disabled that
  does not compile. One failure and one restart can fall anywhere.
- `evaluation_concurrent`: a rule that joins two regions, and one that joins any region and
  the camera's events; seven kinds of payload (one region with either value, both in the
  other order, one without a name, an event), two of them at a time or one after the other, TTL and clock short enough for observations to go stale
  between any two steps. `evaluation_crossed` has the same.
- `outside`: three actions, two of them with one file name and the longer record written
  first or second, and two failures that hit any two calls; a list of three for four
  executions, two of which have one time stamp, and a channel of two; an entity of the
  simulator is drawn twice (two ids for three spawns), and the two scenarios have regions of
  their own, as in the code.
- `memory`, by component:
  - entities: two cameras make a match of the correlator, two regions and the one without a
    name, three sightings within three instants, a TTL of 1 and a history of one event; three
    cells let a dropped entity come back while its old state is in hand.
  - instances: three cells let a key have two instances in hand and one in the map; two
    lifetimes and none within four instants, so that the ticker can be on time and late.
  - metrics: two, both sources, two rules that ask for one metric twice, or again without
    having been unregistered; one reference of each metric may be left behind so
    (`MaxLeaks`), which is all that tells it from a metric with none.
  - a rule: three generations, so that leftovers can skip one; two durations.
  - snapshots: stamps 1 to 5 with a duration of 2; four of them.
  - a sustained rule: half seconds (`PerSecond` = 2), so that truncation matters; a TTL of
    2 s, a sustain period of 3 s within 6.5 s, so that observations go stale and come back,
    and the period can open, outlast a silence longer than the TTL, break, open again and
    fire; two regions that report in any order.
- `waiting`, by component:
  - broker: a channel of one message is full after one; two clients cover one leaving while
    the other reads, and which is visited first; two broadcasts overlap or follow.
  - window: two writers, as the lock has one writer wait and others wait for it; two
    `Aggregate`s, so that one may cross a writer and the other go free.
  - timers: half seconds, delays of 0 and 1.5 s, two tasks under two ids, so that one can
    replace another; the clock runs past every due time.
  - process: two rules, so that a part of them can be loaded; two requests and a stream, each
    on a connection of its own that may be open before the request comes.

`MaxEvals`, `Posts`, `Crashes`, `Failures`, `MaxRequests`, `MaxTime`, `MaxGeneration` and
`MaxEntries`, `MaxTasks`, `MaxSightings`, `MaxDeps`, `MaxLeaks`, `LastInstant` and `LastDay` are the bounds; every other constant is a
parameter of the system.

## 5. Fairness

Seven properties need it. Each component has a fair specification that says so; `AllFairSpec` of
`MCWaiting` states those of its components for the part that moves.

- *EventuallyEvaluated* (`FairPathSpec`): weak fairness of each request's next step, as
  the Go scheduler runs every goroutine and locks are held briefly; strong fairness of
  a sender's retry, the sender being the one that decides to go on. Database failures
  need not stop by themselves: the bound on them stands for "not for ever".
- *EventuallySeen* (`FairSpec`): weak fairness of each request's next step. Nothing
  makes new requests, the cleanup or the clock happen.
- *BroadcastReturns*, *GoneIsForgotten* (`Broker`): weak fairness of each handler's
  and each broadcast's next step. A handler's delivery is *not* fair: it may be stuck
  writing to a client that does not read. Nobody need connect or hang up.
- *SignalEnds* (`Shutdown`): weak fairness of `main`'s next step, the 10 seconds
  among them. No request and no action need ever end.
- *EveryTaskHandled* (`TimerQueue`): weak fairness of the loop, whose handlers are
  taken to return, and of time.
- *ReturnsUnlessCrossed* (`WindowCalls`): weak fairness of each goroutine's next step
  in its call.

## 6. The proofs

`tlapm <module>`; every theorem is for any number of rules, goroutines, clients and
events, any stamps and any bounds. Every safety invariant and every action property of the
passing runs is a theorem; the tables name the invariant that each proof needs.

*Triggers* (`TriggerProofs`), for any rules, callers and stamps:

| Theorem | States | Argument |
|---|---|---|
| `TypeCorrect` | `[]TypeOK` | inductive |
| `LinkageCorrect` | `[]Linkage` | inductive with `TypeOK`: each scalar is tied to the evaluation in the history it comes from; one lemma for each of the three outcomes of `Evaluated` |
| `Implements` | `Spec => AbstractSpec` | by `Linkage`, `Fires` on the scalars equals the abstract decision on the history; every other step stutters |
| `CooldownHolds` | `[]CooldownRespected` | not inductive alone: `last` must be the greatest stamp of a firing, which `Linkage` says |
| `FiringsJustifiedHolds` | `[]FiringsJustified` | for the firing just added, `Linkage` names the evaluation that opened its sustain period, or the one that was false before it; for earlier ones nothing changes |
| `OneLiveStateHolds` | `[]OneLiveState` | inductive with `TypeOK`: creation takes an unused cell, and only where the map has none |

*Events* (`EventPathProofs`):

| Theorem | States | Argument |
|---|---|---|
| `WindowExact` | `[](TypeOK /\ Exact /\ SeenExact)` | invariant `Sound`: entries without repetition, exactly those recent in the history, and the same ids as seen |
| `CountsExactHolds`, `PathTypeCorrect` | `[]CountsExact`, `[]PathTypeOK` | the same invariant through the handler's steps and restarts |
| `EvaluatedOnceHolds` | `[]EvaluatedOnce` if senders wait and the cleaner deletes nothing | `SerialInv`: what is past `Save` is stored, what is not stored was not evaluated, one request for each event |
| `LedgerImplemented` | `PathSpec => LedgerSpec`, for such senders and such a cleaner | by the same invariant each step maps to `Enter`, `Evaluate`, `Accept`, `Refuse` or a stutter; an answer is given only by the one request of an event that is evaluated |

*Rules* (`RuleLifecycleProofs`):

| Theorem | States | Argument |
|---|---|---|
| `IndexHolds`, `SoundRulesOnly` | `[]IndexFits`, `[]ActiveIsSound` | inductive with types, under any use |
| `AgreementHolds` | `[](Agreement /\ Careful)` | `Careful` ties, for each point a request can stand at, the engine to the table (`Midway`), and settles the rules nobody is changing; `EnabledCompiles` is what a restart needs to make good |

*Observations* (`ObservationStoreProofs`) and *evaluation* (`EvaluationProofs`):

| Theorem | States | Argument |
|---|---|---|
| `StoreTyped`, `UsableForTTL` | `[]StoreTypeOK`, `[]FreshForTTL` | invariant `Received`: what is held was received at `arrived`, cut to a second; what is gone had gone stale; by the bounds of integer division |
| `CleanupUnseen` | `CleanupIsInvisible` | directly: the cleanup takes just what cannot be used |
| `SustainUsesStore` | `SustainSpec => StoreSpec` | step by step: the path does to the store only what the store allows |
| `HeldContinuouslyHolds` | `[]HeldContinuously` | `SustainInv`: while a sustain period is open each region is good to use and TRUE, or silent, and no payload since the second that opened it found it otherwise (`Open`); an observation that has gone stale is of a region that is silent, by `Received` |
| `TypesHold`, `StoreBehindEngine` | `[]TypeOK`, `Spec => StoreSpec` | the engine refines the store: every theorem about the store holds behind it |
| `LatestSeenHolds` | `[]LatestSeen` | `SeenOrToBe`: a rule has seen the latest observations, or some request still has it to evaluate and all it has read so far is current (`WillSee`) - the one that stored last |
| `LastWordUnlessCrossedHolds` | `[]LastWordUnlessCrossed`, for any number of concurrent payloads | `ConcludedOrToBe`: an uncrossed rule is decided by its latest observations, or a request has it yet to evaluate; what an evaluation of such a rule has read is what it could read now (`UpToDate`) |

*What waits* (`WaitingProofs`):

| Theorem | States | Argument |
|---|---|---|
| `TypeCorrect`, `SendsAreSafeHolds` | `[]TypeOK`, `[]SendsAreSafe` | `BrokerInv`: the lock counts just the senders that visit (`Counted`) and its writer is the handler that changes the set (`Writing`), so that the clients left to visit are registered, and the registered are open (`Visited`) |
| `StreamFaithfulHolds` | `[]StreamFaithful` | `StreamInv` over `BrokerInv`: what a client has was sent by senders that passed it (`InOrder`), earlier broadcasts are over (`Behind`), who was told "connected" is still to be visited or was (`Told`) |
| `WindowTypeCorrect`, `NeverStuckHolds` | `[]WindowTypeOK`, `[]NeverStuck` | `WindowInv`: how often each goroutine has the lock follows from where its call is (`Held`), and unless a writer has crossed one, no `Aggregate` that has its first lock finds a writer (`Uncrossed`); so whoever the writer waits for can go on |
| `TimerTypeCorrect`, `OneFateHolds` | `[]TimerTypeOK`, `[]OneFate` | `TimerInv`: every task is in one place only, in the map, in the batch, handled or dropped (`OnePlace`), and what is taken is less than a second early (`OnTime`) |
| `ProcessTypeCorrect`, `ServedInFullHolds` | `[]ProcessTypeOK`, `[]ServedInFull` | `ProcessInv` ties server, database and rules loaded to where `main` stands. The property alone is not inductive: that the server was started when `main` waits had to be added, and that a connection has an engine with all its rules behind it |

*Memory* (`MemoryProofs`):

| Theorem | States | Argument |
|---|---|---|
| `OwnMemoryHolds` | `[]OwnMemory` | `RuleInv`: also the evaluations under way are of the active rule, until a deletion meets one |
| `HeldIsCurrentHolds` | `[]HeldIsCurrent` | `InstanceInv`: what is in a hand or completed is in use, so that its address is not given out again (`InUse`); an instance in a hand is the one in the map until it is completed or past its deadline (`HandsShared`); what is in the map has no deadline or was before it when the cleanup ran last (`Swept`) |
| `WindowReadsHolds`, `StateTypeCorrect` | `[]WindowReads`, `[]StateTypeOK` | `WindowInv`: the slice is the recent part of the history; the newest instant has a first snapshot, which is still there |
| `DefinitionsFitHolds` | `[]DefinitionsFit` | `FactInv`: the count of a metric is the cardinality of the set of places in registered rules that ask for it, plus the references left behind |
| `SightingsKeptHolds` | `[]SightingsKept` | `EntityInv`, over the record of what was seen of each key since its state was made (`Remembered`); one lemma for each kind of sighting says how it extends record and state alike |
| `AnswerBracketedHolds` | `AnswerBracketed` | the same invariant: what is read behind a caller's pointer was true since it asked (`Pending`) |
| `RememberedForTTLHolds` | `RememberedForTTL` | the same invariant: if the dates of the record ascend, `LastSeen` is the last of them |

*Outside* (`OutsideProofs`):

| Theorem | States | Argument |
|---|---|---|
| `TypeCorrect`; `FilesAreWholeHolds`, `RowsTellTheTruthHolds` | `[]TypeOK`; `[]FilesAreWhole` and `[]RowsTellTheTruth`, whoever shares names | `WholeInv`: inodes are open for the name they were made for (`OpenFor`); under an uncrossed name one goroutine writes at most, into an inode that is not the one in place (`Aside`), and in place is the whole record of an action that succeeded (`InPlace`); a row says how its action ended (`RowTrue`) |
| `PageTypeCorrect`, `ListShowsHistoryHolds` | `[]PageTypeOK`, `[]ListShowsHistory` | `PageInv`: messages are in the channel once and after their goroutine has gone on (`OnItsWay`); the snapshot, and then the list, has all that was recorded but for what excuses it (`SnapshotComplete`, `PageComplete`); copies are counted by what may still bring one (`Counted`) |
| `SimulatorTypeCorrect`, `SimulatorTellsTrueHolds` | `[]SimulatorTypeOK`, `[]SimulatorTellsTrue` | `SimulatorInv`: where a scenario stands in its operation says which entity it has in hand and whether that is in the map (`Playing`); a camera is put in empty (`Fresh`) and holds nothing of scenarios that work in another (`Unused`); the events agree with the world, or somebody is about to send the one that is missing (`Told`) |

*Compositions.* In each of the last three modules `PartsBehave` shows that a behaviour of the
composition is one of every component, `AllTypesHold` that it is type correct (`[]TypesOK`),
and `WaitingIsSafe`, `MemoryIsTrue` and `OutsideIsTrue` carry the theorems above over to it:
what the runs check of the compositions is what the theorems state.

Assumptions, all named in the modules. Of constants: stamps are naturals, configurations,
bodies and scripts have their types, `None` and its likes are none of the values, sets of
callers are disjoint, TTL, resolutions and capacities are positive naturals, bounds are
naturals. Of use, and stated with the theorem: senders wait for answers and the cleaner
deletes no events (`Serial`, `Thresholds = {}`; otherwise `EvaluatedOnce` fails, section 7).
The simulator's scripts have every region belong to one scenario (`OwnersAssumption`), as
those of the code do. Everything else is proved without a further hypothesis: where the
code leaves a case open that spoils a property, the model has the case, records that it
occurred, and the property excepts just that (`crossed`, `leaked`, `gone`, `late`,
`overlapped`, `dropped`, ...).

Only model-checked: *EventuallyEvaluated*, *EventuallySeen*, *BroadcastReturns*,
*GoneIsForgotten*, *ReturnsUnlessCrossed*, *EveryTaskHandled* and *SignalEnds*, which are
liveness under fairness and out of the prover's reach. And the five statements of section 7
that have a run: they are refuted by examples.

## 7. Statements that do not hold

While modelling, these statements of the documentation, of comments or of the user
interface - or, where a line of code is named instead, what that line is there for - turned
out to disagree with what the code does. Those with a run are checked with the
others. For the rest the statement is defined next to the properties, and TLC refutes it
within about a minute with the cfg named, changed as said (and `CHECK_DEADLOCK FALSE`).

| Statement | Code | What happens | Run, or constants |
|---|---|---|---|
| `AcceptedOnce`: "Because `eventId` is unique, the ingestion layer should be able to detect duplicate event delivery" (PRD:1272) | event_handler.go:51 | two deliveries at a time pass `Exists` together, `INSERT OR IGNORE` succeeds for both: both accepted, both evaluated (the window still counts one) | run `event_duplicate` |
| `DisabledIsInactive`: "The rule remains persisted but should not be evaluated." (PRD:1120) | engine.go:58 | `RegisterRule` returns at once for a disabled rule; the version active before stays so until a restart | run `rule_disable` |
| `EventRulesConclude`: "The engine correctly evaluates: entrance count >= N within 120 seconds" (PRD:1701-1704) | evaluator.go:28 | every dependency, of events too, needs a fresh observation; none is stored for an event, so the rule is false | run `evaluation_events` |
| `OncePerEpisode`: "A continuously true condition does not repeatedly trigger ..." (PRD:1715) | trigger.go:78 | a sustained rising rule fires again each sustain period | MCTriggerManager.cfg, `Stamps = {1, 3, 5, 7}` |
| `AnsweredWasEvaluated`: "Incoming data reaches the rule engine ..." (PRD:1663) | event_handler.go:51 | the process stops between `Save` and `ProcessEvent`; the retry is a "duplicate" | MCEventPath_duplicate.cfg, one worker, `Serial = TRUE`, `Crashes = 1` |
| `EnabledIsActive`: "Rules can be enabled/disabled" (PRD:1670), "rollback" (rule_handler.go:41) | rule_handler.go:41 | a POST with an existing id replaces the active rule, fails, and unregisters it | MCRuleLifecycle_disable.cfg, `Disorder = {"recreate"}` |
| `ActiveIsStored`: "Persist the rule", then "Register or update the active rule in memory" (PRD:429-431) | rule_handler.go:91, rule_store.go:47 | a PUT to an unknown id, or a rule without a scope (the store panics), is active and not stored | the same, `Disorder = {"absent"}`; or `{"unscoped"}` |
| `SameVersion`: "Atomically replace active rule" (PRD:1111) | rule_handler.go:91, :96 | two PUTs at a time, or an UPDATE that fails, leave one version active and another stored | the same, `Disorder = {"race"}`, `Clients = {c1, c2}`; or `{"updateFails"}`, `Failures = 1` |
| `StoredCompiles`: "Invalid Expr expressions are rejected." (PRD:1668) | engine.go:58 | a disabled rule is stored uncompiled | the same, `Disorder = {}` |
| `IndexIsExact`: "Rules should be indexed by relevant scope." (PRD:1128) | engine.go:78 | a rule that is replaced stays indexed under its former streams | the same, `Disorder = {}` |
| `LastWord`: "The engine must ensure that concurrent state/event handling does not corrupt: - rule state" (PRD:1166-1168) | engine.go:274, :315 | nothing holds reading and decision together: the payload that read first may decide last | run `evaluation_crossed` |
| `ForwardInTime`: `emittedAt` for "event/state ordering" (PRD:1295) | store.go:107 | a late state replaces a newer observation | MCEvaluation_events.cfg, `Deps <- AreaDeps`, `Payloads <- Dated`, `MaxRequests = 2` |
| `EventsReachScope`: a rule on `roiId` "door" in cmd/simulator/main.go:67 | dep_index.go:87 | events are looked up without their region | MCEvaluation_events.cfg, `Deps <- DoorDeps` |
| `AnyRoiConcludes`: "(Any ROI)" (ui/src/App.tsx:292) | evaluator.go:29 | the rule is found for every region and evaluated on the observation of none | MCEvaluation_events.cfg, `Deps <- AnyDeps`, `Payloads <- Singles`, `MaxRequests = 2` |
| `FilesAreWhole`, `RowsTellTheTruth` under every name: "... does not corrupt: ... - execution records" (PRD:1166-1172) | file_executor.go:30, :32 | two actions of one rule and stamp write one temporary file, and the longer record leaves its end; or the rename of one takes the file from under the other | MCOutside, `crossed` left out of the property |
| `OwnMemory` without its first condition (PRD:1166-1171) | engine.go:88 | an evaluation under way when a rule is deleted makes its window and trigger state anew | MCMemory, `~overlapped` left out |
| `OwnMemory` without its last condition: "Updated rules become active without unnecessary service restart." (PRD:1671) | manager.go:20 | a window keeps the duration it was made with | MCMemory, `~replaced` left out |
| `CountsPerCamera`: "camera + entityType + trackId" (PRD:720) | state_window.go:108 | two cameras' entities with one trackId count once | MCMemory, with two `Cameras` |
| `OpenMeansHolds`, and `HeldContinuously` if silence does not excuse: "The condition must remain true continuously for 3 minutes." (PRD:595) | evaluator.go:40 | nothing evaluates a rule while its cameras are silent; the first state after a long silence finds the sustain period still open and fires | MCMemory; `Silent(k)'` left out of `Pass` |
| `DefinitionsFit` without `leaked`: a metric lives as long as a rule asks for it (aggregator.go:61, :79) | engine.go:78 | a rule that is registered again counts again and is unregistered once | MCMemory, `leaked[m] > 0` left out |
| `ActionsComplete`: "A satisfied rule produces the expected MVP action file." (PRD:1719) | main.go:125 | nobody waits for the goroutines of actions: they end with the process, or find the database closed | MCWaiting |
| `NobodyLost`: who crossed the line is in the world until it leaves (world.go:60) | world.go:47 | two scenarios miss the camera at the same time and make one each; what is in the first is no longer shown | MCOutside |
| `Robust`: "STARTING ROBUST EDGE SIMULATOR" (cmd/simulator/main.go:50) | world.go:112 | goroutines meet in maps that nobody guards; the runtime may end the process | MCOutside |
| `EmptyIsShown`: "No executions yet." (ui/src/App.tsx:349) | execution_store.go:125 | a nil slice is the JSON `null`, and the page renders `null.length` | run `dashboard_empty` |

## 8. What is not modelled

- *Expr* evaluation, *patterns*, *three-valued logic*, *replay*: pure, or without a caller; only
  the results of expressions matter here.
- *HTTP routing, configuration, schema, health figures*: no state of their own. The
  recovery from a panic is in `RuleLifecycle` (`StorePanics`).
- *Table `states`*: written and cleaned, never read.
- *The page's forms and log*, *the fact store* (a map nobody writes), and of the windows
  `Prune`, `Len`, `Entries` and the counting variants: no caller, or no state that must agree
  with the engine.
- *The logger*: a line of the log is a broadcast of `Broker` like any other.

## 9. The plan

Order of work, the most important behaviour first:

1. Trigger manager and its abstract specification; event window and path; rule
   lifecycle; observation store; evaluation; actions; rule memory; state window; proofs
   for the first four. *(done)*
2. Broker, locks, startup and shutdown, entity store, timers, instances, facts, simulator
   and page; the event path as an implementation of the ledger; one
   run for each question. *(done)*
3. Proofs of every safety invariant and action property that a run checks, and of the
   compositions. *(done)*
4. Rule lifecycle as an implementation of an atomic rule table under careful use: `Agreement`
   says that table and engine are one, and what remains is the abstract specification.
5. The safety side of what the runs check under fairness, as `NeverStuck` is that of
   *ReturnsUnlessCrossed*: that the process can always end, and that a broadcast can
   always return.
