------------------------------- MODULE Shutdown -------------------------------
(***************************************************************************)
(* The life of the process (cmd/engine/main.go): the database is opened,   *)
(* the rules are loaded, cleaner and server are started, and a signal ends *)
(* it all.  http.Server.Shutdown closes the listener and waits up to 10    *)
(* seconds for the requests under way, and for those that connections      *)
(* accepted before still bring; it neither tells them nor ends the streams.*)
(* Nobody waits for the cleaner or for the goroutines of actions.          *)
(*                                                                         *)
(* zLog.Fatal ends the process where it stands, and no deferred call runs. *)
(***************************************************************************)
EXTENDS Naturals, FiniteSets

CONSTANTS
  Rules,     (* the rules stored *)
  Requests,  (* requests; each may fire one action, named after it *)
  Streams    (* those of them that are GET /api/v1/stream *)

ASSUME StreamsAssumption == Streams \subseteq Requests

VARIABLES
  main,       (* where main stands, or how it ended *)
  db,
  loaded,     (* the rules the start is through with *)
  server,     (* the goroutine that serves *)
  cleaner,    (* the cleaner's goroutine *)
  cleanupCancelled,  (* cleanupCtx is done *)
  signalled,  (* a signal waits in, or was read from, the channel quit *)
  req,        (* per request: where it is *)
  action      (* per request: where the goroutine of its action is *)

processVars == <<main, db, loaded, server, cleaner, cleanupCancelled, signalled, req, action>>
serving == <<req, action>>
workers == <<server, cleaner, cleanupCancelled>>

Before == {"opening", "loading", "starting", "notifying"}
After == {"exited", "failed", "killed"}

ProcessTypeOK ==
  /\ main \in Before \union {"waiting", "draining", "closing", "returning"} \union After
  /\ db \in {"none", "open", "closed"}
  /\ loaded \subseteq Rules
  /\ server \in {"none", "starting", "listening", "closed"}
  /\ cleaner \in {"none", "states", "events", "waiting", "stopped"}
  /\ cleanupCancelled \in BOOLEAN
  /\ signalled \in BOOLEAN
  /\ req \in [Requests -> {"none", "connected", "active", "answered", "left", "closed"}]
  /\ action \in [Requests -> {"none", "write", "record", "done", "lost"}]

Over == main \in After
Active == {r \in Requests : req[r] = "active"}

(* The connections that wait for their request are closed.                 *)
CloseConnections ==
  req' = [r \in Requests |-> IF req[r] = "connected" THEN "closed" ELSE req[r]]

ProcessInit ==
  /\ main = "opening"
  /\ db = "none"
  /\ loaded = {}
  /\ server = "none"
  /\ cleaner = "none"
  /\ cleanupCancelled = FALSE
  /\ signalled = FALSE
  /\ req = [r \in Requests |-> "none"]
  /\ action = [r \in Requests |-> "none"]

-----------------------------------------------------------------------------

(* main.                                                                   *)

OpenDb ==
  /\ main = "opening"
  /\ db' = "open"
  /\ main' = "loading"
  /\ UNCHANGED <<loaded, workers, signalled, serving>>

(* One turn of the loop over ruleStore.List; an error is logged.           *)
RegisterStored(r) ==
  /\ main = "loading"
  /\ r \notin loaded
  /\ loaded' = loaded \union {r}
  /\ UNCHANGED <<main, db, workers, signalled, serving>>

(* Config, database, migrations, the actions' directory, the list of rules *)
(* and the embedded files: an error of any of them is fatal.               *)
StartFails ==
  /\ main \in {"opening", "loading", "starting"}
  /\ main' = "failed"
  /\ UNCHANGED <<db, loaded, workers, signalled, serving>>

StartCleaner ==
  /\ main = "loading"
  /\ loaded = Rules
  /\ cleaner' = "states"
  /\ main' = "starting"
  /\ UNCHANGED <<db, loaded, server, cleanupCancelled, signalled, serving>>

StartServer ==
  /\ main = "starting"
  /\ server' = "starting"
  /\ main' = "notifying"
  /\ UNCHANGED <<db, loaded, cleaner, cleanupCancelled, signalled, serving>>

Notify ==
  /\ main = "notifying"
  /\ main' = "waiting"
  /\ UNCHANGED <<db, loaded, workers, signalled, serving>>

(* Before signal.Notify a signal ends the process.                         *)
Signal ==
  /\ ~Over
  /\ ~signalled
  /\ IF main \in Before
     THEN main' = "killed" /\ UNCHANGED signalled
     ELSE signalled' = TRUE /\ UNCHANGED main
  /\ UNCHANGED <<db, loaded, workers, serving>>

(* cleanupCancel, and the listener closed by Shutdown.                     *)
BeginShutdown ==
  /\ main = "waiting"
  /\ signalled
  /\ main' = "draining"
  /\ cleanupCancelled' = TRUE
  /\ server' = "closed"
  /\ UNCHANGED <<db, loaded, cleaner, signalled, serving>>

(* Mutant: streams are not waited for.                                     *)
DrainedButStreams ==
  /\ main = "draining"
  /\ Active \subseteq Streams
  /\ main' = "closing"
  /\ CloseConnections
  /\ UNCHANGED <<db, loaded, workers, signalled, action>>

(* Whatever Shutdown finds idle it closes, and it returns when that is all.*)
Drained ==
  /\ main = "draining"
  /\ Active = {}
  /\ main' = "closing"
  /\ CloseConnections
  /\ UNCHANGED <<db, loaded, workers, signalled, action>>

(* Mutant: the context of Shutdown has no deadline.                        *)
NoDeadline ==
  /\ FALSE
  /\ UNCHANGED processVars

DrainTimeout ==
  /\ main = "draining"
  /\ main' = "failed"
  /\ UNCHANGED <<db, loaded, workers, signalled, serving>>

(* The deferred calls, and the end of main.                                *)
CloseDb ==
  /\ main = "closing"
  /\ db' = "closed"
  /\ main' = "returning"
  /\ UNCHANGED <<loaded, workers, signalled, serving>>

Exit ==
  /\ main = "returning"
  /\ main' = "exited"
  /\ UNCHANGED <<db, loaded, workers, signalled, serving>>

Main ==
  \/ OpenDb \/ (\E r \in Rules : RegisterStored(r)) \/ StartCleaner \/ StartServer
  \/ Notify \/ BeginShutdown \/ Drained \/ DrainTimeout \/ CloseDb \/ Exit

-----------------------------------------------------------------------------

(* The server's goroutine.  ListenAndServe returns at once when the server *)
(* has been shut down before.                                              *)
Listen ==
  /\ ~Over
  /\ server = "starting"
  /\ server' = "listening"
  /\ UNCHANGED <<main, db, loaded, cleaner, cleanupCancelled, signalled, serving>>

ListenFails ==
  /\ ~Over
  /\ server \in {"starting", "listening"}
  /\ main' = "failed"
  /\ UNCHANGED <<db, loaded, workers, signalled, serving>>

(* The cleaner: two statements at the start and every hour.  Of a tick and *)
(* the end of the context, select takes either.                            *)
CleanerStep ==
  /\ ~Over
  /\ \/ cleaner = "states" /\ cleaner' = "events"
     \/ cleaner = "events" /\ cleaner' = "waiting"
     \/ cleaner = "waiting" /\ cleaner' = "states"
     \/ cleaner = "waiting" /\ cleanupCancelled /\ cleaner' = "stopped"
  /\ UNCHANGED <<main, db, loaded, server, cleanupCancelled, signalled, serving>>

(* A connection is accepted, and brings a request, be it during the drain. *)
AcceptConnection(r) ==
  /\ ~Over
  /\ server = "listening"
  /\ req[r] = "none"
  /\ req' = [req EXCEPT ![r] = "connected"]
  /\ UNCHANGED <<main, db, loaded, workers, signalled, action>>

(* The request fires an action and is answered, or streams until its       *)
(* client leaves.                                                          *)
Arrive(r) ==
  /\ ~Over
  /\ req[r] = "connected"
  /\ req' = [req EXCEPT ![r] = "active"]
  /\ UNCHANGED <<main, db, loaded, workers, signalled, action>>

Fire(r) ==
  /\ ~Over
  /\ r \in Active \ Streams
  /\ action[r] = "none"
  /\ action' = [action EXCEPT ![r] = "write"]
  /\ UNCHANGED <<main, db, loaded, workers, signalled, req>>

Answer(r) ==
  /\ ~Over
  /\ r \in Active
  /\ req' = [req EXCEPT ![r] = IF r \in Streams THEN "left" ELSE "answered"]
  /\ UNCHANGED <<main, db, loaded, workers, signalled, action>>

(* executeAction's goroutine: the file, then the row, which is lost when   *)
(* the database is closed.                                                 *)
ActionStep(r) ==
  /\ ~Over
  /\ \/ action[r] = "write" /\ action' = [action EXCEPT ![r] = "record"]
     \/ /\ action[r] = "record"
        /\ action' = [action EXCEPT ![r] = IF db = "open" THEN "done" ELSE "lost"]
  /\ UNCHANGED <<main, db, loaded, workers, signalled, req>>

ProcessNext ==
  \/ Main \/ StartFails \/ Signal \/ Listen \/ ListenFails \/ CleanerStep
  \/ \E r \in Requests : AcceptConnection(r) \/ Arrive(r) \/ Fire(r) \/ Answer(r) \/ ActionStep(r)

ProcessSpec == ProcessInit /\ [][ProcessNext]_processVars

(* main is scheduled.  No request need ever end, and no action.            *)
FairProcessSpec == ProcessSpec /\ WF_processVars(Main)

-----------------------------------------------------------------------------

(* No request is answered by an engine that knows a part of its rules: a   *)
(* state or event that arrives during the start is refused, not judged.    *)
(* And the database outlives the requests: none of those accepted, however *)
(* it races with the signal, finds it closed, and an orderly exit cuts none*)
(* of them, streams included.                                              *)
ServedInFull ==
  /\ \A r \in Requests : req[r] # "none" => loaded = Rules
  /\ db = "closed" \/ main \in {"closing", "exited"} => Active = {}

(* A signal that main gets ends the process, whatever its clients do: a    *)
(* dashboard left open delays the end and spoils it, but cannot prevent it.*)
SignalEnds == signalled ~> Over

(* "A satisfied rule produces the expected MVP action file." (PRD:1719):   *)
(* refuted, as an orderly exit leaves actions half done.                   *)
ActionsComplete ==
  main = "exited" => \A r \in Requests : action[r] \in {"none", "done"}

=============================================================================
