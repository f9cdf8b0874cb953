--------------------------- MODULE RuleLifecycle ----------------------------
(***************************************************************************)
(* The life of a rule: the handlers of POST, PUT and DELETE /rules         *)
(* (internal/api/rule_handler.go), the rule store, the engine's active     *)
(* rules with their dependency index, and the start of the process.        *)
(*                                                                         *)
(* A rule lives twice: as a row of task_rules and as an active rule of the *)
(* engine.  Each handler changes the two in separate steps, in an order of *)
(* its own (create and update: engine first; delete: table first), while   *)
(* other requests run.  The properties say when the two agree.             *)
(*                                                                         *)
(* A body is what a client sends: whether it is enabled, the streams it    *)
(* depends on, whether its expression compiles and whether it has a scope  *)
(* (rules of the second version may have dependencies only).               *)
(*                                                                         *)
(* Six things make the two disagree (Careless).  `strayed` remembers that  *)
(* one of them happened; a restart makes good what they did.               *)
(***************************************************************************)
EXTENDS Integers, FiniteSets

CONSTANTS
  Rules,      (* rule ids *)
  Streams,    (* keys of the dependency index *)
  Bodies,     (* rule bodies clients send *)
  Clients,    (* requests that can run at a time *)
  Disorder,   (* what clients and the database may do beyond careful use *)
  Crashes,    (* bound: how often the process is restarted *)
  Failures,   (* bound: how often a database statement fails *)
  None

Careless == {"race",         \* two requests for one rule at a time
             "recreate",     \* POST with the id of an existing rule
             "absent",       \* PUT to an id that does not exist
             "disable",      \* PUT that disables an enabled rule
             "unscoped",     \* a body without a scope
             "updateFails"}  \* the UPDATE statement fails

Body == [enabled : BOOLEAN, deps : SUBSET Streams, compiles : BOOLEAN,
         scoped : BOOLEAN, name : {"old", "new"}]

Request == [op : {"create", "update"}, rule : Rules, body : Bodies,
            pc : {"register", "store", "rollback"}]
           \union
           [op : {"delete"}, rule : Rules, pc : {"store", "unregister"}]

ASSUME BodiesAssumption == Bodies \subseteq Body
ASSUME DisorderAssumption == Disorder \subseteq Careless
ASSUME NoneAssumption == None \notin Bodies /\ None \notin Request

VARIABLES
  db,       (* task_rules: the stored body of each rule, or None *)
  rules,    (* Engine.rules: the active body of each rule, or None *)
  index,    (* DepIndex: pairs of a stream and a rule *)
  req,      (* the request of each client, or None *)
  strayed,  (* history: something careless happened since the last start *)
  crashes, failures

vars == <<db, rules, index, req, strayed, crashes, failures>>

TypeOK ==
  /\ db \in [Rules -> Bodies \union {None}]
  /\ rules \in [Rules -> Bodies \union {None}]
  /\ index \subseteq Streams \X Rules
  /\ req \in [Clients -> Request \union {None}]
  /\ strayed \in BOOLEAN
  /\ crashes \in 0..Crashes
  /\ failures \in 0..Failures

Busy(r) == \E c \in Clients : req[c] # None /\ req[c].rule = r

At(c, op, pc) == req[c] # None /\ req[c].op = op /\ req[c].pc = pc

GoTo(c, pc) == req' = [req EXCEPT ![c].pc = pc]

Reply(c) == req' = [req EXCEPT ![c] = None]

-----------------------------------------------------------------------------

Init ==
  /\ db = [r \in Rules |-> None]
  /\ rules = [r \in Rules |-> None]
  /\ index = {}
  /\ req = [c \in Clients |-> None]
  /\ strayed = FALSE
  /\ crashes = 0
  /\ failures = 0

(* What is careless about a request that passed Validate.                  *)
Strays(op, r) ==
  {k \in Careless : \/ k = "race" /\ Busy(r)
                    \/ k = "recreate" /\ op = "create" /\ db[r] # None
                    \/ k = "absent" /\ op = "update" /\ db[r] = None}

BodyStrays(op, r, b) ==
  {k \in Careless : \/ k = "unscoped" /\ ~b.scoped
                    \/ /\ k = "disable" /\ op = "update" /\ ~b.enabled
                       /\ db[r] # None /\ db[r].enabled}

Stray(kinds) ==
  /\ kinds \subseteq Disorder
  /\ strayed' = (strayed \/ kinds # {})

Begin(c, op, r, b) ==
  /\ req[c] = None
  /\ Stray(Strays(op, r) \union BodyStrays(op, r, b))
  /\ req' = [req EXCEPT ![c] = [op |-> op, rule |-> r, body |-> b, pc |-> "register"]]
  /\ UNCHANGED <<db, rules, index, crashes, failures>>

BeginDelete(c, r) ==
  /\ req[c] = None
  /\ Stray(Strays("delete", r))
  /\ req' = [req EXCEPT ![c] = [op |-> "delete", rule |-> r, pc |-> "store"]]
  /\ UNCHANGED <<db, rules, index, crashes, failures>>

(* Mutant: a rule that is active already is not indexed again.             *)
IndexedOnce(r, deps) ==
  index' = IF rules[r] # None THEN index ELSE index \union (deps \X {r})

(* DepIndex.Register and Unregister.                                       *)
Indexed(r, deps) == index' = index \union (deps \X {r})
Unindexed(r) == index' = {p \in index : p[2] # r}

(* Engine.RegisterRule: a disabled rule is left out before its expression  *)
(* is compiled, and nothing is done about a version of it already active.  *)
RegisterRule(c) ==
  /\ At(c, "create", "register") \/ At(c, "update", "register")
  /\ LET r == req[c].rule
         b == req[c].body
     IN  \/ /\ ~b.enabled
            /\ GoTo(c, "store")
            /\ UNCHANGED <<rules, index>>
         \/ /\ b.enabled /\ ~b.compiles
            /\ Reply(c)
            /\ UNCHANGED <<rules, index>>
         \/ /\ b.enabled /\ b.compiles
            /\ rules' = [rules EXCEPT ![r] = b]
            /\ Indexed(r, b.deps)
            /\ GoTo(c, "store")
  /\ UNCHANGED <<db, strayed, crashes, failures>>

(* RuleStore.Create: INSERT into a table whose key is the id.              *)
StoreCreate(c) ==
  /\ At(c, "create", "store") /\ req[c].body.scoped
  /\ IF db[req[c].rule] = None
     THEN /\ db' = [db EXCEPT ![req[c].rule] = req[c].body]
          /\ Reply(c)
     ELSE /\ GoTo(c, "rollback")
          /\ UNCHANGED db
  /\ UNCHANGED <<rules, index, strayed, crashes, failures>>

(* Mutant: a failed INSERT is not rolled back.                             *)
StoreCreateGivesUp(c) ==
  /\ At(c, "create", "store") /\ req[c].body.scoped
  /\ failures < Failures
  /\ failures' = failures + 1
  /\ Reply(c)
  /\ UNCHANGED <<db, rules, index, strayed, crashes>>

StoreCreateFails(c) ==
  /\ At(c, "create", "store") /\ req[c].body.scoped
  /\ failures < Failures
  /\ failures' = failures + 1
  /\ GoTo(c, "rollback")
  /\ UNCHANGED <<db, rules, index, strayed, crashes>>

(* Create and Update read rule.Scope.CameraId: without a scope they panic, *)
(* and the recovery middleware answers 500.                                *)
StorePanics(c) ==
  /\ At(c, "create", "store") \/ At(c, "update", "store")
  /\ ~req[c].body.scoped
  /\ Reply(c)
  /\ UNCHANGED <<db, rules, index, strayed, crashes, failures>>

(* UnregisterRule: after a failed create, and at the end of a delete.      *)
UnregisterRule(c) ==
  /\ At(c, "create", "rollback") \/ At(c, "delete", "unregister")
  /\ rules' = [rules EXCEPT ![req[c].rule] = None]
  /\ Unindexed(req[c].rule)
  /\ Reply(c)
  /\ UNCHANGED <<db, strayed, crashes, failures>>

(* RuleStore.Update: no row to update is an error, and is not rolled back. *)
StoreUpdate(c) ==
  /\ At(c, "update", "store") /\ req[c].body.scoped
  /\ db' = IF db[req[c].rule] = None THEN db
           ELSE [db EXCEPT ![req[c].rule] = req[c].body]
  /\ Reply(c)
  /\ UNCHANGED <<rules, index, strayed, crashes, failures>>

StoreUpdateFails(c) ==
  /\ Stray({"updateFails"})
  /\ At(c, "update", "store") /\ req[c].body.scoped
  /\ failures < Failures
  /\ failures' = failures + 1
  /\ Reply(c)
  /\ UNCHANGED <<db, rules, index, crashes>>

(* RuleStore.Delete, which is content with an id that does not exist.      *)
StoreDelete(c) ==
  /\ At(c, "delete", "store")
  /\ db' = [db EXCEPT ![req[c].rule] = None]
  /\ GoTo(c, "unregister")
  /\ UNCHANGED <<rules, index, strayed, crashes, failures>>

StoreDeleteFails(c) ==
  /\ At(c, "delete", "store")
  /\ failures < Failures
  /\ failures' = failures + 1
  /\ Reply(c)
  /\ UNCHANGED <<db, rules, index, strayed, crashes>>

(* Mutant: main activates what is stored without looking at `enabled`.     *)
LoadAll(b) == b

(* The process stops and main starts it again: every stored rule is        *)
(* registered, and one that fails to compile is only logged.               *)
Loadable(b) == IF b # None /\ b.enabled /\ b.compiles THEN b ELSE None

Restart ==
  /\ crashes < Crashes
  /\ crashes' = crashes + 1
  /\ rules' = [r \in Rules |-> Loadable(db[r])]
  /\ index' = {p \in Streams \X Rules : Loadable(db[p[2]]) # None /\ p[1] \in db[p[2]].deps}
  /\ req' = [c \in Clients |-> None]
  /\ strayed' = FALSE
  /\ UNCHANGED <<db, failures>>

Handler(c) ==
  \/ RegisterRule(c) \/ UnregisterRule(c)
  \/ StoreCreate(c) \/ StoreCreateFails(c) \/ StorePanics(c)
  \/ StoreUpdate(c) \/ StoreUpdateFails(c)
  \/ StoreDelete(c) \/ StoreDeleteFails(c)

Next ==
  \/ \E c \in Clients, op \in {"create", "update"}, r \in Rules, b \in Bodies :
       Begin(c, op, r, b)
  \/ \E c \in Clients, r \in Rules : BeginDelete(c, r)
  \/ \E c \in Clients : Handler(c)
  \/ Restart

Spec == Init /\ [][Next]_vars

=============================================================================
