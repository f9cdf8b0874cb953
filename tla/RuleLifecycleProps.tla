------------------------- MODULE RuleLifecycleProps -------------------------
(* What should hold of RuleLifecycle, and the invariant that explains it.  *)
EXTENDS RuleLifecycle

(* No lost rule: whatever clients do and whenever they do it, the index    *)
(* leads from each stream an active rule depends on to that rule.  Both    *)
(* change in one critical section of Engine.mu.                            *)
IndexCoversActive ==
  \A r \in Rules : rules[r] # None => \A s \in rules[r].deps : <<s, r>> \in index

(* No ghost rule: the index leads to no rule that is not active, so that a *)
(* deleted rule costs and decides nothing.                                 *)
IndexOnlyActive == \A p \in index : rules[p[2]] # None

(* Index and rules fit, although what a rule depended on in former versions*)
(* stays in the index, and requests for one rule run at the same time.     *)
IndexFits == IndexCoversActive /\ IndexOnlyActive

(* "An invalid rule should not be activated": only enabled rules whose     *)
(* expression compiles are ever active, by any path, restarts included.    *)
ActiveIsSound == \A r \in Rules : rules[r] # None => rules[r].enabled /\ rules[r].compiles

-----------------------------------------------------------------------------

(* The table and the engine agree on a rule that no request is changing.   *)

(* A rule stored as disabled is not active ("The rule remains persisted    *)
(* but should not be evaluated").                                          *)
DisabledIsInactive ==
  \A r \in Rules : ~Busy(r) /\ db[r] # None /\ ~db[r].enabled => rules[r] = None

(* A rule stored as enabled is active: what a failed create undoes is what *)
(* it did.                                                                 *)
EnabledIsActive ==
  \A r \in Rules : ~Busy(r) /\ db[r] # None /\ db[r].enabled => rules[r] # None

(* An active rule is stored ("Persist the rule", then "Register or update  *)
(* the active rule in memory"): it is listed, can be deleted and survives. *)
ActiveIsStored == \A r \in Rules : ~Busy(r) /\ rules[r] # None => db[r] # None

(* The active version is the stored one ("Atomically replace active rule").*)
SameVersion ==
  \A r \in Rules : ~Busy(r) /\ rules[r] # None /\ db[r] # None /\ db[r].enabled
                     => rules[r] = db[r]

(* All four hold as long as nothing careless has happened since the start  *)
(* of the process: clients that wait for each other's answers, create new  *)
(* ids, update existing ones and never disable a rule see one state,       *)
(* whatever else fails, and a restart makes good any carelessness.         *)
Agreement ==
  ~strayed => DisabledIsInactive /\ EnabledIsActive /\ ActiveIsStored /\ SameVersion

(* "Invalid Expr expressions are rejected": what is stored compiles.       *)
StoredCompiles == \A r \in Rules : db[r] # None => db[r].compiles

(* "Rules should be indexed by relevant scope": the index leads to a rule  *)
(* from the streams of its active version and from no others.              *)
IndexIsExact == \A p \in index : rules[p[2]] # None /\ p[1] \in rules[p[2]].deps

-----------------------------------------------------------------------------

(* Whatever happens, a rule that is stored as enabled compiles, and so     *)
(* does one on its way to the table: restarts activate all of them.        *)
EnabledCompiles ==
  /\ \A r \in Rules : db[r] # None /\ db[r].enabled => db[r].compiles
  /\ \A c \in Clients : At(c, "create", "store") \/ At(c, "update", "store")
                          => (req[c].body.enabled => req[c].body.compiles)

(* The inductive invariant of careful use: where the request for a rule    *)
(* stands, if there is one, tells how the engine may differ from the table.*)
Settled(r) == rules[r] = Loadable(db[r]) /\ (db[r] # None /\ db[r].enabled => db[r].compiles)

Registered(r, b) ==
  /\ b.scoped
  /\ b.enabled => b.compiles /\ rules[r] = b
  /\ ~b.enabled => rules[r] = None

Midway(q) ==
  CASE q.op = "create" /\ q.pc = "register" ->
         db[q.rule] = None /\ Settled(q.rule) /\ q.body.scoped
    [] q.op = "create" /\ q.pc = "store" ->
         db[q.rule] = None /\ Registered(q.rule, q.body)
    [] q.op = "create" /\ q.pc = "rollback" ->
         db[q.rule] = None
    [] q.op = "update" /\ q.pc = "register" ->
         /\ db[q.rule] # None /\ Settled(q.rule) /\ q.body.scoped
         /\ ~q.body.enabled => ~db[q.rule].enabled
    [] q.op = "update" /\ q.pc = "store" ->
         /\ db[q.rule] # None /\ Registered(q.rule, q.body)
         /\ db[q.rule].enabled => db[q.rule].compiles
    [] q.op = "delete" /\ q.pc = "store" ->
         Settled(q.rule)
    [] q.op = "delete" /\ q.pc = "unregister" ->
         db[q.rule] = None
    [] OTHER -> FALSE

InCare ==
  /\ \A c, d \in Clients : req[c] # None /\ req[d] # None /\ req[c].rule = req[d].rule
                             => c = d
  /\ \A c \in Clients : req[c] # None => Midway(req[c])
  /\ \A r \in Rules : ~Busy(r) => Settled(r)

Careful == EnabledCompiles /\ (~strayed => InCare)

=============================================================================
