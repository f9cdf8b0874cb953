------------------------ MODULE RuleLifecycleProofs -------------------------
(***************************************************************************)
(* Theorems about RuleLifecycle, for any rules, bodies and clients.        *)
(*                                                                         *)
(* The index and the active rules agree whatever clients do.  The table    *)
(* and the engine agree until something careless happens, and again after  *)
(* a restart.                                                              *)
(***************************************************************************)
EXTENDS RuleLifecycleProps, TLAPS

Typed ==
  /\ db \in [Rules -> Bodies \union {None}]
  /\ rules \in [Rules -> Bodies \union {None}]
  /\ index \subseteq Streams \X Rules
  /\ req \in [Clients -> Request \union {None}]
  /\ strayed \in BOOLEAN

(* What is known of a request that is being served.                        *)
LEMMA RequestFacts ==
  ASSUME NEW q \in Request
  PROVE  /\ q.rule \in Rules
         /\ q.op \in {"create", "update"} => q.body \in Bodies
         /\ q.op \in {"create", "update", "delete"}
         /\ q.op = "delete" => q.pc \in {"store", "unregister"}
         /\ q.op # "delete" => q.pc \in {"register", "store", "rollback"}
  BY DEF Request

(* GoTo moves one request on and changes nothing else about it.            *)
LEMMA Moved ==
  ASSUME Typed, NEW c \in Clients, NEW pc, req[c] # None, GoTo(c, pc),
         \/ req[c].op = "delete" /\ pc = "unregister"
         \/ req[c].op # "delete" /\ pc \in {"store", "rollback"}
  PROVE  /\ req' \in [Clients -> Request \union {None}]
         /\ req'[c] # None
         /\ req'[c].pc = pc /\ req'[c].op = req[c].op /\ req'[c].rule = req[c].rule
         /\ req[c].op # "delete" => req'[c].body = req[c].body
         /\ \A d \in Clients \ {c} : req'[d] = req[d]
<1> DEFINE q == [req[c] EXCEPT !.pc = pc]
<1>1. req[c] \in Request
  BY DEF Typed
<1>2. req' = [req EXCEPT ![c] = q]
  BY DEF GoTo
<1>3. CASE req[c].op = "delete" /\ pc = "unregister"
  <2>1. req[c] \in [op : {"delete"}, rule : Rules, pc : {"store", "unregister"}]
    BY <1>1, <1>3 DEF Request
  <2>2. /\ q \in [op : {"delete"}, rule : Rules, pc : {"store", "unregister"}]
        /\ q.pc = pc /\ q.op = req[c].op /\ q.rule = req[c].rule
    BY <1>3, <2>1
  <2>3. q \in Request
    BY <2>2 DEF Request
  <2> HIDE DEF q
  <2> QED
    BY <1>2, <1>3, <2>2, <2>3, NoneAssumption DEF Typed
<1>4. CASE req[c].op # "delete" /\ pc \in {"store", "rollback"}
  <2>1. req[c] \in [op : {"create", "update"}, rule : Rules, body : Bodies,
                    pc : {"register", "store", "rollback"}]
    BY <1>1, <1>4 DEF Request
  <2>2. /\ q \in [op : {"create", "update"}, rule : Rules, body : Bodies,
                  pc : {"register", "store", "rollback"}]
        /\ q.pc = pc /\ q.op = req[c].op /\ q.rule = req[c].rule /\ q.body = req[c].body
    BY <1>4, <2>1
  <2>3. q \in Request
    BY <2>2 DEF Request
  <2> HIDE DEF q
  <2> QED
    BY <1>2, <2>2, <2>3, NoneAssumption DEF Typed
<1> QED
  BY <1>3, <1>4

(* The bodies active after a restart, and the index built from them.       *)
LEMMA RestartFacts ==
  ASSUME Typed, Restart
  PROVE  /\ \A r \in Rules : rules'[r] = Loadable(db[r]) /\ rules'[r] \in Bodies \union {None}
         /\ rules' \in [Rules -> Bodies \union {None}]
         /\ index' \subseteq Streams \X Rules
         /\ req' = [c \in Clients |-> None] /\ db' = db /\ strayed' = FALSE
  BY DEF Typed, Restart, Loadable

(* Types are kept by every step.                                           *)
LEMMA TypedHolds == Spec => []Typed
<1>1. Init => Typed
  BY DEF Init, Typed
<1>2. Typed /\ [Next]_vars => Typed'
  <2> SUFFICES ASSUME Typed, [Next]_vars
               PROVE  Typed'
    OBVIOUS
  <2>1. ASSUME NEW c \in Clients, NEW op \in {"create", "update"}, NEW r \in Rules,
               NEW b \in Bodies, Begin(c, op, r, b)
        PROVE  Typed'
    <3>1. [op |-> op, rule |-> r, body |-> b, pc |-> "register"] \in Request
      BY DEF Request
    <3> QED
      BY <2>1, <3>1 DEF Begin, Stray, Typed
  <2>2. ASSUME NEW c \in Clients, NEW r \in Rules, BeginDelete(c, r)
        PROVE  Typed'
    <3>1. [op |-> "delete", rule |-> r, pc |-> "store"] \in Request
      BY DEF Request
    <3> QED
      BY <2>2, <3>1 DEF BeginDelete, Stray, Typed
  <2>3. ASSUME NEW c \in Clients, Handler(c)
        PROVE  Typed'
    <3>1. req[c] \in Request
      BY <2>3
      DEF Handler, RegisterRule, UnregisterRule, StoreCreate, StoreCreateFails, StorePanics,
          StoreUpdate, StoreUpdateFails, StoreDelete, StoreDeleteFails, At, Typed
    <3>2. req' \in [Clients -> Request \union {None}]
      <4>1. Reply(c) => req' \in [Clients -> Request \union {None}]
        BY DEF Reply, Typed
      <4>2. Reply(c) \/ (GoTo(c, "store") /\ req[c].op # "delete")
            \/ (GoTo(c, "rollback") /\ req[c].op # "delete")
            \/ (GoTo(c, "unregister") /\ req[c].op = "delete")
        BY <2>3
        DEF Handler, RegisterRule, UnregisterRule, StoreCreate, StoreCreateFails, StorePanics,
            StoreUpdate, StoreUpdateFails, StoreDelete, StoreDeleteFails, At
      <4>3. req[c] # None
        BY <3>1, NoneAssumption
      <4> QED
        BY <4>1, <4>2, <4>3, Moved
    <3>3. req[c].rule \in Rules /\ (req[c].op # "delete" => req[c].body \in Bodies)
      BY <3>1, RequestFacts
    <3>4. CASE RegisterRule(c)
      <4>1. req[c].op # "delete"
        BY <3>4 DEF RegisterRule, At
      <4>2. req[c].body.deps \subseteq Streams
        BY <3>3, <4>1, BodiesAssumption DEF Body
      <4> QED
        BY <3>2, <3>3, <3>4, <4>1, <4>2 DEF RegisterRule, Typed, Indexed
    <3>5. CASE UnregisterRule(c)
      BY <3>2, <3>5 DEF UnregisterRule, Unindexed, Typed
    <3>6. CASE \/ StoreCreate(c) \/ StoreCreateFails(c) \/ StorePanics(c) \/ StoreUpdate(c)
               \/ StoreUpdateFails(c) \/ StoreDelete(c) \/ StoreDeleteFails(c)
      <4>1. /\ db' \in [Rules -> Bodies \union {None}] /\ UNCHANGED <<rules, index>>
            /\ strayed' \in BOOLEAN
        BY <3>3, <3>6
        DEF StoreCreate, StoreCreateFails, StorePanics, StoreUpdate, StoreUpdateFails,
            StoreDelete, StoreDeleteFails, Stray, Typed, At
      <4> QED
        BY <3>2, <4>1 DEF Typed
    <3> QED
      BY <2>3, <3>4, <3>5, <3>6 DEF Handler
  <2>4. ASSUME Restart
        PROVE  Typed'
    BY <2>4, RestartFacts DEF Typed
  <2>5. CASE UNCHANGED vars
    BY <2>5 DEF vars, Typed
  <2> QED
    BY <2>1, <2>2, <2>3, <2>4, <2>5 DEF Next
<1> QED
  BY <1>1, <1>2, PTL DEF Spec

-----------------------------------------------------------------------------

IndexInv == IndexCoversActive /\ IndexOnlyActive /\ ActiveIsSound

(* Steps that touch neither the engine's rules nor the index.              *)
LEMMA EngineUntouched ==
  ASSUME IndexInv, UNCHANGED <<rules, index>>
  PROVE  IndexInv'
  BY DEF IndexInv, IndexCoversActive, IndexOnlyActive, ActiveIsSound

(* RegisterRule and UnregisterRule change rules and index together.        *)
LEMMA EngineSteps ==
  ASSUME Typed, IndexInv, NEW c \in Clients, RegisterRule(c) \/ UnregisterRule(c)
  PROVE  IndexInv'
<1> DEFINE r == req[c].rule
<1>1. req[c] \in Request /\ r \in Rules
  BY RequestFacts DEF RegisterRule, UnregisterRule, At, Typed
<1>2. CASE RegisterRule(c)
  <2> DEFINE b == req[c].body
  <2>1. CASE UNCHANGED <<rules, index>>
    BY <2>1, EngineUntouched
  <2>2. CASE /\ b.enabled /\ b.compiles
             /\ rules' = [rules EXCEPT ![r] = b]
             /\ index' = index \union (b.deps \X {r})
    <3>1. b # None
      BY <1>1, <1>2, RequestFacts, NoneAssumption DEF RegisterRule, At
    <3> HIDE DEF b, r
    <3>2. \A q \in Rules : rules'[q] = IF q = r THEN b ELSE rules[q]
      BY <1>1, <2>2 DEF Typed
    <3>3. IndexCoversActive'
      BY <1>1, <2>2, <3>2 DEF IndexInv, IndexCoversActive
    <3>4. IndexOnlyActive'
      BY <1>1, <2>2, <3>1, <3>2 DEF IndexInv, IndexOnlyActive, Typed
    <3>5. ActiveIsSound'
      BY <2>2, <3>2 DEF IndexInv, ActiveIsSound
    <3> QED
      BY <3>3, <3>4, <3>5 DEF IndexInv
  <2> QED
    BY <1>2, <2>1, <2>2 DEF RegisterRule, Indexed
<1>3. CASE UnregisterRule(c)
  <2>1. rules' = [rules EXCEPT ![r] = None] /\ index' = {p \in index : p[2] # r}
    BY <1>3 DEF UnregisterRule, Unindexed
  <2>2. \A q \in Rules : rules'[q] = IF q = r THEN None ELSE rules[q]
    BY <1>1, <2>1 DEF Typed
  <2> HIDE DEF r
  <2>3. IndexCoversActive'
    BY <2>1, <2>2 DEF IndexInv, IndexCoversActive
  <2>4. IndexOnlyActive'
    BY <2>1, <2>2 DEF IndexInv, IndexOnlyActive, Typed
  <2>5. ActiveIsSound'
    BY <2>2 DEF IndexInv, ActiveIsSound
  <2> QED
    BY <2>3, <2>4, <2>5 DEF IndexInv
<1> QED
  BY <1>2, <1>3

LEMMA IndexInvStep ==
  ASSUME Typed, IndexInv, [Next]_vars
  PROVE  IndexInv'
<1>1. CASE Restart
  <2>1. \A r \in Rules : rules'[r] = Loadable(db[r])
    BY <1>1, RestartFacts
  <2>2. index' = {p \in Streams \X Rules :
                    Loadable(db[p[2]]) # None /\ p[1] \in db[p[2]].deps}
    BY <1>1 DEF Restart
  <2>3. ASSUME NEW r \in Rules, rules'[r] # None
        PROVE  /\ rules'[r] = db[r] /\ db[r].enabled /\ db[r].compiles
               /\ db[r].deps \subseteq Streams
    <3>1. rules'[r] = db[r] /\ db[r].enabled /\ db[r].compiles /\ db[r] # None
      BY <2>1, <2>3 DEF Loadable
    <3>2. db[r] \in Bodies
      BY <3>1 DEF Typed
    <3> QED
      BY <3>1, <3>2, BodiesAssumption DEF Body
  <2>4. IndexCoversActive'
    BY <2>1, <2>2, <2>3 DEF IndexCoversActive
  <2>5. IndexOnlyActive'
    BY <2>1, <2>2 DEF IndexOnlyActive
  <2>6. ActiveIsSound'
    BY <2>3 DEF ActiveIsSound
  <2> QED
    BY <2>4, <2>5, <2>6 DEF IndexInv
<1>2. ASSUME NEW c \in Clients, RegisterRule(c) \/ UnregisterRule(c)
      PROVE  IndexInv'
  BY <1>2, EngineSteps
<1>3. \/ Restart
      \/ \E c \in Clients : RegisterRule(c) \/ UnregisterRule(c)
      \/ UNCHANGED <<rules, index>>
  BY DEF Next, Handler, Begin, BeginDelete, StoreCreate, StoreCreateFails, StorePanics,
         StoreUpdate, StoreUpdateFails, StoreDelete, StoreDeleteFails, vars
<1> QED
  BY <1>1, <1>2, <1>3, EngineUntouched

(* Under any use: an active rule is found from every stream it depends on, *)
(* the index leads to active rules only, and an active rule is enabled and *)
(* compiles.                                                               *)
LEMMA IndexInvHolds == Spec => []IndexInv
<1>1. Init => IndexInv
  BY DEF Init, IndexInv, IndexCoversActive, IndexOnlyActive, ActiveIsSound
<1>2. Typed /\ IndexInv /\ [Next]_vars => IndexInv'
  BY IndexInvStep
<1> QED
  BY <1>1, <1>2, TypedHolds, PTL DEF Spec

(* Whatever clients, failures and restarts do to the rules, the index leads*)
(* to every active rule from all it depends on, and to no other rule.      *)
THEOREM IndexHolds == Spec => []IndexFits
<1>1. IndexInv => IndexFits
  BY DEF IndexInv, IndexFits
<1> QED
  BY <1>1, IndexInvHolds, PTL

(* No path makes a disabled rule, or one that does not compile, active.    *)
THEOREM SoundRulesOnly == Spec => []ActiveIsSound
<1>1. IndexInv => ActiveIsSound
  BY DEF IndexInv
<1> QED
  BY <1>1, IndexInvHolds, PTL

-----------------------------------------------------------------------------

(* A step of the request of c that leaves every other rule alone keeps     *)
(* InCare when it leaves its own rule settled, or the request further on. *)
LEMMA CarefulLocal ==
  ASSUME InCare, NEW c \in Clients, req[c] # None, req[c].rule \in Rules,
         \A q \in Rules : q # req[c].rule => db'[q] = db[q] /\ rules'[q] = rules[q],
         \A d \in Clients \ {c} : req'[d] = req[d] /\ (req[d] # None => req[d].rule \in Rules),
         \/ req'[c] = None /\ \A r \in Rules : r = req[c].rule => Settled(r)'
         \/ req'[c] # None /\ req'[c].rule = req[c].rule /\ Midway(req[c])'
  PROVE  InCare'
<1> DEFINE r == req[c].rule
<1>1. \A d \in Clients \ {c} : req[d] # None => req[d].rule # r
  BY DEF InCare
<1>2. \A d, e \in Clients : req'[d] # None /\ req'[e] # None /\ req'[d].rule = req'[e].rule
                             => d = e
  BY <1>1 DEF InCare
<1>3. \A d \in Clients : req'[d] # None => Midway(req[d])'
  <2>1. ASSUME NEW d \in Clients \ {c}, req'[d] # None
        PROVE  Midway(req[d])'
    <3>1. Midway(req[d]) /\ req'[d] = req[d]
      BY <2>1 DEF InCare
    <3>2. db'[req[d].rule] = db[req[d].rule] /\ rules'[req[d].rule] = rules[req[d].rule]
      BY <1>1, <2>1
    <3> QED
      BY <3>1, <3>2 DEF Midway, Settled, Registered, Loadable
  <2> QED
    BY <2>1
<1>4. ASSUME NEW q \in Rules, ~Busy(q)'
      PROVE  Settled(q)'
  <2>1. CASE q = r
    BY <1>4, <2>1 DEF Busy
  <2>2. CASE q # r
    <3>1. ~Busy(q)
      BY <1>4, <2>2 DEF Busy
    <3> QED
      BY <2>2, <3>1 DEF InCare, Settled, Loadable
  <2> QED
    BY <2>1, <2>2
<1> QED
  BY <1>2, <1>3, <1>4 DEF InCare

(* One request at a time: a rule with no request gets its first.           *)
LEMMA CarefulBegin ==
  ASSUME Typed, InCare, NEW c \in Clients, req[c] = None, NEW q \in Request,
         ~Busy(q.rule), UNCHANGED <<db, rules>>, req' = [req EXCEPT ![c] = q], Midway(q)
  PROVE  InCare'
<1>1. \A d \in Clients : req'[d] = IF d = c THEN q ELSE req[d]
  BY DEF Typed
<1>2. \A d \in Clients : req[d] # None => req[d].rule # q.rule
  BY DEF Busy
<1>3. \A d, e \in Clients : req'[d] # None /\ req'[e] # None /\ req'[d].rule = req'[e].rule
                             => d = e
  BY <1>1, <1>2 DEF InCare
<1>4. \A d \in Clients : req'[d] # None => Midway(req[d])'
  <2>1. ASSUME NEW d \in Clients, req'[d] # None
        PROVE  Midway(req[d])'
    <3>1. Midway(req'[d])
      BY <1>1, <2>1 DEF InCare
    <3> QED
      BY <3>1 DEF Midway, Settled, Registered, Loadable
  <2> QED
    BY <2>1
<1>5. ASSUME NEW r \in Rules, ~Busy(r)'
      PROVE  Settled(r)'
  <2>1. ~Busy(r)
    BY <1>1, <1>5 DEF Busy
  <2> QED
    BY <2>1 DEF InCare, Settled, Loadable
<1> QED
  BY <1>3, <1>4, <1>5 DEF InCare

(* What a handler step does to the rule of its request.                    *)
LEMMA CarefulHandler ==
  ASSUME Typed, InCare, ~strayed', NEW c \in Clients, Handler(c)
  PROVE  InCare'
<1>1. req[c] # None /\ req[c] \in Request
  <2>1. req[c] # None
    BY DEF Handler, RegisterRule, UnregisterRule, StoreCreate, StoreCreateFails, StorePanics,
           StoreUpdate, StoreUpdateFails, StoreDelete, StoreDeleteFails, At
  <2> QED
    BY <2>1 DEF Typed
<1>2. PICK q \in Request : q = req[c]
  BY <1>1
<1>3. PICK r \in Rules : r = q.rule
  BY RequestFacts
<1>4. Midway(q)
  BY <1>1, <1>2 DEF InCare
<1>5. \A d \in Clients \ {c} : req[d] # None => req[d].rule \in Rules
  BY RequestFacts DEF Typed
<1>6. ASSUME \A d \in Clients \ {c} : req'[d] = req[d],
             \A p \in Rules : p # r => db'[p] = db[p] /\ rules'[p] = rules[p],
             \/ req'[c] = None /\ Settled(r)'
             \/ req'[c] # None /\ req'[c].rule = r /\ Midway(req[c])'
      PROVE  InCare'
  BY <1>1, <1>2, <1>3, <1>5, <1>6, CarefulLocal
<1>7. Reply(c) => req'[c] = None /\ \A d \in Clients \ {c} : req'[d] = req[d]
  BY DEF Reply, Typed
<1>8. CASE RegisterRule(c)
  <2>1. q.op \in {"create", "update"} /\ q.pc = "register"
    BY <1>2, <1>8 DEF RegisterRule, At
  <2>2. PICK b \in Bodies : b = q.body
    BY <2>1, RequestFacts
  <2>3. /\ b.scoped /\ Settled(r) /\ (~b.enabled => rules[r] = None)
        /\ q.op = "create" => db[r] = None
        /\ q.op = "update" => db[r] # None /\ (db[r].enabled => db[r].compiles)
    BY <1>3, <1>4, <2>1, <2>2 DEF Midway, Settled, Loadable
  <2>4. db' = db
    BY <1>8 DEF RegisterRule
  <2>5. CASE Reply(c) /\ rules' = rules
    <3>1. Settled(r)'
      BY <2>3, <2>4, <2>5 DEF Settled, Loadable
    <3> QED
      BY <1>6, <1>7, <2>4, <2>5, <3>1
  <2>6. CASE /\ GoTo(c, "store")
             /\ \/ ~b.enabled /\ rules' = rules
                \/ b.enabled /\ b.compiles /\ rules' = [rules EXCEPT ![r] = b]
    <3>1. /\ req'[c] # None /\ req'[c].pc = "store" /\ req'[c].op = q.op
          /\ req'[c].rule = r /\ req'[c].body = b
          /\ \A d \in Clients \ {c} : req'[d] = req[d]
      BY <1>1, <1>2, <1>3, <2>1, <2>2, <2>6, Moved
    <3>2. \A p \in Rules : p # r => rules'[p] = rules[p]
      BY <2>6 DEF Typed
    <3>3. Registered(r, b)'
      BY <2>3, <2>6 DEF Registered, Typed
    <3>4. Midway(req[c])'
      BY <2>1, <2>3, <2>4, <3>1, <3>3 DEF Midway, Registered
    <3> QED
      BY <1>6, <2>4, <3>1, <3>2, <3>4
  <2> QED
    BY <1>2, <1>3, <1>8, <2>2, <2>5, <2>6 DEF RegisterRule
<1>9. CASE UnregisterRule(c)
  <2>1. /\ \/ q.op = "create" /\ q.pc = "rollback"
           \/ q.op = "delete" /\ q.pc = "unregister"
        /\ db' = db /\ rules' = [rules EXCEPT ![r] = None] /\ Reply(c)
    BY <1>2, <1>3, <1>9 DEF UnregisterRule, At
  <2>2. db[r] = None
    BY <1>3, <1>4, <2>1 DEF Midway
  <2>3. \A p \in Rules : rules'[p] = IF p = r THEN None ELSE rules[p]
    BY <2>1 DEF Typed
  <2>4. Settled(r)'
    BY <2>1, <2>2, <2>3 DEF Settled, Loadable
  <2> QED
    BY <1>6, <1>7, <2>1, <2>3, <2>4
<1>10. CASE StoreCreate(c) \/ StoreUpdate(c)
  <2>1. q.op \in {"create", "update"} /\ q.pc = "store"
    BY <1>2, <1>10 DEF StoreCreate, StoreUpdate, At
  <2>2. PICK b \in Bodies : b = q.body
    BY <2>1, RequestFacts
  <2>3. /\ Registered(r, b)
        /\ q.op = "create" => db[r] = None
        /\ q.op = "update" => db[r] # None
    BY <1>3, <1>4, <2>1, <2>2 DEF Midway
  <2>4. db' = [db EXCEPT ![r] = b] /\ rules' = rules /\ Reply(c)
    BY <1>2, <1>3, <1>10, <2>2, <2>3 DEF StoreCreate, StoreUpdate, At
  <2>5. \A p \in Rules : db'[p] = IF p = r THEN b ELSE db[p]
    BY <2>4 DEF Typed
  <2>6. b # None
    BY NoneAssumption
  <2>7. Settled(r)'
    BY <2>3, <2>4, <2>5, <2>6 DEF Settled, Registered, Loadable
  <2> QED
    BY <1>6, <1>7, <2>4, <2>5, <2>7
<1>11. CASE StoreCreateFails(c)
  <2>1. q.op = "create" /\ q.pc = "store" /\ GoTo(c, "rollback") /\ UNCHANGED <<db, rules>>
    BY <1>2, <1>11 DEF StoreCreateFails, At
  <2>2. db[r] = None
    BY <1>3, <1>4, <2>1 DEF Midway
  <2>3. /\ req'[c] # None /\ req'[c].pc = "rollback" /\ req'[c].op = "create"
        /\ req'[c].rule = r /\ \A d \in Clients \ {c} : req'[d] = req[d]
    BY <1>1, <1>2, <1>3, <2>1, Moved
  <2>4. Midway(req[c])'
    BY <2>1, <2>2, <2>3 DEF Midway
  <2> QED
    BY <1>6, <2>1, <2>3, <2>4
<1>12. CASE StorePanics(c)
  <2>1. q.op \in {"create", "update"} /\ q.pc = "store" /\ ~q.body.scoped
    BY <1>2, <1>12 DEF StorePanics, At
  <2> QED
    BY <1>4, <2>1 DEF Midway, Registered
<1>13. CASE StoreUpdateFails(c)
  BY <1>13 DEF StoreUpdateFails, Stray
<1>14. CASE StoreDelete(c)
  <2>1. /\ q.op = "delete" /\ GoTo(c, "unregister")
        /\ db' = [db EXCEPT ![r] = None] /\ rules' = rules
    BY <1>2, <1>3, <1>14 DEF StoreDelete, At
  <2>2. /\ req'[c] # None /\ req'[c].pc = "unregister" /\ req'[c].op = "delete"
        /\ req'[c].rule = r /\ \A d \in Clients \ {c} : req'[d] = req[d]
    BY <1>1, <1>2, <1>3, <2>1, Moved
  <2>3. \A p \in Rules : db'[p] = IF p = r THEN None ELSE db[p]
    BY <2>1 DEF Typed
  <2>4. Midway(req[c])'
    BY <2>2, <2>3 DEF Midway
  <2> QED
    BY <1>6, <2>1, <2>2, <2>3, <2>4
<1>15. CASE StoreDeleteFails(c)
  <2>1. q.op = "delete" /\ q.pc = "store" /\ Reply(c) /\ UNCHANGED <<db, rules>>
    BY <1>2, <1>15 DEF StoreDeleteFails, At
  <2>2. Settled(r)'
    BY <1>3, <1>4, <2>1 DEF Midway, Settled, Loadable
  <2> QED
    BY <1>6, <1>7, <2>1, <2>2
<1> QED
  BY <1>8, <1>9, <1>10, <1>11, <1>12, <1>13, <1>14, <1>15 DEF Handler

(* Whatever happens, an expression is compiled before the rule is stored   *)
(* as enabled.                                                             *)
LEMMA EnabledCompilesHolds == Spec => []EnabledCompiles
<1>1. Init => EnabledCompiles
  BY DEF Init, EnabledCompiles, At
<1>2. Typed /\ EnabledCompiles /\ [Next]_vars => EnabledCompiles'
  <2> SUFFICES ASSUME Typed, EnabledCompiles, [Next]_vars
               PROVE  EnabledCompiles'
    OBVIOUS
  <2>1. ASSUME NEW c \in Clients, NEW q \in Request, UNCHANGED db,
               req' = [req EXCEPT ![c] = q], q.pc # "store" \/ q.op = "delete"
        PROVE  EnabledCompiles'
    <3>1. \A d \in Clients : req'[d] = IF d = c THEN q ELSE req[d]
      BY <2>1 DEF Typed
    <3> QED
      BY <2>1, <3>1 DEF EnabledCompiles, At
  <2>2. ASSUME NEW c \in Clients, NEW op \in {"create", "update"}, NEW r \in Rules,
               NEW b \in Bodies, Begin(c, op, r, b)
        PROVE  EnabledCompiles'
    <3>1. [op |-> op, rule |-> r, body |-> b, pc |-> "register"] \in Request
      BY DEF Request
    <3> QED
      BY <2>1, <2>2, <3>1 DEF Begin
  <2>3. ASSUME NEW c \in Clients, NEW r \in Rules, BeginDelete(c, r)
        PROVE  EnabledCompiles'
    <3>1. [op |-> "delete", rule |-> r, pc |-> "store"] \in Request
      BY DEF Request
    <3> QED
      BY <2>1, <2>3, <3>1 DEF BeginDelete
  <2>4. ASSUME NEW c \in Clients, Handler(c)
        PROVE  EnabledCompiles'
    <3>1. req[c] # None /\ req[c] \in Request
      BY <2>4
      DEF Handler, RegisterRule, UnregisterRule, StoreCreate, StoreCreateFails, StorePanics,
          StoreUpdate, StoreUpdateFails, StoreDelete, StoreDeleteFails, At, Typed
    <3>2. Reply(c) => \A d \in Clients : req'[d] = IF d = c THEN None ELSE req[d]
      BY DEF Reply, Typed
    <3>3. \/ Reply(c)
          \/ GoTo(c, "rollback") /\ req[c].op # "delete"
          \/ GoTo(c, "unregister") /\ req[c].op = "delete"
          \/ GoTo(c, "store") /\ req[c].op # "delete"
                /\ (req[c].body.enabled => req[c].body.compiles)
      BY <2>4
      DEF Handler, RegisterRule, UnregisterRule, StoreCreate, StoreCreateFails, StorePanics,
          StoreUpdate, StoreUpdateFails, StoreDelete, StoreDeleteFails, At
    <3>4. \A d \in Clients : At(d, "create", "store")' \/ At(d, "update", "store")'
            => (req'[d].body.enabled => req'[d].body.compiles)
      <4>1. CASE Reply(c)
        BY <3>2, <4>1 DEF At, EnabledCompiles
      <4>2. CASE ~Reply(c)
        <5>1. PICK pc : /\ GoTo(c, pc)
                        /\ \/ pc = "rollback" /\ req[c].op # "delete"
                           \/ pc = "unregister" /\ req[c].op = "delete"
                           \/ /\ pc = "store" /\ req[c].op # "delete"
                              /\ req[c].body.enabled => req[c].body.compiles
          BY <3>3, <4>2
        <5>2. /\ req'[c].pc = pc
              /\ req[c].op # "delete" => req'[c].body = req[c].body
              /\ \A d \in Clients \ {c} : req'[d] = req[d]
          BY <3>1, <5>1, Moved
        <5> QED
          BY <5>1, <5>2 DEF At, EnabledCompiles
      <4> QED
        BY <4>1, <4>2
    <3>5. \A r \in Rules : db'[r] # None => \/ db'[r] = db[r]
                                           \/ /\ db'[r] = req[c].body
                                              /\ \/ At(c, "create", "store")
                                                 \/ At(c, "update", "store")
      BY <2>4
      DEF Handler, RegisterRule, UnregisterRule, StoreCreate, StoreCreateFails, StorePanics,
          StoreUpdate, StoreUpdateFails, StoreDelete, StoreDeleteFails, Typed
    <3>6. \A r \in Rules : db'[r] # None /\ db'[r].enabled => db'[r].compiles
      BY <3>5 DEF EnabledCompiles
    <3> QED
      BY <3>4, <3>6 DEF EnabledCompiles
  <2>5. ASSUME Restart
        PROVE  EnabledCompiles'
    BY <2>5, RestartFacts DEF EnabledCompiles, At
  <2>6. CASE UNCHANGED vars
    BY <2>6 DEF vars, EnabledCompiles, At
  <2> QED
    BY <2>2, <2>3, <2>4, <2>5, <2>6 DEF Next
<1> QED
  BY <1>1, <1>2, TypedHolds, PTL DEF Spec

(* Clients that wait for each other's answers, create new ids, update      *)
(* existing ones with rules that have a scope and disable none, against a  *)
(* database whose updates succeed, always find the engine doing what the   *)
(* table says, across failed creates and deletes and restarts; and once    *)
(* they were careless, they find it so again after a restart.              *)
THEOREM AgreementHolds == Spec => [](Agreement /\ Careful)
<1> DEFINE Inv == ~strayed => InCare
<1>1. Init => Inv
  BY DEF Init, InCare, Settled, Loadable
<1>2. Typed /\ EnabledCompiles /\ Inv /\ [Next]_vars => Inv'
  <2> SUFFICES ASSUME Typed, EnabledCompiles, Inv, [Next]_vars, ~strayed'
               PROVE  InCare'
    OBVIOUS
  <2>0. ASSUME NEW c \in Clients,
               \/ Handler(c)
               \/ \E r \in Rules : BeginDelete(c, r)
               \/ \E op \in {"create", "update"}, r \in Rules, b \in Bodies : Begin(c, op, r, b)
        PROVE  ~strayed /\ InCare
    BY <2>0 DEF Handler, Begin, BeginDelete, RegisterRule, UnregisterRule, StoreCreate,
           StoreCreateFails, StorePanics, StoreUpdate, StoreUpdateFails, StoreDelete,
           StoreDeleteFails, Stray, Typed
  <2>1. ASSUME NEW c \in Clients, NEW op \in {"create", "update"}, NEW r \in Rules,
               NEW b \in Bodies, Begin(c, op, r, b)
        PROVE  InCare'
    <3> DEFINE q == [op |-> op, rule |-> r, body |-> b, pc |-> "register"]
    <3>1. q \in Request /\ q.rule = r /\ q.op = op /\ q.body = b /\ q.pc = "register"
      BY DEF Request
    <3>2. /\ InCare /\ req[c] = None /\ ~Busy(r) /\ UNCHANGED <<db, rules>> /\ b.scoped
          /\ req' = [req EXCEPT ![c] = q]
          /\ op = "create" => db[r] = None
          /\ op = "update" => db[r] # None /\ (~b.enabled => ~db[r].enabled)
      BY <2>0, <2>1 DEF Begin, Stray, Strays, BodyStrays, Careless
    <3> HIDE DEF q
    <3>3. Midway(q)
      BY <3>1, <3>2 DEF Midway, InCare
    <3> QED
      BY <3>1, <3>2, <3>3, CarefulBegin
  <2>2. ASSUME NEW c \in Clients, NEW r \in Rules, BeginDelete(c, r)
        PROVE  InCare'
    <3> DEFINE q == [op |-> "delete", rule |-> r, pc |-> "store"]
    <3>1. q \in Request /\ q.rule = r /\ q.op = "delete" /\ q.pc = "store"
      BY DEF Request
    <3>2. /\ InCare /\ req[c] = None /\ ~Busy(r) /\ UNCHANGED <<db, rules>>
          /\ req' = [req EXCEPT ![c] = q]
      BY <2>0, <2>2 DEF BeginDelete, Stray, Strays, Careless
    <3> HIDE DEF q
    <3>3. Midway(q)
      BY <3>1, <3>2 DEF Midway, InCare
    <3> QED
      BY <3>1, <3>2, <3>3, CarefulBegin
  <2>3. ASSUME NEW c \in Clients, Handler(c)
        PROVE  InCare'
    BY <2>0, <2>3, CarefulHandler
  <2>4. ASSUME Restart
        PROVE  InCare'
    <3>1. \A r \in Rules : rules'[r] = Loadable(db[r]) /\ db'[r] = db[r]
      BY <2>4, RestartFacts
    <3>2. \A c \in Clients : req'[c] = None
      BY <2>4, RestartFacts
    <3>3. \A r \in Rules : db[r] # None /\ db[r].enabled => db[r].compiles
      BY DEF EnabledCompiles
    <3> QED
      BY <3>1, <3>2, <3>3 DEF InCare, Settled, Loadable
  <2>5. CASE UNCHANGED vars
    BY <2>5 DEF vars, InCare, Busy, Midway, Settled, Registered, Loadable
  <2> QED
    BY <2>1, <2>2, <2>3, <2>4, <2>5 DEF Next
<1>3. EnabledCompiles /\ Inv => Agreement /\ Careful
  BY DEF Careful, InCare, Settled, Loadable, Agreement, DisabledIsInactive, EnabledIsActive,
         ActiveIsStored, SameVersion
<1> QED
  BY <1>1, <1>2, <1>3, TypedHolds, EnabledCompilesHolds, PTL DEF Spec

=============================================================================
