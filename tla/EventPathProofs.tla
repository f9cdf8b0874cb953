--------------------------- MODULE EventPathProofs --------------------------
(* Theorems about EventWindow, for any events, time stamps and duration,   *)
(* and about EventPath, for any senders, retries, failures and restarts.   *)
EXTENDS EventPath, TLAPS

(* What a window holds is determined by what was added, given that its set *)
(* of ids agrees with its slice.                                           *)
Sound(w, es) ==
  /\ w \in Window
  /\ ExactFor(w, es)
  /\ w.seen = {e \in Events : w.copies[e] > 0}

LEMMA GoodNew == Sound(NewWindow, {})
  BY DEF Sound, NewWindow, Window, ExactFor

(* Add keeps a window exact.                                               *)
LEMMA GoodAdded ==
  ASSUME NEW w, NEW es \in SUBSET Events, NEW e \in Events, Sound(w, es)
  PROVE  Sound(Added(w, e), es \union {e})
<1>1. /\ w.copies \in [Events -> Nat] /\ w.seen \subseteq Events /\ w.latest \in Nat
      /\ w.seen = {x \in Events : w.copies[x] > 0}
      /\ Duration \in Int /\ \A x \in Events : EmittedAt[x] \in Nat
  BY EmittedAtAssumption, DurationAssumption DEF Sound, Window
<1>2. CASE e \in w.seen
  <2>1. e \in es
    BY <1>1, <1>2 DEF Sound, ExactFor
  <2>2. Added(w, e) = w /\ es \union {e} = es
    BY <1>2, <2>1 DEF Added
  <2> QED
    BY <2>2
<1>3. CASE e \notin w.seen
  <2> DEFINE top == IF EmittedAt[e] > w.latest THEN EmittedAt[e] ELSE w.latest
             held == [w.copies EXCEPT ![e] = @ + 1]
             n == Added(w, e)
  <2>1. n = [copies |-> [x \in Events |-> IF EmittedAt[x] < top - Duration
                                         THEN 0 ELSE held[x]],
             seen   |-> {x \in w.seen \union {e} :
                           held[x] = 0 \/ EmittedAt[x] >= top - Duration},
             latest |-> top]
    BY <1>3 DEF Added, Pruned
  <2>2. w.copies[e] = 0 /\ \A x \in Events : held[x] = IF x = e THEN 1 ELSE w.copies[x]
    BY <1>1, <1>3
  <2>3. top \in Nat /\ top >= w.latest /\ top >= EmittedAt[e]
    BY <1>1
  <2> HIDE DEF n, held
  <2>4. n \in Window
    <3>1. n.copies \in [Events -> Nat]
      BY <1>1, <2>1, <2>2
    <3>2. n.seen \subseteq Events /\ n.latest \in Nat
      BY <1>1, <2>1, <2>3
    <3> QED
      BY <2>1, <3>1, <3>2 DEF Window
  <2>5. \A x \in es \union {e} : EmittedAt[x] <= n.latest
    BY <1>1, <2>1, <2>3 DEF Sound, ExactFor
  <2>6. \E x \in es \union {e} : EmittedAt[x] = n.latest
    <3>1. CASE EmittedAt[e] > w.latest
      BY <2>1, <3>1
    <3>2. CASE ~(EmittedAt[e] > w.latest)
      <4>1. es # {}
        BY <1>1, <3>2, EmittedAtAssumption DEF Sound, ExactFor
      <4>2. PICK x \in es : EmittedAt[x] = w.latest
        BY <4>1 DEF Sound, ExactFor
      <4> QED
        BY <2>1, <3>2, <4>2
    <3> QED
      BY <3>1, <3>2
  <2>7. ASSUME NEW x \in Events
        PROVE  n.copies[x] = IF x \in es \union {e} /\ InWindow(x, n.latest) THEN 1 ELSE 0
    <3>1. n.copies[x] = IF EmittedAt[x] < top - Duration THEN 0 ELSE held[x]
      BY <2>1
    <3>2. w.copies[x] = IF x \in es /\ EmittedAt[x] >= w.latest - Duration THEN 1 ELSE 0
      BY DEF Sound, ExactFor, InWindow
    <3> QED
      BY <1>1, <2>1, <2>2, <2>3, <3>1, <3>2 DEF InWindow
  <2>8. n.seen = {x \in Events : n.copies[x] > 0}
    <3>1. ASSUME NEW x \in Events
          PROVE  x \in n.seen <=> n.copies[x] > 0
      BY <1>1, <2>1, <2>2
    <3> QED
      BY <2>4, <3>1 DEF Window
  <2> QED
    BY <2>4, <2>5, <2>6, <2>7, <2>8 DEF Sound, ExactFor, n
<1> QED
  BY <1>2, <1>3

(* The window alone is well-typed and holds each event in range exactly    *)
(* once, after any sequence of deliveries.                                 *)
THEOREM WindowExact == Spec => [](TypeOK /\ Exact /\ SeenExact)
<1> DEFINE Inv == posted \subseteq Events /\ Sound(window, posted)
<1>1. Init => Inv
  BY GoodNew DEF Init
<1>2. Inv /\ [Next]_<<window, posted>> => Inv'
  BY GoodAdded DEF Next, Add
<1>3. Inv => TypeOK /\ Exact /\ SeenExact
  BY DEF Sound, TypeOK, Exact, SeenExact
<1> QED
  BY <1>1, <1>2, <1>3, PTL DEF Spec

-----------------------------------------------------------------------------

(* Every step of the path leaves the window alone, adds one event to it,   *)
(* or starts over with an empty one.                                       *)
LEMMA WindowSteps ==
  ASSUME [PathNext]_vars, req \in [Workers -> Request \union {NoRequest}]
  PROVE  \/ UNCHANGED <<window, posted>>
         \/ \E e \in Events : Add(e)
         \/ window' = NewWindow /\ posted' = {}
<1>1. ASSUME NEW w \in Workers, NEW e \in Events, Post(w, e)
      PROVE  UNCHANGED <<window, posted>>
  BY <1>1 DEF Post, engine
<1>2. ASSUME NEW w \in Workers, CheckExists(w) \/ SaveEvent(w) \/ StoreFails(w)
      PROVE  UNCHANGED <<window, posted>>
  BY <1>2 DEF CheckExists, SaveEvent, StoreFails, engine
<1>3. ASSUME NEW w \in Workers, AddToWindow(w)
      PROVE  \E e \in Events : Add(e)
  <2>1. req[w] \in Request /\ Add(req[w].ev)
    BY <1>3 DEF AddToWindow, At
  <2>2. req[w].ev \in Events
    BY <2>1 DEF Request
  <2> QED
    BY <2>1, <2>2
<1>4. ASSUME NEW w \in Workers, Evaluate(w) \/ Answer(w)
      PROVE  UNCHANGED <<window, posted>>
  BY <1>4 DEF Evaluate, Answer, engine
<1>5. ASSUME NEW t \in Thresholds, CleanUp(t)
      PROVE  UNCHANGED <<window, posted>>
  BY <1>5 DEF CleanUp, engine
<1>6. ASSUME Restart
      PROVE  window' = NewWindow /\ posted' = {}
  BY <1>6 DEF Restart
<1>7. CASE UNCHANGED vars
  BY <1>7 DEF vars
<1> QED
  BY <1>1, <1>2, <1>3, <1>4, <1>5, <1>6, <1>7 DEF PathNext, Handler

(* All that a request carries and leaves behind, but for the window.       *)
RequestsTypeOK ==
  /\ stored \subseteq Events
  /\ req \in [Workers -> Request \union {NoRequest}]
  /\ crashes \in 0..Crashes
  /\ failures \in 0..Failures
  /\ posts \in [Events -> 0..Posts]
  /\ accepted \in [Events -> Nat]
  /\ duplicate \subseteq Events
  /\ evaluated \in [Events -> Nat]

LEMMA RequestsTyped == PathSpec => []RequestsTypeOK
<1> USE BoundsAssumption
<1>1. PathInit => RequestsTypeOK
  BY DEF PathInit, RequestsTypeOK
<1>2. RequestsTypeOK /\ [PathNext]_vars => RequestsTypeOK'
  <2> SUFFICES ASSUME RequestsTypeOK, [PathNext]_vars
               PROVE  RequestsTypeOK'
    OBVIOUS
  <2> USE DEF RequestsTypeOK, engine, answers, bounds
  <2>1. ASSUME NEW w \in Workers, req[w] # NoRequest
        PROVE  req[w] \in Request /\ req[w].ev \in Events
    BY <2>1 DEF Request
  <2>2. ASSUME NEW w \in Workers, NEW pc \in {"save", "add", "evaluate", "answer"},
               req[w] # NoRequest, GoTo(w, pc)
        PROVE  req' \in [Workers -> Request \union {NoRequest}]
    <3>1. [req[w] EXCEPT !.pc = pc] \in Request
      BY <2>1, <2>2 DEF Request
    <3>2. req' = [req EXCEPT ![w] = [req[w] EXCEPT !.pc = pc]]
      BY <2>2 DEF GoTo
    <3>3. QED
      BY <3>1, <3>2
  <2>3. ASSUME NEW w \in Workers, Reply(w)
        PROVE  req' \in [Workers -> Request \union {NoRequest}]
    BY <2>3 DEF Reply
  <2>4. ASSUME NEW w \in Workers, NEW e \in Events, Post(w, e)
        PROVE  RequestsTypeOK'
    <3>1. [pc |-> "exists", ev |-> e] \in Request
      BY DEF Request
    <3>2. posts' \in [Events -> 0..Posts]
      BY <2>4 DEF Post
    <3>3. QED
      BY <2>4, <3>1, <3>2 DEF Post
  <2>5. ASSUME NEW w \in Workers, CheckExists(w)
        PROVE  RequestsTypeOK'
    BY <2>1, <2>2, <2>3, <2>5 DEF CheckExists, At
  <2>6. ASSUME NEW w \in Workers, SaveEvent(w)
        PROVE  RequestsTypeOK'
    BY <2>1, <2>2, <2>6 DEF SaveEvent, At
  <2>7. ASSUME NEW w \in Workers, StoreFails(w)
        PROVE  RequestsTypeOK'
    BY <2>3, <2>7 DEF StoreFails
  <2>8. ASSUME NEW w \in Workers, AddToWindow(w)
        PROVE  RequestsTypeOK'
    BY <2>2, <2>8 DEF AddToWindow, At
  <2>9. ASSUME NEW w \in Workers, Evaluate(w)
        PROVE  RequestsTypeOK'
    BY <2>1, <2>2, <2>9 DEF Evaluate, At
  <2>10. ASSUME NEW t \in Thresholds, CleanUp(t)
         PROVE  RequestsTypeOK'
    BY <2>10 DEF CleanUp
  <2>11. ASSUME Restart
         PROVE  RequestsTypeOK'
    BY <2>11 DEF Restart
  <2>12. CASE UNCHANGED vars
    BY <2>12 DEF vars
  <2>13. ASSUME NEW w \in Workers, Answer(w)
         PROVE  RequestsTypeOK'
    BY <2>1, <2>3, <2>13 DEF Answer, At
  <2>14. QED
    BY <2>4, <2>5, <2>6, <2>7, <2>8, <2>9, <2>10, <2>11, <2>12, <2>13 DEF PathNext, Handler
<1>3. QED
  BY <1>1, <1>2, PTL DEF PathSpec

LEMMA WindowGood == PathSpec => [](posted \subseteq Events /\ Sound(window, posted))
<1> DEFINE Inv == posted \subseteq Events /\ Sound(window, posted)
<1>1. PathInit => Inv
  BY GoodNew DEF PathInit, Init
<1>2. RequestsTypeOK /\ Inv /\ [PathNext]_vars => Inv'
  <2> SUFFICES ASSUME RequestsTypeOK, Inv, [PathNext]_vars
               PROVE  Inv'
    OBVIOUS
  <2>1. CASE UNCHANGED <<window, posted>>
    BY <2>1
  <2>2. ASSUME NEW e \in Events, Add(e)
        PROVE  Inv'
    BY <2>2, GoodAdded DEF Add
  <2>3. CASE window' = NewWindow /\ posted' = {}
    BY <2>3, GoodNew
  <2> QED
    BY <2>1, <2>2, <2>3, WindowSteps DEF RequestsTypeOK
<1> QED
  BY <1>1, <1>2, RequestsTyped, PTL DEF PathSpec

(* The path of events is well-typed, with its window and its histories.    *)
THEOREM PathTypeCorrect == PathSpec => []PathTypeOK
<1>1. RequestsTypeOK /\ posted \subseteq Events /\ Sound(window, posted) => PathTypeOK
  BY DEF RequestsTypeOK, PathTypeOK, TypeOK, Sound
<1>2. QED
  BY <1>1, RequestsTyped, WindowGood, PTL

(* The window of a running process holds each event in range that reached  *)
(* it exactly once, whatever senders, retries and restarts do.             *)
THEOREM CountsExactHolds == PathSpec => []CountsExact
<1>1. Sound(window, posted) => CountsExact
  BY DEF Sound, CountsExact
<1>2. QED
  BY <1>1, WindowGood, PTL

-----------------------------------------------------------------------------

(* Why a serial sender is enough: no two requests carry the same event, so *)
(* the row is still missing when Save inserts it, and an event that has    *)
(* been evaluated has a row for good.                                      *)
SerialInv ==
  /\ req \in [Workers -> Request \union {NoRequest}]
  /\ evaluated \in [Events -> Nat]
  /\ accepted \in [Events -> Nat]
  /\ \A v, w \in Workers : req[v] # NoRequest /\ req[w] # NoRequest /\ req[v].ev = req[w].ev
                            => v = w
  /\ \A w \in Workers : At(w, "save") => req[w].ev \notin stored
  /\ \A w \in Workers : At(w, "add") \/ At(w, "evaluate")
                          => evaluated[req[w].ev] = 0 /\ req[w].ev \in stored
  /\ \A w \in Workers : At(w, "answer")
                          => /\ evaluated[req[w].ev] = 1 /\ accepted[req[w].ev] = 0
                             /\ req[w].ev \in stored
  /\ \A e \in Events : e \notin stored => evaluated[e] = 0
  /\ EvaluatedOnce

LEMMA SerialInvCorrect ==
  ASSUME Serial, Thresholds = {}
  PROVE  PathSpec => []SerialInv
<1>1. PathInit => SerialInv
  BY DEF PathInit, SerialInv, EvaluatedOnce, At
<1>2. SerialInv /\ [PathNext]_vars => SerialInv'
  <2> SUFFICES ASSUME SerialInv, [PathNext]_vars
               PROVE  SerialInv'
    OBVIOUS
  <2>1. ASSUME NEW w \in Workers, NEW e \in Events, Post(w, e)
        PROVE  SerialInv'
    <3>1. /\ req[w] = NoRequest /\ \A v \in Workers : req[v] # NoRequest => req[v].ev # e
          /\ req' = [req EXCEPT ![w] = [pc |-> "exists", ev |-> e]]
          /\ UNCHANGED <<stored, evaluated, accepted>>
      BY <2>1 DEF Post, InFlight, engine, answers
    <3>2. [pc |-> "exists", ev |-> e] \in Request
      BY DEF Request
    <3> QED
      BY <3>1, <3>2 DEF SerialInv, At, EvaluatedOnce
  <2>2. ASSUME NEW w \in Workers, Reply(w), UNCHANGED <<stored, evaluated, accepted>>
        PROVE  SerialInv'
    BY <2>2 DEF SerialInv, Reply, At, EvaluatedOnce
  <2>3. ASSUME NEW w \in Workers, NEW pc \in {"save", "add", "evaluate", "answer"},
               req[w] # NoRequest, GoTo(w, pc)
        PROVE  /\ req' \in [Workers -> Request \union {NoRequest}]
               /\ \A v \in Workers : req'[v] # NoRequest <=> req[v] # NoRequest
               /\ \A v \in Workers : req[v] # NoRequest => req'[v].ev = req[v].ev
               /\ \A v \in Workers : v # w => req'[v] = req[v]
               /\ req'[w].pc = pc
    <3> DEFINE r == [req[w] EXCEPT !.pc = pc]
    <3>1. req[w] \in Request
      BY <2>3 DEF SerialInv
    <3>2. r \in Request /\ r.pc = pc /\ r.ev = req[w].ev
      BY <3>1 DEF Request
    <3>3. req' = [req EXCEPT ![w] = r]
      BY <2>3 DEF GoTo
    <3> HIDE DEF r
    <3> QED
      BY <2>3, <3>2, <3>3, NoRequestAssumption DEF SerialInv
  <2>4. ASSUME NEW w \in Workers, CheckExists(w)
        PROVE  SerialInv'
    <3>1. CASE req[w].ev \in stored
      BY <2>2, <2>4, <3>1 DEF CheckExists, engine
    <3>2. CASE req[w].ev \notin stored
      <4>1. GoTo(w, "save") /\ req[w] # NoRequest /\ UNCHANGED <<stored, evaluated, accepted>>
        BY <2>4, <3>2 DEF CheckExists, At, engine
      <4> QED
        BY <2>3, <3>2, <4>1 DEF SerialInv, At, EvaluatedOnce
    <3> QED
      BY <3>1, <3>2
  <2>5. ASSUME NEW w \in Workers, SaveEvent(w)
        PROVE  SerialInv'
    <3>1. /\ GoTo(w, "add") /\ req[w] # NoRequest /\ req[w].pc = "save"
          /\ stored' = stored \union {req[w].ev} /\ UNCHANGED <<evaluated, accepted>>
      BY <2>5 DEF SaveEvent, At, engine, answers
    <3>2. \A v \in Workers \ {w} : req[v] # NoRequest => req[v].ev # req[w].ev
      BY <3>1 DEF SerialInv
    <3>3. req[w].ev \in Events /\ evaluated[req[w].ev] = 0
      BY <3>1 DEF SerialInv, At, Request
    <3> QED
      BY <2>3, <3>1, <3>2, <3>3 DEF SerialInv, At, EvaluatedOnce
  <2>6. ASSUME NEW w \in Workers, AddToWindow(w)
        PROVE  SerialInv'
    <3>1. /\ GoTo(w, "evaluate") /\ req[w] # NoRequest /\ req[w].pc = "add"
          /\ UNCHANGED <<stored, evaluated, accepted>>
      BY <2>6 DEF AddToWindow, At, answers
    <3> QED
      BY <2>3, <3>1 DEF SerialInv, At, EvaluatedOnce
  <2>7. ASSUME NEW w \in Workers, Evaluate(w)
        PROVE  SerialInv'
    <3> DEFINE e == req[w].ev
    <3>1. /\ req[w] # NoRequest /\ req[w].pc = "evaluate" /\ GoTo(w, "answer")
          /\ evaluated' = [evaluated EXCEPT ![e] = @ + 1] /\ UNCHANGED <<stored, accepted>>
      BY <2>7 DEF Evaluate, At, answers
    <3>2. \A v \in Workers \ {w} : req[v] # NoRequest => req[v].ev # e
      BY <3>1 DEF SerialInv
    <3>3. e \in Events /\ evaluated[e] = 0 /\ accepted[e] = 0 /\ e \in stored
      BY <3>1 DEF SerialInv, At, Request, EvaluatedOnce
    <3>4. /\ req' \in [Workers -> Request \union {NoRequest}]
          /\ \A v \in Workers : req'[v] # NoRequest <=> req[v] # NoRequest
          /\ \A v \in Workers : req[v] # NoRequest => req'[v].ev = req[v].ev
          /\ \A v \in Workers : v # w => req'[v] = req[v]
          /\ req'[w].pc = "answer" /\ req'[w].ev = e
      BY <2>3, <3>1
    <3> HIDE DEF e
    <3>5. /\ evaluated' \in [Events -> Nat] /\ evaluated'[e] = 1
          /\ \A x \in Events \ {e} : evaluated'[x] = evaluated[x]
      BY <3>1, <3>3 DEF SerialInv
    <3>6. EvaluatedOnce'
      BY <3>1, <3>3, <3>5 DEF SerialInv, EvaluatedOnce
    <3>7. \A v \in Workers \ {w} : req[v] # NoRequest =>
            req'[v] = req[v] /\ req[v].ev \in Events \ {e}
      BY <3>2, <3>4 DEF SerialInv, Request
    <3> QED
      BY <3>1, <3>3, <3>4, <3>5, <3>6, <3>7 DEF SerialInv, At
  <2>8. ASSUME NEW w \in Workers, StoreFails(w)
        PROVE  SerialInv'
    BY <2>2, <2>8 DEF StoreFails, engine, answers
  <2>9. ASSUME Restart
        PROVE  SerialInv'
    BY <2>9 DEF Restart, SerialInv, At, EvaluatedOnce, answers
  <2>10. CASE UNCHANGED vars
    BY <2>10 DEF vars, SerialInv, At, EvaluatedOnce, answers
  <2>11. ASSUME NEW w \in Workers, Answer(w)
         PROVE  SerialInv'
    <3> DEFINE e == req[w].ev
    <3>1. /\ req[w] # NoRequest /\ req[w].pc = "answer" /\ req' = [req EXCEPT ![w] = NoRequest]
          /\ accepted' \in {accepted, [accepted EXCEPT ![e] = @ + 1]}
          /\ UNCHANGED <<stored, evaluated>>
      BY <2>11 DEF Answer, At, Reply, engine
    <3>2. \A v \in Workers \ {w} : req[v] # NoRequest => req[v].ev # e
      BY <3>1 DEF SerialInv
    <3>3. e \in Events /\ evaluated[e] = 1 /\ accepted[e] = 0
      BY <3>1 DEF SerialInv, At, Request
    <3> HIDE DEF e
    <3>4. /\ accepted' \in [Events -> Nat] /\ accepted'[e] \in {0, 1}
          /\ \A x \in Events \ {e} : accepted'[x] = accepted[x]
      BY <3>1, <3>3 DEF SerialInv
    <3>5. EvaluatedOnce'
      BY <3>1, <3>3, <3>4 DEF SerialInv, EvaluatedOnce
    <3>6. \A v \in Workers : req'[v] # NoRequest =>
            v # w /\ req'[v] = req[v] /\ req[v] # NoRequest /\ req[v].ev \in Events \ {e}
      BY <3>1, <3>2 DEF SerialInv, Request
    <3> QED
      BY <3>1, <3>4, <3>5, <3>6 DEF SerialInv, At
  <2> QED
    BY <2>1, <2>4, <2>5, <2>6, <2>7, <2>8, <2>9, <2>10, <2>11 DEF PathNext, Handler
<1> QED
  BY <1>1, <1>2, PTL DEF PathSpec

(* With senders that wait for their answer, and events the cleaner keeps,  *)
(* an event is evaluated at most once and answered "accepted" at most once,*)
(* whatever fails and however often the process is restarted.              *)
THEOREM EvaluatedOnceHolds ==
  ASSUME Serial, Thresholds = {}
  PROVE  PathSpec => []EvaluatedOnce
<1>1. SerialInv => EvaluatedOnce
  BY DEF SerialInv
<1> QED
  BY <1>1, SerialInvCorrect, PTL

-----------------------------------------------------------------------------

(* For such senders the handler, statement by statement, implements the    *)
(* ledger of events: SaveEvent enters an event, Evaluate evaluates it, the *)
(* answers accept it or refuse it, and no other step is to be seen.        *)
THEOREM LedgerImplemented ==
  ASSUME Serial, Thresholds = {}
  PROVE  PathSpec => LedgerSpec
<1> USE DEF Status
<1>1. PathInit => Ledger!Init
  BY DEF PathInit, Ledger!Init
<1>2. SerialInv /\ [PathNext]_vars => [Ledger!Next]_(Ledger!vars)
  <2> SUFFICES ASSUME SerialInv, [PathNext]_vars
               PROVE  [Ledger!Next]_(Ledger!vars)
    OBVIOUS
  <2>1. ASSUME UNCHANGED <<stored, evaluated, accepted, duplicate>>
        PROVE  UNCHANGED Ledger!vars
    BY <2>1 DEF Ledger!vars
  <2>2. ASSUME NEW w \in Workers, CheckExists(w)
        PROVE  Ledger!Next \/ UNCHANGED Ledger!vars
    <3>1. CASE req[w].ev \in stored
      <4>1. req[w].ev \in Events
        BY <2>2 DEF CheckExists, At, SerialInv, Request
      <4>2. /\ duplicate' \in {duplicate, duplicate \union {req[w].ev}}
            /\ UNCHANGED <<stored, evaluated, accepted>>
        BY <2>2, <3>1 DEF CheckExists, engine
      <4>3. Status' = Status /\ Status[req[w].ev] # "new"
        BY <3>1, <4>1, <4>2 DEF SerialInv
      <4>4. CASE duplicate' = duplicate
        BY <2>1, <4>2, <4>4
      <4>5. CASE duplicate' = duplicate \union {req[w].ev}
        <5>1. Ledger!Refuse(req[w].ev)
          BY <4>2, <4>3, <4>5 DEF Ledger!Refuse
        <5> QED
          BY <4>1, <5>1 DEF Ledger!Next
      <4> QED
        BY <4>2, <4>4, <4>5
    <3>2. CASE req[w].ev \notin stored
      BY <2>1, <2>2, <3>2 DEF CheckExists, engine
    <3> QED
      BY <3>1, <3>2
  <2>3. ASSUME NEW w \in Workers, SaveEvent(w)
        PROVE  Ledger!Next
    <3>1. PICK e \in Events :
          /\ e \notin stored /\ evaluated[e] = 0
          /\ stored' = stored \union {e} /\ UNCHANGED <<evaluated, accepted, duplicate>>
      BY <2>3 DEF SaveEvent, SerialInv, At, Request, engine, answers
    <3>2. Status[e] = "new"
      BY <3>1
    <3>3. Status' = [Status EXCEPT ![e] = "entered"]
      <4>1. \A x \in Events \ {e} : /\ evaluated'[x] = evaluated[x]
                                    /\ x \in stored' <=> x \in stored
        BY <3>1 DEF SerialInv
      <4>2. evaluated'[e] = 0 /\ e \in stored'
        BY <3>1 DEF SerialInv
      <4>3. \A x \in Events : Status'[x] = [Status EXCEPT ![e] = "entered"][x]
        BY <4>1, <4>2
      <4> QED
        BY <4>3
    <3>4. Ledger!Enter(e)
      BY <3>1, <3>2, <3>3 DEF Ledger!Enter
    <3> QED
      BY <3>4 DEF Ledger!Next
  <2>4. ASSUME NEW w \in Workers, Evaluate(w)
        PROVE  Ledger!Next
    <3>1. PICK e \in Events :
          /\ e \in stored /\ evaluated[e] = 0
          /\ evaluated' = [evaluated EXCEPT ![e] = @ + 1]
          /\ UNCHANGED <<stored, accepted, duplicate>>
      BY <2>4 DEF Evaluate, SerialInv, At, Request, answers
    <3>2. Status[e] = "entered"
      BY <3>1
    <3>3. Status' = [Status EXCEPT ![e] = "evaluated"]
      <4>1. \A x \in Events \ {e} : /\ evaluated'[x] = evaluated[x]
                                    /\ x \in stored' <=> x \in stored
        BY <3>1 DEF SerialInv
      <4>2. evaluated'[e] = 1
        BY <3>1 DEF SerialInv
      <4>3. \A x \in Events : Status'[x] = [Status EXCEPT ![e] = "evaluated"][x]
        BY <4>1, <4>2
      <4> QED
        BY <4>3
    <3>4. Ledger!Evaluate(e)
      BY <3>1, <3>2, <3>3 DEF Ledger!Evaluate
    <3> QED
      BY <3>4 DEF Ledger!Next
  <2>5. ASSUME NEW w \in Workers, NEW e \in Events, Post(w, e)
        PROVE  UNCHANGED Ledger!vars
    BY <2>1, <2>5 DEF Post, engine, answers
  <2>6. ASSUME NEW w \in Workers, AddToWindow(w) \/ StoreFails(w)
        PROVE  UNCHANGED Ledger!vars
    BY <2>1, <2>6 DEF AddToWindow, StoreFails, engine, answers
  <2>7. CASE Restart \/ UNCHANGED vars
    BY <2>1, <2>7 DEF Restart, vars, answers
  <2>8. ASSUME NEW w \in Workers, Answer(w)
        PROVE  Ledger!Next \/ UNCHANGED Ledger!vars
    <3>1. PICK e \in Events :
          /\ evaluated[e] = 1 /\ accepted[e] = 0
          /\ accepted' \in {accepted, [accepted EXCEPT ![e] = @ + 1]}
          /\ UNCHANGED <<stored, evaluated, duplicate>>
      BY <2>8 DEF Answer, SerialInv, At, Request, engine
    <3>2. CASE accepted' = accepted
      BY <2>1, <3>1, <3>2
    <3>3. CASE accepted' = [accepted EXCEPT ![e] = 1]
      <4>1. Status[e] = "evaluated" /\ Status' = Status
        BY <3>1
      <4>2. Ledger!Accept(e)
        BY <3>1, <3>3, <4>1 DEF Ledger!Accept
      <4> QED
        BY <4>2 DEF Ledger!Next
    <3>4. [accepted EXCEPT ![e] = @ + 1] = [accepted EXCEPT ![e] = 1]
      BY <3>1
    <3> QED
      BY <3>1, <3>2, <3>3, <3>4
  <2> QED
    BY <2>2, <2>3, <2>4, <2>5, <2>6, <2>7, <2>8 DEF PathNext, Handler
<1> QED
  BY <1>1, <1>2, SerialInvCorrect, PTL DEF PathSpec, LedgerSpec, Ledger!Spec

=============================================================================
