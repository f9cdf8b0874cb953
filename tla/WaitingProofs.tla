---------------------------- MODULE WaitingProofs -----------------------------
(***************************************************************************)
(* Proofs about what MCWaiting puts together, for any values of the        *)
(* constants.  The broker (Broker), for any number of clients and senders  *)
(* and any capacity of the channels: types, that a send never meets a      *)
(* closed channel, and what a client is sent.  The lock of a window        *)
(* (WindowCalls), for any goroutines: that they do not get stuck.  Then two*)
(* loops of the process that no other component meddles with: the timer    *)
(* queue (TimerQueue), for any ids, delays and resolution of the clock, and*)
(* main itself (Shutdown), for any rules, requests and streams.  Last, that*)
(* all of it holds of the components put together.                         *)
(*                                                                         *)
(* The broker rests on the lock: who visits the clients is a reader that   *)
(* the lock counts (Counted), who changes them is the writer (Writing), so *)
(* that the clients left to visit stay registered and open (Visited).      *)
(***************************************************************************)
EXTENDS MCWaiting, SequenceTheorems, TLAPS

(* The lock counts every sender between RLock and RUnlock, once, and no    *)
(* handler.                                                                *)
Counted ==
  /\ \A c \in Clients : mu.readers[c] = 0 /\ c \notin mu.queued
  /\ \A s \in Senders :
       /\ pc[s] \in {"idle", "done"} => mu.readers[s] = 0 /\ s \notin mu.queued
       /\ pc[s] = "lock" => mu.readers[s] = IF s \in mu.queued THEN 0 ELSE 1
       /\ pc[s] = "send" => mu.readers[s] = 1 /\ s \notin mu.queued

(* The writer is the handler that is about to change the set of clients.   *)
Writing ==
  /\ \A c \in Clients : at[c] \in {"register", "unregister"} <=> mu.writer = c
  /\ \A s \in Senders : mu.writer # s

Registered(c) == at[c] \in {"greet", "stream", "leave", "unregister"}

(* Who is registered, whose channel is closed, and whom senders still visit*)
Visited ==
  /\ \A c \in Clients : c \in clients <=> Registered(c)
  /\ \A c \in Clients : c \in closed <=> at[c] = "done"
  /\ \A s \in Senders : pc[s] = "send" => left[s] \subseteq clients

BrokerInv == TypeOK /\ Counted /\ Writing /\ Visited

All(c) == received[c] \o chan[c]

(* What a client got or will get was sent by who has passed it; none is    *)
(* there twice, nor behind one that began when it was over.                *)
Passed(s, c) == pc[s] = "done" \/ (pc[s] = "send" /\ c \notin left[s])

Ordered(c) ==
  /\ \A i \in DOMAIN All(c) : Passed(All(c)[i], c)
  /\ \A i, j \in DOMAIN All(c) :
       i < j => All(c)[i] # All(c)[j] /\ All(c)[j] \notin earlier[All(c)[i]]

InOrder == \A c \in Clients : Ordered(c)

Behind == \A s \in Senders : \A q \in earlier[s] : pc[q] = "done"

(* Whoever had been told "connected" when the broadcast began and still    *)
(* streams is to be visited, or was.                                       *)
Reached(s, c) == Has(c, s) \/ <<s, c>> \in full

Greeted(c) == at[c] \in {"stream", "leave", "unregister", "close", "done"}

ToldBy(s, c) ==
  /\ pc[s] # "idle" /\ Greeted(c)
  /\ c \notin gone /\ at[c] = "stream" =>
       /\ pc[s] = "send" => c \in left[s] \/ Reached(s, c)
       /\ pc[s] = "done" => Reached(s, c)

Told == \A s \in Senders : \A c \in told[s] : ToldBy(s, c)

StreamInv == InOrder /\ Behind /\ Told

-----------------------------------------------------------------------------

(* What the operations of the lock do, process by process.                 *)
LEMMA RLockFacts ==
  ASSUME mu \in Mu!Lock, NEW p \in Procs, p \notin mu.queued, mu.readers[p] = 0,
         Mu!RLock(p)
  PROVE  /\ mu' \in Mu!Lock
         /\ mu'.writer = mu.writer
         /\ \A q \in Procs \ {p} :
              mu'.readers[q] = mu.readers[q] /\ (q \in mu'.queued <=> q \in mu.queued)
         /\ mu'.readers[p] = IF p \in mu'.queued THEN 0 ELSE 1
<1> USE DEF Mu!Lock, Mu!RLock
<1>1. CASE mu.writer = None
  <2>1. mu' = [mu EXCEPT !.readers = [mu.readers EXCEPT ![p] = mu.readers[p] + 1]]
    BY <1>1
  <2>2. QED
    BY <2>1
<1>2. CASE mu.writer # None
  <2>1. mu' = [mu EXCEPT !.queued = mu.queued \union {p}]
    BY <1>2
  <2>2. QED
    BY <2>1
<1>3. QED
  BY <1>1, <1>2

LEMMA RUnlockFacts ==
  ASSUME mu \in Mu!Lock, NEW p \in Procs, mu.readers[p] = 1, Mu!RUnlock(p)
  PROVE  /\ mu' \in Mu!Lock
         /\ mu'.writer = mu.writer /\ mu'.queued = mu.queued
         /\ \A q \in Procs \ {p} : mu'.readers[q] = mu.readers[q]
         /\ mu'.readers[p] = 0
<1>1. mu' = [mu EXCEPT !.readers = [mu.readers EXCEPT ![p] = mu.readers[p] - 1]]
  BY DEF Mu!Lock, Mu!RUnlock
<1>2. QED
  BY <1>1 DEF Mu!Lock

LEMMA AnnounceFacts ==
  ASSUME mu \in Mu!Lock, NEW p \in Procs, Mu!Announce(p)
  PROVE  /\ mu' \in Mu!Lock
         /\ mu.writer = None /\ mu'.writer = p
         /\ mu'.readers = mu.readers /\ mu'.queued = mu.queued
  BY DEF Mu!Lock, Mu!Announce

LEMMA UnlockFacts ==
  ASSUME mu \in Mu!Lock, NEW p \in Procs, Mu!Unlock(p)
  PROVE  /\ mu' \in Mu!Lock
         /\ mu'.writer = None /\ mu'.queued = {}
         /\ \A q \in Procs :
              mu'.readers[q] = mu.readers[q] + (IF q \in mu.queued THEN 1 ELSE 0)
  BY DEF Mu!Lock, Mu!Unlock

-----------------------------------------------------------------------------

LEMMA BrokerInvInit == Init => BrokerInv
<1> SUFFICES ASSUME Init
             PROVE  BrokerInv
  OBVIOUS
<1>1. /\ mu \in Mu!Lock /\ mu.queued = {} /\ mu.writer = None
      /\ \A p \in Procs : mu.readers[p] = 0
  BY DEF Init, Mu!Init, Mu!Unlocked, Mu!Lock
<1>2. TypeOK
  BY <1>1, CapacityAssumption DEF Init, TypeOK, HandlerSteps, SenderSteps
<1>3. Counted /\ Writing /\ Visited
  BY <1>1, ProcsAssumption DEF Init, Procs, Counted, Writing, Visited, Registered
<1>4. QED
  BY <1>2, <1>3 DEF BrokerInv

(* The steps of a handler.                                                 *)
LEMMA HandlerKeeps ==
  ASSUME BrokerInv, NEW c \in Clients,
         Connect(c) \/ Handler(c) \/ Deliver(c) \/ HangUp(c)
  PROVE  BrokerInv'
<1> c \in Procs /\ Clients \subseteq Procs /\ Senders \subseteq Procs
  BY DEF Procs
<1> USE ProcsAssumption DEF BrokerInv, HandlerSteps, GoTo
<1>1. CASE Connect(c)
  BY <1>1 DEF Connect, TypeOK, Counted, Writing, Visited, Registered, history
<1>2. CASE Announce(c)
  <2>1. /\ mu' \in Mu!Lock
        /\ mu.writer = None /\ mu'.writer = c
        /\ mu'.readers = mu.readers /\ mu'.queued = mu.queued
    BY <1>2, AnnounceFacts DEF Announce, TypeOK
  <2>2. \/ at[c] = "join" /\ at' = [at EXCEPT ![c] = "register"]
        \/ at[c] = "leave" /\ at' = [at EXCEPT ![c] = "unregister"]
    BY <1>2 DEF Announce
  <2>3. UNCHANGED <<clients, chan, closed, gone, received, pc, left, history>>
    BY <1>2 DEF Announce
  <2>4. TypeOK'
    BY <2>1, <2>2, <2>3 DEF TypeOK, history
  <2>5. Counted'
    BY <2>1, <2>3 DEF Counted
  <2>6. Writing'
    BY <2>1, <2>2, <2>3 DEF Writing, TypeOK
  <2>7. Visited'
    BY <2>2, <2>3 DEF Visited, Registered, TypeOK
  <2>8. QED
    BY <2>4, <2>5, <2>6, <2>7
<1>3. CASE Register(c) \/ Unregister(c)
  <2>1. /\ mu' \in Mu!Lock
        /\ mu'.writer = None /\ mu'.queued = {}
        /\ \A q \in Procs :
             mu'.readers[q] = mu.readers[q] + (IF q \in mu.queued THEN 1 ELSE 0)
    BY <1>3, UnlockFacts DEF Register, Unregister, TypeOK
  <2>2. mu.writer = c /\ \A q \in Procs : mu.readers[q] = 0
    BY <1>3 DEF Register, Unregister, Mu!MayEnter
  <2>3. \/ /\ at[c] = "register" /\ at' = [at EXCEPT ![c] = "greet"]
           /\ clients' = clients \union {c}
        \/ /\ at[c] = "unregister" /\ at' = [at EXCEPT ![c] = "close"]
           /\ clients' = clients \ {c}
    BY <1>3 DEF Register, Unregister
  <2>4. UNCHANGED <<chan, closed, gone, received, pc, left, history>>
    BY <1>3 DEF Register, Unregister
  <2>5. TypeOK'
    BY <2>1, <2>3, <2>4 DEF TypeOK, history
  <2>6. Counted'
    BY <2>1, <2>2, <2>4 DEF Counted
  <2>7. Writing'
    BY <2>1, <2>2, <2>3 DEF Writing, TypeOK
  <2>8. \A s \in Senders : pc[s] # "send"
    BY <2>2 DEF Counted
  <2>9. Visited'
    BY <2>3, <2>4, <2>8 DEF Visited, Registered, TypeOK
  <2>10. QED
    BY <2>5, <2>6, <2>7, <2>9
<1>4. CASE Greet(c) \/ Leave(c)
  <2>1. /\ \/ at[c] = "greet" /\ at' = [at EXCEPT ![c] = "stream"]
           \/ at[c] = "stream" /\ at' = [at EXCEPT ![c] = "leave"]
        /\ UNCHANGED <<mu, clients, chan, closed, gone, received, pc, left, history>>
    BY <1>4 DEF Greet, Leave
  <2>2. TypeOK' /\ Counted'
    BY <2>1 DEF TypeOK, Counted, history
  <2>3. Writing' /\ Visited'
    BY <2>1 DEF TypeOK, Writing, Visited, Registered
  <2>4. QED
    BY <2>2, <2>3
<1>5. CASE Close(c)
  BY <1>5 DEF Close, TypeOK, Counted, Writing, Visited, Registered, history
<1>6. CASE Deliver(c)
  <2>1. UNCHANGED <<mu, clients, closed, at, gone, pc, left, history>>
    BY <1>6 DEF Deliver
  <2>2. /\ Tail(chan[c]) \in Seq(Senders) /\ Head(chan[c]) \in Senders
        /\ Len(Tail(chan[c])) <= Capacity
    BY <1>6, CapacityAssumption DEF Deliver, TypeOK
  <2>3. chan' \in [Clients -> Seq(Senders)] /\ received' \in [Clients -> Seq(Senders)]
    BY <1>6, <2>2 DEF Deliver, TypeOK
  <2>4. \A d \in Clients : Len(chan'[d]) <= Capacity
    BY <1>6, <2>2 DEF Deliver, TypeOK
  <2>5. QED
    BY <2>1, <2>3, <2>4 DEF TypeOK, Counted, Writing, Visited, Registered, history
<1>7. CASE HangUp(c)
  BY <1>7 DEF HangUp, TypeOK, Counted, Writing, Visited, Registered, history
<1>8. QED
  BY <1>1, <1>2, <1>3, <1>4, <1>5, <1>6, <1>7 DEF Handler

(* The steps of a broadcast.                                               *)
LEMMA SenderKeeps ==
  ASSUME BrokerInv, NEW s \in Senders, Begin(s) \/ Broadcast(s)
  PROVE  BrokerInv'
<1> s \in Procs /\ Clients \subseteq Procs /\ Senders \subseteq Procs
  BY DEF Procs
<1> USE ProcsAssumption DEF BrokerInv, SenderSteps
<1>1. CASE Begin(s)
  <2>1. pc[s] = "idle" /\ pc' = [pc EXCEPT ![s] = "lock"]
    BY <1>1 DEF Begin
  <2>2. /\ mu' \in Mu!Lock
        /\ mu'.writer = mu.writer
        /\ \A q \in Procs \ {s} :
             mu'.readers[q] = mu.readers[q] /\ (q \in mu'.queued <=> q \in mu.queued)
        /\ mu'.readers[s] = IF s \in mu'.queued THEN 0 ELSE 1
    BY <1>1, <2>1, RLockFacts DEF Begin, TypeOK, Counted
  <2>3. UNCHANGED <<clients, chan, closed, at, gone, received, left, full>>
    BY <1>1 DEF Begin
  <2>4. told' \in [Senders -> SUBSET Clients] /\ earlier' \in [Senders -> SUBSET Senders]
    BY <1>1 DEF Begin, TypeOK
  <2>5. TypeOK'
    BY <2>1, <2>2, <2>3, <2>4 DEF TypeOK
  <2>6. Counted'
    <3>1. \A c \in Clients : mu'.readers[c] = 0 /\ c \notin mu'.queued
      BY <2>2 DEF Counted
    <3>2. ASSUME NEW q \in Senders, q # s
          PROVE  /\ pc'[q] = pc[q] /\ mu'.readers[q] = mu.readers[q]
                 /\ q \in mu'.queued <=> q \in mu.queued
      BY <2>1, <2>2, <3>2 DEF TypeOK
    <3>3. pc'[s] = "lock"
      BY <2>1 DEF TypeOK
    <3>4. QED
      BY <2>2, <3>1, <3>2, <3>3 DEF Counted
  <2>7. Writing' /\ Visited'
    BY <2>1, <2>2, <2>3 DEF Writing, Visited, Registered, TypeOK
  <2>8. QED
    BY <2>5, <2>6, <2>7
<1>2. CASE Locked(s)
  <2>1. /\ pc[s] = "lock" /\ pc' = [pc EXCEPT ![s] = "send"]
        /\ left' = [left EXCEPT ![s] = clients]
        /\ UNCHANGED <<mu, clients, chan, closed, at, gone, received, history>>
    BY <1>2 DEF Locked
  <2>2. mu.readers[s] > 0 /\ s \notin mu.queued
    BY <1>2 DEF Locked, Mu!Reading
  <2>3. TypeOK'
    BY <2>1 DEF TypeOK, history
  <2>4. Counted' /\ Writing'
    BY <2>1, <2>2 DEF Counted, Writing, TypeOK
  <2>5. Visited'
    BY <2>1 DEF Visited, Registered, TypeOK
  <2>6. QED
    BY <2>3, <2>4, <2>5
<1>3. ASSUME NEW c \in Clients, Send(s, c)
      PROVE  BrokerInv'
  <2>1. left' = [left EXCEPT ![s] = left[s] \ {c}]
        /\ UNCHANGED <<mu, clients, closed, at, gone, received, pc, told, earlier>>
    BY <1>3 DEF Send
  <2>2. /\ chan[c] \in Seq(Senders) /\ Append(chan[c], s) \in Seq(Senders)
        /\ Len(Append(chan[c], s)) = Len(chan[c]) + 1 /\ Len(chan[c]) \in Nat
    BY DEF TypeOK
  <2>3. \/ Len(chan[c]) < Capacity /\ chan' = [chan EXCEPT ![c] = Append(chan[c], s)]
        \/ UNCHANGED chan
    BY <1>3 DEF Send
  <2>4. /\ chan' \in [Clients -> Seq(Senders)]
        /\ \A d \in Clients : Len(chan'[d]) <= Capacity
        /\ full' \subseteq Senders \X Clients
    <3>1. chan' \in [Clients -> Seq(Senders)]
      BY <2>2, <2>3 DEF TypeOK
    <3>2. ASSUME NEW d \in Clients
          PROVE  Len(chan'[d]) <= Capacity
      <4>1. CASE d = c
        BY <2>2, <2>3, <4>1, CapacityAssumption DEF TypeOK
      <4>2. CASE d # c
        BY <2>3, <4>2 DEF TypeOK
      <4>3. QED
        BY <4>1, <4>2
    <3>3. full' \in {full, full \union {<<s, c>>}}
      BY <1>3 DEF Send
    <3>4. QED
      BY <3>1, <3>2, <3>3 DEF TypeOK
  <2>5. TypeOK'
    BY <2>1, <2>4 DEF TypeOK
  <2>6. Counted' /\ Writing' /\ Visited'
    BY <2>1 DEF Counted, Writing, Visited, Registered, TypeOK
  <2>7. QED
    BY <2>5, <2>6
<1>4. CASE Finish(s)
  <2>1. /\ pc[s] = "send" /\ pc' = [pc EXCEPT ![s] = "done"]
        /\ UNCHANGED <<clients, chan, closed, at, gone, received, left, history>>
    BY <1>4 DEF Finish
  <2>2. /\ mu' \in Mu!Lock
        /\ mu'.writer = mu.writer /\ mu'.queued = mu.queued
        /\ \A q \in Procs \ {s} : mu'.readers[q] = mu.readers[q]
        /\ mu'.readers[s] = 0
    BY <1>4, <2>1, RUnlockFacts DEF Finish, TypeOK, Counted
  <2>3. TypeOK'
    BY <2>1, <2>2 DEF TypeOK, history
  <2>4. Counted'
    BY <2>1, <2>2 DEF Counted, TypeOK
  <2>5. Writing' /\ Visited'
    BY <2>1, <2>2 DEF Writing, Visited, Registered, TypeOK
  <2>6. QED
    BY <2>3, <2>4, <2>5
<1>5. QED
  BY <1>1, <1>2, <1>3, <1>4 DEF Broadcast

LEMMA BrokerInvHolds == Spec => []BrokerInv
<1>1. BrokerInv /\ [Next]_vars => BrokerInv'
  <2> SUFFICES ASSUME BrokerInv, [Next]_vars
               PROVE  BrokerInv'
    OBVIOUS
  <2>1. CASE UNCHANGED vars
    BY <2>1 DEF vars, BrokerInv, TypeOK, Counted, Writing, Visited, Registered
  <2>2. QED
    BY <2>1, HandlerKeeps, SenderKeeps DEF Next
<1>2. QED
  BY <1>1, BrokerInvInit, PTL DEF Spec

(* The state is well-typed: the lock is never let go more often than it    *)
(* was taken, and no channel holds more than its capacity.                 *)
THEOREM TypeCorrect == Spec => []TypeOK
<1>1. BrokerInv => TypeOK
  BY DEF BrokerInv
<1>2. QED
  BY <1>1, BrokerInvHolds, PTL

(* Broadcast never sends on a closed channel, which would panic: whoever   *)
(* is still to be visited is registered, and a channel is closed only when *)
(* its client no longer is.                                                *)
THEOREM SendsAreSafeHolds == Spec => []SendsAreSafe
<1>1. BrokerInv => SendsAreSafe
  BY DEF BrokerInv, TypeOK, Visited, Registered, SendsAreSafe
<1>2. QED
  BY <1>1, BrokerInvHolds, PTL

-----------------------------------------------------------------------------

(* A message that moves from the channel to the client keeps its place, a  *)
(* new one is last, and one that is swallowed leaves the others in order.  *)
LEMMA HandOver ==
  ASSUME NEW S, NEW r \in Seq(S), NEW q \in Seq(S), q # <<>>
  PROVE  Append(r, Head(q)) \o Tail(q) = r \o q
  BY HeadTailProperties, AppendProperties, ConcatProperties

Lengthened(next, all, e) ==
  /\ Len(all) \in Nat /\ DOMAIN all = 1..Len(all)
  /\ DOMAIN next = 1..(Len(all) + 1)
  /\ next[Len(all) + 1] = e
  /\ \A i \in 1..Len(all) : next[i] = all[i]

LEMMA SentLast ==
  ASSUME NEW S, NEW r \in Seq(S), NEW q \in Seq(S), NEW e \in S
  PROVE  Lengthened(r \o Append(q, e), r \o q, e)
  BY AppendProperties, ConcatProperties DEF Lengthened

Place(r, i) == IF i <= Len(r) THEN i ELSE i + 1

LEMMA Swallowed ==
  ASSUME NEW S, NEW r \in Seq(S), NEW q \in Seq(S), q # <<>>
  PROVE  /\ DOMAIN (r \o Tail(q)) \subseteq Nat
         /\ \A i \in DOMAIN (r \o Tail(q)) :
              Place(r, i) \in DOMAIN (r \o q) /\ (r \o Tail(q))[i] = (r \o q)[Place(r, i)]
  BY HeadTailProperties, ConcatProperties DEF Place

LEMMA AllType ==
  ASSUME TypeOK, NEW c \in Clients
  PROVE  /\ All(c) \in Seq(Senders) /\ DOMAIN All(c) \subseteq Nat
         /\ \A i \in DOMAIN All(c) : All(c)[i] \in Senders
<1>1. received[c] \in Seq(Senders) /\ chan[c] \in Seq(Senders)
  BY DEF TypeOK
<1>2. All(c) \in Seq(Senders)
  BY <1>1, ConcatProperties DEF All
<1>3. QED
  BY <1>2, LenProperties, ElementOfSeq

Contains(seq, e) == \E i \in DOMAIN seq : seq[i] = e

LEMMA InEither ==
  ASSUME NEW S, NEW r \in Seq(S), NEW q \in Seq(S), NEW e
  PROVE  Contains(r \o q, e) <=> Contains(q, e) \/ Contains(r, e)
<1>1. /\ Len(r) \in Nat /\ DOMAIN r = 1..Len(r)
      /\ Len(q) \in Nat /\ DOMAIN q = 1..Len(q)
      /\ DOMAIN (r \o q) = 1..(Len(r) + Len(q))
      /\ \A i \in 1..Len(r) : (r \o q)[i] = r[i]
      /\ \A i \in 1..Len(q) : (r \o q)[Len(r) + i] = q[i]
  BY ConcatProperties, LenProperties
<1> DEFINE all == r \o q
<1> HIDE DEF all
<1>2. \A i \in DOMAIN q : Len(r) + i \in DOMAIN all /\ all[Len(r) + i] = q[i]
  BY <1>1 DEF all
<1>3. \A i \in DOMAIN r : i \in DOMAIN all /\ all[i] = r[i]
  BY <1>1 DEF all
<1>4. \A i \in DOMAIN all : i \in DOMAIN r \/ (i - Len(r)) \in DOMAIN q
  BY <1>1 DEF all
<1>5. \A i \in DOMAIN all : (i - Len(r)) \in DOMAIN q => all[i] = q[i - Len(r)]
  <2>1. \A i \in DOMAIN all : i = Len(r) + (i - Len(r))
    BY <1>1 DEF all
  <2>2. QED
    BY <1>1, <2>1 DEF all
<1>6. QED
  BY <1>2, <1>3, <1>4, <1>5 DEF all, Contains

LEMMA HasAll ==
  ASSUME NEW c \in Clients, NEW s
  PROVE  /\ TypeOK => (Has(c, s) <=> Contains(All(c), s))
         /\ TypeOK' => (Has(c, s)' <=> Contains(All(c), s)')
<1>1. TypeOK => received[c] \in Seq(Senders) /\ chan[c] \in Seq(Senders)
  BY DEF TypeOK
<1>2. TypeOK' => received'[c] \in Seq(Senders) /\ chan'[c] \in Seq(Senders)
  BY DEF TypeOK
<1>3. Has(c, s) <=> Contains(chan[c], s) \/ Contains(received[c], s)
  BY DEF Has, Contains
<1>4. Has(c, s)' <=> Contains(chan'[c], s) \/ Contains(received'[c], s)
  BY DEF Has, Contains
<1>5. Contains(All(c), s)' <=> Contains(received'[c] \o chan'[c], s)
  BY DEF All, Contains
<1>6. Contains(All(c), s) <=> Contains(received[c] \o chan[c], s)
  BY DEF All
<1>7. QED
  BY <1>1, <1>2, <1>3, <1>4, <1>5, <1>6, InEither

(* A client whose messages stay keeps their order, if who has passed it    *)
(* keeps that and what it began after.                                     *)
LEMMA OrderKept ==
  ASSUME TypeOK, NEW c \in Clients, Ordered(c), UNCHANGED All(c),
         \A s \in Senders : Passed(s, c) => Passed(s, c)' /\ earlier'[s] = earlier[s]
  PROVE  Ordered(c)'
<1>1. \A i \in DOMAIN All(c) : All(c)[i] \in Senders
  BY AllType
<1>2. QED
  BY <1>1 DEF Ordered

LEMMA HasKept ==
  ASSUME TypeOK, TypeOK', NEW c \in Clients, UNCHANGED All(c), NEW s, Has(c, s)
  PROVE  Has(c, s)'
  BY HasAll

LEMMA ReachedKept ==
  ASSUME TypeOK, TypeOK', NEW c \in Clients, NEW s, Reached(s, c), full \subseteq full',
         Contains(All(c), s) => Contains(All(c), s)'
  PROVE  Reached(s, c)'
  BY HasAll DEF Reached

-----------------------------------------------------------------------------

LEMMA StreamInvInit == Init => StreamInv
<1> SUFFICES ASSUME Init
             PROVE  StreamInv
  OBVIOUS
<1>1. \A c \in Clients : DOMAIN All(c) = {}
  BY ConcatEmptySeq, EmptySeq DEF Init, All
<1>2. QED
  BY <1>1 DEF Init, StreamInv, InOrder, Ordered, Behind, Told

(* A handler that comes or goes moves no message; who has been greeted     *)
(* once is never taken for new.                                            *)
LEMMA ComingAndGoing ==
  ASSUME BrokerInv, BrokerInv', StreamInv, NEW c \in Clients,
         Connect(c) \/ Handler(c) \/ HangUp(c)
  PROVE  StreamInv'
<1> USE DEF BrokerInv, StreamInv
<1>1. UNCHANGED <<chan, received, pc, left, told, earlier, full>> /\ gone \subseteq gone'
  BY DEF Connect, Handler, Announce, Register, Greet, Leave, Unregister, Close, HangUp,
         history
<1>2. \A d \in Clients :
        Greeted(d) => Greeted(d)' /\ (at'[d] = "stream" => at[d] = "stream")
  BY DEF Connect, Handler, Announce, Register, Greet, Leave, Unregister, Close, HangUp,
         GoTo, Greeted, TypeOK
<1>3. \A d \in Clients : All(d)' = All(d)
  BY <1>1 DEF All
<1>4. InOrder'
  BY <1>1, <1>3, OrderKept DEF InOrder, Passed
<1>5. ASSUME NEW s \in Senders, NEW d \in told'[s]
      PROVE  ToldBy(s, d)'
  <2>1. d \in Clients /\ ToldBy(s, d)
    BY <1>1 DEF Told, TypeOK
  <2>2. Reached(s, d) => Reached(s, d)'
    BY <1>1, <1>3, <2>1, ReachedKept DEF Contains
  <2>3. QED
    BY <1>1, <1>2, <2>1, <2>2 DEF ToldBy
<1>6. QED
  BY <1>1, <1>4, <1>5 DEF Behind, Told

(* Delivery keeps the order; only who is gone loses anything by it.        *)
LEMMA Delivery ==
  ASSUME BrokerInv, BrokerInv', StreamInv, NEW c \in Clients, Deliver(c)
  PROVE  StreamInv'
<1> USE DEF BrokerInv, StreamInv
<1>1. UNCHANGED <<at, gone, pc, left, told, earlier, full>>
  BY DEF Deliver, history
<1>2. chan[c] # <<>> /\ chan[c] \in Seq(Senders) /\ received[c] \in Seq(Senders)
  BY DEF Deliver, TypeOK
<1>3. \A d \in Clients \ {c} : All(d)' = All(d)
  BY DEF Deliver, All, TypeOK
<1>4. c \notin gone => All(c)' = All(c)
  <2>1. c \notin gone => All(c)' = Append(received[c], Head(chan[c])) \o Tail(chan[c])
    BY DEF Deliver, All, TypeOK
  <2>2. QED
    BY <1>2, <2>1, HandOver DEF All
<1>5. c \in gone => All(c)' = received[c] \o Tail(chan[c])
  BY DEF Deliver, All, TypeOK
<1>6. ASSUME c \in gone
      PROVE  Ordered(c)'
  <2> DEFINE place(i) == Place(received[c], i)
             next == received[c] \o Tail(chan[c])
  <2>1. /\ DOMAIN next \subseteq Nat
        /\ \A i \in DOMAIN next : place(i) \in DOMAIN All(c) /\ next[i] = All(c)[place(i)]
    <3>1. All(c) = received[c] \o chan[c]
      BY DEF All
    <3>2. /\ DOMAIN (received[c] \o Tail(chan[c])) \subseteq Nat
          /\ \A i \in DOMAIN (received[c] \o Tail(chan[c])) :
               /\ Place(received[c], i) \in DOMAIN (received[c] \o chan[c])
               /\ (received[c] \o Tail(chan[c]))[i]
                    = (received[c] \o chan[c])[Place(received[c], i)]
      BY <1>2, Swallowed
    <3>3. QED
      BY <3>1, <3>2
  <2>2. \A i, j \in DOMAIN next : i < j => place(i) < place(j)
    BY <1>2, <2>1, LenProperties DEF Place
  <2>3. Ordered(c)
    BY DEF InOrder
  <2> HIDE DEF next, place
  <2>4. /\ \A i \in DOMAIN next : Passed(next[i], c)
        /\ \A i, j \in DOMAIN next :
             i < j => next[i] # next[j] /\ next[j] \notin earlier[next[i]]
    BY <2>1, <2>2, <2>3 DEF Ordered
  <2>5. All(c)' = next
    BY <1>5, <1>6 DEF next
  <2>6. QED
    BY <1>1, <2>4, <2>5 DEF Ordered, Passed
<1>7. InOrder'
  BY <1>1, <1>3, <1>4, <1>6, OrderKept DEF InOrder, Passed
<1>8. ASSUME NEW s \in Senders, NEW d \in told'[s]
      PROVE  ToldBy(s, d)'
  <2>1. d \in Clients /\ ToldBy(s, d)
    BY <1>1 DEF Told, TypeOK
  <2>2. d \notin gone /\ Reached(s, d) => Reached(s, d)'
    BY <1>1, <1>3, <1>4, <2>1, ReachedKept DEF Contains
  <2>3. QED
    BY <1>1, <2>1, <2>2 DEF ToldBy, Greeted
<1>9. QED
  BY <1>1, <1>7, <1>8 DEF Behind, Told

(* A broadcast that begins is in nobody's channel, and behind all that are *)
(* over.                                                                   *)
LEMMA Beginning ==
  ASSUME BrokerInv, BrokerInv', StreamInv, NEW s \in Senders, Begin(s)
  PROVE  StreamInv'
<1> USE DEF BrokerInv, StreamInv
<1>1. /\ pc[s] = "idle" /\ pc' = [pc EXCEPT ![s] = "lock"]
      /\ told' = [told EXCEPT ![s] = {c \in Clients : at[c] = "stream"}]
      /\ earlier' = [earlier EXCEPT ![s] = {q \in Senders : pc[q] = "done"}]
      /\ UNCHANGED <<chan, at, gone, received, left, full>>
  BY DEF Begin
<1>2. \A q \in Senders : q # s =>
        pc'[q] = pc[q] /\ told'[q] = told[q] /\ earlier'[q] = earlier[q]
  BY <1>1 DEF TypeOK
<1>3. \A c \in Clients : All(c)' = All(c)
  BY <1>1 DEF All
<1>4. InOrder'
  BY <1>1, <1>2, <1>3, OrderKept DEF InOrder, Passed
<1>5. Behind'
  BY <1>1, <1>2 DEF Behind, TypeOK
<1>6. ASSUME NEW q \in Senders, NEW c \in told'[q]
      PROVE  ToldBy(q, c)'
  <2>1. CASE q = s
    BY <1>1, <2>1 DEF ToldBy, Greeted, TypeOK
  <2>2. CASE q # s
    <3>1. c \in Clients /\ ToldBy(q, c)
      BY <1>2, <2>2 DEF Told, TypeOK
    <3>2. Reached(q, c) => Reached(q, c)'
      BY <1>1, <1>3, <3>1, ReachedKept DEF Contains
    <3>3. QED
      BY <1>1, <1>2, <2>2, <3>1, <3>2 DEF ToldBy, Greeted
  <2>3. QED
    BY <2>1, <2>2
<1>7. QED
  BY <1>4, <1>5, <1>6 DEF Told

(* It sets out with everyone registered, who streams among them.           *)
LEMMA SettingOut ==
  ASSUME BrokerInv, BrokerInv', StreamInv, NEW s \in Senders, Locked(s) \/ Finish(s)
  PROVE  StreamInv'
<1> USE DEF BrokerInv, StreamInv
<1>1. /\ UNCHANGED <<chan, received, at, gone, told, earlier, full>>
      /\ \/ pc[s] = "lock" /\ pc' = [pc EXCEPT ![s] = "send"]
            /\ left' = [left EXCEPT ![s] = clients]
         \/ pc[s] = "send" /\ left[s] = {} /\ pc' = [pc EXCEPT ![s] = "done"]
            /\ left' = left
  BY DEF Locked, Finish, history
<1>2. \A q \in Senders : q # s => pc'[q] = pc[q] /\ left'[q] = left[q]
  BY <1>1 DEF TypeOK
<1>3. \A c \in Clients : All(c)' = All(c)
  BY <1>1 DEF All
<1>4. pc'[s] = "done" \/ pc[s] = "lock"
  BY <1>1 DEF TypeOK
<1>5. InOrder'
  BY <1>1, <1>2, <1>3, <1>4, OrderKept DEF InOrder, Passed
<1>6. Behind'
  BY <1>1, <1>2 DEF Behind, TypeOK
<1>7. ASSUME NEW q \in Senders, NEW c \in told'[q]
      PROVE  ToldBy(q, c)'
  <2>1. c \in Clients /\ ToldBy(q, c)
    BY <1>1 DEF Told, TypeOK
  <2>2. Reached(q, c) => Reached(q, c)'
    BY <1>1, <1>3, <2>1, ReachedKept DEF Contains
  <2>3. at[c] = "stream" => c \in clients
    BY <2>1 DEF Visited, Registered
  <2>4. QED
    BY <1>1, <1>2, <2>1, <2>2, <2>3 DEF ToldBy, Greeted, TypeOK
<1>8. QED
  BY <1>5, <1>6, <1>7 DEF Told

(* A client that is visited has it last, or is full.                       *)
LEMMA Visiting ==
  ASSUME BrokerInv, BrokerInv', StreamInv, NEW s \in Senders, NEW c \in Clients, Send(s, c)
  PROVE  StreamInv'
<1> USE DEF BrokerInv, StreamInv
<1>1. /\ UNCHANGED <<received, at, gone, pc, told, earlier>>
      /\ pc[s] = "send" /\ c \in left[s] /\ left' = [left EXCEPT ![s] = left[s] \ {c}]
      /\ \/ chan' = [chan EXCEPT ![c] = Append(chan[c], s)] /\ full' = full
         \/ chan' = chan /\ full' = full \union {<<s, c>>}
  BY DEF Send
<1>2. chan[c] \in Seq(Senders) /\ received[c] \in Seq(Senders)
  BY DEF TypeOK
<1>3. \A d \in Clients \ {c} : All(d)' = All(d)
  BY <1>1 DEF All, TypeOK
<1>4. \A q \in Senders : \A d \in Clients : Passed(q, d) => Passed(q, d)'
  BY <1>1 DEF Passed, TypeOK
<1>5. CASE chan' = chan /\ full' = full \union {<<s, c>>}
  <2>1. \A d \in Clients : All(d)' = All(d)
    BY <1>1, <1>5 DEF All
  <2>2. InOrder'
    BY <1>1, <1>4, <2>1, OrderKept DEF InOrder
  <2>3. ASSUME NEW q \in Senders, NEW d \in told'[q]
        PROVE  ToldBy(q, d)'
    <3>1. d \in Clients /\ ToldBy(q, d)
      BY <1>1 DEF Told, TypeOK
    <3>2. Reached(q, d) => Reached(q, d)'
      BY <1>5, <2>1, <3>1, ReachedKept DEF Contains
    <3>3. d \in left[q] => d \in left'[q] \/ Reached(q, d)'
      BY <1>1, <1>5 DEF Reached, TypeOK
    <3>4. QED
      BY <1>1, <3>1, <3>2, <3>3 DEF ToldBy, Greeted
  <2>4. QED
    BY <1>1, <2>2, <2>3 DEF Behind, Told
<1>6. CASE chan' = [chan EXCEPT ![c] = Append(chan[c], s)] /\ full' = full
  <2> DEFINE n == Len(All(c))
  <2>1. All(c)' = received[c] \o Append(chan[c], s)
    BY <1>1, <1>6 DEF All, TypeOK
  <2>2. /\ n \in Nat /\ DOMAIN All(c) = 1..n
        /\ DOMAIN All(c)' = 1..(n + 1)
        /\ All(c)'[n + 1] = s
        /\ \A i \in 1..n : All(c)'[i] = All(c)[i]
    <3>1. All(c) = received[c] \o chan[c]
      BY DEF All
    <3>2. Lengthened(received[c] \o Append(chan[c], s), received[c] \o chan[c], s)
      BY <1>2, SentLast
    <3>3. QED
      BY <2>1, <3>1, <3>2 DEF Lengthened
  <2> HIDE DEF n
  <2>3. Ordered(c)'
    <3>1. Ordered(c) /\ \A i \in 1..n : All(c)[i] \in Senders
      BY <2>2, AllType DEF InOrder
    <3>2. \A i \in 1..n : All(c)[i] # s /\ s \notin earlier[All(c)[i]]
      <4>1. ASSUME NEW i \in 1..n
            PROVE  All(c)[i] # s /\ s \notin earlier[All(c)[i]]
        BY <1>1, <2>2, <3>1 DEF Ordered, Passed, Behind
      <4>2. QED
        BY <4>1
    <3>3. Passed(s, c)'
      BY <1>1 DEF Passed, TypeOK
    <3>4. ASSUME NEW i \in 1..(n + 1)
          PROVE  Passed(All(c)[i], c)'
      BY <1>4, <2>2, <3>1, <3>3 DEF Ordered
    <3>5. ASSUME NEW i \in 1..(n + 1), NEW j \in 1..(n + 1), i < j
          PROVE  All(c)'[i] # All(c)'[j] /\ All(c)'[j] \notin earlier[All(c)'[i]]
      <4>1. CASE j = n + 1
        BY <2>2, <3>2, <3>5, <4>1
      <4>2. CASE j # n + 1
        <5>1. i \in 1..n /\ j \in 1..n
          BY <2>2, <3>5, <4>2
        <5>2. QED
          BY <2>2, <3>1, <3>5, <5>1 DEF Ordered
      <4>3. QED
        BY <4>1, <4>2
    <3>6. QED
      BY <1>1, <2>2, <3>4, <3>5 DEF Ordered
  <2>4. InOrder'
    BY <1>1, <1>3, <1>4, <2>3, OrderKept DEF InOrder
  <2>5. Contains(All(c), s)'
    BY <2>2 DEF Contains
  <2>6. \A d \in Clients : \A q : Contains(All(d), q) => Contains(All(d), q)'
    BY <1>3, <2>2 DEF Contains
  <2>7. ASSUME NEW q \in Senders, NEW d \in told'[q]
        PROVE  ToldBy(q, d)'
    <3>1. d \in Clients /\ ToldBy(q, d)
      BY <1>1 DEF Told, TypeOK
    <3>2. Reached(q, d) => Reached(q, d)'
      BY <1>6, <2>6, <3>1, ReachedKept
    <3>3. Reached(s, c)'
      BY <2>5, HasAll DEF Reached
    <3>4. d \in left[q] => d \in left'[q] \/ Reached(q, d)'
      BY <1>1, <3>3 DEF TypeOK
    <3>5. QED
      BY <1>1, <3>1, <3>2, <3>4 DEF ToldBy, Greeted
  <2>8. QED
    BY <1>1, <2>4, <2>7 DEF Behind, Told
<1>7. QED
  BY <1>1, <1>5, <1>6

(* What a client is sent: whoever was told "connected" before a broadcast  *)
(* began, and still streams when it is over, has it or was full; and       *)
(* nothing comes twice, or after what began when it was over.              *)
THEOREM StreamFaithfulHolds == Spec => []StreamFaithful
<1>1. BrokerInv /\ BrokerInv' /\ StreamInv /\ [Next]_vars => StreamInv'
  <2> SUFFICES ASSUME BrokerInv, BrokerInv', StreamInv, [Next]_vars
               PROVE  StreamInv'
    OBVIOUS
  <2>1. CASE UNCHANGED vars
    <3>1. UNCHANGED <<chan, received, at, gone, pc, left, told, earlier, full>>
      BY <2>1 DEF vars
    <3>2. \A c \in Clients : All(c)' = All(c)
      BY <3>1 DEF All
    <3>3. InOrder'
      BY <3>1, <3>2, OrderKept DEF InOrder, Passed, BrokerInv, StreamInv
    <3>4. Behind' /\ Told'
      BY <3>1 DEF StreamInv, Behind, Told, ToldBy, Greeted, Reached, Has
    <3>5. QED
      BY <3>3, <3>4 DEF StreamInv
  <2>2. QED
    BY <2>1, ComingAndGoing, Delivery, Beginning, SettingOut, Visiting DEF Next, Broadcast
<1>2. BrokerInv /\ StreamInv => StreamFaithful
  <2> SUFFICES ASSUME BrokerInv, StreamInv
               PROVE  StreamFaithful
    OBVIOUS
  <2>1. \A s \in Senders : pc[s] = "done" =>
          \A c \in told[s] \ gone : at[c] = "stream" => Has(c, s) \/ <<s, c>> \in full
    BY DEF StreamInv, Told, ToldBy, Reached
  <2>2. \A c \in Clients :
          LET all == received[c] \o chan[c]
          IN  \A i, j \in DOMAIN all :
                i < j => all[i] # all[j] /\ all[j] \notin earlier[all[i]]
    BY DEF StreamInv, InOrder, Ordered, All
  <2>3. QED
    BY <2>1, <2>2 DEF StreamFaithful
<1>3. QED
  BY <1>1, <1>2, StreamInvInit, BrokerInvHolds, PTL DEF Spec

-----------------------------------------------------------------------------

(* The lock of a window.  What a goroutine holds of it, by where its call  *)
(* is: Aggregate's own lock, the one of UniqueTrackIds, or both; a lock    *)
(* that was asked for and not given is queued instead.                     *)
Own(p) == IF p \in Aggregators THEN 1 ELSE 0

Asked(p) == IF p \in windowMu.queued THEN 0 ELSE 1

Held(p) ==
  /\ call[p] \in {"idle", "add", "write", "done"} =>
       windowMu.readers[p] = 0 /\ p \notin windowMu.queued
  /\ call[p] = "aggregate" => windowMu.readers[p] = Asked(p)
  /\ call[p] = "count" => windowMu.readers[p] = Own(p) + Asked(p)
  /\ call[p] = "counted" => windowMu.readers[p] = Own(p) + 1 /\ p \notin windowMu.queued
  /\ call[p] = "unlock" => windowMu.readers[p] = 1 /\ p \notin windowMu.queued

(* Whose call is where.                                                    *)
Kind(p) ==
  /\ call[p] \in {"aggregate", "unlock"} => p \in Aggregators
  /\ call[p] \in {"count", "counted"} => p \notin Adders
  /\ call[p] \in {"add", "write"} => p \in Adders
  /\ call[p] = "write" <=> windowMu.writer = p

(* Nobody queues without a writer, and as long as none has crossed it,     *)
(* Aggregate gets its second lock at once.                                 *)
Uncrossed(p) ==
  p \in Aggregators =>
    /\ call[p] = "aggregate" /\ p \notin windowMu.queued => windowMu.writer = NoWriter
    /\ call[p] = "count" => p \notin windowMu.queued

WindowInv ==
  /\ WindowTypeOK
  /\ \A p \in Goroutines : Held(p) /\ Kind(p)
  /\ windowMu.writer = NoWriter => windowMu.queued = {}
  /\ crossed \/ \A p \in Goroutines : Uncrossed(p)

(* The goroutine can go on with its call at once.                          *)
MayGoOn(p) ==
  \/ call[p] \in {"aggregate", "count"} /\ WindowLock!Reading(p)
  \/ call[p] \in {"counted", "unlock"}
  \/ call[p] = "add" /\ windowMu.writer = NoWriter
  \/ call[p] = "write" /\ WindowLock!MayEnter(p)

NeverStuck ==
  \/ crossed
  \/ \A p \in Goroutines : call[p] \in {"idle", "done"}
  \/ \E p \in Goroutines : MayGoOn(p)

-----------------------------------------------------------------------------

LEMMA WindowInvInit == WindowInit => WindowInv
<1> SUFFICES ASSUME WindowInit
             PROVE  WindowInv
  OBVIOUS
<1>1. /\ windowMu \in WindowLock!Lock /\ windowMu.queued = {} /\ windowMu.writer = NoWriter
      /\ \A p \in Goroutines : windowMu.readers[p] = 0
  BY DEF WindowInit, WindowLock!Init, WindowLock!Unlocked, WindowLock!Lock
<1>2. QED
  BY <1>1, CallersAssumption
  DEF WindowInit, WindowInv, WindowTypeOK, Held, Kind, Uncrossed

(* A goroutine asks for a read lock, its first or its second one.          *)
LEMMA AskKeeps ==
  ASSUME WindowInv, NEW p \in Goroutines, Ask(p) \/ AskAgain(p)
  PROVE  WindowInv'
<1> USE DEF WindowInv, WindowTypeOK
<1>1. CASE windowMu.writer = NoWriter
  <2>1. /\ windowMu' \in WindowLock!Lock
        /\ windowMu'.queued = windowMu.queued /\ windowMu'.writer = NoWriter
        /\ windowMu'.readers = [windowMu.readers EXCEPT ![p] = windowMu.readers[p] + 1]
    BY <1>1 DEF Ask, AskAgain, WindowLock!RLock, WindowLock!Lock
  <2>2. /\ windowMu.queued = {}
        /\ \A q \in Goroutines : q # p => windowMu'.readers[q] = windowMu.readers[q]
        /\ windowMu'.readers[p] = windowMu.readers[p] + 1
    BY <1>1, <2>1 DEF WindowLock!Lock
  <2>3. WindowTypeOK'
    BY <2>1 DEF Ask, AskAgain, GoOn
  <2>4. ASSUME NEW q \in Goroutines
        PROVE  Held(q)' /\ Kind(q)' /\ Uncrossed(q)'
    <3>1. CASE q = p /\ Ask(p)
      BY <1>1, <2>1, <2>2, <3>1, CallersAssumption
      DEF Ask, GoOn, Held, Kind, Uncrossed, Own, Asked, Goroutines
    <3>2. CASE q = p /\ AskAgain(p)
      BY <1>1, <2>1, <2>2, <3>2, CallersAssumption
      DEF AskAgain, GoOn, Held, Kind, Uncrossed, Own, Asked, Goroutines
    <3>3. CASE q # p
      <4>1. call'[q] = call[q]
        BY <3>3 DEF Ask, AskAgain, GoOn
      <4>2. QED
        BY <1>1, <2>1, <2>2, <3>3, <4>1 DEF Held, Kind, Uncrossed, Own, Asked
    <3>4. QED
      BY <3>1, <3>2, <3>3
  <2>5. QED
    BY <2>1, <2>2, <2>3, <2>4
<1>2. CASE windowMu.writer # NoWriter
  <2>1. /\ windowMu' \in WindowLock!Lock
        /\ windowMu'.queued = windowMu.queued \union {p}
        /\ windowMu'.writer = windowMu.writer
        /\ windowMu'.readers = windowMu.readers
    BY <1>2 DEF Ask, AskAgain, WindowLock!RLock, WindowLock!Lock
  <2>2. WindowTypeOK'
    BY <2>1 DEF Ask, AskAgain, GoOn
  <2>3. AskAgain(p) => crossed
    BY <1>2 DEF AskAgain, Uncrossed, Kind, WindowLock!Reading
  <2>4. ASSUME NEW q \in Goroutines
        PROVE  Held(q)' /\ Kind(q)' /\ (crossed \/ Uncrossed(q)')
    <3>1. CASE q = p /\ Ask(p)
      BY <1>2, <2>1, <3>1, CallersAssumption
      DEF Ask, GoOn, Held, Kind, Uncrossed, Own, Asked, Goroutines
    <3>2. CASE q = p /\ AskAgain(p)
      BY <1>2, <2>1, <2>3, <3>2, CallersAssumption
      DEF AskAgain, GoOn, Held, Kind, Own, Asked, WindowLock!Reading, WindowLock!Lock
    <3>3. CASE q # p
      <4>1. call'[q] = call[q]
        BY <3>3 DEF Ask, AskAgain, GoOn
      <4>2. QED
        BY <2>1, <3>3, <4>1 DEF Held, Kind, Uncrossed, Own, Asked
    <3>4. QED
      BY <3>1, <3>2, <3>3
  <2>5. crossed' = crossed
    BY DEF Ask, AskAgain
  <2>6. QED
    BY <1>2, <2>1, <2>2, <2>4, <2>5
<1>3. QED
  BY <1>1, <1>2

(* A goroutine has counted, and gives up a read lock.                      *)
LEMMA UnlockKeeps ==
  ASSUME WindowInv, NEW p \in Goroutines, Count(p) \/ CountDone(p) \/ Aggregated(p)
  PROVE  WindowInv'
<1> USE DEF WindowInv, WindowTypeOK
<1>1. CASE Count(p)
  <2>1. ASSUME NEW q \in Goroutines
        PROVE  Held(q)' /\ Kind(q)' /\ (crossed \/ Uncrossed(q)')
    <3>1. CASE q = p
      BY <1>1, <3>1 DEF Count, GoOn, Held, Kind, Uncrossed, Own, Asked, WindowLock!Reading
    <3>2. CASE q # p
      BY <1>1, <3>2 DEF Count, GoOn, Held, Kind, Uncrossed, Own, Asked
    <3>3. QED
      BY <3>1, <3>2
  <2>2. QED
    BY <1>1, <2>1 DEF Count, GoOn
<1>2. CASE CountDone(p) \/ Aggregated(p)
  <2>1. windowMu.readers[p] \in Nat \ {0}
    BY <1>2 DEF CountDone, Aggregated, Held, Own
  <2>2. /\ windowMu' \in WindowLock!Lock
        /\ windowMu'.queued = windowMu.queued /\ windowMu'.writer = windowMu.writer
        /\ windowMu'.readers = [windowMu.readers EXCEPT ![p] = windowMu.readers[p] - 1]
    BY <1>2, <2>1 DEF CountDone, Aggregated, WindowLock!RUnlock, WindowLock!Lock
  <2>3. /\ \A q \in Goroutines : q # p => windowMu'.readers[q] = windowMu.readers[q]
        /\ windowMu'.readers[p] = windowMu.readers[p] - 1
    BY <2>2 DEF WindowLock!Lock
  <2>4. WindowTypeOK' /\ crossed' = crossed
    BY <1>2, <2>2 DEF CountDone, Aggregated, GoOn
  <2>5. ASSUME NEW q \in Goroutines
        PROVE  Held(q)' /\ Kind(q)' /\ (crossed \/ Uncrossed(q)')
    <3>1. CASE q = p /\ CountDone(p)
      BY <2>2, <2>3, <3>1 DEF CountDone, GoOn, Held, Kind, Uncrossed, Own, Asked
    <3>2. CASE q = p /\ Aggregated(p)
      BY <2>2, <2>3, <3>2 DEF Aggregated, GoOn, Held, Kind, Uncrossed, Own, Asked
    <3>3. CASE q # p
      <4>1. call'[q] = call[q]
        BY <1>2, <3>3 DEF CountDone, Aggregated, GoOn
      <4>2. QED
        BY <2>2, <2>3, <3>3, <4>1 DEF Held, Kind, Uncrossed, Own, Asked
    <3>4. QED
      BY <1>2, <3>1, <3>2, <3>3
  <2>6. QED
    BY <2>2, <2>4, <2>5
<1>3. QED
  BY <1>1, <1>2

(* Add: the writer's announcement is what may cross an Aggregate.          *)
LEMMA AddKeeps ==
  ASSUME WindowInv, NEW p \in Goroutines, CallAdd(p) \/ AnnounceAdd(p)
  PROVE  WindowInv'
<1> USE DEF WindowInv, WindowTypeOK
<1>1. CASE CallAdd(p)
  <2>1. ASSUME NEW q \in Goroutines
        PROVE  Held(q)' /\ Kind(q)' /\ (crossed \/ Uncrossed(q)')
    <3>1. CASE q = p
      BY <1>1, <3>1, CallersAssumption DEF CallAdd, GoOn, Held, Kind, Uncrossed, Own, Asked
    <3>2. CASE q # p
      BY <1>1, <3>2 DEF CallAdd, GoOn, Held, Kind, Uncrossed, Own, Asked
    <3>3. QED
      BY <3>1, <3>2
  <2>2. QED
    BY <1>1, <2>1 DEF CallAdd, GoOn
<1>2. CASE AnnounceAdd(p)
  <2>1. /\ windowMu' \in WindowLock!Lock
        /\ windowMu.writer = NoWriter /\ windowMu'.writer = p
        /\ windowMu'.readers = windowMu.readers /\ windowMu'.queued = windowMu.queued
        /\ windowMu.queued = {}
    BY <1>2 DEF AnnounceAdd, WindowLock!Announce, WindowLock!Lock
  <2>2. WindowTypeOK'
    BY <1>2, <2>1 DEF AnnounceAdd, GoOn
  <2>3. p # NoWriter
    BY CallersAssumption
  <2>4. ASSUME NEW q \in Goroutines
        PROVE  Held(q)' /\ Kind(q)' /\ (crossed' \/ Uncrossed(q)')
    <3>1. CASE q = p
      BY <1>2, <2>1, <3>1, CallersAssumption
      DEF AnnounceAdd, GoOn, Held, Kind, Uncrossed, Own, Asked
    <3>2. CASE q # p
      <4>1. call'[q] = call[q]
        BY <1>2, <3>2 DEF AnnounceAdd, GoOn
      <4>2. Held(q)' /\ Kind(q)'
        BY <2>1, <3>2, <4>1, CallersAssumption DEF Held, Kind, Own, Asked
      <4>3. ASSUME q \in Aggregators, call[q] = "aggregate"
            PROVE  crossed'
        <5>1. windowMu.readers[q] = 1 /\ q \notin windowMu.queued
          BY <2>1, <4>3 DEF Held, Asked
        <5>2. WindowLock!Reading(q)
          BY <5>1 DEF WindowLock!Reading
        <5>3. QED
          BY <1>2, <4>3, <5>2 DEF AnnounceAdd
      <4>4. Uncrossed(q)' \/ crossed'
        BY <2>1, <4>1, <4>3 DEF Uncrossed
      <4>5. QED
        BY <4>2, <4>4
    <3>3. QED
      BY <3>1, <3>2
  <2>5. QED
    BY <2>1, <2>2, <2>3, <2>4
<1>3. QED
  BY <1>1, <1>2

(* Unlock lets everybody in who queued.                                    *)
LEMMA WriteKeeps ==
  ASSUME WindowInv, NEW p \in Goroutines, Write(p)
  PROVE  WindowInv'
<1> USE DEF WindowInv, WindowTypeOK
<1>1. /\ windowMu' \in WindowLock!Lock
      /\ windowMu'.writer = NoWriter /\ windowMu'.queued = {}
      /\ \A q \in Goroutines :
           windowMu'.readers[q] =
             windowMu.readers[q] + (IF q \in windowMu.queued THEN 1 ELSE 0)
  BY DEF Write, WindowLock!Unlock, WindowLock!Lock
<1>2. WindowTypeOK' /\ crossed' = crossed
  BY <1>1 DEF Write, GoOn
<1>3. windowMu.writer = p
  BY DEF Write, WindowLock!MayEnter
<1>4. ASSUME NEW q \in Goroutines
      PROVE  Held(q)' /\ Kind(q)' /\ Uncrossed(q)'
  <2>1. CASE q = p
    BY <1>1, <2>1, CallersAssumption
    DEF Write, GoOn, Held, Kind, Uncrossed, Own, Asked
  <2>2. CASE q # p
    <3>1. call'[q] = call[q]
      BY <2>2 DEF Write, GoOn
    <3>2. windowMu.readers[q] \in Nat
      BY DEF WindowLock!Lock
    <3>3. Held(q)'
      BY <1>1, <3>1, <3>2 DEF Held, Own, Asked
    <3>4. QED
      BY <1>1, <1>3, <2>2, <3>1, <3>3, CallersAssumption DEF Kind, Uncrossed
  <2>3. QED
    BY <2>1, <2>2
<1>5. QED
  BY <1>1, <1>2, <1>4

LEMMA WindowInvHolds == WindowSpec => []WindowInv
<1>1. WindowInv /\ [WindowNext]_windowVars => WindowInv'
  <2> SUFFICES ASSUME WindowInv, [WindowNext]_windowVars
               PROVE  WindowInv'
    OBVIOUS
  <2>1. CASE WindowNext
    BY <2>1, AskKeeps, UnlockKeeps, AddKeeps, WriteKeeps DEF WindowNext, Continue
  <2>2. CASE UNCHANGED windowVars
    BY <2>2
    DEF windowVars, WindowInv, WindowTypeOK, Held, Kind, Uncrossed, Own, Asked
  <2>3. QED
    BY <2>1, <2>2
<1>2. QED
  BY <1>1, WindowInvInit, PTL DEF WindowSpec

(* The window's lock and its calls are well-typed.                         *)
THEOREM WindowTypeCorrect == WindowSpec => []WindowTypeOK
<1>1. WindowInv => WindowTypeOK
  BY DEF WindowInv
<1>2. QED
  BY <1>1, WindowInvHolds, PTL

(* The calls on a window never wait for one another, unless a writer       *)
(* announced itself between the two locks of an Aggregate: as long as none *)
(* has, one of those that have not returned can go on.                     *)
THEOREM NeverStuckHolds == WindowSpec => []NeverStuck
<1>1. WindowInv => NeverStuck
  <2> SUFFICES ASSUME WindowInv, ~crossed, NEW p \in Goroutines, call[p] \notin {"idle", "done"}
               PROVE  \E q \in Goroutines : MayGoOn(q)
    BY DEF NeverStuck
  <2> USE DEF WindowInv, WindowTypeOK
  <2>1. CASE windowMu.writer = NoWriter
    <3>1. p \notin windowMu.queued
      BY <2>1
    <3>2. call[p] \in {"aggregate", "count"} => WindowLock!Reading(p)
      BY <3>1 DEF WindowLock!Reading, Held, Own, Asked
    <3>3. call[p] = "write" => p = NoWriter
      BY <2>1 DEF Kind
    <3>4. MayGoOn(p)
      BY <2>1, <3>2, <3>3, CallersAssumption DEF MayGoOn
    <3>5. QED
      BY <3>4
  <2>2. CASE \E w \in Goroutines : windowMu.writer = w
    <3>1. PICK w \in Goroutines : windowMu.writer = w
      BY <2>2
    <3>2. call[w] = "write"
      BY <3>1 DEF Kind
    <3>3. CASE \A q \in Goroutines : windowMu.readers[q] = 0
      BY <3>1, <3>2, <3>3 DEF MayGoOn, WindowLock!MayEnter
    <3>4. ASSUME NEW q \in Goroutines, windowMu.readers[q] # 0
          PROVE  MayGoOn(q)
      BY <3>4 DEF MayGoOn, WindowLock!Reading, Held, Own, Asked, Uncrossed
    <3>5. QED
      BY <3>3, <3>4
  <2>3. QED
    BY <2>1, <2>2 DEF WindowLock!Lock
<1>2. QED
  BY <1>1, WindowInvHolds, PTL

-----------------------------------------------------------------------------

(* The timer queue.  A task is in one place: in the map, in the batch,     *)
(* handled, or dropped (Placed); its number tells it from all others.      *)
Done == {p[1] : p \in handled}
Queued == {tasks[id] : id \in {i \in Ids : tasks[i] # NoTask}}

Numbered == \A t \in Queued \union batch \union dropped \union Done : t.n <= made

Apart(S, T) == \A t \in S, u \in T : t.n # u.n

Alike(S) == \A t, u \in S : t.n = u.n => t = u

OnePlace ==
  /\ \A i, j \in Ids : tasks[i] # NoTask /\ tasks[j] # NoTask /\ tasks[i].n = tasks[j].n => i = j
  /\ Alike(batch)
  /\ Apart(Queued, batch) /\ Apart(Queued, dropped) /\ Apart(Queued, Done)
  /\ Apart(batch, dropped) /\ Apart(batch, Done)
  /\ Apart(Done, dropped)
  /\ \A p, q \in handled : p[1].n = q[1].n => p = q

(* Tasks carry their due time cut to the second; those taken are less than *)
(* a second early.                                                         *)
OnTime ==
  /\ \A t \in Queued : t.executeAt = Seconds(t.due)
  /\ \A t \in batch : t.due < now + PerSecond
  /\ \A p \in handled : p[1].due < p[2] + PerSecond
  /\ run # "handle" => batch = {}

TimerInv == TimerTypeOK /\ Numbered /\ OnePlace /\ OnTime

(* The process.  Requests come in through the server, which is started     *)
(* after the rules and closed before the database.                         *)
ProcessInv ==
  /\ ProcessTypeOK
  /\ main \in {"opening", "loading"} => server = "none"
  /\ main \in {"notifying", "waiting"} => server # "none"
  /\ server # "none" \/ main = "starting" => loaded = Rules
  /\ \A r \in Requests : req[r] # "none" => server # "none"
  /\ main \in {"draining", "closing", "returning", "exited"} => server = "closed"
  /\ main \in {"closing", "returning", "exited"} =>
       Active = {} /\ \A r \in Requests : req[r] # "connected"
  /\ db = "closed" => main \in {"returning", "exited"}

-----------------------------------------------------------------------------

(* A time cut to a second that has begun is less than a second ahead.      *)
LEMMA CutIsEarly ==
  ASSUME NEW due \in Nat, NEW t \in Nat, Seconds(due) <= Seconds(t)
  PROVE  due < t + PerSecond
  BY ClockAssumption DEF Seconds

LEMMA SecondsType == ASSUME NEW t \in Nat PROVE Seconds(t) \in Nat
  BY ClockAssumption DEF Seconds

LEMMA TaskFields ==
  ASSUME NEW t \in Task
  PROVE  t.n \in 1..MaxTasks /\ t.due \in Nat /\ t.executeAt \in Nat
  BY DEF Task

LEMMA QueuedAre ==
  ASSUME TimerTypeOK
  PROVE  /\ Queued \subseteq Task
         /\ \A id \in Ids : tasks[id] # NoTask => tasks[id] \in Queued
         /\ \A t \in Queued : \E id \in Ids : tasks[id] # NoTask /\ t = tasks[id]
         /\ \A id \in Ids : In(id) \subseteq Queued
  BY NoTaskAssumption DEF TimerTypeOK, Queued, In

LEMMA DoneAre ==
  ASSUME TimerTypeOK
  PROVE  Done \subseteq Task
  BY DEF TimerTypeOK, Done

(* Types, the loop and its context: what every step keeps.                 *)
LEMMA TimerTypes ==
  ASSUME TimerTypeOK, [TimerNext]_timerVars, run # "handle" => batch = {}
  PROVE  TimerTypeOK' /\ (run' # "handle" => batch' = {})
<1> USE ClockAssumption, NoTaskAssumption DEF TimerTypeOK
<1>1. ASSUME NEW id \in Ids, NEW delay \in Delays, Schedule(id, delay)
      PROVE  TimerTypeOK' /\ (run' # "handle" => batch' = {})
  <2> DEFINE task == [n |-> made + 1, due |-> now + delay, executeAt |-> Seconds(now + delay)]
  <2>1. task \in Task
    BY <1>1, SecondsType DEF Schedule, Task
  <2> HIDE DEF task
  <2>2. tasks' = [tasks EXCEPT ![id] = task]
    BY <1>1 DEF Schedule, task
  <2>3. In(id) \subseteq Task
    BY DEF In
  <2>4. QED
    BY <1>1, <2>1, <2>2, <2>3 DEF Schedule
<1>2. ASSUME NEW id \in Ids, Cancel(id)
      PROVE  TimerTypeOK' /\ (run' # "handle" => batch' = {})
  BY <1>2 DEF Cancel, In
<1>3. CASE Take
  <2>1. batch' \subseteq Task
    BY <1>3 DEF Take, Due
  <2>2. tasks' \in [Ids -> Task \union {NoTask}]
    BY <1>3 DEF Take
  <2>3. /\ tick' \in BOOLEAN /\ run' = "handle"
        /\ UNCHANGED <<now, phase, cancelled, made, dropped, handled>>
    BY <1>3 DEF Take
  <2>4. QED
    BY <2>1, <2>2, <2>3
<1>4. CASE Handle
  BY <1>4 DEF Handle
<1>5. CASE Loop \/ Return \/ CancelContext
  BY <1>5 DEF Loop, Return, CancelContext
<1>6. CASE Tick
  BY <1>6 DEF Tick
<1>7. CASE UNCHANGED timerVars
  BY <1>7 DEF timerVars
<1>8. QED
  BY <1>1, <1>2, <1>3, <1>4, <1>5, <1>6, <1>7 DEF TimerNext, Run

LEMMA TimerStarts == TimerInit => TimerTypeOK /\ batch = {}
<1> SUFFICES ASSUME TimerInit
             PROVE  TimerTypeOK
  BY DEF TimerInit
<1>1. now \in 0..MaxTime /\ made \in 0..MaxTasks /\ phase \in 0..(PerSecond - 1)
  BY ClockAssumption DEF TimerInit
<1>2. tick \in BOOLEAN /\ cancelled \in BOOLEAN
  BY DEF TimerInit
<1>3. tasks \in [Ids -> Task \union {NoTask}]
  BY DEF TimerInit
<1>4. /\ batch \subseteq Task /\ dropped \subseteq Task /\ batch = {}
      /\ handled \subseteq Task \X (0..MaxTime) /\ run = "wait"
  BY DEF TimerInit
<1>5. QED
  BY <1>1, <1>2, <1>3, <1>4 DEF TimerTypeOK

THEOREM TimerTypeCorrect == TimerSpec => []TimerTypeOK
<1> DEFINE Inv == TimerTypeOK /\ (run # "handle" => batch = {})
<1>1. TimerInit => Inv
  BY TimerStarts
<1>2. Inv /\ [TimerNext]_timerVars => Inv'
  BY TimerTypes
<1>3. Inv => TimerTypeOK
  OBVIOUS
<1> HIDE DEF Inv
<1>4. QED
  BY <1>1, <1>2, <1>3, PTL DEF TimerSpec

-----------------------------------------------------------------------------

(* A step of the queue, seen from the tasks.                               *)

LEMMA Scheduling ==
  ASSUME TimerInv, TimerTypeOK', NEW id \in Ids, NEW delay \in Delays, Schedule(id, delay)
  PROVE  TimerInv'
<1> DEFINE task == [n |-> made + 1, due |-> now + delay, executeAt |-> Seconds(now + delay)]
<1> USE ClockAssumption, NoTaskAssumption DEF TimerInv
<1>1. /\ task.n = made + 1 /\ task.executeAt = Seconds(task.due) /\ task # NoTask
      /\ made \in Nat /\ task \in Task
  BY SecondsType DEF TimerTypeOK, Task, Schedule
<1> HIDE DEF task
<1>2. /\ tasks' = [tasks EXCEPT ![id] = task] /\ made' = made + 1
      /\ dropped' = dropped \union In(id)
      /\ UNCHANGED <<now, batch, run, handled>>
  BY DEF Schedule, task
<1>3. Done' = Done
  BY <1>2 DEF Done
<1>4. \A t \in Queued' : t = task \/ (t \in Queued /\ \A u \in In(id) : t.n # u.n)
  <2> SUFFICES ASSUME NEW t \in Queued', t # task
               PROVE  t \in Queued /\ \A u \in In(id) : t.n # u.n
    OBVIOUS
  <2>1. PICK j \in Ids : tasks'[j] # NoTask /\ t = tasks'[j]
    BY DEF Queued
  <2>2. j # id /\ tasks[j] # NoTask /\ t = tasks[j]
    BY <1>2, <2>1 DEF TimerTypeOK
  <2>3. QED
    BY <2>2, QueuedAre DEF OnePlace, In
<1>5. In(id) \subseteq Queued
  BY QueuedAre
<1>6. \A t \in Queued \union batch \union dropped \union Done : t.n \in Nat /\ t.n <= made
  BY QueuedAre, DoneAre, TaskFields DEF Numbered, TimerTypeOK
<1>7. \A t \in Queued \union batch \union dropped \union Done : t.n # task.n
  BY <1>1, <1>6
<1>8. Numbered'
  BY <1>1, <1>2, <1>3, <1>4, <1>5, <1>6 DEF Numbered
<1>9. \A i, j \in Ids :
        tasks'[i] # NoTask /\ tasks'[j] # NoTask /\ tasks'[i].n = tasks'[j].n => i = j
  BY <1>2, <1>7, QueuedAre DEF OnePlace, TimerTypeOK
<1>10. OnePlace'
  BY <1>2, <1>3, <1>4, <1>5, <1>7, <1>9 DEF OnePlace, Apart, Alike
<1>11. OnTime'
  BY <1>1, <1>2, <1>4 DEF OnTime
<1>12. QED
  BY <1>8, <1>10, <1>11

LEMMA Cancelling ==
  ASSUME TimerInv, TimerTypeOK', NEW id \in Ids, Cancel(id)
  PROVE  TimerInv'
<1> USE DEF TimerInv
<1>1. /\ tasks' = [tasks EXCEPT ![id] = NoTask] /\ dropped' = dropped \union In(id)
      /\ UNCHANGED <<now, batch, run, handled, made>>
  BY DEF Cancel
<1>2. Done' = Done
  BY <1>1 DEF Done
<1>3. \A t \in Queued' : t \in Queued /\ \A u \in In(id) : t.n # u.n
  <2> SUFFICES ASSUME NEW t \in Queued'
               PROVE  t \in Queued /\ \A u \in In(id) : t.n # u.n
    OBVIOUS
  <2>1. PICK j \in Ids : tasks'[j] # NoTask /\ t = tasks'[j]
    BY DEF Queued
  <2>2. j # id /\ tasks[j] # NoTask /\ t = tasks[j]
    BY <1>1, <2>1 DEF TimerTypeOK
  <2>3. QED
    BY <2>2, QueuedAre DEF OnePlace, In
<1>4. In(id) \subseteq Queued
  BY QueuedAre
<1>5. Numbered' /\ OnTime'
  BY <1>1, <1>2, <1>3, <1>4 DEF Numbered, OnTime
<1>6. \A i, j \in Ids :
        tasks'[i] # NoTask /\ tasks'[j] # NoTask /\ tasks'[i].n = tasks'[j].n => i = j
  BY <1>1 DEF OnePlace, TimerTypeOK
<1>7. OnePlace'
  BY <1>1, <1>2, <1>3, <1>4, <1>6 DEF OnePlace, Apart, Alike
<1>8. QED
  BY <1>5, <1>7

LEMMA Taking ==
  ASSUME TimerInv, TimerTypeOK', Take
  PROVE  TimerInv'
<1> USE DEF TimerInv
<1>1. /\ batch' = {tasks[id] : id \in {i \in Ids : Due(i)}}
      /\ tasks' = [id \in Ids |-> IF Due(id) THEN NoTask ELSE tasks[id]]
      /\ run' = "handle"
      /\ UNCHANGED <<now, made, dropped, handled>>
  BY DEF Take
<1>2. Done' = Done
  BY <1>1 DEF Done
<1>3. \A t \in batch' : \E id \in Ids : Due(id) /\ t = tasks[id]
  BY <1>1
<1>4. \A t \in Queued' : \E id \in Ids : ~Due(id) /\ tasks[id] # NoTask /\ t = tasks[id]
  BY <1>1 DEF Queued
<1>5. Queued' \subseteq Queued /\ batch' \subseteq Queued
  BY <1>3, <1>4, QueuedAre DEF Due
<1>6. Apart(Queued', batch')
  BY <1>3, <1>4 DEF Apart, OnePlace, Due
<1>7. Alike(batch')
  BY <1>3 DEF Alike, OnePlace, Due
<1>8. Numbered'
  BY <1>1, <1>2, <1>5 DEF Numbered
<1>9. \A i, j \in Ids :
        tasks'[i] # NoTask /\ tasks'[j] # NoTask /\ tasks'[i].n = tasks'[j].n => i = j
  BY <1>1 DEF OnePlace
<1>10. OnePlace'
  BY <1>1, <1>2, <1>5, <1>6, <1>7, <1>9 DEF OnePlace, Apart, Alike
<1>11. ASSUME NEW t \in batch'
       PROVE  t.due < now + PerSecond
  <2>1. PICK id \in Ids : Due(id) /\ t = tasks[id]
    BY <1>3
  <2>2. t \in Task /\ t \in Queued /\ t.executeAt <= Seconds(now)
    BY <2>1, QueuedAre DEF Due
  <2>3. Seconds(t.due) <= Seconds(now) /\ t.due \in Nat /\ now \in Nat
    BY <2>2, TaskFields DEF OnTime, TimerTypeOK
  <2>4. QED
    BY <2>3, CutIsEarly
<1>12. OnTime'
  BY <1>1, <1>5, <1>11 DEF OnTime
<1>13. QED
  BY <1>8, <1>10, <1>12

LEMMA Handling ==
  ASSUME TimerInv, TimerTypeOK', Handle
  PROVE  TimerInv'
<1> USE DEF TimerInv
<1>1. PICK task \in batch : batch' = batch \ {task} /\ handled' = handled \union {<<task, now>>}
  BY DEF Handle
<1>2. UNCHANGED <<now, tasks, run, made, dropped>> /\ run = "handle"
  BY DEF Handle
<1>3. Queued' = Queued
  BY <1>2 DEF Queued
<1>4. \A p \in handled' : p \in handled \/ (p = <<task, now>> /\ p[1] = task /\ p[2] = now)
  BY <1>1
<1>5. \A t \in Done' : t \in Done \/ t = task
  BY <1>4 DEF Done
<1>6. \A p \in handled : p[1] \in Done
  BY DEF Done
<1>7. Numbered'
  BY <1>1, <1>2, <1>3, <1>5 DEF Numbered
<1>8. \A t \in batch' : t.n # task.n
  BY <1>1 DEF OnePlace, Alike
<1>9. ASSUME NEW p \in handled', NEW q \in handled', p[1].n = q[1].n
      PROVE  p = q
  BY <1>4, <1>6, <1>9 DEF OnePlace, Apart
<1>10. OnePlace'
  BY <1>1, <1>2, <1>3, <1>5, <1>8, <1>9 DEF OnePlace, Apart, Alike
<1>11. OnTime'
  BY <1>1, <1>2, <1>3, <1>4 DEF OnTime
<1>12. QED
  BY <1>7, <1>10, <1>11

(* The clock only widens what is early enough.                             *)
LEMMA Passing ==
  ASSUME TimerInv, TimerTypeOK', Loop \/ Return \/ CancelContext \/ Tick \/ UNCHANGED timerVars
  PROVE  TimerInv'
<1> USE DEF TimerInv
<1>1. UNCHANGED <<tasks, batch, made, dropped, handled>>
  BY DEF Loop, Return, CancelContext, Tick, timerVars
<1>2. now' \in {now, now + 1} /\ now \in Nat
  BY DEF Loop, Return, CancelContext, Tick, timerVars, TimerTypeOK
<1>3. run' # "handle" => batch = {}
  BY DEF Loop, Return, CancelContext, Tick, timerVars, OnTime
<1>4. Queued' = Queued /\ Done' = Done
  BY <1>1 DEF Queued, Done
<1>5. \A t \in batch : t.due \in Nat
  BY TaskFields DEF TimerTypeOK
<1>6. OnTime'
  BY <1>1, <1>2, <1>3, <1>4, <1>5, ClockAssumption DEF OnTime
<1>7. Numbered' /\ OnePlace'
  BY <1>1, <1>4 DEF Numbered, OnePlace, Apart, Alike
<1>8. QED
  BY <1>6, <1>7

(* A task has one fate: handled once, not if it was dropped from the map,  *)
(* and less than a second early.                                           *)
THEOREM OneFateHolds == TimerSpec => []OneFate
<1>1. TimerInit => TimerInv
  <2> SUFFICES ASSUME TimerInit
               PROVE  TimerInv
    OBVIOUS
  <2>1. TimerTypeOK
    BY TimerStarts
  <2>2. Queued = {} /\ Done = {}
    BY DEF TimerInit, Queued, Done
  <2>3. QED
    BY <2>1, <2>2 DEF TimerInit, TimerInv, Numbered, OnePlace, Alike, Apart, OnTime
<1>2. TimerInv /\ TimerTypeOK' /\ [TimerNext]_timerVars => TimerInv'
  BY Scheduling, Cancelling, Taking, Handling, Passing DEF TimerNext, Run
<1>3. TimerInv => OneFate
  <2> SUFFICES ASSUME TimerInv
               PROVE  OneFate
    OBVIOUS
  <2> USE DEF TimerInv
  <2>1. \A p \in handled : p[1] \in Done /\ p[1].due \in Nat /\ p[2] \in Nat
    BY TaskFields DEF Done, TimerTypeOK
  <2>2. \A p \in handled : p[2] - p[1].due > -PerSecond
    BY <2>1, ClockAssumption DEF OnTime
  <2>3. \A p \in handled : p[1] \notin dropped
    BY <2>1 DEF OnePlace, Apart
  <2>4. \A id \in Ids : tasks[id] # NoTask =>
          tasks[id] \notin dropped \union batch /\ \A p \in handled : p[1] # tasks[id]
    BY <2>1, QueuedAre DEF OnePlace, Apart
  <2>5. QED
    BY <2>2, <2>3, <2>4 DEF OneFate, OnePlace
<1>4. QED
  BY <1>1, <1>2, <1>3, TimerTypeCorrect, PTL DEF TimerSpec

-----------------------------------------------------------------------------

LEMMA ProcessInvHolds == ProcessSpec => []ProcessInv
<1> USE DEF ProcessTypeOK, Before, After, Active
<1>1. ProcessInit => ProcessInv
  BY DEF ProcessInit, ProcessInv
<1>2. ProcessInv /\ [ProcessNext]_processVars => ProcessInv'
  <2> SUFFICES ASSUME ProcessInv, [ProcessNext]_processVars
               PROVE  ProcessInv'
    OBVIOUS
  <2> USE DEF ProcessInv, workers, serving
  <2>1. CASE OpenDb \/ StartFails \/ StartCleaner \/ StartServer \/ Notify
    BY <2>1 DEF OpenDb, StartFails, StartCleaner, StartServer, Notify
  <2>2. ASSUME NEW r \in Rules, RegisterStored(r)
        PROVE  ProcessInv'
    BY <2>2 DEF RegisterStored
  <2>3. CASE BeginShutdown
    BY <2>3 DEF BeginShutdown
  <2>4. CASE Drained
    BY <2>4 DEF Drained, CloseConnections
  <2>5. CASE DrainTimeout
    BY <2>5 DEF DrainTimeout
  <2>6. CASE CloseDb
    BY <2>6 DEF CloseDb
  <2>7. CASE Exit
    BY <2>7 DEF Exit
  <2>8. CASE Signal
    BY <2>8 DEF Signal, Over
  <2>9. CASE Listen \/ ListenFails \/ CleanerStep
    BY <2>9 DEF Listen, ListenFails, CleanerStep, Over
  <2>10. ASSUME NEW r \in Requests, AcceptConnection(r) \/ Arrive(r)
        PROVE  ProcessInv'
    BY <2>10 DEF AcceptConnection, Arrive
  <2>11. ASSUME NEW r \in Requests, Answer(r)
        PROVE  ProcessInv'
    BY <2>11 DEF Answer
  <2>12. ASSUME NEW r \in Requests, Fire(r) \/ ActionStep(r)
        PROVE  ProcessInv'
    BY <2>12 DEF Fire, ActionStep
  <2>13. CASE UNCHANGED processVars
    BY <2>13 DEF processVars
  <2>14. QED
    BY <2>1, <2>2, <2>3, <2>4, <2>5, <2>6, <2>7, <2>8, <2>9, <2>10, <2>11, <2>12, <2>13
       DEF ProcessNext, Main
<1>3. QED
  BY <1>1, <1>2, PTL DEF ProcessSpec

(* The state is well-typed.                                                *)
THEOREM ProcessTypeCorrect == ProcessSpec => []ProcessTypeOK
<1>1. ProcessInv => ProcessTypeOK
  BY DEF ProcessInv
<1>2. QED
  BY <1>1, ProcessInvHolds, PTL

(* Requests meet an engine with all its rules and an open database, and an *)
(* orderly exit cuts none of them.                                         *)
THEOREM ServedInFullHolds == ProcessSpec => []ServedInFull
<1>1. ProcessInv => ServedInFull
  BY DEF ProcessInv, ServedInFull
<1>2. QED
  BY <1>1, ProcessInvHolds, PTL

-----------------------------------------------------------------------------

(* Put together, each component does what it does alone, whichever moves.  *)
THEOREM PartsBehave == AllSpec => Spec /\ WindowSpec /\ TimerSpec /\ ProcessSpec
<1>1. AllInit => Init /\ WindowInit /\ TimerInit /\ ProcessInit
  BY DEF AllInit
<1>2. [AllNext]_allVars => [Next]_vars
  BY DEF AllNext, allVars, BrokerStep, WindowStep, TimerStep, LifeStep
<1>3. [AllNext]_allVars => [WindowNext]_windowVars
  BY DEF AllNext, allVars, BrokerStep, WindowStep, TimerStep, LifeStep
<1>4. [AllNext]_allVars => [TimerNext]_timerVars
  BY DEF AllNext, allVars, BrokerStep, WindowStep, TimerStep, LifeStep
<1>5. [AllNext]_allVars => [ProcessNext]_processVars
  BY DEF AllNext, allVars, BrokerStep, WindowStep, TimerStep, LifeStep
<1>6. QED
  BY <1>1, <1>2, <1>3, <1>4, <1>5, PTL
  DEF AllSpec, Spec, WindowSpec, TimerSpec, ProcessSpec

(* So all of them are sound in their types.                                *)
THEOREM AllTypesHold == AllSpec => []TypesOK
<1>1. TypeOK /\ WindowTypeOK /\ TimerTypeOK /\ ProcessTypeOK => TypesOK
  BY DEF TypesOK
<1>2. QED
  BY <1>1, PartsBehave, TypeCorrect, WindowTypeCorrect, TimerTypeCorrect,
     ProcessTypeCorrect, PTL

(* And what is proved of each component holds of the composition.          *)
THEOREM WaitingIsSafe ==
  AllSpec => [](SendsAreSafe /\ StreamFaithful /\ NeverStuck /\ OneFate /\ ServedInFull)
  BY PartsBehave, SendsAreSafeHolds, StreamFaithfulHolds, NeverStuckHolds, OneFateHolds,
     ServedInFullHolds, PTL

=============================================================================
