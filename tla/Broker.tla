-------------------------------- MODULE Broker --------------------------------
(***************************************************************************)
(* The streaming broker (internal/api/stream.go): clients of               *)
(* /api/v1/stream, each with a handler goroutine and a channel, and the    *)
(* goroutines that broadcast to them: actions that were executed and every *)
(* line of the log.                                                        *)
(*                                                                         *)
(* Handlers change the set of clients under the write lock, broadcasts     *)
(* visit it under the read lock, one client at a time and in any order.  A *)
(* handler closes its channel after it has left, with no lock held.        *)
(*                                                                         *)
(* Each sender broadcasts once, and stands for its message.                *)
(***************************************************************************)
EXTENDS Naturals, Sequences, FiniteSets

CONSTANTS
  Clients,
  Senders,
  Capacity,  (* of a client's channel; 100 in the code *)
  None

ASSUME CapacityAssumption == Capacity \in Nat \ {0}
ASSUME ProcsAssumption == Clients \cap Senders = {} /\ None \notin Clients \union Senders

VARIABLES
  mu,        (* the lock of the set of clients *)
  clients,   (* the channels registered, named after their clients *)
  chan,      (* per client: what its channel holds *)
  closed,    (* the channels closed *)
  at,        (* per client: where its handler is *)
  gone,      (* the clients whose connection is broken *)
  received,  (* per client: what it was sent *)
  pc,        (* per sender: where its call of Broadcast is *)
  left,      (* per sender: the clients it has yet to visit *)
  told,      (* history, per sender: who had been told "connected" when it began *)
  earlier,   (* history, per sender: the broadcasts that were over when it began *)
  full       (* history: <<s, c>> when s found the channel of c full *)

vars == <<mu, clients, chan, closed, at, gone, received, pc, left, told, earlier, full>>
history == <<told, earlier, full>>

Procs == Clients \union Senders
Mu == INSTANCE RWMutex WITH lock <- mu

HandlerSteps == {"idle", "join", "register", "greet", "stream",
                 "leave", "unregister", "close", "done"}
SenderSteps == {"idle", "lock", "send", "done"}

TypeOK ==
  /\ mu \in Mu!Lock
  /\ clients \subseteq Clients
  /\ chan \in [Clients -> Seq(Senders)]
  /\ \A c \in Clients : Len(chan[c]) <= Capacity
  /\ closed \subseteq Clients
  /\ at \in [Clients -> HandlerSteps]
  /\ gone \subseteq Clients
  /\ received \in [Clients -> Seq(Senders)]
  /\ pc \in [Senders -> SenderSteps]
  /\ left \in [Senders -> SUBSET Clients]
  /\ told \in [Senders -> SUBSET Clients]
  /\ earlier \in [Senders -> SUBSET Senders]
  /\ full \subseteq Senders \X Clients

GoTo(c, step) == at' = [at EXCEPT ![c] = step]

-----------------------------------------------------------------------------

Init ==
  /\ Mu!Init
  /\ clients = {}
  /\ chan = [c \in Clients |-> <<>>]
  /\ closed = {}
  /\ at = [c \in Clients |-> "idle"]
  /\ gone = {}
  /\ received = [c \in Clients |-> <<>>]
  /\ pc = [s \in Senders |-> "idle"]
  /\ left = [s \in Senders |-> {}]
  /\ told = [s \in Senders |-> {}]
  /\ earlier = [s \in Senders |-> {}]
  /\ full = {}

(* ServeHTTP of one client.                                                *)

Connect(c) ==
  /\ at[c] = "idle"
  /\ GoTo(c, "join")
  /\ UNCHANGED <<mu, clients, chan, closed, gone, received, pc, left, history>>

(* b.mu.Lock(), on the way in and in the deferred function on the way out. *)
Announce(c) ==
  \/ /\ at[c] = "join"
     /\ GoTo(c, "register")
     /\ Mu!Announce(c)
     /\ UNCHANGED <<clients, chan, closed, gone, received, pc, left, history>>
  \/ /\ at[c] = "leave"
     /\ GoTo(c, "unregister")
     /\ Mu!Announce(c)
     /\ UNCHANGED <<clients, chan, closed, gone, received, pc, left, history>>

Register(c) ==
  /\ at[c] = "register"
  /\ Mu!MayEnter(c)
  /\ clients' = clients \union {c}
  /\ Mu!Unlock(c)
  /\ GoTo(c, "greet")
  /\ UNCHANGED <<chan, closed, gone, received, pc, left, history>>

(* The message "connected" is written to the client itself.                *)
Greet(c) ==
  /\ at[c] = "greet"
  /\ GoTo(c, "stream")
  /\ UNCHANGED <<mu, clients, chan, closed, gone, received, pc, left, history>>

(* The select of the handler's loop: a message, which a broken connection  *)
(* swallows, ...                                                           *)
Deliver(c) ==
  /\ at[c] = "stream"
  /\ chan[c] # <<>>
  /\ chan' = [chan EXCEPT ![c] = Tail(@)]
  /\ received' = IF c \in gone THEN received ELSE [received EXCEPT ![c] = Append(@, Head(chan[c]))]
  /\ UNCHANGED <<mu, clients, closed, at, gone, pc, left, history>>

(* Mutant: the channel is closed before the client is taken out.           *)
LeaveClosing(c) ==
  /\ at[c] = "stream"
  /\ c \in gone
  /\ GoTo(c, "leave")
  /\ closed' = closed \union {c}
  /\ UNCHANGED <<mu, clients, chan, gone, received, pc, left, history>>

(* ... or the end of the request's context.                                *)
Leave(c) ==
  /\ at[c] = "stream"
  /\ c \in gone
  /\ GoTo(c, "leave")
  /\ UNCHANGED <<mu, clients, chan, closed, gone, received, pc, left, history>>

Unregister(c) ==
  /\ at[c] = "unregister"
  /\ Mu!MayEnter(c)
  /\ clients' = clients \ {c}
  /\ Mu!Unlock(c)
  /\ GoTo(c, "close")
  /\ UNCHANGED <<chan, closed, gone, received, pc, left, history>>

Close(c) ==
  /\ at[c] = "close"
  /\ closed' = closed \union {c}
  /\ GoTo(c, "done")
  /\ UNCHANGED <<mu, clients, chan, gone, received, pc, left, history>>

(* The client goes away, or its network does.                              *)
HangUp(c) ==
  /\ at[c] # "idle"
  /\ c \notin gone
  /\ gone' = gone \union {c}
  /\ UNCHANGED <<mu, clients, chan, closed, at, received, pc, left, history>>

Handler(c) == Announce(c) \/ Register(c) \/ Greet(c) \/ Leave(c) \/ Unregister(c) \/ Close(c)

-----------------------------------------------------------------------------

(* Broadcast.                                                              *)

Begin(s) ==
  /\ pc[s] = "idle"
  /\ Mu!RLock(s)
  /\ pc' = [pc EXCEPT ![s] = "lock"]
  /\ told' = [told EXCEPT ![s] = {c \in Clients : at[c] = "stream"}]
  /\ earlier' = [earlier EXCEPT ![s] = {q \in Senders : pc[q] = "done"}]
  /\ UNCHANGED <<clients, chan, closed, at, gone, received, left, full>>

(* Mutant: with no client there, it returns and keeps the read lock.       *)
LockedForNobody(s) ==
  /\ pc[s] = "lock"
  /\ Mu!Reading(s)
  /\ pc' = [pc EXCEPT ![s] = IF clients = {} THEN "done" ELSE "send"]
  /\ left' = [left EXCEPT ![s] = clients]
  /\ UNCHANGED <<mu, clients, chan, closed, at, gone, received, history>>

Locked(s) ==
  /\ pc[s] = "lock"
  /\ Mu!Reading(s)
  /\ pc' = [pc EXCEPT ![s] = "send"]
  /\ left' = [left EXCEPT ![s] = clients]
  /\ UNCHANGED <<mu, clients, chan, closed, at, gone, received, history>>

(* Mutants: the send has no default and waits; a full channel ends the     *)
(* loop; the channel grows.                                                *)
SendAndWait(s, c) ==
  /\ pc[s] = "send"
  /\ c \in left[s]
  /\ Len(chan[c]) < Capacity
  /\ left' = [left EXCEPT ![s] = @ \ {c}]
  /\ chan' = [chan EXCEPT ![c] = Append(@, s)]
  /\ UNCHANGED <<mu, clients, closed, at, gone, received, pc, history>>

SendUntilFull(s, c) ==
  /\ pc[s] = "send"
  /\ c \in left[s]
  /\ IF Len(chan[c]) < Capacity
     THEN /\ chan' = [chan EXCEPT ![c] = Append(@, s)]
          /\ left' = [left EXCEPT ![s] = @ \ {c}]
          /\ UNCHANGED full
     ELSE /\ full' = full \union {<<s, c>>}
          /\ left' = [left EXCEPT ![s] = {}]
          /\ UNCHANGED chan
  /\ UNCHANGED <<mu, clients, closed, at, gone, received, pc, told, earlier>>

SendAlways(s, c) ==
  /\ pc[s] = "send"
  /\ c \in left[s]
  /\ left' = [left EXCEPT ![s] = @ \ {c}]
  /\ chan' = [chan EXCEPT ![c] = Append(@, s)]
  /\ UNCHANGED <<mu, clients, closed, at, gone, received, pc, history>>

(* The select with a default: a full channel is passed over.               *)
Send(s, c) ==
  /\ pc[s] = "send"
  /\ c \in left[s]
  /\ left' = [left EXCEPT ![s] = @ \ {c}]
  /\ IF Len(chan[c]) < Capacity
     THEN /\ chan' = [chan EXCEPT ![c] = Append(@, s)]
          /\ UNCHANGED full
     ELSE /\ full' = full \union {<<s, c>>}
          /\ UNCHANGED chan
  /\ UNCHANGED <<mu, clients, closed, at, gone, received, pc, told, earlier>>

Finish(s) ==
  /\ pc[s] = "send"
  /\ left[s] = {}
  /\ Mu!RUnlock(s)
  /\ pc' = [pc EXCEPT ![s] = "done"]
  /\ UNCHANGED <<clients, chan, closed, at, gone, received, left, history>>

Broadcast(s) == Locked(s) \/ (\E c \in Clients : Send(s, c)) \/ Finish(s)

Next ==
  \/ \E c \in Clients : Connect(c) \/ Handler(c) \/ Deliver(c) \/ HangUp(c)
  \/ \E s \in Senders : Begin(s) \/ Broadcast(s)

Spec == Init /\ [][Next]_vars

(* Goroutines are scheduled.  Nobody need connect, hang up or broadcast,   *)
(* and a client need not read: a handler may be stuck writing to it.       *)
FairSpec ==
  /\ Spec
  /\ \A c \in Clients : WF_vars(Handler(c))
  /\ \A s \in Senders : WF_vars(Broadcast(s))

-----------------------------------------------------------------------------

(* Broadcast never sends on a closed channel, which would panic, in an     *)
(* action's goroutine with no recovery, and end the process: who is being  *)
(* visited has not left, since leaving waits for the lock.                 *)
SendsAreSafe == \A s \in Senders : pc[s] = "send" => left[s] \cap closed = {}

Has(c, s) ==
  \/ \E i \in DOMAIN chan[c] : chan[c][i] = s
  \/ \E i \in DOMAIN received[c] : received[c][i] = s

(* What a client is sent.  One that has been told "connected" and is still *)
(* there misses no later broadcast, whoever comes and goes meanwhile,      *)
(* unless its channel was full; and broadcasts that follow one another     *)
(* reach it in their order and none of them twice.  (Of two that overlap,  *)
(* clients may see either first.)                                          *)
StreamFaithful ==
  /\ \A s \in Senders : pc[s] = "done" =>
       \A c \in told[s] \ gone : at[c] = "stream" => Has(c, s) \/ <<s, c>> \in full
  /\ \A c \in Clients :
       LET all == received[c] \o chan[c]
       IN  \A i, j \in DOMAIN all :
             i < j => all[i] # all[j] /\ all[j] \notin earlier[all[i]]

(* No client can hold up a broadcast, be it slow, gone or about to leave:  *)
(* the goroutine of an action, and every request that writes a log line,   *)
(* gets on.  (Each sender broadcasts once: in the end, none is at it.)     *)
BroadcastReturns == <>[](\A s \in Senders : pc[s] \in {"idle", "done"})

(* And no broadcast can keep a handler whose client is gone.               *)
GoneIsForgotten == <>[](\A c \in gone : at[c] = "done" /\ c \notin clients)

=============================================================================
