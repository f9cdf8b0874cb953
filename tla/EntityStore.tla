----------------------------- MODULE EntityStore -----------------------------
(***************************************************************************)
(* Tracked entities across cameras and regions (internal/entity/store.go)  *)
(* and the correlator that asks for them (correlator.go).                  *)
(*                                                                         *)
(* Get gives out the pointer to an entity's state.  UpdateFromState goes   *)
(* on changing that state under the lock of the store, and the correlator  *)
(* reads it after the lock was released.  An hourly cleanup drops entities *)
(* whose last sighting is older than the TTL, by the time stamps of senders*)
(* and the clock of the engine.  What is dropped stays alive as long as    *)
(* somebody has its pointer.                                               *)
(***************************************************************************)
EXTENDS Integers, Sequences, FiniteSets

CONSTANTS
  Tracked,       (* trackId and entity type *)
  EntityCameras,
  Rois,
  Callers,       (* goroutines in FindCorrelated *)
  Objects,       (* EntityState cells *)
  EntityTTL,     (* 24 hours *)
  HistoryLimit,  (* 50 events *)
  LastDay,       (* bound of the clock *)
  MaxSightings,  (* bound: how many sightings there are *)
  NoEntity

Blank == ""  (* a region without roiId *)

VARIABLES
  today,
  entities,   (* the map *)
  heap,       (* the EntityState cells *)
  find,       (* per caller: its Question, or NoEntity *)
  times,      (* history: the number of sightings *)
  sightings,  (* history, per key: what was Seen since its state was created *)
  could,      (* history, per caller: the answers right at some time since it asked *)
  answer      (* per caller: what it has answered, until it asks again *)

entityVars == <<today, entities, heap, find, times, sightings, could, answer>>

Days == 0..LastDay
Senses == {"cameras", "rois"}

EntityState ==
  [lastSeen : Days,
   current  : Rois \union {Blank},
   previous : Rois \union {Blank},
   cameras  : SUBSET EntityCameras,
   rois     : SUBSET (Rois \union {Blank}),
   history  : Seq(Days)]

(* A caller's question: a key, the sense of it, and what Get gave.         *)
Question == [key : Tracked, across : Senses, got : Objects \union {NoEntity}]

ASSUME LimitAssumption ==
  /\ HistoryLimit \in Nat \ {0} /\ EntityTTL \in Nat
  /\ LastDay \in Nat /\ MaxSightings \in Nat

ASSUME BlankAssumption ==
  Blank \notin Rois /\ NoEntity \notin Objects /\ NoEntity \notin EntityState \union Question

(* What was seen of an entity: where, in state payloads; when, by events;  *)
(* and the times of all the sightings in their order of arrival.           *)
Place == [camera : EntityCameras, roi : Rois \union {Blank}]
Seen == [states : Seq(Place), events : Seq(Days), times : Seq(Days)]
Unseen == [states |-> <<>>, events |-> <<>>, times |-> <<>>]

InState(seen, camera, roi, at) ==
  [seen EXCEPT !.states = Append(@, [camera |-> camera, roi |-> roi]), !.times = Append(@, at)]
ByEvent(seen, at) == [seen EXCEPT !.events = Append(@, at), !.times = Append(@, at)]

EntityTypeOK ==
  /\ today \in Days
  /\ entities \in [Tracked -> Objects \union {NoEntity}]
  /\ \A k, q \in Tracked : entities[k] = entities[q] /\ entities[k] # NoEntity => k = q
  /\ heap \in [Objects -> EntityState \union {NoEntity}]
  /\ \A k \in Tracked : entities[k] # NoEntity => heap[entities[k]] # NoEntity
  /\ find \in [Callers -> Question \union {NoEntity}]
  /\ sightings \in [Tracked -> Seen]
  /\ could \in [Callers -> SUBSET BOOLEAN]
  /\ answer \in [Callers -> BOOLEAN \union {NoEntity}]

(* Mutant: a new entity is in no region, instead of in one without a name. *)
NewStateNowhere == [lastSeen |-> 0, current |-> NoEntity, previous |-> NoEntity,
                    cameras |-> {}, rois |-> {}, history |-> <<>>]

NewState == [lastSeen |-> 0, current |-> Blank, previous |-> Blank,
             cameras |-> {}, rois |-> {}, history |-> <<>>]

(* More than one camera, or more than one region.                          *)
Matches(object, across) ==
  object # NoEntity /\
    Cardinality(IF across = "cameras" THEN heap[object].cameras ELSE heap[object].rois) > 1

(* The answers that are right from here on are right for those who asked.  *)
Track ==
  could' = [c \in Callers |->
    IF find[c] = NoEntity THEN could[c]
    ELSE could[c] \union {Matches(entities[find[c].key], find[c].across)'}]

-----------------------------------------------------------------------------

EntityInit ==
  /\ today = 0
  /\ entities = [k \in Tracked |-> NoEntity]
  /\ heap = [o \in Objects |-> NoEntity]
  /\ find = [c \in Callers |-> NoEntity]
  /\ times = 0
  /\ sightings = [k \in Tracked |-> Unseen]
  /\ could = [c \in Callers |-> {}]
  /\ answer = [c \in Callers |-> NoEntity]

(* Mutant: a state that is out of the map is used again.                   *)
FreeOnceDropped(o) == \A k \in Tracked : entities[k] # o

(* Memory nobody points to.                                                *)
Free(o) ==
  /\ \A k \in Tracked : entities[k] # o
  /\ \A c \in Callers : find[c] # NoEntity => find[c].got # o

Note(k, seen) ==
  /\ times < MaxSightings
  /\ times' = times + 1
  /\ sightings' = [sightings EXCEPT ![k] = seen]

(* Mutant: every sighting moves the region on.                             *)
SightedAgain(st, camera, roi, at) ==
  [st EXCEPT !.previous = st.current, !.lastSeen = at, !.current = roi,
             !.cameras = @ \union {camera}, !.rois = @ \union {roi}]

Sighted(st, camera, roi, at) ==
  [st EXCEPT !.previous = IF st.current \notin {roi, Blank} THEN st.current ELSE @,
             !.lastSeen = at, !.current = roi,
             !.cameras = @ \union {camera}, !.rois = @ \union {roi}]

(* UpdateFromState, for one of a region's entities: the others are updated *)
(* in the same critical section, each its own.                             *)
UpdateFromState(k, camera, roi, at) ==
  /\ Note(k, InState(sightings[k], camera, roi, at))
  /\ IF entities[k] # NoEntity
     THEN /\ heap' = [heap EXCEPT ![entities[k]] = Sighted(@, camera, roi, at)]
          /\ UNCHANGED entities
     ELSE \E o \in {p \in Objects : Free(p)} :
            /\ entities' = [entities EXCEPT ![k] = o]
            /\ heap' = [heap EXCEPT ![o] = Sighted(NewState, camera, roi, at)]
  /\ UNCHANGED <<today, find, answer>>
  /\ Track

(* UpdateFromEvent keeps the last events.                                  *)
Noted(st, at) ==
  LET all == Append(st.history, at)
  IN  [st EXCEPT !.lastSeen = at,
                 !.history = IF Len(all) > HistoryLimit THEN Tail(all) ELSE all]

UpdateFromEvent(k, at) ==
  /\ Note(k, ByEvent(sightings[k], at))
  /\ IF entities[k] # NoEntity
     THEN /\ heap' = [heap EXCEPT ![entities[k]] = Noted(@, at)]
          /\ UNCHANGED entities
     ELSE \E o \in {p \in Objects : Free(p)} :
            /\ entities' = [entities EXCEPT ![k] = o]
            /\ heap' = [heap EXCEPT ![o] = Noted(NewState, at)]
  /\ UNCHANGED <<today, find, answer>>
  /\ Track

(* Mutant: an entity is dropped as soon as the TTL is reached.             *)
ExpiredEarly(k) == entities[k] # NoEntity /\ today - heap[entities[k]].lastSeen >= EntityTTL

Expired(k) == entities[k] # NoEntity /\ today - heap[entities[k]].lastSeen > EntityTTL

CleanupEntities ==
  /\ \E k \in Tracked : Expired(k)
  /\ entities' = [k \in Tracked |-> IF Expired(k) THEN NoEntity ELSE entities[k]]
  /\ sightings' = [k \in Tracked |-> IF Expired(k) THEN Unseen ELSE sightings[k]]
  /\ UNCHANGED <<today, heap, find, times, answer>>
  /\ Track

EntityTick ==
  /\ today < LastDay
  /\ today' = today + 1
  /\ UNCHANGED <<entities, heap, find, times, sightings, could, answer>>

(* FindCorrelated, for one key: Get, ...                                   *)
Get(c, k, across) ==
  /\ find[c] = NoEntity
  /\ find' = [find EXCEPT ![c] = [key |-> k, across |-> across, got |-> entities[k]]]
  /\ could' = [could EXCEPT ![c] = {Matches(entities[k], across)}]
  /\ answer' = [answer EXCEPT ![c] = NoEntity]
  /\ UNCHANGED <<today, entities, heap, times, sightings>>

(* ... and the length of the map behind the pointer, with no lock.         *)
Judge(c) ==
  /\ find[c] # NoEntity
  /\ answer' = [answer EXCEPT ![c] = Matches(find[c].got, find[c].across)]
  /\ find' = [find EXCEPT ![c] = NoEntity]
  /\ could' = [could EXCEPT ![c] = {}]
  /\ UNCHANGED <<today, entities, heap, times, sightings>>

EntityNext ==
  \/ \E k \in Tracked, camera \in EntityCameras, roi \in Rois \union {Blank}, at \in 0..today :
       UpdateFromState(k, camera, roi, at)
  \/ \E k \in Tracked, at \in 0..today : UpdateFromEvent(k, at)
  \/ CleanupEntities
  \/ EntityTick
  \/ \E c \in Callers, k \in Tracked, across \in Senses : Get(c, k, across)
  \/ \E c \in Callers : Judge(c)

EntitySpec == EntityInit /\ [][EntityNext]_entityVars

-----------------------------------------------------------------------------

(* Where the places s were left, to which an entity was seen to move.      *)
Moves(s) == {i \in 1..(Len(s) - 1) : s[i].roi # Blank /\ s[i].roi # s[i + 1].roi}

PlacesKept(st, s) ==
  /\ st.current = IF s = <<>> THEN Blank ELSE s[Len(s)].roi
  /\ IF Moves(s) = {} THEN st.previous = Blank
     ELSE \E i \in Moves(s) : (\A j \in Moves(s) : j <= i) /\ st.previous = s[i].roi
  /\ st.cameras = {s[i].camera : i \in DOMAIN s}
  /\ st.rois = {s[i].roi : i \in DOMAIN s}

LastOf(e) ==
  LET kept == IF Len(e) < HistoryLimit THEN Len(e) ELSE HistoryLimit
  IN  [i \in 1..kept |-> e[Len(e) - kept + i]]

Reflects(st, seen) == PlacesKept(st, seen.states) /\ st.history = LastOf(seen.events)

(* What the store keeps of an entity is what its sightings say since it    *)
(* became known: it is where it was seen last, and it was before in the    *)
(* last named region that it was seen to leave, however often it was seen  *)
(* there; of the places it has ever been in and of its last events, none is*)
(* missing, and none is left from an entity before it.                     *)
SightingsKept ==
  \A k \in Tracked : entities[k] # NoEntity => Reflects(heap[entities[k]], sightings[k])

InOrder(s) == \A i \in DOMAIN s : i > 1 => s[i - 1] <= s[i]

(* An entity whose sightings arrive in their order is not forgotten within *)
(* a TTL of any of them.  (After a late one, which sets the time of the    *)
(* last sighting back, it may be.)                                         *)
RememberedForTTL ==
  [][\A k \in Tracked :
       entities[k] # NoEntity /\ entities'[k] = NoEntity /\ InOrder(sightings[k].times)
         => \A i \in DOMAIN sightings[k].times :
              today - sightings[k].times[i] > EntityTTL]_entityVars

(* The correlator answers what was true at some moment between its question*)
(* and its answer, although it reads a state that others change, or that   *)
(* was dropped and followed by another in the meantime.                    *)
AnswerBracketed ==
  [][\A c \in Callers : find[c] # NoEntity /\ find'[c] = NoEntity => answer'[c] \in could[c]]_entityVars

=============================================================================
