-------------------------- MODULE ObservationStore --------------------------
(***************************************************************************)
(* The observation store (internal/observation/store.go): the latest       *)
(* region of each camera and region of interest, good for TTL seconds.     *)
(*                                                                         *)
(* The clock counts parts of a second, PerSecond to a second: an           *)
(* observation keeps the whole second it was received in, and its age is   *)
(* measured in parts.  Stale observations stay until the background        *)
(* Cleanup removes them.                                                   *)
(***************************************************************************)
EXTENDS Integers

CONSTANTS
  Keys,       (* cameras with a region of interest *)
  Values,     (* what a region reports *)
  Stamps,     (* the emittedAt of payloads *)
  TTL,        (* seconds *)
  PerSecond,  (* parts of a second *)
  MaxTime,    (* bound on the clock *)
  None

ASSUME TTLAssumption == TTL \in Nat /\ PerSecond \in Nat \ {0} /\ MaxTime \in Nat

Observation == [value : Values, emittedAt : Stamps, receivedAt : Nat]

ASSUME NoneIsNoObservation == None \notin Observation /\ None \notin Nat

VARIABLES
  observations,  (* Store.observations: an Observation for each key, or None *)
  now,           (* the wall clock, in parts of a second *)
  arrived        (* history: the time of the last Update of each key, or None *)

storeVars == <<observations, now, arrived>>

StoreTypeOK ==
  /\ observations \in [Keys -> Observation \union {None}]
  /\ now \in 0..MaxTime
  /\ arrived \in [Keys -> Nat \union {None}]

StoreInit ==
  /\ observations = [k \in Keys |-> None]
  /\ now = 0
  /\ arrived = [k \in Keys |-> None]

(* Store.Get tells Fresh from Stale and Missing.                           *)
IsStale(o) == now - o.receivedAt * PerSecond > TTL * PerSecond

Fresh(k) == observations[k] # None /\ ~IsStale(observations[k])

(* Mutant: the second of reception is rounded up.                          *)
UpdateRoundedUp(k, value, emittedAt) ==
  /\ observations' = [observations EXCEPT ![k] =
       [value |-> value, emittedAt |-> emittedAt, receivedAt |-> now \div PerSecond + 1]]
  /\ arrived' = [arrived EXCEPT ![k] = now]
  /\ UNCHANGED now

(* Mutant: a key that is there keeps its time of reception.                *)
UpdateNotTouched(k, value, emittedAt) ==
  /\ observations' = [observations EXCEPT ![k] =
       [value |-> value, emittedAt |-> emittedAt,
        receivedAt |-> IF @ = None THEN now \div PerSecond ELSE @.receivedAt]]
  /\ arrived' = [arrived EXCEPT ![k] = now]
  /\ UNCHANGED now

Update(k, value, emittedAt) ==
  /\ observations' = [observations EXCEPT ![k] =
       [value |-> value, emittedAt |-> emittedAt, receivedAt |-> now \div PerSecond]]
  /\ arrived' = [arrived EXCEPT ![k] = now]
  /\ UNCHANGED now

(* Mutant: the cleanup counts in whole seconds, and up to TTL.             *)
CleanupBySeconds ==
  /\ observations' = [k \in Keys |->
       IF observations[k] # None /\ now \div PerSecond - observations[k].receivedAt < TTL
       THEN observations[k] ELSE None]
  /\ UNCHANGED <<now, arrived>>

Cleanup ==
  /\ observations' = [k \in Keys |-> IF Fresh(k) THEN observations[k] ELSE None]
  /\ UNCHANGED <<now, arrived>>

Tick ==
  /\ now < MaxTime
  /\ now' = now + 1
  /\ UNCHANGED <<observations, arrived>>

StoreNext ==
  \/ \E k \in Keys, v \in Values, at \in Stamps : Update(k, v, at)
  \/ Cleanup
  \/ Tick

StoreSpec == StoreInit /\ [][StoreNext]_storeVars

-----------------------------------------------------------------------------

Age(k) == now - arrived[k]

(* "30 * time.Second": what was received within the last TTL seconds can   *)
(* be used, short of the second that the truncated time of reception may   *)
(* cost, and however often the cleanup runs.                               *)
KeptForTTL ==
  \A k \in Keys :
    arrived[k] # None /\ Age(k) <= (TTL - 1) * PerSecond => Fresh(k)

(* Nothing older than TTL seconds is ever used, truncated or not.          *)
NotUsedBeyondTTL ==
  \A k \in Keys : Fresh(k) => arrived[k] # None /\ Age(k) <= TTL * PerSecond

(* The resolution of the time of reception costs no more than that, on     *)
(* either side.                                                            *)
FreshForTTL == KeptForTTL /\ NotUsedBeyondTTL

(* The cleanup is not noticed: it changes no observation that a rule could *)
(* have used, so when it runs does not matter to any evaluation.           *)
View == [k \in Keys |-> IF Fresh(k) THEN observations[k] ELSE None]

CleanupIsInvisible == [][Cleanup => View' = View]_storeVars

=============================================================================
