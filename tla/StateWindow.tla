---------------------------- MODULE StateWindow -----------------------------
(***************************************************************************)
(* The rolling window of a state rule (internal/window/state_window.go):   *)
(* snapshots of regions with the entities seen in them, which concurrent   *)
(* requests add in any order of emittedAt, each under the window's lock.   *)
(***************************************************************************)
EXTENDS Integers, Sequences, FiniteSets

CONSTANTS
  Cameras,
  Tracks,     (* trackIds; unique within a camera *)
  Types,      (* entity types *)
  Instants,   (* emittedAt *)
  Span,
  MaxEntries  (* bound: how many snapshots are added *)

Entry == [emittedAt : Instants, camera : Cameras, entities : SUBSET (Types \X Tracks)]

(* The duration is the rule's, and no rule is refused for it.              *)
ASSUME SpanAssumption == Instants \subseteq Nat /\ Span \in Int /\ MaxEntries \in Nat

VARIABLES
  entries,  (* the slice, in their order: snapshots by the numbers they came with *)
  latest,   (* the highest emittedAt added *)
  added     (* history: all that was added *)

stateVars == <<entries, latest, added>>

StateTypeOK ==
  /\ DOMAIN entries \subseteq DOMAIN added
  /\ \A i \in DOMAIN entries : entries[i] \in Entry
  /\ latest \in Instants \union {0}
  /\ added \in Seq(Entry)

StateInit ==
  /\ entries = <<>>
  /\ latest = 0
  /\ added = <<>>

Appended(window, entry) ==
  LET n == Len(added) + 1
  IN  [i \in DOMAIN window \union {n} |-> IF i = n THEN entry ELSE window[i]]

(* pruneLocked, which keeps the order of those it leaves.                  *)
Kept(window, cutoff) ==
  [i \in {j \in DOMAIN window : window[j].emittedAt >= cutoff} |-> window[i]]

(* Mutant: the cutoff follows the entry added instead of the newest one.   *)
AddPrunesByEntry(entry) ==
  /\ Len(added) < MaxEntries
  /\ latest' = IF entry.emittedAt > latest THEN entry.emittedAt ELSE latest
  /\ entries' = Kept(Appended(entries, entry), entry.emittedAt - Span)
  /\ added' = Append(added, entry)

AddSnapshot(entry) ==
  /\ Len(added) < MaxEntries
  /\ latest' = IF entry.emittedAt > latest THEN entry.emittedAt ELSE latest
  /\ entries' = Kept(Appended(entries, entry), latest' - Span)
  /\ added' = Append(added, entry)

StateNext == \E entry \in Entry : AddSnapshot(entry)

StateSpec == StateInit /\ [][StateNext]_stateVars

(* UniqueTrackIds: the entities of a type in a window.                     *)
UniqueTrackIds(window, type) ==
  {track \in Tracks : \E i \in DOMAIN window : <<type, track>> \in window[i].entities}

(* LatestEntry, of a window that is not empty: the first of those with the *)
(* highest emittedAt.                                                      *)
LatestEntry(window) ==
  window[CHOOSE i \in DOMAIN window :
    \A j \in DOMAIN window : window[j].emittedAt <= window[i].emittedAt
                               /\ (window[j].emittedAt = window[i].emittedAt => i <= j)]

-----------------------------------------------------------------------------

(* The snapshots at most Span older than the newest, and the one that first*)
(* told of the newest instant.                                             *)
Tops == {i \in DOMAIN added : \A j \in DOMAIN added : added[j].emittedAt <= added[i].emittedAt}

Recent == {i \in DOMAIN added : \A t \in Tops : added[t].emittedAt - added[i].emittedAt <= Span}

FirstOfNewest == added[CHOOSE i \in Tops : \A j \in Tops : i <= j]

(* "The engine maintains a sliding time window": what is read of it is what*)
(* an observer of all snapshots, in whatever order they came, would read.  *)
(* The tracks counted are those of the recent snapshots, and the latest    *)
(* entry is the one that first told of the newest instant.                 *)
WindowReads ==
  /\ \A type \in Types :
       UniqueTrackIds(entries, type)
         = {track \in Tracks : \E i \in Recent : <<type, track>> \in added[i].entities}
  /\ Span >= 0 /\ added # <<>> => entries # <<>> /\ LatestEntry(entries) = FirstOfNewest

(* "camera + entityType + trackId": the entities of different cameras count*)
(* as different.                                                           *)
CountsPerCamera ==
  \A type \in Types :
    Cardinality(UniqueTrackIds(entries, type))
      = Cardinality({p \in Cameras \X Tracks :
          \E i \in DOMAIN entries :
            entries[i].camera = p[1] /\ <<type, p[2]>> \in entries[i].entities})

=============================================================================
