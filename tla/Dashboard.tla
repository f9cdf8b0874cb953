------------------------------- MODULE Dashboard -------------------------------
(***************************************************************************)
(* The history of executions on the page (ui/src/App.tsx): a snapshot that *)
(* the page fetches when it is loaded (handleListExecutions, ListAll), and *)
(* what the stream tells it meanwhile and afterwards.                      *)
(*                                                                         *)
(* The goroutine of an action records the execution and then broadcasts    *)
(* it.  The page opens the stream and sends its request at the same time;  *)
(* whichever of the two answers first, the snapshot replaces the list and a*)
(* message is put in front of it.                                          *)
(***************************************************************************)
EXTENDS Naturals, Sequences, FiniteSets

CONSTANTS
  Executions,
  TriggeredAt,  (* the time stamp of each, given by the sender of its cause *)
  Limit,        (* of the snapshot and of the list; 100 in the code *)
  Capacity,     (* of the client's channel *)
  Null,         (* the JSON null, which a nil slice is encoded as *)
  ErrorObject   (* {"error": "internal error"} *)

ASSUME SizesAssumption == Limit \in Nat \ {0} /\ Capacity \in Nat
ASSUME TriggeredAtAssumption == TriggeredAt \in [Executions -> Nat]

VARIABLES
  recorded,  (* rule_executions *)
  at,        (* per execution: where its goroutine is *)
  stream,    (* the EventSource: "connecting" or "open" *)
  channel,   (* what was broadcast to it and not yet delivered *)
  fetch,     (* the request: "asked", "answered" or "over" *)
  answer,    (* what was answered *)
  list,      (* the executions of the page *)
  crashed,   (* the page could not be rendered *)
  covered,   (* history: the stream was open before the query and ever since *)
  dropped,   (* history: the messages that found the channel full *)
  early      (* history: what the stream brought before the snapshot was shown *)

pageVars ==
  <<recorded, at, stream, channel, fetch, answer, list, crashed, covered, dropped, early>>
page == <<stream, channel, fetch, answer, list, crashed>>
history == <<covered, dropped, early>>

NotLists == {Null, ErrorObject}
Lists == UNION {[1..n -> Executions] : n \in 0..Limit}

PageTypeOK ==
  /\ recorded \subseteq Executions
  /\ at \in [Executions -> {"idle", "record", "broadcast", "done"}]
  /\ stream \in {"connecting", "open"}
  /\ channel \in Seq(Executions) /\ Len(channel) <= Capacity
  /\ fetch \in {"asked", "answered", "over"}
  /\ answer \in Lists \union NotLists
  /\ list \in Lists \union NotLists
  /\ crashed \in BOOLEAN
  /\ covered \in BOOLEAN
  /\ dropped \subseteq Executions
  /\ early \subseteq Executions

PageInit ==
  /\ recorded = {}
  /\ at = [e \in Executions |-> "idle"]
  /\ stream = "connecting" /\ channel = <<>>
  /\ fetch = "asked" /\ answer = <<>> /\ list = <<>>
  /\ crashed = FALSE
  /\ covered = FALSE /\ dropped = {} /\ early = {}

Shown(s) == {s[i] : i \in DOMAIN s}

Top(s) == SubSeq(s, 1, IF Len(s) < Limit THEN Len(s) ELSE Limit)

-----------------------------------------------------------------------------

(* Mutant: the clients are told before the row is written.                 *)
TellingFirst(step) ==
  CASE step = "idle" -> "broadcast"
    [] step = "broadcast" -> "record"
    [] step = "record" -> "done"

(* The goroutine of executeAction.                                         *)
After(step) ==
  CASE step = "idle" -> "record"
    [] step = "record" -> "broadcast"
    [] step = "broadcast" -> "done"

Execute(e) ==
  /\ at[e] = "idle"
  /\ at' = [at EXCEPT ![e] = After("idle")]
  /\ UNCHANGED <<recorded, page, history>>

(* Record, whose failure is only logged.                                   *)
RecordRow(e) ==
  /\ at[e] = "record"
  /\ at' = [at EXCEPT ![e] = After("record")]
  /\ recorded' \in {recorded, recorded \union {e}}
  /\ UNCHANGED <<page, history>>

Sent(e) ==
  IF stream # "open"
  THEN UNCHANGED <<channel, dropped>>
  ELSE IF Len(channel) < Capacity
       THEN channel' = Append(channel, e) /\ UNCHANGED dropped
       ELSE dropped' = dropped \union {e} /\ UNCHANGED channel

Tell(e) ==
  /\ at[e] = "broadcast"
  /\ at' = [at EXCEPT ![e] = After("broadcast")]
  /\ Sent(e)
  /\ UNCHANGED <<recorded, stream, fetch, answer, list, crashed, covered, early>>

-----------------------------------------------------------------------------

(* The stream's handler has registered the client.                         *)
Connect ==
  /\ stream = "connecting"
  /\ stream' = "open"
  /\ covered' = (fetch = "asked")
  /\ UNCHANGED <<recorded, at, channel, fetch, answer, list, crashed, dropped, early>>

(* The connection breaks; the EventSource connects again, and nothing is   *)
(* fetched again.                                                          *)
Break ==
  /\ stream = "open"
  /\ stream' = "connecting"
  /\ channel' = <<>>
  /\ covered' = FALSE
  /\ UNCHANGED <<recorded, at, fetch, answer, list, crashed, dropped, early>>

(* What ORDER BY triggered_at DESC LIMIT may answer.                       *)
Latest(set) ==
  LET n == IF Cardinality(set) < Limit THEN Cardinality(set) ELSE Limit
  IN  {s \in [1..n -> set] :
         /\ \A i, j \in 1..n : i < j => s[i] # s[j] /\ TriggeredAt[s[i]] >= TriggeredAt[s[j]]
         /\ \A e \in set \ Shown(s) : \A i \in 1..n : TriggeredAt[s[i]] >= TriggeredAt[e]}

(* handleListExecutions: without rows, the slice that ListAll returns has  *)
(* never been allocated.                                                   *)
Query ==
  /\ fetch = "asked"
  /\ fetch' = "answered"
  /\ covered' = (covered /\ stream = "open")
  /\ IF recorded = {} THEN answer' = Null ELSE answer' \in Latest(recorded)
  /\ UNCHANGED <<recorded, at, stream, channel, list, crashed, dropped, early>>

QueryFails ==
  /\ fetch = "asked"
  /\ fetch' = "answered"
  /\ answer' = ErrorObject
  /\ UNCHANGED <<recorded, at, stream, channel, list, crashed, history>>

(* setExecutions with the answer, whatever it is.  The tab that the page   *)
(* opens with renders executions.length, which null does not have.         *)
Apply ==
  /\ ~crashed
  /\ fetch = "answered"
  /\ fetch' = "over"
  /\ list' = answer
  /\ crashed' = (answer = Null)
  /\ UNCHANGED <<recorded, at, stream, channel, answer, history>>

(* The request does not come back, or not as JSON: the list stays.         *)
FetchFails ==
  /\ fetch # "over"
  /\ fetch' = "over"
  /\ covered' = FALSE
  /\ UNCHANGED <<recorded, at, stream, channel, answer, list, crashed, dropped, early>>

(* Mutant: the list is cut before the message comes in.                    *)
ReceiveUncut ==
  /\ ~crashed
  /\ channel # <<>>
  /\ list \notin NotLists
  /\ channel' = Tail(channel)
  /\ list' = <<Head(channel)>> \o Top(list)
  /\ early' = IF fetch = "over" THEN early ELSE early \union {Head(channel)}
  /\ UNCHANGED <<recorded, at, stream, fetch, answer, crashed, covered, dropped>>

(* onmessage.  What is not a list cannot be spread into one.               *)
Receive ==
  /\ ~crashed
  /\ channel # <<>>
  /\ channel' = Tail(channel)
  /\ IF list \in NotLists
     THEN crashed' = TRUE /\ UNCHANGED list
     ELSE list' = Top(<<Head(channel)>> \o list) /\ UNCHANGED crashed
  /\ early' = IF fetch = "over" THEN early ELSE early \union {Head(channel)}
  /\ UNCHANGED <<recorded, at, stream, fetch, answer, covered, dropped>>

(* The user loads the page again.                                          *)
Reload ==
  /\ stream' = "connecting" /\ channel' = <<>>
  /\ fetch' = "asked" /\ answer' = <<>> /\ list' = <<>>
  /\ crashed' = FALSE
  /\ covered' = FALSE /\ dropped' = {} /\ early' = {}
  /\ UNCHANGED <<recorded, at>>

PageNext ==
  \/ \E e \in Executions : Execute(e) \/ RecordRow(e) \/ Tell(e)
  \/ Connect \/ Break
  \/ Query \/ QueryFails \/ Apply \/ FetchFails
  \/ Receive
  \/ Reload

PageSpec == PageInit /\ [][PageNext]_pageVars

-----------------------------------------------------------------------------

Twice(e) == Cardinality({i \in DOMAIN list : list[i] = e}) > 1

(* A page whose stream was open before its query was made, and has been    *)
(* ever since, misses nothing that was recorded, because a row is written  *)
(* before it is broadcast: the execution is listed, or on its way, unless  *)
(* the channel was full, the list is, or the snapshot, being older,        *)
(* replaced what the stream had already brought.  And a list shows an      *)
(* execution twice, and never more often, only if both ways brought it: it *)
(* was recorded before the query, and broadcast after it was connected.    *)
ListShowsHistory ==
  list \notin NotLists =>
    /\ fetch = "over" /\ covered /\ ~crashed =>
         \A e \in recorded : at[e] = "done" =>
           e \in Shown(list) \union Shown(channel) \union dropped \union early
             \/ Len(list) = Limit
    /\ \A e \in Executions :
         /\ Cardinality({i \in DOMAIN list : list[i] = e}) <= 2
         /\ Twice(e) => fetch = "over" /\ e \in Shown(answer)

(* "No executions yet." (ui/src/App.tsx): while nothing has been executed  *)
(* the page can be shown.  Refuted.                                        *)
EmptyIsShown == (\A e \in Executions : at[e] = "idle") => ~crashed

=============================================================================
