------------------------------ MODULE Pollers ------------------------------
(***************************************************************************)
(* The adapters that ask an API for the events of a time window, again and *)
(* again:                                                                  *)
(*                                                                         *)
(*   for !doStop.WaitFor(interval) { request the pages; ship the items }   *)
(*                                                                         *)
(* They differ in the window they ask for, in what they take for new, and  *)
(* in where they go on after success and failure; a record per adapter     *)
(* says how.  The API is external: it answers a page of the published      *)
(* events of the window, oldest first.                                     *)
(***************************************************************************)
EXTENDS Integers, FiniteSets

CONSTANTS
  N,             \* events 1 .. N, in the order in which they are published
  MaxTime,       \* bound on the clock
  Interval,      \* the WaitFor between two cycles
  LongOverlap,   \* overlapPeriod of 30 minutes
  MaxSpan,       \* the hour that Proofpoint allows a window to span
  Confs          \* the situations: see Conf

Events == 1 .. N
ShortOverlap == Interval          \* overlapPeriod of 30 seconds, as long as the wait
ProofpointOverlap == 2 * Interval \* 2 minutes, the wait is one

-----------------------------------------------------------------------------
(***************************************************************************)
(* from: the window starts at since ("since"), overlap before now but not  *)
(*   before since ("overlap"), overlap before since ("margin"), or there   *)
(*   is none ("all").  bounded: it ends when the cycle began.              *)
(* new: which items of an answer are shipped.                              *)
(* stamp: the time the dedupe map keeps for an event.                      *)
(* pages: the API has none, only the first one is asked for, all are asked *)
(*   for before anything is shipped, or each is shipped before the next.   *)
(* more: the answer says that there is another page ("told"), or the page  *)
(*   is full ("full").  rejected: the request for the next page has the    *)
(*   answer's link or token in the place of the start time.                *)
(* next: the new since; "lastNew" is the time of the last item that was    *)
(*   new in the last page, and the zero time if there was no page.         *)
(* stops: http.NewRequest that fails sets doStop.                          *)
(* local: the first since is local time, written down as if it were UTC.   *)
(***************************************************************************)
DedupeWindow ==
  [from |-> "overlap", overlap |-> ShortOverlap, bounded |-> TRUE, new |-> "unseen", stamp |-> "created",
   pages |-> "all", more |-> "told", rejected |-> FALSE, next |-> "lastNew", stops |-> TRUE, local |-> FALSE]

Okta == [DedupeWindow EXCEPT !.overlap = LongOverlap, !.pages = "first", !.next = "never"]
Hubspot == [DedupeWindow EXCEPT !.overlap = LongOverlap, !.rejected = TRUE, !.next = "never"]
Pandadoc == [DedupeWindow EXCEPT !.more = "full"]
Zendesk == [DedupeWindow EXCEPT !.rejected = TRUE]
Mimecast == [DedupeWindow EXCEPT !.stops = FALSE]
Sublime ==
  [DedupeWindow EXCEPT !.from = "all", !.bounded = FALSE, !.new = "unseenLater", !.more = "full", !.next = "newest"]
ProofpointTap ==
  [DedupeWindow EXCEPT !.from = "margin", !.overlap = ProofpointOverlap, !.stamp = "now", !.pages = "none",
                       !.next = "until"]

LastEvent ==
  [from |-> "since", overlap |-> 0, bounded |-> FALSE, new |-> "notLast", stamp |-> "none", pages |-> "first",
   more |-> "told", rejected |-> FALSE, next |-> "lastNew", stops |-> FALSE, local |-> TRUE]

Entraid == LastEvent
Defender == LastEvent
MsGraph == LastEvent

TrendMicro ==
  [LastEvent EXCEPT !.bounded = TRUE, !.new = "any", !.pages = "all", !.next = "now", !.local = FALSE]
Bitwarden == [TrendMicro EXCEPT !.pages = "each", !.next = "until"]

Adapters ==
  {"okta", "hubspot", "pandadoc", "zendesk", "mimecast", "sublime", "proofpoint_tap", "entraid", "defender",
   "ms_graph", "trendmicro", "bitwarden"}

Kind ==
  [okta |-> Okta, hubspot |-> Hubspot, pandadoc |-> Pandadoc, zendesk |-> Zendesk, mimecast |-> Mimecast,
   sublime |-> Sublime, proofpoint_tap |-> ProofpointTap, entraid |-> Entraid, defender |-> Defender,
   ms_graph |-> MsGraph, trendmicro |-> TrendMicro, bitwarden |-> Bitwarden]

\* PageSize: events in a page.  Fails: requests that may fail.  MaxBusy: how long the
\* requests and Ships of a cycle may take.  Ties: events may have the same time.  Zone: how
\* far local time is ahead of UTC; negative in the west.
Conf == [adapter : Adapters, PageSize : Nat \ {0}, Fails : Nat, MaxBusy : Nat, Ties : BOOLEAN, Zone : Int]

ASSUME PollersAssumption ==
  /\ {N, MaxTime, Interval, LongOverlap, MaxSpan} \subseteq Nat
  /\ ProofpointOverlap < MaxSpan
  /\ Confs \subseteq Conf

None == -1

VARIABLES
  conf,       \* never changed
  now,
  created,    \* per event: when it was published, None before
  pc,         \* "wait", "page", "ship" or "ended"
  deadline,   \* when the timer fires; in a cycle, when the calls have returned
  since,      \* since, lastFetch or lastStartDate; 0 is the zero time
  lastId,     \* lastEventId, 0 for ""
  start, until, \* the window of the cycle
  page,       \* the page asked for next
  last,       \* lastDetectionTime
  items,      \* to be shipped
  dedupe,     \* per event: the time kept in the dedupe map, None if it is not there
  fails,      \* requests that may still fail
  isStop, closer,
  shipped,    \* history: how often an event was shipped, up to 2
  asked       \* history: when the last cycle began whose requests all succeeded

windowVars == <<since, lastId, start, until, last, dedupe>>
vars == <<conf, now, created, pc, deadline, windowVars, page, items, fails, isStop, closer, shipped, asked>>

kind == Kind[conf.adapter]
Later(s, t) == IF s < t THEN t ELSE s

\* The adapter starts at 0, and this is the start it writes down.
First == IF kind.local THEN conf.Zone ELSE 0

Init ==
  /\ conf \in Confs
  /\ now = 0 /\ created = [e \in Events |-> None]
  /\ pc = "wait" /\ deadline = Interval
  /\ since = First /\ lastId = 0 /\ start = 0 /\ until = 0 /\ last = 0
  /\ page = 1 /\ items = {} /\ dedupe = [e \in Events |-> None]
  /\ fails = conf.Fails /\ isStop = FALSE /\ closer = "no"
  /\ shipped = [e \in Events |-> 0] /\ asked = 0

-----------------------------------------------------------------------------
(***************************************************************************)
(* The world.                                                              *)
(***************************************************************************)
Tick ==
  /\ now < MaxTime /\ now < deadline /\ pc # "ended"
  /\ now' = now + 1
  /\ UNCHANGED <<conf, created, pc, deadline, windowVars, page, items, fails, isStop, closer, shipped, asked>>

Publish(e) ==
  /\ created[e] = None /\ now > 0
  /\ e > 1 => created[e - 1] # None /\ (created[e - 1] < now \/ conf.Ties)
  /\ created' = [created EXCEPT ![e] = now]
  /\ UNCHANGED <<conf, now, pc, deadline, windowVars, page, items, fails, isStop, closer, shipped, asked>>

\* What the window holds when the API answers, and its pages.
Window ==
  {e \in Events : created[e] # None /\ start <= created[e] /\ (kind.bounded => created[e] <= until)}
Place(e) == Cardinality({f \in Window : f <= e})
Answer ==
  {e \in Window : kind.pages # "none" => (page - 1) * conf.PageSize < Place(e) /\ Place(e) <= page * conf.PageSize}
Newest(E) == CHOOSE e \in E : \A f \in E : f <= e

-----------------------------------------------------------------------------
(***************************************************************************)
(* A cycle.  The requests of it are made from the moment WaitFor returns.  *)
(***************************************************************************)
WindowStart ==
  CASE kind.from = "overlap" -> Later(now - kind.overlap, since)
    [] kind.from = "margin" -> since - kind.overlap
    [] kind.from = "since" -> since
    [] kind.from = "all" -> 0

\* The minute less keeps the span below the hour.
WindowEnd ==
  IF kind.from = "margin" /\ now - WindowStart > MaxSpan THEN WindowStart + MaxSpan - 1 ELSE now

\* Mutant: the pages are counted from 0.
FirstPageZero == 0

FirstPage == 1

Request ==
  /\ pc = "wait" /\ now = deadline
  /\ pc' = "page" /\ page' = FirstPage /\ items' = {}
  /\ start' = WindowStart /\ until' = WindowEnd
  /\ last' = IF kind.next = "lastNew" /\ kind.new = "unseen" THEN 0 ELSE since
  /\ deadline' = now + conf.MaxBusy
  /\ UNCHANGED <<conf, now, created, since, lastId, dedupe, fails, isStop, closer, shipped, asked>>

WaitStopped ==
  /\ pc = "wait" /\ isStop
  /\ pc' = "ended"
  /\ UNCHANGED <<conf, now, created, deadline, windowVars, page, items, fails, isStop, closer, shipped, asked>>

New ==
  {e \in Answer :
     CASE kind.new = "unseen" -> dedupe[e] = None
       [] kind.new = "unseenLater" -> dedupe[e] = None /\ created[e] > since
       [] kind.new = "notLast" -> e # lastId
       [] kind.new = "any" -> TRUE}

Stamped ==
  [e \in Events |-> IF e \in New /\ kind.stamp # "none"
                    THEN IF kind.stamp = "now" THEN now ELSE created[e]
                    ELSE dedupe[e]]

Cull(D) ==
  [e \in Events |-> IF D[e] < (IF kind.from = "margin" THEN start ELSE now - kind.overlap) THEN None ELSE D[e]]

More ==
  /\ kind.pages \in {"all", "each"}
  /\ IF kind.more = "full" THEN Cardinality(Answer) = conf.PageSize
     ELSE page * conf.PageSize < Cardinality(Window)

LastDetectionTime ==
  CASE kind.next = "lastNew" -> IF New = {} THEN since ELSE created[Newest(New)]
    [] kind.next = "newest" -> IF New = {} THEN last ELSE Later(last, created[Newest(New)])
    [] kind.next = "until" /\ kind.pages = "none" -> until
    [] OTHER -> last

LastId == IF kind.new # "notLast" THEN lastId ELSE IF Answer = {} THEN 0 ELSE Newest(Answer)

\* The API has no answer to a start that is not a time.
Rejected == kind.rejected /\ page > 1

\* A page that others follow.  fetchAllPages of trendmicro leaves them out when doStop is set.
GetPage ==
  /\ pc = "page" /\ ~Rejected /\ More
  /\ conf.adapter = "trendmicro" => ~isStop
  /\ items' = items \union New
  /\ dedupe' = Stamped /\ last' = LastDetectionTime
  /\ page' = page + 1
  /\ pc' = IF kind.pages = "each" THEN "ship" ELSE "page"
  /\ UNCHANGED <<conf, now, created, deadline, since, lastId, start, until, fails, isStop, closer, shipped, asked>>

GetLastPage ==
  /\ pc = "page" /\ ~Rejected /\ (~More \/ (conf.adapter = "trendmicro" /\ isStop))
  /\ items' = items \union New
  /\ dedupe' = Cull(Stamped)
  /\ since' = LastDetectionTime /\ last' = LastDetectionTime
  /\ lastId' = LastId
  /\ page' = 0 /\ pc' = "ship" /\ asked' = until
  /\ UNCHANGED <<conf, now, created, deadline, start, until, fails, isStop, closer, shipped>>

\* WaitFor answers at once when doStop is set.
Wait(stop) ==
  /\ pc' = IF stop THEN "ended" ELSE "wait"
  /\ deadline' = now + Interval

\* What was collected is dropped, and the dedupe map keeps it.  bitwarden only leaves
\* the loop over the further pages, and its checkpoint moves on.  A request that cannot be
\* made ends some of the adapters.
PageFails ==
  /\ pc = "page" /\ (fails > 0 \/ Rejected)
  /\ fails' = IF Rejected THEN fails ELSE fails - 1
  /\ items' = {}
  /\ since' = IF kind.pages = "each" /\ page > 1 THEN until ELSE last
  /\ lastId' = 0
  /\ isStop' \in {isStop, isStop \/ kind.stops}
  /\ Wait(isStop')
  /\ UNCHANGED <<conf, now, created, start, until, last, dedupe, page, closer, shipped, asked>>

Ship(e) ==
  /\ pc = "ship" /\ e \in items /\ \A f \in items : e <= f
  /\ items' = items \ {e}
  /\ shipped' = [shipped EXCEPT ![e] = IF @ = 2 THEN 2 ELSE @ + 1]
  /\ UNCHANGED <<conf, now, created, pc, deadline, windowVars, page, fails, isStop, closer, asked>>

ShipFails ==
  /\ pc = "ship" /\ items # {} /\ conf.Fails > 0
  /\ isStop' = TRUE /\ pc' = "ended"
  /\ UNCHANGED <<conf, now, created, deadline, windowVars, page, items, fails, closer, shipped, asked>>

\* The next page of bitwarden, which looks at doStop first.
ShippedPage ==
  /\ pc = "ship" /\ items = {} /\ page > 0
  /\ pc' = IF isStop THEN "ended" ELSE "page"
  /\ UNCHANGED <<conf, now, created, deadline, windowVars, page, items, fails, isStop, closer, shipped, asked>>

\* Mutant: the checkpoint is the time the cycle ended.
CheckpointNow == IF kind.next \in {"now", "until"} THEN now ELSE since

Checkpoint ==
  CASE kind.next = "now" -> now
    [] kind.next = "until" -> until
    [] OTHER -> since

ShippedAll ==
  /\ pc = "ship" /\ items = {} /\ page = 0
  /\ since' = Checkpoint
  /\ Wait(isStop)
  /\ UNCHANGED <<conf, now, created, lastId, start, until, last, dedupe, page, items, fails, isStop, closer,
                 shipped, asked>>

-----------------------------------------------------------------------------
\* Close: doStop.Set(), then wgSenders.Wait() and the end of the client.
CloseStop ==
  /\ closer = "no"
  /\ isStop' = TRUE /\ closer' = "wait"
  /\ UNCHANGED <<conf, now, created, pc, deadline, windowVars, page, items, fails, shipped, asked>>

CloseWait ==
  /\ closer = "wait" /\ pc = "ended"
  /\ closer' = "closed"
  /\ UNCHANGED <<conf, now, created, pc, deadline, windowVars, page, items, fails, isStop, shipped, asked>>

\* The clock has reached its bound, or the adapter is closed.
Stopped == (closer = "closed" \/ now = MaxTime) /\ UNCHANGED vars

Cycle ==
  \/ Request \/ WaitStopped \/ GetPage \/ GetLastPage \/ PageFails
  \/ \E e \in Events : Ship(e)
  \/ ShipFails \/ ShippedPage \/ ShippedAll

Next == Tick \/ (\E e \in Events : Publish(e)) \/ Cycle \/ CloseStop \/ CloseWait \/ Stopped

Spec == Init /\ [][Next]_vars

-----------------------------------------------------------------------------
\* Type correctness.
TypeOK ==
  /\ conf \in Confs /\ now \in 0 .. MaxTime
  /\ created \in [Events -> None .. MaxTime] /\ dedupe \in [Events -> None .. MaxTime]
  /\ pc \in {"wait", "page", "ship", "ended"} /\ deadline \in 0 .. MaxTime + Interval + conf.MaxBusy
  /\ since \in 0 .. now \union {First} /\ lastId \in 0 .. N
  /\ start \in -ProofpointOverlap .. now \union {First} /\ until \in 0 .. now
  /\ page \in 0 .. N + 1 /\ last \in 0 .. now \union {First} /\ items \subseteq Events
  /\ fails \in 0 .. conf.Fails /\ isStop \in BOOLEAN /\ closer \in {"no", "wait", "closed"}
  /\ pc = "wait" => items = {}
  /\ pc = "page" => page > 0
  /\ shipped \in [Events -> 0 .. 2] /\ asked \in 0 .. now

\* No answer has a second page; no call fails; two windows in a row overlap, even if the
\* requests between them fail.
OnePage == conf.PageSize > N
Steady == conf.Fails = 0
Overlapping == (conf.Fails + 1) * (Interval + conf.MaxBusy) <= kind.overlap

\* The dedupe map is enough in all situations, the last event's id only in some; the
\* windows of trendmicro and bitwarden share an end.
ShipsOnce ==
  \/ kind.new \in {"unseen", "unseenLater"}
  \/ kind.new = "notLast" /\ Steady /\ ~conf.Ties

\* No event is shipped twice, although windows overlap, requests fail between pages and
\* the entries of the dedupe map are dropped again.
NoneShippedTwice == ShipsOnce => \A e \in Events : shipped[e] < 2

\* The situations in which an adapter ships every event.
LosesNone ==
  CASE conf.adapter \in {"okta", "hubspot"} -> OnePage /\ Overlapping
    [] conf.adapter \in {"pandadoc", "mimecast"} -> Steady /\ Overlapping
    [] conf.adapter = "zendesk" -> Steady /\ Overlapping /\ OnePage
    [] conf.adapter = "sublime" -> ~conf.Ties /\ (Steady \/ OnePage)
    [] conf.adapter = "proofpoint_tap" -> TRUE
    [] conf.adapter \in {"entraid", "defender", "ms_graph"} -> OnePage
    [] conf.adapter = "trendmicro" -> conf.MaxBusy = 0
    [] conf.adapter = "bitwarden" -> Steady \/ OnePage

\* Every event is shipped by the first cycle that begins after its publication and whose
\* requests succeed, whatever failed or took long before.  Where the first since is local
\* time, and that is ahead of UTC, the events published before it are not asked for.
NextCycleShips ==
  LosesNone /\ pc = "wait" =>
    \A e \in Events : created[e] # None /\ First <= created[e] /\ created[e] < asked => shipped[e] > 0
=============================================================================
