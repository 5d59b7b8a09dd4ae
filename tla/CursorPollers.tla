--------------------------- MODULE CursorPollers ---------------------------
(***************************************************************************)
(* The adapters that ask an API, at an interval, for what came after the   *)
(* last answer: after a cursor that the API gave (1password, box, sophos,  *)
(* itglue), or after the time of the last item (slack, duo, wiz).  A       *)
(* record per adapter says what it asks for and what it keeps.  The API is *)
(* external: it answers the first page of the events that match, in its    *)
(* order, and a cursor that stands for the last event it has answered.     *)
(***************************************************************************)
EXTENDS Integers, FiniteSets

CONSTANTS
  N,            \* events 1 .. N, in the order in which they are published
  MaxTime,      \* bound on the clock
  Interval,     \* the WaitFor between two cycles
  BoxWindow,    \* the ten minutes box asks for without a stream position
  BoxKeeps,     \* the hour its dedupe map keeps an event
  Confs         \* the situations: see IsConf

Events == 1 .. N
None == -1

(***************************************************************************)
(* from: what is asked for without a cursor: the events from now on        *)
(*   ("now"), of the last Interval, of the last BoxWindow, from the time   *)
(*   kept ("since") or after it ("after").                                 *)
(* cursor: it is given always, when events are left ("more"), when the     *)
(*   page is full, or never.  zero: an empty answer may have position 0.   *)
(* keep: the time kept is that of the newest item of the page, one more    *)
(*   than that of the last item, or that of the first item.                *)
(* pages: all pages are asked for in one cycle.  first: a request before   *)
(*   the loop, whose items are dropped.  dedupe: items are deduplicated.   *)
(***************************************************************************)
OnePassword ==
  [from |-> "now", cursor |-> "always", zero |-> FALSE, keep |-> "none", pages |-> FALSE, first |-> FALSE,
   dedupe |-> FALSE]
ITGlue == [OnePassword EXCEPT !.from = "interval", !.cursor = "more"]

\* has_more is looked for as a string: of a JSON boolean nothing is found, which is not
\* "false" either, and the cursor is used from then on.
SophosString == ITGlue
SophosBoolean == [ITGlue EXCEPT !.cursor = "always"]

Box == [OnePassword EXCEPT !.from = "window", !.zero = TRUE, !.first = TRUE, !.dedupe = TRUE]
Slack == [OnePassword EXCEPT !.from = "since", !.cursor = "more", !.keep = "newest", !.pages = TRUE]
Duo == [OnePassword EXCEPT !.from = "since", !.cursor = "full", !.keep = "lastPlus", !.first = TRUE]
Wiz == [OnePassword EXCEPT !.from = "after", !.cursor = "never", !.keep = "first"]

Kind ==
  [onepassword |-> OnePassword, itglue |-> ITGlue, sophos |-> SophosString, sophosBool |-> SophosBoolean,
   box |-> Box, slack |-> Slack, duo |-> Duo, wiz |-> Wiz]
Adapters == {"onepassword", "itglue", "sophos", "sophosBool", "box", "slack", "duo", "wiz"}

\* PageSize: events in a page.  Fails: requests that may fail.  MaxBusy: how long the
\* calls of a cycle may take.  Ties: events may have the same time.  Descending: the API
\* answers the newest event first.  kind: the record of the adapter.
IsConf(c) ==
  /\ c \in [adapter : Adapters, kind : {Kind[a] : a \in Adapters}, PageSize : Nat \ {0}, Fails : Nat,
            MaxBusy : Nat, Ties : BOOLEAN, Descending : BOOLEAN]
  /\ c.kind = Kind[c.adapter]

VARIABLES
  conf,       \* never changed
  now,
  created,    \* per event: when it was published, None before
  pc,         \* "first", "wait", "request", "ship" or "ended"
  deadline,   \* when the timer fires; in a cycle, when the calls have returned
  cursor,     \* the event it stands for, 0 for the start of the log, None for none
  since,      \* lastTime, minTime or since
  lastId,     \* lastEventId of wiz
  processed,  \* isItemsProcessed of slack
  items,      \* to be shipped
  dedupe,     \* per event: the time kept in the dedupe map, None if it is not there
  fails,      \* requests that may still fail
  isStop, closer,
  shipped,    \* history: how often an event was shipped, up to 2
  begun,      \* history: when the first answer came, None before
  drained     \* history: when the last answer came that left nothing behind

keptVars == <<cursor, since, lastId, processed, dedupe>>
historyVars == <<shipped, begun, drained>>
vars == <<conf, now, created, pc, deadline, keptVars, items, fails, isStop, closer, historyVars>>

kind == conf.kind

Init ==
  /\ conf \in Confs
  /\ now = 0 /\ created = [e \in Events |-> None]
  /\ pc = (IF kind.first THEN "first" ELSE "wait") /\ deadline = Interval
  /\ cursor = None /\ since = 0 /\ lastId = 0 /\ processed = FALSE /\ dedupe = [e \in Events |-> None]
  /\ items = {} /\ fails = conf.Fails /\ isStop = FALSE /\ closer = "no"
  /\ shipped = [e \in Events |-> 0] /\ begun = None /\ drained = None

-----------------------------------------------------------------------------
(***************************************************************************)
(* The clock and the API.                                                  *)
(***************************************************************************)
Tick ==
  /\ now < MaxTime /\ now < deadline /\ pc \notin {"ended", "first"}
  /\ now' = now + 1
  /\ UNCHANGED <<conf, created, pc, deadline, keptVars, items, fails, isStop, closer, historyVars>>

Published == {e \in Events : created[e] # None}

Publish(e) ==
  /\ e \notin Published /\ now > 0
  /\ e > 1 => created[e - 1] # None /\ (created[e - 1] < now \/ conf.Ties)
  /\ created' = [created EXCEPT ![e] = now]
  /\ UNCHANGED <<conf, now, pc, deadline, keptVars, items, fails, isStop, closer, historyVars>>

Before(e, f) == IF conf.Descending THEN e > f ELSE e < f

\* What the request asks for.  slack and duo send the time they keep with the cursor.
Asked(e) ==
  CASE kind.from = "now" /\ cursor = None -> created[e] >= now
    [] kind.from = "interval" /\ cursor = None -> created[e] >= now - Interval
    [] kind.from = "window" /\ cursor = None -> created[e] >= now - BoxWindow
    [] kind.from = "since" -> created[e] >= since
    [] kind.from = "after" -> created[e] > since
    [] OTHER -> TRUE

Matching == {e \in Published : Asked(e) /\ (cursor > 0 => Before(cursor, e))}
Answer == {e \in Matching : Cardinality({f \in Matching : Before(f, e)}) < conf.PageSize}
FirstOf(E) == CHOOSE e \in E : \A f \in E : f = e \/ Before(e, f)
LastOf(E) == CHOOSE e \in E : \A f \in E : f = e \/ Before(f, e)

Position ==
  IF Answer # {} THEN LastOf(Answer)
  ELSE IF cursor # None THEN cursor
  ELSE Cardinality(Published)

\* The cursor of the answer.
NextCursor ==
  CASE kind.cursor = "always" -> Position
    [] kind.cursor = "more" /\ Answer # Matching -> Position
    [] kind.cursor = "full" /\ Cardinality(Answer) = conf.PageSize -> Position
    [] OTHER -> None

-----------------------------------------------------------------------------
(***************************************************************************)
(* What is kept of an answer.                                              *)
(***************************************************************************)
\* wiz takes the items up to the one it has seen last.
New ==
  {e \in Answer : /\ kind.dedupe => dedupe[e] = None
                  /\ kind.from = "after" /\ lastId \in Answer => Before(e, lastId)}

\* Mutant: entries are dropped although the window may show their events again.
CullEarly(D) == [e \in Events |-> IF D[e] < now - 1 THEN None ELSE D[e]]

Cull(D) == [e \in Events |-> IF D[e] < now - BoxKeeps THEN None ELSE D[e]]

Deduped == IF kind.dedupe THEN Cull([e \in Events |-> IF e \in New THEN created[e] ELSE dedupe[e]]) ELSE dedupe

KeptTime ==
  IF New = {} THEN since
  ELSE CASE kind.keep = "newest" -> CHOOSE t \in {created[e] : e \in New} : \A e \in New : created[e] <= t
         [] kind.keep = "lastPlus" -> created[LastOf(New)] + 1
         [] kind.keep = "first" /\ FirstOf(Answer) \in New -> created[FirstOf(Answer)]
         [] OTHER -> since

\* Errors leave the cursor as it is.
CursorKept == cursor

Answered ==
  /\ begun' = IF begun = None THEN now ELSE begun
  /\ drained' = IF Answer = Matching THEN now ELSE drained

-----------------------------------------------------------------------------
(***************************************************************************)
(* The request before the loop.                                            *)
(***************************************************************************)
\* The items are dropped; duo keeps its minTime.
FirstRequest ==
  /\ pc = "first"
  /\ cursor' = NextCursor /\ dedupe' = Deduped
  /\ pc' = "wait" /\ deadline' = now + Interval
  /\ Answered
  /\ UNCHANGED <<conf, now, created, since, lastId, processed, items, fails, isStop, closer, shipped>>

\* The stream position of box stays empty; the fetcher of duo ends.
FirstFails ==
  /\ pc = "first" /\ fails > 0
  /\ fails' = fails - 1
  /\ IF kind.dedupe THEN cursor' = 0 /\ pc' = "wait" ELSE pc' = "ended" /\ UNCHANGED cursor
  /\ deadline' = now + Interval
  /\ UNCHANGED <<conf, now, created, since, lastId, processed, dedupe, items, isStop, closer, historyVars>>

-----------------------------------------------------------------------------
(***************************************************************************)
(* A cycle.                                                                *)
(***************************************************************************)
WaitTimedOut ==
  /\ pc = "wait" /\ now = deadline
  /\ pc' = "request" /\ deadline' = now + conf.MaxBusy /\ processed' = FALSE
  /\ UNCHANGED <<conf, now, created, cursor, since, lastId, dedupe, items, fails, isStop, closer, historyVars>>

WaitStopped ==
  /\ pc = "wait" /\ isStop
  /\ pc' = "ended"
  /\ UNCHANGED <<conf, now, created, deadline, keptVars, items, fails, isStop, closer, historyVars>>

Request ==
  /\ pc = "request"
  /\ items' = New
  /\ dedupe' = Deduped /\ since' = KeptTime
  /\ processed' = (kind.pages /\ (processed \/ New # {}))
  /\ lastId' = IF kind.from = "after" /\ New # {} THEN LastOf(New) ELSE lastId
  /\ \/ cursor' = NextCursor
     \/ kind.zero /\ Answer = {} /\ cursor' = None
  /\ pc' = "ship"
  /\ Answered
  /\ UNCHANGED <<conf, now, created, deadline, fails, isStop, closer, shipped>>

Wait ==
  /\ pc' = IF isStop THEN "ended" ELSE "wait"
  /\ deadline' = now + Interval

\* The next cycle tries again.
RequestFails ==
  /\ pc = "request" /\ ~kind.pages /\ fails > 0
  /\ fails' = fails - 1
  /\ cursor' = CursorKept
  /\ Wait
  /\ UNCHANGED <<conf, now, created, since, lastId, processed, dedupe, items, isStop, closer, historyVars>>

\* slack: an answer that is not 200 is one without entries and without a next page.
SlackNotOK ==
  /\ pc = "request" /\ kind.pages /\ fails > 0
  /\ fails' = fails - 1
  /\ cursor' = None /\ pc' = "ship"
  /\ UNCHANGED <<conf, now, created, deadline, since, lastId, processed, dedupe, items, isStop, closer, historyVars>>

\* slack: any other error ends the fetcher.
SlackFails ==
  /\ pc = "request" /\ kind.pages /\ fails > 0
  /\ fails' = fails - 1
  /\ pc' = "ended"
  /\ UNCHANGED <<conf, now, created, deadline, keptVars, items, isStop, closer, historyVars>>

Ship(e) ==
  /\ pc = "ship" /\ e \in items /\ e = FirstOf(items)
  /\ items' = items \ {e}
  /\ shipped' = [shipped EXCEPT ![e] = IF @ = 2 THEN 2 ELSE @ + 1]
  /\ UNCHANGED <<conf, now, created, pc, deadline, keptVars, fails, isStop, closer, begun, drained>>

\* The fetcher ends, and the others of the adapter are told; slack has no others.
ShipFails ==
  /\ pc = "ship" /\ items # {} /\ conf.Fails > 0
  /\ isStop' = (isStop \/ ~kind.pages) /\ pc' = "ended"
  /\ UNCHANGED <<conf, now, created, deadline, keptVars, items, fails, closer, historyVars>>

NextPage ==
  /\ pc = "ship" /\ items = {} /\ kind.pages /\ cursor # None
  /\ pc' = "request"
  /\ UNCHANGED <<conf, now, created, deadline, keptVars, items, fails, isStop, closer, historyVars>>

\* lastTime++ if entries were processed.
NextTime == IF processed THEN since + 1 ELSE since

ShippedAll ==
  /\ pc = "ship" /\ items = {} /\ ~(kind.pages /\ cursor # None)
  /\ since' = NextTime
  /\ Wait
  /\ UNCHANGED <<conf, now, created, cursor, lastId, processed, dedupe, items, fails, isStop, closer, historyVars>>

-----------------------------------------------------------------------------
\* Close: doStop.Set(), then wgSenders.Wait() and the end of the client.
CloseStop ==
  /\ closer = "no"
  /\ isStop' = TRUE /\ closer' = "wait"
  /\ UNCHANGED <<conf, now, created, pc, deadline, keptVars, items, fails, historyVars>>

CloseWait ==
  /\ closer = "wait" /\ pc = "ended"
  /\ closer' = "closed"
  /\ UNCHANGED <<conf, now, created, pc, deadline, keptVars, items, fails, isStop, historyVars>>

\* The clock has reached its bound, or the adapter is closed.
Stopped == (closer = "closed" \/ now = MaxTime) /\ UNCHANGED vars

Cycle ==
  \/ FirstRequest \/ FirstFails \/ WaitTimedOut \/ WaitStopped \/ Request \/ RequestFails \/ SlackNotOK \/ SlackFails
  \/ \E e \in Events : Ship(e)
  \/ ShipFails \/ NextPage \/ ShippedAll

Next == Tick \/ (\E e \in Events : Publish(e)) \/ Cycle \/ CloseStop \/ CloseWait \/ Stopped

Spec == Init /\ [][Next]_vars

-----------------------------------------------------------------------------
\* Type correctness.
TypeOK ==
  /\ conf \in Confs /\ now \in 0 .. MaxTime
  /\ created \in [Events -> None .. MaxTime] /\ dedupe \in [Events -> None .. MaxTime]
  /\ pc \in {"first", "wait", "request", "ship", "ended"} /\ deadline \in 0 .. MaxTime + Interval + conf.MaxBusy
  /\ cursor \in None .. N /\ since \in 0 .. now + 1 /\ lastId \in 0 .. N /\ items \subseteq Events
  /\ fails \in 0 .. conf.Fails /\ {isStop, processed} \subseteq BOOLEAN /\ closer \in {"no", "wait", "closed"}
  /\ shipped \in [Events -> 0 .. 2] /\ begun \in None .. now /\ drained \in None .. now

OnePage == conf.PageSize > N

\* The windows of itglue share an end; wiz relies on the newest item being the first, duo
\* on its being the last.  box, after an empty answer with position 0, asks for the window
\* again: page by page that may take longer than the dedupe map keeps an event.
ShipsOnce ==
  /\ conf.adapter \notin {"itglue", "sophos"}
  /\ conf.adapter = "wiz" => conf.Descending
  /\ conf.adapter = "duo" => ~conf.Descending
  /\ conf.adapter = "box" => ~conf.Descending /\ OnePage /\ BoxWindow <= BoxKeeps

\* No event is shipped twice.
NoneShippedTwice == ShipsOnce => \A e \in Events : shipped[e] < 2

\* The situations in which an adapter ships every event.  A cursor that stands for the
\* last event of an answer never gets to newer ones if they come before it; duo with a
\* full page of which the last item is the oldest skips what is older.
LosesNone ==
  CASE conf.adapter \in {"onepassword", "sophosBool"} -> ~conf.Descending
    [] conf.adapter \in {"itglue", "sophos"} -> OnePage /\ conf.MaxBusy = 0 /\ conf.Fails = 0
    [] conf.adapter = "box" -> ~conf.Descending /\ (conf.Fails + 1) * (Interval + 2 * conf.MaxBusy) <= BoxWindow
    [] conf.adapter = "slack" -> ~conf.Ties /\ (OnePage \/ ~conf.Descending)
    [] conf.adapter = "duo" -> ~conf.Ties /\ (OnePage \/ ~conf.Descending)
    [] conf.adapter = "wiz" -> ~conf.Ties /\ OnePage /\ conf.Descending

\* Once the first answer has come, every event is shipped by the first cycle after its
\* publication whose answer leaves nothing behind, whatever failed before.
NextCycleShips ==
  LosesNone /\ pc = "wait" /\ begun # None =>
    \A e \in Published : begun < created[e] /\ created[e] < drained => shipped[e] > 0
=============================================================================
