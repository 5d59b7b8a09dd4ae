---------------------------- MODULE SentinelOne ----------------------------
(***************************************************************************)
(* sentinelone: one fetchEvents goroutine per endpoint.  Each asks for the *)
(* events after the last one it has seen, page by page, tries a request    *)
(* again after a transient error, and asks again at once as long as it     *)
(* finds data.  They share doStop.  The API is external: it answers the    *)
(* events of a window, oldest first.                                       *)
(***************************************************************************)
EXTENDS Integers, FiniteSets

CONSTANTS
  Endpoints,
  N,                 \* events 1 .. N, published in this order, at every endpoint
  MaxTime,           \* bound on the clock
  MaxRetryAttempts,
  Back,              \* the 15 seconds before the first request
  Confs              \* the situations: see IsConf

Events == 1 .. N
None == -1

\* endpoints: those that are fetched.  events, cycles: bounds on the events that are
\* published and on the runs of the outer loop before doStop is set.  PageSize: events
\* in a page.  Ties: events may have the same time.  Missing: events without createdAt.
\* Fails: calls may fail.  Zone: how far local time is ahead of UTC; negative in the west.
IsConf(c) ==
  /\ DOMAIN c = {"endpoints", "events", "cycles", "PageSize", "Ties", "Missing", "Fails", "Zone"}
  /\ c.endpoints \subseteq Endpoints /\ c.PageSize \in Nat \ {0} /\ {c.events, c.cycles} \subseteq Nat
  /\ c.Missing \subseteq Events /\ {c.Ties, c.Fails} \subseteq BOOLEAN /\ c.Zone \in Int

VARIABLES
  conf, now,
  created,       \* per event: its time, None before it is published
  isStop, closer,
  pc,            \* per endpoint: "head", "wait", "pages", "try", "backoff", "ship" or "ended"
  cycles,        \* per endpoint: runs of the outer loop
  isFirstRun, isDataFound,
  lastCreatedAt, \* per endpoint
  start, until,  \* per endpoint: the window of the queries
  nextPage,      \* per endpoint: the last event of the page before, 0 for ""
  attempt,
  items,         \* per endpoint: to be shipped
  begun,         \* history, per endpoint: the start of the first window
  asked,         \* history, per endpoint: the end of the last window that was fetched to the end
  shipped        \* history, per endpoint and event: how often, up to 2

loopVars == <<cycles, isFirstRun, isDataFound, lastCreatedAt>>
queryVars == <<start, until, nextPage, attempt, items>>
historyVars == <<begun, asked, shipped>>
vars == <<conf, now, created, isStop, closer, pc, loopVars, queryVars, historyVars>>

Init ==
  /\ conf \in Confs
  /\ now = 1 /\ created = [e \in Events |-> None] /\ isStop = FALSE /\ closer = "no"
  /\ pc = [p \in Endpoints |-> IF p \in conf.endpoints THEN "head" ELSE "ended"]
  /\ cycles = [p \in Endpoints |-> 0]
  /\ isFirstRun = [p \in Endpoints |-> TRUE] /\ isDataFound = [p \in Endpoints |-> FALSE]
  /\ lastCreatedAt = [p \in Endpoints |-> 0]
  /\ start = [p \in Endpoints |-> 0] /\ until = [p \in Endpoints |-> 0]
  /\ nextPage = [p \in Endpoints |-> 0] /\ attempt = [p \in Endpoints |-> 0] /\ items = [p \in Endpoints |-> {}]
  /\ begun = [p \in Endpoints |-> None] /\ asked = [p \in Endpoints |-> None]
  /\ shipped = [p \in Endpoints |-> [e \in Events |-> 0]]

-----------------------------------------------------------------------------
Tick ==
  /\ now < MaxTime
  /\ now' = now + 1
  /\ UNCHANGED <<conf, created, isStop, closer, pc, loopVars, queryVars, historyVars>>

Publish(e) ==
  /\ created[e] = None /\ e <= conf.events
  /\ e > 1 => created[e - 1] # None /\ (created[e - 1] < now \/ conf.Ties)
  /\ created' = [created EXCEPT ![e] = now]
  /\ UNCHANGED <<conf, now, isStop, closer, pc, loopVars, queryVars, historyVars>>

-----------------------------------------------------------------------------
(***************************************************************************)
(* The outer loop.                                                         *)
(***************************************************************************)
\* Mutant: the window begins where the last one ended.
WindowAfter(p) == IF isFirstRun[p] THEN now - Back ELSE until[p] + 1

\* createdAt__gte the start, and createdAt__gt the last event.
WindowStart(p) == IF isFirstRun[p] THEN now - Back ELSE lastCreatedAt[p] + 1

Query(p) ==
  /\ pc' = [pc EXCEPT ![p] = "pages"] /\ cycles' = [cycles EXCEPT ![p] = IF @ < conf.cycles THEN @ + 1 ELSE @]
  /\ isFirstRun' = [isFirstRun EXCEPT ![p] = FALSE] /\ isDataFound' = [isDataFound EXCEPT ![p] = FALSE]
  /\ lastCreatedAt' = [lastCreatedAt EXCEPT ![p] = IF isFirstRun[p] THEN WindowStart(p) ELSE @]
  /\ start' = [start EXCEPT ![p] = WindowStart(p)] /\ until' = [until EXCEPT ![p] = now]
  /\ nextPage' = [nextPage EXCEPT ![p] = 0]
  /\ begun' = [begun EXCEPT ![p] = IF isFirstRun[p] THEN now - Back ELSE @]
  /\ UNCHANGED <<conf, now, created, isStop, closer, attempt, items, asked, shipped>>

AtOnce(p) ==
  /\ pc[p] = "head" /\ (isFirstRun[p] \/ isDataFound[p]) /\ (cycles[p] < conf.cycles \/ isStop)
  /\ Query(p)

HeadWaits(p) ==
  /\ pc[p] = "head" /\ ~isFirstRun[p] /\ ~isDataFound[p]
  /\ pc' = [pc EXCEPT ![p] = "wait"]
  /\ UNCHANGED <<conf, now, created, isStop, closer, loopVars, queryVars, historyVars>>

WaitTimedOut(p) ==
  /\ pc[p] = "wait" /\ cycles[p] < conf.cycles
  /\ Query(p)

WaitStopped(p) ==
  /\ pc[p] = "wait" /\ isStop
  /\ pc' = [pc EXCEPT ![p] = "ended"]
  /\ UNCHANGED <<conf, now, created, isStop, closer, loopVars, queryVars, historyVars>>

-----------------------------------------------------------------------------
(***************************************************************************)
(* The pages, and the attempts to get one.                                 *)
(***************************************************************************)
PagesLoop(p) ==
  /\ pc[p] = "pages"
  /\ pc' = [pc EXCEPT ![p] = IF isStop THEN "head" ELSE "try"]
  /\ attempt' = [attempt EXCEPT ![p] = 0]
  /\ UNCHANGED <<conf, now, created, isStop, closer, loopVars, start, until, nextPage, items, historyVars>>

TryStopped(p) ==
  /\ pc[p] = "try" /\ isStop
  /\ pc' = [pc EXCEPT ![p] = "ended"]
  /\ UNCHANGED <<conf, now, created, isStop, closer, loopVars, queryVars, historyVars>>

Window(p) == {e \in Events : created[e] # None /\ start[p] <= created[e] /\ created[e] <= until[p] /\ e > nextPage[p]}
Answer(p) == {e \in Window(p) : Cardinality({f \in Window(p) : f < e}) < conf.PageSize}
Newest(E) == CHOOSE e \in E : \A f \in E : f <= e

GetFromAPI(p) ==
  /\ pc[p] = "try" /\ ~isStop
  /\ items' = [items EXCEPT ![p] = Answer(p)]
  /\ nextPage' = [nextPage EXCEPT ![p] = IF Answer(p) = Window(p) THEN 0 ELSE Newest(Answer(p))]
  /\ asked' = [asked EXCEPT ![p] = IF Answer(p) = Window(p) THEN until[p] ELSE @]
  /\ pc' = [pc EXCEPT ![p] = "ship"]
  /\ UNCHANGED <<conf, now, created, isStop, closer, loopVars, start, until, attempt, begun, shipped>>

PermanentError(p) ==
  /\ pc[p] = "try" /\ ~isStop /\ conf.Fails
  /\ isStop' = TRUE /\ pc' = [pc EXCEPT ![p] = "ended"]
  /\ UNCHANGED <<conf, now, created, closer, loopVars, queryVars, historyVars>>

\* The last attempt leaves the pages, and the loop goes on: at once, if a page before
\* had data.
TransientError(p) ==
  /\ pc[p] = "try" /\ ~isStop /\ conf.Fails
  /\ pc' = [pc EXCEPT ![p] = IF attempt[p] + 1 >= MaxRetryAttempts THEN "head" ELSE "backoff"]
  /\ UNCHANGED <<conf, now, created, isStop, closer, loopVars, queryVars, historyVars>>

BackoffTimedOut(p) ==
  /\ pc[p] = "backoff"
  /\ pc' = [pc EXCEPT ![p] = "try"] /\ attempt' = [attempt EXCEPT ![p] = @ + 1]
  /\ UNCHANGED <<conf, now, created, isStop, closer, loopVars, start, until, nextPage, items, historyVars>>

BackoffStopped(p) ==
  /\ pc[p] = "backoff" /\ isStop
  /\ pc' = [pc EXCEPT ![p] = "ended"]
  /\ UNCHANGED <<conf, now, created, isStop, closer, loopVars, queryVars, historyVars>>

-----------------------------------------------------------------------------
(***************************************************************************)
(* The items of a page.                                                    *)
(***************************************************************************)
Oldest(E) == CHOOSE e \in E : \A f \in E : e <= f

\* An event without a time counts as one of now: of local time, written down as if it
\* were UTC.
TimeOf(e) == IF e \in conf.Missing THEN now + conf.Zone ELSE created[e]

Advance(p, e) == [lastCreatedAt EXCEPT ![p] = TimeOf(e)]

Found(p, e) ==
  /\ isDataFound' = [isDataFound EXCEPT ![p] = TRUE]
  /\ lastCreatedAt' = Advance(p, e)

Ship(p) ==
  /\ pc[p] = "ship" /\ items[p] # {}
  /\ LET e == Oldest(items[p])
     IN /\ Found(p, e)
        /\ shipped' = [shipped EXCEPT ![p][e] = IF @ = 2 THEN 2 ELSE @ + 1]
        /\ items' = [items EXCEPT ![p] = @ \ {e}]
  /\ UNCHANGED <<conf, now, created, isStop, closer, pc, cycles, isFirstRun, start, until, nextPage, attempt, begun,
                 asked>>

\* The rest of the page is left out, and the loops end at their next look at doStop.
ShipFails(p) ==
  /\ pc[p] = "ship" /\ items[p] # {} /\ conf.Fails
  /\ Found(p, Oldest(items[p]))
  /\ isStop' = TRUE /\ items' = [items EXCEPT ![p] = {}]
  /\ pc' = [pc EXCEPT ![p] = "head"]
  /\ UNCHANGED <<conf, now, created, closer, cycles, isFirstRun, start, until, nextPage, attempt, historyVars>>

PageShipped(p) ==
  /\ pc[p] = "ship" /\ items[p] = {}
  /\ pc' = [pc EXCEPT ![p] = IF nextPage[p] = 0 THEN "head" ELSE "pages"]
  /\ UNCHANGED <<conf, now, created, isStop, closer, loopVars, queryVars, historyVars>>

-----------------------------------------------------------------------------
CloseStop ==
  /\ closer = "no"
  /\ isStop' = TRUE /\ closer' = "wait"
  /\ UNCHANGED <<conf, now, created, pc, loopVars, queryVars, historyVars>>

\* wgSenders.Wait(), Drain and Close of the client.
CloseWait ==
  /\ closer = "wait" /\ \A p \in Endpoints : pc[p] = "ended"
  /\ closer' = "closed"
  /\ UNCHANGED <<conf, now, created, isStop, pc, loopVars, queryVars, historyVars>>

\* A goroutine waits, has ended, or the bound is reached.
Idle == UNCHANGED vars

Fetch(p) ==
  \/ AtOnce(p) \/ HeadWaits(p) \/ WaitTimedOut(p) \/ WaitStopped(p)
  \/ PagesLoop(p) \/ TryStopped(p) \/ GetFromAPI(p) \/ PermanentError(p) \/ TransientError(p)
  \/ BackoffTimedOut(p) \/ BackoffStopped(p) \/ Ship(p) \/ ShipFails(p) \/ PageShipped(p)

Next ==
  \/ Tick \/ CloseStop \/ CloseWait \/ Idle
  \/ \E e \in Events : Publish(e)
  \/ \E p \in Endpoints : Fetch(p)

Goroutines == CloseWait \/ \E p \in Endpoints : Fetch(p)

\* The goroutines run; the cycles are bounded and every behaviour comes to rest, so that
\* one condition says that none is left behind.
Fairness == WF_vars(Goroutines)

Spec == Init /\ [][Next]_vars
FairSpec == Spec /\ Fairness

-----------------------------------------------------------------------------
\* What lastCreatedAt may be: a time that has been, or one of local time.
Times == (1 - Back .. MaxTime) \union {t + conf.Zone : t \in 1 .. MaxTime}
Starts == Times \union {t + 1 : t \in Times}

\* Type correctness.
TypeOK ==
  /\ conf \in Confs /\ IsConf(conf) /\ now \in 1 .. MaxTime
  /\ created \in [Events -> None .. MaxTime] /\ isStop \in BOOLEAN /\ closer \in {"no", "wait", "closed"}
  /\ pc \in [Endpoints -> {"head", "wait", "pages", "try", "backoff", "ship", "ended"}]
  /\ {isFirstRun, isDataFound} \subseteq [Endpoints -> BOOLEAN] /\ cycles \in [Endpoints -> 0 .. conf.cycles]
  /\ lastCreatedAt \in [Endpoints -> Times] /\ start \in [Endpoints -> Starts]
  /\ until \in [Endpoints -> 0 .. now] /\ nextPage \in [Endpoints -> 0 .. N]
  /\ attempt \in [Endpoints -> 0 .. MaxRetryAttempts - 1] /\ items \in [Endpoints -> SUBSET Events]
  /\ begun \in [Endpoints -> Int] /\ asked \in [Endpoints -> None .. now]
  /\ shipped \in [Endpoints -> [Events -> 0 .. 2]]

\* No event is shipped twice, although pages are tried again, left half-way and asked for
\* again by time: unless one without a time sets the next window back to the hours by
\* which local time is behind.
ShippedOnce ==
  conf.Zone >= 0 \/ conf.Missing = {} => \A p \in Endpoints : \A e \in Events : shipped[p][e] < 2

\* When an endpoint waits, it has shipped every event after the start of the first
\* window and before the end of the last one it has fetched to its end: if no two events
\* have the same time and all have one.
WindowsAreShipped ==
  ~conf.Ties /\ conf.Missing = {} /\ ~isStop =>
    \A p \in Endpoints : pc[p] \in {"head", "wait"} =>
      \A e \in Events : created[e] # None /\ begun[p] < created[e] /\ created[e] < asked[p] => shipped[p][e] = 1

Ended == \A p \in Endpoints : pc[p] = "ended"

\* A permanent error of one endpoint, a failed Ship and Close end all endpoints.
StopsAll == isStop ~> Ended
=============================================================================
