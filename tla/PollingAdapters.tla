-------------------------- MODULE PollingAdapters --------------------------
(***************************************************************************)
(* The adapters that ask an API at an interval: by windows of time         *)
(* (Pollers), by a cursor (CursorPollers), and cato, which keeps its       *)
(* marker over restarts.  They share no state: the one that runs, and in   *)
(* which situation, is chosen in the initial state.                        *)
(***************************************************************************)
EXTENDS Pollers

CONSTANTS
  CursorTime, BoxWindow, BoxKeeps, CursorConfs,                   \* of CursorPollers, as there
  CatoPageSize, MaxRetries, MaxErrors, MaxStarts, CatoConfs       \* of Cato, as there

VARIABLES
  which,
  cursor, processed, begun, drained,                                   \* of CursorPollers alone
  feed, retries, attempts, marker, file, batch, starts, why, dropped   \* of Cato alone

\* The variables they have in common are shared: one of them runs.
commonVars == <<conf, pc, shipped>>
pollVars == <<now, created, deadline, since, lastId, dedupe, items, fails, isStop, closer>>
windowOnly == <<start, until, last, page, asked>>
cursorOnly == <<cursor, processed, begun, drained>>
catoOnly == <<feed, retries, attempts, marker, file, batch, starts, why, dropped>>
AllVars == <<which, commonVars, pollVars, windowOnly, cursorOnly, catoOnly>>

-----------------------------------------------------------------------------
C == INSTANCE CursorPollers WITH MaxTime <- CursorTime, Confs <- CursorConfs

A == INSTANCE Cato WITH PageSize <- CatoPageSize, Confs <- CatoConfs

ASSUME CursorAssumption ==
  /\ {CursorTime, BoxWindow, BoxKeeps} \subseteq Nat
  /\ \A c \in CursorConfs : C!IsConf(c)

ASSUME CatoAssumption ==
  /\ {CatoPageSize, MaxRetries} \subseteq Nat /\ {MaxErrors, MaxStarts} \subseteq Nat \ {0}
  /\ \A c \in CatoConfs : A!IsConf(c)

-----------------------------------------------------------------------------
\* The variables of those that do not run keep one value.
NoWindow == start = 0 /\ until = 0 /\ last = 0 /\ page = 0 /\ asked = 0
NoCursor == cursor = 0 /\ processed = FALSE /\ begun = 0 /\ drained = 0
NoCato ==
  /\ feed = 0 /\ retries = 0 /\ attempts = 0 /\ marker = 0 /\ file = 0
  /\ batch = <<>> /\ starts = 0 /\ why = "no" /\ dropped = {}
NoPoll ==
  /\ now = 0 /\ created = <<>> /\ deadline = 0 /\ since = 0 /\ lastId = 0 /\ dedupe = <<>>
  /\ items = {} /\ fails = 0 /\ isStop = FALSE /\ closer = "no"

\* Situations of which nothing is claimed are left out.
AllInit ==
  \/ which = "window" /\ Init /\ (ShipsOnce \/ LosesNone) /\ NoCursor /\ NoCato
  \/ which = "cursor" /\ C!Init /\ (C!ShipsOnce \/ C!LosesNone) /\ NoWindow /\ NoCato
  \/ which = "cato" /\ A!Init /\ NoWindow /\ NoCursor /\ NoPoll

AllNext ==
  \/ which = "window" /\ Next /\ UNCHANGED <<which, cursorOnly, catoOnly>>
  \/ which = "cursor" /\ C!Next /\ UNCHANGED <<which, windowOnly, catoOnly>>
  \/ which = "cato" /\ A!Next /\ UNCHANGED <<which, pollVars, windowOnly, cursorOnly>>

AllSpec == AllInit /\ [][AllNext]_AllVars

-----------------------------------------------------------------------------
\* Type correctness of the adapters.
PollersTypeOK ==
  (which = "window" => TypeOK) /\ (which = "cursor" => C!TypeOK) /\ (which = "cato" => A!TypeOK)

\* No event is shipped twice: by the adapters that deduplicate or whose cursor moves with
\* every answer, although windows overlap, requests fail between pages and entries of the
\* dedupe maps are dropped.  cato ships one again only after a restart.
NoEventTwice ==
  /\ which = "window" => NoneShippedTwice
  /\ which = "cursor" => C!NoneShippedTwice
  /\ which = "cato" => A!AgainNeedsRestart

\* Every event is shipped by the next cycle that succeeds, in the situations in which the
\* adapter misses none.
NoEventMissed == (which = "window" => NextCycleShips) /\ (which = "cursor" => C!NextCycleShips)

\* cato: whenever the process dies, no event before the saved marker is missing.
SavedIsShipped == which = "cato" => A!SavedIsShipped
==============================================================================
