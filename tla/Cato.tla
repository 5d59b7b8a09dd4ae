-------------------------------- MODULE Cato --------------------------------
(***************************************************************************)
(* cato: handleEvent asks for the events after the marker, ships them and  *)
(* saves the marker in config.txt, for the next start of the process.  The *)
(* events feed and the file are external; the marker is the number of      *)
(* events before it.                                                       *)
(***************************************************************************)
EXTENDS Integers, Sequences

CONSTANTS
  N,            \* events 1 .. N of the feed
  PageSize,     \* events in an answer
  MaxRetries,   \* requests of send that may fail before it gives up
  MaxErrors,    \* answers with "errors", 3 in handleEvent
  MaxStarts,    \* bound: starts of the process
  Confs         \* the situations: see IsConf

Events == 1 .. N

\* ShipFails: Ship may fail.  Dies: the process may be killed.  Calls: requests, and the
\* writing of the file, may fail.
IsConf(c) == c \in [ShipFails : BOOLEAN, Dies : BOOLEAN, Calls : BOOLEAN]

VARIABLES
  conf,
  feed,        \* events that there are
  pc,          \* "query", "ship", "truncate", "write", "sleep" or "dead"
  retries, attempts,
  marker,      \* the global, 0 for ""
  file,        \* config.txt, 0 when it is empty or not there
  batch,       \* events to ship, in order
  starts,
  why,         \* history: what ended the process
  shipped,     \* history: per event, how often it was shipped, up to MaxStarts
  dropped      \* history: events whose Ship failed

vars == <<conf, feed, pc, retries, attempts, marker, file, batch, starts, why, shipped, dropped>>

Init ==
  /\ conf \in Confs
  /\ feed = 0 /\ pc = "query" /\ retries = 0 /\ attempts = 0
  /\ marker = 0 /\ file = 0 /\ batch = <<>> /\ starts = 1 /\ why = "no"
  /\ shipped = [e \in Events |-> 0] /\ dropped = {}

-----------------------------------------------------------------------------
NewEvent ==
  /\ feed < N
  /\ feed' = feed + 1
  /\ UNCHANGED <<conf, pc, retries, attempts, marker, file, batch, starts, why, shipped, dropped>>

Upto == IF feed < marker + PageSize THEN feed ELSE marker + PageSize

\* send: a request that succeeds.  The marker moves before the events are shipped.
Fetch ==
  /\ pc = "query"
  /\ marker' = Upto
  /\ batch' = [i \in 1 .. (Upto - marker) |-> marker + i]
  /\ pc' = "ship" /\ retries' = 0 /\ attempts' = 0
  /\ UNCHANGED <<conf, feed, file, starts, why, shipped, dropped>>

\* Any error of a request; a rate limit is waited for and not counted.
SendRetries ==
  /\ pc = "query" /\ conf.Calls /\ retries < MaxRetries
  /\ retries' = retries + 1
  /\ UNCHANGED <<conf, feed, pc, attempts, marker, file, batch, starts, why, shipped, dropped>>

Die(reason) == pc' = "dead" /\ why' = reason /\ batch' = <<>>

\* log.Fatal
SendGivesUp ==
  /\ pc = "query" /\ conf.Calls /\ retries = MaxRetries
  /\ Die("fatal")
  /\ UNCHANGED <<conf, feed, retries, attempts, marker, file, starts, shipped, dropped>>

\* An answer with errors: handleEvent asks again, and after the last attempt it takes
\* the missing data for a map.
AnswerErrors ==
  /\ pc = "query" /\ conf.Calls
  /\ retries' = 0 /\ attempts' = attempts + 1
  /\ IF attempts + 1 = MaxErrors THEN Die("panic") ELSE UNCHANGED <<pc, why, batch>>
  /\ UNCHANGED <<conf, feed, marker, file, starts, shipped, dropped>>

ShipNext ==
  /\ pc = "ship" /\ batch # <<>>
  /\ shipped' = [shipped EXCEPT ![Head(batch)] = IF @ < MaxStarts THEN @ + 1 ELSE @]
  /\ batch' = Tail(batch)
  /\ UNCHANGED <<conf, feed, pc, retries, attempts, marker, file, starts, why, dropped>>

\* The error is reported, and the event left out.
ShipFails ==
  /\ pc = "ship" /\ batch # <<>> /\ conf.ShipFails
  /\ dropped' = dropped \union {Head(batch)}
  /\ batch' = Tail(batch)
  /\ UNCHANGED <<conf, feed, pc, retries, attempts, marker, file, starts, why, shipped>>

\* Mutant: the marker is saved before the events are shipped.
SaveFirst ==
  /\ pc = "ship"
  /\ file' = marker /\ pc' = IF batch = <<>> THEN "truncate" ELSE pc
  /\ UNCHANGED <<conf, feed, retries, attempts, marker, batch, starts, why, shipped, dropped>>

ShippedAll ==
  /\ pc = "ship" /\ batch = <<>>
  /\ pc' = "truncate"
  /\ UNCHANGED <<conf, feed, retries, attempts, marker, file, batch, starts, why, shipped, dropped>>

\* WriteFile empties the file and then writes it.
Truncate ==
  /\ pc = "truncate"
  /\ file' = 0 /\ pc' = "write"
  /\ UNCHANGED <<conf, feed, retries, attempts, marker, batch, starts, why, shipped, dropped>>

Write ==
  /\ pc = "write"
  /\ file' = marker /\ pc' = "sleep"
  /\ UNCHANGED <<conf, feed, retries, attempts, marker, batch, starts, why, shipped, dropped>>

\* WriteFile fails before or after it has emptied the file: the error is only logged.
WriteFails ==
  /\ pc \in {"truncate", "write"} /\ conf.Calls
  /\ pc' = "sleep"
  /\ UNCHANGED <<conf, feed, retries, attempts, marker, file, batch, starts, why, shipped, dropped>>

Sleep ==
  /\ pc = "sleep"
  /\ pc' = "query"
  /\ UNCHANGED <<conf, feed, retries, attempts, marker, file, batch, starts, why, shipped, dropped>>

\* The process is killed.
Killed ==
  /\ pc # "dead" /\ conf.Dies
  /\ Die("killed")
  /\ UNCHANGED <<conf, feed, retries, attempts, marker, file, starts, shipped, dropped>>

\* Close: wg.Done() of a WaitGroup nobody has added to.
Close ==
  /\ pc # "dead"
  /\ Die("close")
  /\ UNCHANGED <<conf, feed, retries, attempts, marker, file, starts, shipped, dropped>>

\* NewCatoAdapter reads config.txt.
Restart ==
  /\ pc = "dead" /\ starts < MaxStarts
  /\ marker' = file /\ pc' = "query" /\ retries' = 0 /\ attempts' = 0
  /\ starts' = starts + 1
  /\ UNCHANGED <<conf, feed, file, batch, why, shipped, dropped>>

\* Nobody starts the process again.
Dead == pc = "dead" /\ starts = MaxStarts /\ UNCHANGED vars

HandleEvent == Fetch \/ ShipNext \/ ShippedAll \/ Truncate \/ Write \/ Sleep

Next ==
  \/ HandleEvent \/ NewEvent \/ SendRetries \/ SendGivesUp \/ AnswerErrors \/ ShipFails
  \/ WriteFails \/ Killed \/ Close \/ Restart \/ Dead

Spec == Init /\ [][Next]_vars

-----------------------------------------------------------------------------
\* Type correctness.
TypeOK ==
  /\ conf \in Confs /\ IsConf(conf) /\ feed \in 0 .. N
  /\ pc \in {"query", "ship", "truncate", "write", "sleep", "dead"}
  /\ retries \in 0 .. MaxRetries /\ attempts \in 0 .. MaxErrors
  /\ marker \in 0 .. feed /\ file \in 0 .. feed /\ starts \in 1 .. MaxStarts
  /\ shipped \in [Events -> 0 .. MaxStarts] /\ dropped \subseteq Events

Saved == 1 .. file

\* Whenever the process dies and starts again, no event before the saved marker is
\* missing: it was shipped, or its Ship failed.
SavedIsShipped == \A e \in Saved : shipped[e] > 0 \/ e \in dropped

\* An event is shipped again only by a process that was started after one died.
AgainNeedsRestart == \A e \in Events : shipped[e] <= starts
=============================================================================
