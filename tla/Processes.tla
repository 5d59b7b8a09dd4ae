----------------------------- MODULE Processes -----------------------------
(***************************************************************************)
(* The process around the adapters, and two adapters made of several       *)
(* goroutines: syslog (with stdin) and sentinelone.  They share no state:  *)
(* the one that runs, and in which situation, is chosen in the initial     *)
(* state.                                                                  *)
(***************************************************************************)
EXTENDS Supervisor

\* Of the adapters, as in Syslog and SentinelOne.
CONSTANTS Conns, Only, SyslogConfs, Endpoints, N, MaxTime, MaxRetryAttempts, Back, S1Confs

VARIABLES
  which,
  \* Syslog
  yConf, yIsRunning, yListener, yAcceptor, yAccepted, yPeer, ySent, yGot, yReader, ySt, yChunks, yRetrying, yCloser,
  yStopped, yShipped, yLossy, yReads,
  \* SentinelOne
  oConf, oNow, oCreated, oIsStop, oCloser, oPc, oCycles, oIsFirstRun, oIsDataFound, oLastCreatedAt, oStart, oUntil,
  oNextPage, oAttempt, oItems, oBegun, oAsked, oShipped

syslogVars ==
  <<yConf, yIsRunning, yListener, yAcceptor, yAccepted, yPeer, ySent, yGot, yReader, ySt, yChunks, yRetrying, yCloser,
    yStopped, yShipped, yLossy, yReads>>
s1Vars ==
  <<oConf, oNow, oCreated, oIsStop, oCloser, oPc, oCycles, oIsFirstRun, oIsDataFound, oLastCreatedAt, oStart, oUntil,
    oNextPage, oAttempt, oItems, oBegun, oAsked, oShipped>>
ProcessesVars == <<which, vars, syslogVars, s1Vars>>

-----------------------------------------------------------------------------
Y == INSTANCE Syslog WITH
  Confs <- SyslogConfs,
  conf <- yConf, isRunning <- yIsRunning, listener <- yListener, acceptor <- yAcceptor, accepted <- yAccepted,
  peer <- yPeer, sent <- ySent, got <- yGot, reader <- yReader, st <- ySt, chunks <- yChunks, retrying <- yRetrying,
  closer <- yCloser, stopped <- yStopped, shipped <- yShipped, lossy <- yLossy, reads <- yReads

O == INSTANCE SentinelOne WITH
  Confs <- S1Confs,
  conf <- oConf, now <- oNow, created <- oCreated, isStop <- oIsStop, closer <- oCloser, pc <- oPc, cycles <- oCycles,
  isFirstRun <- oIsFirstRun, isDataFound <- oIsDataFound, lastCreatedAt <- oLastCreatedAt, start <- oStart,
  until <- oUntil, nextPage <- oNextPage, attempt <- oAttempt, items <- oItems, begun <- oBegun, asked <- oAsked,
  shipped <- oShipped

ASSUME SyslogAssumption == \A c \in SyslogConfs : Y!IsConf(c)

ASSUME S1Assumption ==
  /\ N \in Nat /\ {MaxTime, MaxRetryAttempts, Back} \subseteq Nat \ {0}
  /\ \A c \in S1Confs : O!IsConf(c)

-----------------------------------------------------------------------------
\* Those that do not run stay in one initial state.
ProcessesInit ==
  /\ which \in {"main", "syslog", "s1"}
  /\ Init /\ Y!Init /\ O!Init
  /\ which # "main" => conf = CHOOSE c \in Confs : TRUE
  /\ which # "syslog" => yConf = CHOOSE c \in SyslogConfs : TRUE
  /\ which # "s1" => oConf = CHOOSE c \in S1Confs : TRUE

OfMain(A) == which = "main" /\ A /\ UNCHANGED <<which, syslogVars, s1Vars>>
OfSyslog(A) == which = "syslog" /\ A /\ UNCHANGED <<which, vars, s1Vars>>
OfS1(A) == which = "s1" /\ A /\ UNCHANGED <<which, vars, syslogVars>>

ProcessesNext == OfMain(Next) \/ OfSyslog(Y!Next) \/ OfS1(O!Next)

\* The fairness of each, for the one that runs.
ProcessesFairness ==
  /\ WF_ProcessesVars(OfMain(Goroutines))
  /\ WF_ProcessesVars(OfSyslog(Y!Goroutines))
  /\ WF_ProcessesVars(OfS1(O!Goroutines))

ProcessesSafety == ProcessesInit /\ [][ProcessesNext]_ProcessesVars
ProcessesSpec == ProcessesSafety /\ ProcessesFairness

-----------------------------------------------------------------------------
\* Type correctness of the process and of the adapters.
ProcessesTypeOK == TypeOK /\ Y!TypeOK /\ O!TypeOK

\* syslog and stdin ship the lines of a connection in their order and once, and when
\* Close has begun they read at most once more.
LinesInOrder == Y!LinesInOrder /\ Y!OneReadAfterClose

\* sentinelone ships no event twice, and misses none of a window fetched to its end.
WindowsAreShipped == O!ShippedOnce /\ O!WindowsAreShipped

\* A stop comes to its end: of the process when an adapter stops or the service is asked
\* to; of syslog and stdin when they are closed; of all endpoints of sentinelone when one
\* fails or it is closed.  (StopEndsProcess, Y!StopsAfterClose and O!StopsAll in one
\* formula: which never changes.)
StopsEnd ==
  (\/ which = "main" /\ Ending
   \/ which = "syslog" /\ Y!Stopping
   \/ which = "s1" /\ oIsStop)
    ~> (\/ which = "main" /\ (pc = "over" \/ ~Ending)
        \/ which = "syslog" /\ Y!Ended
        \/ which = "s1" /\ O!Ended)

\* Every line that is sent in full is shipped, if nothing fails, nobody closes and the
\* tokenizer loses no byte.
LinesShipped == Y!LinesShipped
=============================================================================
