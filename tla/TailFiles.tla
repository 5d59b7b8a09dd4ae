------------------------------ MODULE TailFiles ------------------------------
(***************************************************************************)
(* file/client.go, the text half: pollFiles opens a tail for every file    *)
(* the glob matches, stops and restarts tails on rotation, removal,        *)
(* inactivity and reactivation; one handleInput goroutine per tail ships   *)
(* its lines; Close stops the tails and waits for everybody.  The tail     *)
(* library (it follows a file, and reopens the path when the file has been *)
(* replaced) and the file system are external.                             *)
(***************************************************************************)
EXTENDS Integers, FiniteSets

CONSTANTS
  Files,     \* the paths the glob may match
  MaxGen,    \* bound: inodes a path may name, one after the other
  MaxLines,  \* bound: lines written to one inode
  Tails,     \* identities of tails, with their handlers
  Confs      \* configurations and surroundings the adapter is started in

\* Follow is ~NoFollow, Inactivity says that inactivity_threshold is positive; what
\* the file system does: the paths that exist (with identities for their tails), when
\* the adapter starts with one line each if present, inodes per path, whether they
\* are removed for good, and whether reading may fail.
Conf ==
  [Backfill : BOOLEAN, Follow : BOOLEAN, SerializeFiles : BOOLEAN, Inactivity : BOOLEAN,
   files : SUBSET Files, tails : SUBSET Tails, present : BOOLEAN,
   gens : 1 .. MaxGen, lines : 0 .. MaxLines, removed : BOOLEAN, mayFail : BOOLEAN]

ASSUME TailAssumption ==
  /\ {MaxGen, MaxLines} \subseteq Nat \ {0}
  /\ Tails \subseteq Nat \ {0}
  /\ Confs \subseteq Conf

None == 0
Gens == 1 .. MaxGen

VARIABLES
  conf,      \* a.conf, never changed
  disk,      \* per file: the inode the path names, None when there is none
  used,      \* per file: number of inodes used so far
  lines,     \* per file and inode: lines written
  mtimeOld,  \* per file: not modified for longer than the thresholds
  dataOld,   \* per file: info.lastData is older than the threshold
  mu,        \* a.mu: "free" or "poll"; the others hold it for one step
  poll,      \* where pollFiles is
  todo,      \* files the current loop of pollFiles still has to look at
  matches,   \* the result of the glob
  stat,      \* the inode of the last os.Stat, and its file
  firstRun,  \* isFirstRun
  slot,      \* a.tailFiles: tail, inode, isInactive, or NoEntry
  tl,        \* per identity: the tail and its handleInput
  serialFeed,\* holder of the semaphore, or None
  closer,    \* where Close is
  shipped,   \* history: lines shipped
  again,     \* history: lines shipped more than once
  lateOpen   \* history: a file was reactivated after Close had stopped the tails

diskVars == <<conf, disk, used, lines>>
pollVars == <<poll, todo, matches, stat, firstRun>>
histVars == <<shipped, again, lateOpen>>
vars == <<diskVars, mtimeOld, dataOld, mu, pollVars, slot, tl, serialFeed, closer, histVars>>

Cancelled == closer # "no"      \* a.ctx.Err() != nil
NoEntry == [tail |-> None, inode |-> None, inactive |-> FALSE]
NoLine == <<None, None>>
NoTail == [pc |-> "none", open |-> FALSE, file |-> None, gen |-> None, pos |-> 0, line |-> NoLine]

Listed(f) == slot[f] # NoEntry
Free(t) == t \in conf.tails /\ tl[t] = NoTail /\ \A f \in Files : slot[f].tail # t
NewTail(t) == Free(t) /\ \A u \in Tails : Free(u) => t <= u

Init ==
  /\ conf \in Confs
  /\ disk = [f \in Files |-> IF conf.present /\ f \in conf.files THEN 1 ELSE None]
  /\ used = disk
  /\ lines = [f \in Files |-> [g \in Gens |-> IF g = disk[f] THEN 1 ELSE 0]]
  /\ mtimeOld = [f \in Files |-> FALSE]
  /\ dataOld = [f \in Files |-> FALSE]
  /\ mu = "free" /\ poll = "top" /\ todo = {} /\ matches = {} /\ stat = NoLine
  /\ firstRun = TRUE
  /\ slot = [f \in Files |-> NoEntry]
  /\ tl = [t \in Tails |-> NoTail]
  /\ serialFeed = None /\ closer = "no"
  /\ shipped = {} /\ again = {} /\ lateOpen = FALSE

-----------------------------------------------------------------------------
(***************************************************************************)
(* The file system and the clock.                                          *)
(***************************************************************************)
envUnchanged == <<mu, pollVars, slot, tl, serialFeed, closer, histVars>>

WriteLine(f) ==
  /\ disk[f] # None /\ lines[f][disk[f]] < conf.lines
  /\ lines' = [lines EXCEPT ![f][disk[f]] = @ + 1]
  /\ mtimeOld' = [mtimeOld EXCEPT ![f] = FALSE]
  /\ UNCHANGED <<conf, disk, used, dataOld, envUnchanged>>

\* The first half of a rotation, or a removal.
Unlink(f) ==
  /\ disk[f] # None /\ (used[f] < conf.gens \/ conf.removed)
  /\ disk' = [disk EXCEPT ![f] = None]
  /\ UNCHANGED <<conf, used, lines, mtimeOld, dataOld, envUnchanged>>

Create(f) ==
  /\ f \in conf.files /\ disk[f] = None /\ used[f] < conf.gens
  /\ disk' = [disk EXCEPT ![f] = used[f] + 1]
  /\ used' = [used EXCEPT ![f] = @ + 1]
  /\ mtimeOld' = [mtimeOld EXCEPT ![f] = FALSE]
  /\ UNCHANGED <<conf, lines, dataOld, envUnchanged>>

TimePasses ==
  /\ conf.Inactivity
  /\ \E f \in Files : ~mtimeOld[f] \/ ~dataOld[f]
  /\ mtimeOld' = [f \in Files |-> TRUE]
  /\ dataOld' = [f \in Files |-> TRUE]
  /\ UNCHANGED <<diskVars, envUnchanged>>

-----------------------------------------------------------------------------
(***************************************************************************)
(* The tail library.  Stop waits for the tail's goroutine, which closes    *)
(* Lines.                                                                  *)
(***************************************************************************)
Stopped(t) == [tl EXCEPT ![t] = IF @.pc = "none" THEN NoTail ELSE [@ EXCEPT !.open = FALSE]]

\* A followed tail at the end of a file that was replaced opens the new one.
TailReopens(t) ==
  /\ conf.Follow /\ tl[t].open
  /\ LET f == tl[t].file IN
       /\ disk[f] \notin {None, tl[t].gen}
       /\ tl[t].pos = lines[f][tl[t].gen]
       /\ tl' = [tl EXCEPT ![t] = [@ EXCEPT !.gen = disk[f], !.pos = 0]]
  /\ UNCHANGED <<diskVars, mtimeOld, dataOld, mu, pollVars, slot, serialFeed, closer, histVars>>

\* A tail that does not follow ends with the file.
TailEnds(t) ==
  /\ ~conf.Follow /\ tl[t].open
  /\ tl[t].pos = lines[tl[t].file][tl[t].gen]
  /\ tl' = Stopped(t)
  /\ UNCHANGED <<diskVars, mtimeOld, dataOld, mu, pollVars, slot, serialFeed, closer, histVars>>

\* TailFile, and the goroutine that runs handleInput on it.
Opened(t, f, pos) ==
  [tl EXCEPT ![t] = [NoTail EXCEPT !.pc = "start", !.open = TRUE, !.file = f,
                                   !.gen = disk[f], !.pos = pos]]

-----------------------------------------------------------------------------
(***************************************************************************)
(* pollFiles.                                                              *)
(***************************************************************************)
PollTop ==
  /\ poll = "top"
  /\ IF Cancelled
     THEN poll' = "exited" /\ UNCHANGED matches
     ELSE poll' = "lock" /\ matches' = {f \in Files : disk[f] # None}
  /\ UNCHANGED <<diskVars, mtimeOld, dataOld, mu, todo, stat, firstRun, slot, tl, serialFeed,
                 closer, histVars>>

\* Bound: a cycle starts only while there is an identity left for every file.
PollLock ==
  /\ poll = "lock" /\ mu = "free"
  /\ Cardinality({t \in Tails : Free(t)}) >= Cardinality(conf.files)
  /\ mu' = "poll" /\ poll' = "check"
  /\ todo' = {f \in Files : Listed(f)}
  /\ UNCHANGED <<diskVars, mtimeOld, dataOld, matches, stat, firstRun, slot, tl, serialFeed,
                 closer, histVars>>

\* Rotated, or no longer there: stop the tail and forget the entry.
Gone(f) == disk[f] # slot[f].inode
GoesInactive(f) == ~Gone(f) /\ ~slot[f].inactive /\ conf.Inactivity /\ mtimeOld[f] /\ dataOld[f]
Reactivates(f) == ~Gone(f) /\ slot[f].inactive /\ ~mtimeOld[f]

\* Mutant: the old tail is left running.
CheckGoneKeepsTail(f) ==
  /\ Gone(f)
  /\ slot' = [slot EXCEPT ![f] = NoEntry]
  /\ UNCHANGED <<tl, poll, stat>>

CheckGone(f) ==
  /\ Gone(f)
  /\ tl' = Stopped(slot[f].tail)
  /\ slot' = [slot EXCEPT ![f] = NoEntry]
  /\ UNCHANGED <<poll, stat>>

CheckInactive(f) ==
  /\ GoesInactive(f)
  /\ tl' = Stopped(slot[f].tail)
  /\ slot' = [slot EXCEPT ![f].inactive = TRUE]
  /\ UNCHANGED <<poll, stat>>

CheckReactivate(f) ==
  /\ Reactivates(f)
  /\ poll' = "reopen" /\ stat' = <<f, disk[f]>>
  /\ UNCHANGED <<slot, tl>>

CheckNothing(f) ==
  /\ ~Gone(f) /\ ~GoesInactive(f) /\ ~Reactivates(f)
  /\ UNCHANGED <<slot, tl, poll, stat>>

PollCheck(f) ==
  /\ poll = "check" /\ f \in todo
  /\ todo' = todo \ {f}
  /\ CheckGone(f) \/ CheckInactive(f) \/ CheckReactivate(f) \/ CheckNothing(f)
  /\ UNCHANGED <<diskVars, mtimeOld, dataOld, mu, matches, firstRun, serialFeed, closer, histVars>>

\* Reactivation starts from the beginning, MustExist.  The context is not looked at.
PollReopen ==
  /\ poll = "reopen"
  /\ LET f == stat[1] IN
       \/ /\ disk[f] = None
          /\ UNCHANGED <<tl, slot>>
       \/ /\ disk[f] # None
          /\ \E t \in Tails :
               /\ NewTail(t)
               /\ tl' = Opened(t, f, 0)
               /\ slot' = [slot EXCEPT ![f] = [tail |-> t, inode |-> stat[2], inactive |-> FALSE]]
  /\ poll' = "check" /\ stat' = NoLine
  /\ lateOpen' = (lateOpen \/ closer = "wg")
  /\ UNCHANGED <<diskVars, mtimeOld, dataOld, mu, todo, matches, firstRun, serialFeed, closer,
                 shipped, again>>

PollChecked ==
  /\ poll = "check" /\ todo = {}
  /\ poll' = "new" /\ todo' = matches
  /\ UNCHANGED <<diskVars, mtimeOld, dataOld, mu, matches, stat, firstRun, slot, tl, serialFeed,
                 closer, histVars>>

ShutDown == Cancelled

\* Mutant: that the path has an entry is not looked at.
SkippedUnlisted(f) == disk[f] = None \/ (conf.Inactivity /\ mtimeOld[f])

Skipped(f) == Listed(f) \/ disk[f] = None \/ (conf.Inactivity /\ mtimeOld[f])

\* The stat of a new match; too old files are skipped.
PollNew(f) ==
  /\ poll = "new" /\ ~ShutDown /\ f \in todo
  /\ todo' = todo \ {f}
  /\ IF Skipped(f)
     THEN UNCHANGED <<poll, stat>>
     ELSE poll' = "open" /\ stat' = <<f, disk[f]>>
  /\ UNCHANGED <<diskVars, mtimeOld, dataOld, mu, matches, firstRun, slot, tl, serialFeed, closer, histVars>>

\* Existing files are read from their end, the others from the start.
StartAt(f) == IF conf.Backfill \/ ~firstRun THEN 0 ELSE lines[f][disk[f]]

PollOpen ==
  /\ poll = "open"
  /\ LET f == stat[1] IN
       \/ /\ disk[f] = None
          /\ UNCHANGED <<tl, slot, dataOld>>
       \/ /\ disk[f] # None
          /\ \E t \in Tails :
               /\ NewTail(t)
               /\ tl' = Opened(t, f, StartAt(f))
               /\ slot' = [slot EXCEPT ![f] = [tail |-> t, inode |-> stat[2], inactive |-> FALSE]]
          /\ dataOld' = [dataOld EXCEPT ![f] = TRUE]   \* lastData is 0
  /\ poll' = "new" /\ stat' = NoLine
  /\ UNCHANGED <<diskVars, mtimeOld, mu, todo, matches, firstRun, serialFeed, closer, histVars>>

\* Mutant: on shutdown the loop returns without unlocking.
PollUnlockForgotten ==
  /\ poll = "new" /\ (todo = {} \/ ShutDown)
  /\ poll' = "exited"
  /\ UNCHANGED <<diskVars, mtimeOld, dataOld, mu, todo, matches, stat, firstRun, slot, tl, serialFeed,
                 closer, histVars>>

PollUnlock ==
  /\ poll = "new" /\ (todo = {} \/ ShutDown)
  /\ mu' = "free" /\ poll' = "sleep" /\ firstRun' = FALSE
  /\ todo' = {} /\ matches' = {}
  /\ UNCHANGED <<diskVars, mtimeOld, dataOld, stat, slot, tl, serialFeed, closer, histVars>>

\* select between the polling interval and ctx.Done(), which may both be ready.
PollSleep ==
  /\ poll = "sleep"
  /\ \/ poll' = "top"
     \/ Cancelled /\ poll' = "exited"
  /\ UNCHANGED <<diskVars, mtimeOld, dataOld, mu, todo, matches, stat, firstRun, slot, tl, serialFeed,
                 closer, histVars>>

-----------------------------------------------------------------------------
(***************************************************************************)
(* handleInput.                                                            *)
(***************************************************************************)
\* A handler that returns; its tail stays as it is.
Returned(t) ==
  [tl EXCEPT ![t] = IF @.open THEN [@ EXCEPT !.pc = "none", !.line = NoLine] ELSE NoTail]

InputStart(t) ==
  /\ tl[t].pc = "start" /\ mu = "free"
  /\ tl' = IF ~Listed(tl[t].file) THEN Returned(t)
           ELSE [tl EXCEPT ![t].pc = IF conf.SerializeFiles THEN "acquire" ELSE "loop"]
  /\ UNCHANGED <<diskVars, mtimeOld, dataOld, mu, pollVars, slot, serialFeed, closer, histVars>>

SemaphoreFree == serialFeed = None

\* Acquire(a.ctx, 1).
InputAcquire(t) ==
  /\ tl[t].pc = "acquire"
  /\ \/ /\ SemaphoreFree
        /\ serialFeed' = t
        /\ tl' = [tl EXCEPT ![t].pc = "loop"]
     \/ /\ Cancelled
        /\ tl' = Returned(t)
        /\ UNCHANGED serialFeed
  /\ UNCHANGED <<diskVars, mtimeOld, dataOld, mu, pollVars, slot, closer, histVars>>

InputReceive(t) ==
  /\ tl[t].pc = "loop" /\ tl[t].open
  /\ tl[t].pos < lines[tl[t].file][tl[t].gen]
  /\ tl' = [tl EXCEPT ![t] = [@ EXCEPT !.pc = "ship", !.pos = tl[t].pos + 1, !.line = <<tl[t].gen, tl[t].pos + 1>>]]
  /\ dataOld' = [dataOld EXCEPT ![tl[t].file] = FALSE]
  /\ UNCHANGED <<diskVars, mtimeOld, mu, pollVars, slot, serialFeed, closer, histVars>>

\* handleLine; a Ship error is only reported.
InputShip(t) ==
  /\ tl[t].pc = "ship"
  /\ LET l == <<tl[t].file, tl[t].line[1], tl[t].line[2]>> IN
       /\ shipped' = shipped \union {l}
       /\ again' = IF l \in shipped THEN again \union {l} ELSE again
  /\ tl' = [tl EXCEPT ![t] = [@ EXCEPT !.pc = "loop", !.line = NoLine]]
  /\ UNCHANGED <<diskVars, mtimeOld, dataOld, mu, pollVars, slot, serialFeed, closer, lateOpen>>

\* Lines is closed: the handler returns and releases.
InputEnd(t) ==
  /\ tl[t].pc = "loop"
  /\ ~tl[t].open
  /\ tl' = Returned(t)
  /\ serialFeed' = IF serialFeed = t THEN None ELSE serialFeed
  /\ UNCHANGED <<diskVars, mtimeOld, dataOld, mu, pollVars, slot, closer, histVars>>

\* line.Err: the handler returns, its tail stays open.
InputFails(t) ==
  /\ conf.mayFail
  /\ tl[t].pc = "loop" /\ tl[t].open
  /\ tl' = Returned(t)
  /\ serialFeed' = IF serialFeed = t THEN None ELSE serialFeed
  /\ UNCHANGED <<diskVars, mtimeOld, dataOld, mu, pollVars, slot, closer, histVars>>

\* The periodic log of an idle handler.
InputTick(t) == tl[t].pc = "loop" /\ tl[t].open /\ UNCHANGED vars

-----------------------------------------------------------------------------
(***************************************************************************)
(* Close.                                                                  *)
(***************************************************************************)
closeUnchanged == <<diskVars, mtimeOld, dataOld, mu, pollVars, slot, serialFeed, histVars>>

CloseCancel ==
  /\ closer = "no"
  /\ closer' = "cancelled"
  /\ UNCHANGED <<closeUnchanged, tl>>

CloseStopTails ==
  /\ closer = "cancelled" /\ mu = "free"
  /\ closer' = "wg"
  /\ tl' = [t \in Tails |-> IF \E f \in Files : slot[f].tail = t
                            THEN Stopped(t)[t] ELSE tl[t]]
  /\ UNCHANGED closeUnchanged

\* Mutant: only the poll loop is waited for.
CloseWaitsPollOnly ==
  /\ closer = "wg" /\ poll = "exited"
  /\ closer' = "closed"
  /\ UNCHANGED <<closeUnchanged, tl>>

\* wg.Wait(); Drain and Close of the client follow.
CloseWait ==
  /\ closer = "wg" /\ poll = "exited"
  /\ \A t \in Tails : tl[t].pc = "none"
  /\ closer' = "closed"
  /\ UNCHANGED <<closeUnchanged, tl>>

Terminated == closer = "closed" /\ UNCHANGED vars

Poll ==
  \/ PollTop \/ PollLock \/ PollReopen \/ PollChecked \/ PollOpen \/ PollUnlock \/ PollSleep
  \/ \E f \in Files : PollCheck(f) \/ PollNew(f)
Input(t) == InputStart(t) \/ InputAcquire(t) \/ InputReceive(t) \/ InputShip(t) \/ InputEnd(t)
Environment ==
  \/ TimePasses
  \/ \E f \in Files : WriteLine(f) \/ Unlink(f) \/ Create(f)

Next ==
  \/ Environment \/ Poll \/ CloseCancel \/ CloseStopTails \/ CloseWait \/ Terminated
  \/ \E t \in Tails : Input(t) \/ InputFails(t) \/ InputTick(t) \/ TailReopens(t) \/ TailEnds(t)

\* Every goroutine and the library are scheduled; a Go mutex and the weighted
\* semaphore do not starve a waiter for ever.  Only the poll loop goes on for ever: the
\* steps of the tails and their handlers are bounded, so that one condition for all of
\* them leaves none behind.
Fairness ==
  /\ WF_vars(Poll) /\ SF_vars(PollLock)
  /\ WF_vars(\E t \in Tails : Input(t) \/ TailReopens(t) \/ TailEnds(t))
  /\ SF_vars(\E t \in Tails : InputStart(t) \/ InputAcquire(t))
  /\ SF_vars(CloseStopTails) /\ WF_vars(CloseWait)

Spec == Init /\ [][Next]_vars
FairSpec == Spec /\ Fairness

-----------------------------------------------------------------------------
(***************************************************************************)
(* Properties.                                                             *)
(***************************************************************************)

\* Type correctness.
TypeOK ==
  /\ conf \in Confs
  /\ disk \in [Files -> Gens \union {None}]
  /\ used \in [Files -> 0 .. MaxGen]
  /\ lines \in [Files -> [Gens -> 0 .. MaxLines]]
  /\ mtimeOld \in [Files -> BOOLEAN] /\ dataOld \in [Files -> BOOLEAN]
  /\ mu \in {"free", "poll"}
  /\ poll \in {"top", "lock", "check", "reopen", "new", "open", "sleep", "exited"}
  /\ mu = "poll" <=> poll \in {"check", "reopen", "new", "open"}
  /\ todo \subseteq Files /\ matches \subseteq Files /\ firstRun \in BOOLEAN
  /\ stat \in (Files \X Gens) \union {NoLine}
  /\ slot \in [Files -> [tail : Tails, inode : Gens, inactive : BOOLEAN] \union {NoEntry}]
  /\ tl \in [Tails -> [pc : {"none", "start", "acquire", "loop", "ship"}, open : BOOLEAN, file : Files \union {None},
                        gen : Gens \union {None}, pos : 0 .. MaxLines, line : (Gens \X (1 .. MaxLines)) \union {NoLine}]]
  /\ \A t \in Tails : tl[t] # NoTail =>
       /\ tl[t].file \in Files /\ tl[t].gen \in Gens /\ tl[t].pos <= lines[tl[t].file][tl[t].gen]
       /\ tl[t].pc = "ship" => tl[t].line # NoLine
  /\ serialFeed \in Tails \union {None}
  /\ closer \in {"no", "cancelled", "wg", "closed"}
  /\ lateOpen \in BOOLEAN /\ again \subseteq shipped /\ shipped \subseteq Files \X Gens \X (1 .. MaxLines)

\* No tail leaks: one that is still reading belongs to its file's entry, so that
\* rotation, removal, inactivity and Close find it when they stop "the" tail.
LiveTailIsListed ==
  \A t \in Tails : tl[t].open => slot[tl[t].file].tail = t /\ ~slot[tl[t].file].inactive

\* Once Close has closed the client, no handler is left that could ship.
NoShipAfterClose == closer = "closed" => \A t \in Tails : tl[t].pc = "none"

\* serialize_files: "only tail one file at a time".
OneFileAtATime ==
  conf.SerializeFiles =>
    \A t, u \in Tails : tl[t].pc \in {"loop", "ship"} /\ tl[u].pc \in {"loop", "ship"} => t = u

\* Nothing replaces the files and none goes to sleep.
Undisturbed == conf.gens = 1 /\ ~conf.removed /\ ~conf.Inactivity

\* No line of an undisturbed file is shipped twice, whenever it appears.
NoDuplicate == Undisturbed => again = {}

\* Close returns, through rotations, removals, read errors and handlers that wait
\* for the semaphore.
CloseReturns == closer = "cancelled" ~> closer = "closed"

\* The same, unless a poll cycle reactivated a file after Close had stopped the tails.
CloseReturnsUnlessLate == closer = "cancelled" ~> (closer = "closed" \/ lateOpen)

\* Every line of an undisturbed file is shipped, however the reading, the polls and
\* the semaphore interleave, unless the adapter is closed.  (The bound on the lines
\* ends the writing, after which nothing may be left to ship.)
EveryLineShipped ==
  (Undisturbed /\ conf.Backfill /\ ~conf.mayFail)
    ~> (Cancelled \/ \A f \in Files : \A n \in 1 .. lines[f][1] : <<f, 1, n>> \in shipped)
=============================================================================
