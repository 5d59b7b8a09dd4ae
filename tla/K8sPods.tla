------------------------------ MODULE K8sPods ------------------------------
(***************************************************************************)
(* k8s_pods: one goroutine watches the root directory and starts one per   *)
(* pod, that one starts one per container, and that one tails the newest   *)
(* log of the container, with a goroutine (processFile) that carries the   *)
(* lines of the tail to chLines; consumeLogs ships what it takes there.    *)
(* A watcher is told of what happens in its directory by fsnotify.  The    *)
(* file system, fsnotify and the tail library are external.                *)
(***************************************************************************)
EXTENDS Integers, Sequences, FiniteSets

CONSTANTS
  Pods,          \* directories below the root
  Containers,    \* directories below the pods
  MaxLogs,       \* bound: logs of a container, created one after the other
  MaxLines,      \* bound: lines of a log
  Confs          \* the situations: see Conf

Logs == 1 .. MaxLogs
Copies == {1, 2}                \* watchPod goroutines of one pod
Watch == Containers \X Copies   \* watchContainer goroutines
Line == Containers \X Logs \X (1 .. MaxLines)
None == 0
NoLine == <<None>>             \* an empty hand, and a goroutine that has ended
Done == <<None, None>>
Return == -1

\* present: the pods that are there at the start.  pods, containers: those that may be
\* created.  podOf: where the containers are.
\* ignored: pods whose name does not match, or that are filtered out.  logs, lines: how
\* many.  Removes: they may be removed.  Races: they may be created between the Add of a
\* watcher and its ReadDir.  Ships: Ship never fails, and no tail hands over an error.
Conf ==
  [present : SUBSET Pods, pods : SUBSET Pods, containers : SUBSET Containers,
   podOf : [Containers -> Pods], ignored : SUBSET Pods, logs : Logs, lines : 0 .. MaxLines,
   Removes : BOOLEAN, Races : BOOLEAN, Ships : BOOLEAN]

VARIABLES
  conf,
  pod, con,      \* per directory: "no", "there" or "gone"
  logs, removed, \* per container: logs created, the last of them is written; those removed
  lines,         \* per container and log: lines written
  root, rootQ,   \* watchForPods and its events
  pw, pq,        \* per pod and copy: watchPod and its events
  running,       \* per pod and copy: the containers whose channel is in running
  cw, cq,        \* per Watch: watchContainer and its events
  stop,          \* the Watches whose chStop is closed
  cur, first,    \* per Watch: the log of curFile, and currentLog
  then,          \* per Watch: what follows StopAtEOF: a log to tail, None, or Return
  tail,          \* per Watch and log: "no", "open", "ending" or "ended"
  read,          \* per Watch and log: lines read by the tail
  hand,          \* per Watch and log: the line processFile has, NoLine, or Done
  consumer,      \* consumeLogs: the line it ships, NoLine, or Done
  closer,        \* Close: "no", "wait", "drain" or "closed"
  panicked,
  shipped, again, late,  \* history: lines shipped, twice, after the client was closed
  raced          \* history: something was created after a watch was added and before ReadDir

fsVars == <<conf, pod, con, logs, removed, lines>>
podVars == <<root, rootQ, pw, pq, running>>
conVars == <<cw, cq, stop, cur, first, then>>
lineVars == <<tail, read, hand, consumer, shipped, again, late>>
vars == <<fsVars, podVars, conVars, lineVars, closer, panicked, raced>>

Init ==
  /\ conf \in Confs
  /\ pod = [p \in Pods |-> IF p \in conf.present THEN "there" ELSE "no"]
  /\ con = [c \in Containers |-> "no"]
  /\ logs = [c \in Containers |-> 0] /\ removed = [c \in Containers |-> {}]
  /\ lines = [c \in Containers |-> [l \in Logs |-> 0]]
  /\ root = "init" /\ rootQ = <<>>
  /\ pw = [p \in Pods |-> [k \in Copies |-> "no"]] /\ pq = [p \in Pods |-> [k \in Copies |-> <<>>]]
  /\ running = [p \in Pods |-> [k \in Copies |-> {}]]
  /\ cw = [w \in Watch |-> "no"] /\ cq = [w \in Watch |-> <<>>] /\ stop = {}
  /\ cur = [w \in Watch |-> None] /\ first = [w \in Watch |-> None] /\ then = [w \in Watch |-> None]
  /\ tail = [w \in Watch |-> [l \in Logs |-> "no"]] /\ read = [w \in Watch |-> [l \in Logs |-> 0]]
  /\ hand = [w \in Watch |-> [l \in Logs |-> Done]] /\ consumer = NoLine
  /\ closer = "no" /\ panicked = FALSE
  /\ shipped = {} /\ again = {} /\ late = {} /\ raced = FALSE

Alive == ~panicked /\ closer # "closed"

-----------------------------------------------------------------------------
(***************************************************************************)
(* The file system.  What happens in a directory is queued for the         *)
(* watchers that have added it; its own removal too.  What is created or   *)
(* removed after Close began is as good as an event that is still queued.  *)
(***************************************************************************)
Changing == Alive /\ closer = "no"
Watching(pc) == pc \in {"added", "loop", "stopping"}
TellPod(p, e) == [pq EXCEPT ![p] = [k \in Copies |-> IF Watching(pw[p][k]) THEN Append(@[k], e) ELSE @[k]]]
TellContainer(c, e) == [w \in Watch |-> IF w[1] = c /\ Watching(cw[w]) THEN Append(cq[w], e) ELSE cq[w]]

NewPod(p) ==
  /\ Changing /\ p \in conf.pods /\ pod[p] = "no" /\ (root # "init" \/ conf.Races)
  /\ pod' = [pod EXCEPT ![p] = "there"]
  /\ rootQ' = IF root = "done" THEN rootQ ELSE Append(rootQ, p)
  /\ raced' = (raced \/ root = "init")
  /\ UNCHANGED <<conf, con, logs, removed, lines, root, pw, pq, running, conVars, lineVars, closer, panicked>>

NewContainer(c) ==
  /\ Changing /\ c \in conf.containers /\ con[c] = "no" /\ pod[conf.podOf[c]] = "there"
  /\ con' = [con EXCEPT ![c] = "there"]
  /\ pq' = TellPod(conf.podOf[c], [op |-> "create", name |-> c])
  /\ UNCHANGED <<conf, pod, logs, removed, lines, root, rootQ, pw, running, conVars, lineVars, closer, panicked, raced>>

NewLog(c) ==
  /\ Changing /\ con[c] = "there" /\ logs[c] < conf.logs
  /\ conf.Races \/ \A k \in Copies : cw[<<c, k>>] # "added"
  /\ logs' = [logs EXCEPT ![c] = @ + 1]
  /\ cq' = TellContainer(c, [op |-> "create", name |-> logs[c] + 1])
  /\ raced' = (raced \/ \E k \in Copies : cw[<<c, k>>] = "added")
  /\ UNCHANGED <<conf, pod, con, removed, lines, podVars, cw, stop, cur, first, then, lineVars, closer, panicked>>

Write(c) ==
  /\ Alive /\ logs[c] > 0 /\ logs[c] \notin removed[c] /\ lines[c][logs[c]] < conf.lines
  /\ lines' = [lines EXCEPT ![c][logs[c]] = @ + 1]
  /\ UNCHANGED <<conf, pod, con, logs, removed, podVars, conVars, lineVars, closer, panicked, raced>>

RemoveLog(c, l) ==
  /\ Changing /\ conf.Removes /\ con[c] = "there" /\ l <= logs[c] /\ l \notin removed[c]
  /\ removed' = [removed EXCEPT ![c] = @ \union {l}]
  /\ cq' = TellContainer(c, [op |-> "remove", name |-> l])
  /\ UNCHANGED <<conf, pod, con, logs, lines, podVars, cw, stop, cur, first, then, lineVars, closer, panicked, raced>>

RemoveContainer(c) ==
  /\ Changing /\ conf.Removes /\ con[c] = "there" /\ removed[c] = 1 .. logs[c]
  /\ con' = [con EXCEPT ![c] = "gone"]
  /\ cq' = TellContainer(c, [op |-> "remove", name |-> None])
  /\ pq' = TellPod(conf.podOf[c], [op |-> "remove", name |-> c])
  /\ UNCHANGED <<conf, pod, logs, removed, lines, root, rootQ, pw, running, cw, stop, cur, first, then, lineVars, closer,
                 panicked, raced>>

RemovePod(p) ==
  /\ Changing /\ conf.Removes /\ pod[p] = "there" /\ \A c \in Containers : conf.podOf[c] = p => con[c] # "there"
  /\ pod' = [pod EXCEPT ![p] = "gone"]
  /\ pq' = TellPod(p, [op |-> "remove", name |-> None])
  /\ UNCHANGED <<conf, con, logs, removed, lines, root, rootQ, pw, running, conVars, lineVars, closer, panicked, raced>>

-----------------------------------------------------------------------------
(***************************************************************************)
(* watchForPods.  The root was added to its watcher before it started; its *)
(* map running stays empty.                                                *)
(***************************************************************************)
Matches(p) == p \notin conf.ignored

\* Mutant: pods that are there are not started.
SkipExisting == [p \in Pods |-> pw[p]]

ExistingPods == [p \in Pods |-> IF pod[p] = "there" /\ Matches(p) THEN [pw[p] EXCEPT ![1] = "new"] ELSE pw[p]]

RootReadDir ==
  /\ Alive /\ root = "init"
  /\ root' = "loop"
  /\ pw' = ExistingPods
  /\ UNCHANGED <<fsVars, rootQ, pq, running, conVars, lineVars, closer, panicked, raced>>

FreeCopy(p) == IF pw[p][1] = "no" THEN 1 ELSE 2

RootEvent ==
  /\ Alive /\ root = "loop" /\ rootQ # <<>>
  /\ rootQ' = Tail(rootQ)
  /\ LET p == Head(rootQ)
     IN pw' = IF Matches(p) THEN [pw EXCEPT ![p][FreeCopy(p)] = "new"] ELSE pw
  /\ UNCHANGED <<fsVars, root, pq, running, conVars, lineVars, closer, panicked, raced>>

RootStops ==
  /\ Alive /\ root = "loop" /\ closer # "no"
  /\ root' = "done"
  /\ UNCHANGED <<fsVars, rootQ, pw, pq, running, conVars, lineVars, closer, panicked, raced>>

-----------------------------------------------------------------------------
(***************************************************************************)
(* watchPod.                                                               *)
(***************************************************************************)
PodUnchanged == <<fsVars, root, rootQ, lineVars, closer>>

PodAdd(p, k) ==
  /\ Alive /\ pw[p][k] = "new"
  /\ pw' = [pw EXCEPT ![p][k] = IF pod[p] = "there" THEN "added" ELSE "done"]
  /\ UNCHANGED <<PodUnchanged, pq, running, conVars, panicked, raced>>

Start(C, k) == [w \in Watch |-> IF w[1] \in C /\ w[2] = k /\ cw[w] = "no" THEN "new" ELSE cw[w]]

PodReadDir(p, k) ==
  /\ Alive /\ pw[p][k] = "added"
  /\ LET present == {c \in Containers : conf.podOf[c] = p /\ con[c] = "there"}
     IN /\ running' = [running EXCEPT ![p][k] = present]
        /\ cw' = Start(present, k)
  /\ pw' = [pw EXCEPT ![p][k] = "loop"]
  /\ UNCHANGED <<PodUnchanged, pq, cq, stop, cur, first, then, panicked, raced>>

\* Mutant: watchPod leaves its containers running.
LeaveRunning(p, k) == stop

\* The deferred close of every channel in running.
StopRunning(p, k) == stop \union {<<c, k>> : c \in running[p][k]}

PodCreate(p, k, c) ==
  /\ running' = [running EXCEPT ![p][k] = @ \union {c}]
  /\ cw' = IF c \in running[p][k] THEN cw ELSE Start({c}, k)
  /\ UNCHANGED <<pw, stop, panicked>>

\* close(running[containerPath]): of a nil channel, if the container is not there.
PodRemove(p, k, c) ==
  /\ panicked' = (c \notin running[p][k])
  /\ stop' = stop \union ({<<c, k>>} \intersect {<<d, k>> : d \in running[p][k]})
  /\ running' = [running EXCEPT ![p][k] = @ \ {c}]
  /\ UNCHANGED <<pw, cw>>

PodReturns(p, k) ==
  /\ pw' = [pw EXCEPT ![p][k] = "done"]
  /\ stop' = StopRunning(p, k)
  /\ UNCHANGED <<running, cw, panicked>>

PodEvent(p, k) ==
  /\ Alive /\ pw[p][k] = "loop" /\ pq[p][k] # <<>>
  /\ pq' = [pq EXCEPT ![p][k] = Tail(@)]
  /\ LET e == Head(pq[p][k])
     IN \/ e.op = "remove" /\ e.name = None /\ PodReturns(p, k)
        \/ e.op = "remove" /\ e.name # None /\ PodRemove(p, k, e.name)
        \/ e.op = "create" /\ PodCreate(p, k, e.name)
  /\ UNCHANGED <<PodUnchanged, cq, cur, first, then, raced>>

PodStops(p, k) ==
  /\ Alive /\ pw[p][k] = "loop" /\ closer # "no"
  /\ PodReturns(p, k)
  /\ UNCHANGED <<PodUnchanged, pq, cq, cur, first, then, raced>>

-----------------------------------------------------------------------------
(***************************************************************************)
(* watchContainer.                                                         *)
(***************************************************************************)
ContainerUnchanged == <<fsVars, podVars, read, consumer, shipped, again, late, closer, raced>>

ContainerAdd(w) ==
  /\ Alive /\ cw[w] = "new"
  /\ cw' = [cw EXCEPT ![w] = IF con[w[1]] = "there" THEN "added" ELSE "done"]
  /\ UNCHANGED <<ContainerUnchanged, cq, stop, cur, first, then, tail, hand, panicked>>

There(c) == (1 .. logs[c]) \ removed[c]
Newest(c) == IF There(c) = {} THEN None ELSE CHOOSE l \in There(c) : \A m \in There(c) : m <= l

\* tail.TailFile, which fails when the log is gone, and go processFile.
TailFile(w, l) ==
  IF l \in There(w[1])
  THEN /\ cur' = [cur EXCEPT ![w] = l]
       /\ tail' = [tail EXCEPT ![w][l] = "open"]
       /\ hand' = [hand EXCEPT ![w][l] = NoLine]
  ELSE /\ cur' = [cur EXCEPT ![w] = None]
       /\ UNCHANGED <<tail, hand>>

ContainerReadDir(w) ==
  /\ Alive /\ cw[w] = "added"
  /\ cw' = [cw EXCEPT ![w] = "loop"]
  /\ first' = [first EXCEPT ![w] = Newest(w[1])]
  /\ IF Newest(w[1]) = None THEN UNCHANGED <<cur, tail, hand>> ELSE TailFile(w, Newest(w[1]))
  /\ UNCHANGED <<ContainerUnchanged, cq, stop, then, panicked>>

\* curFile.StopAtEOF() and Cleanup(): curFile may be nil.
StopAtEOF(w, next) ==
  IF cur[w] = None
  THEN panicked' = TRUE /\ UNCHANGED <<cw, then, tail>>
  ELSE /\ cw' = [cw EXCEPT ![w] = "stopping"] /\ then' = [then EXCEPT ![w] = next]
       /\ tail' = [tail EXCEPT ![w][cur[w]] = IF @ = "open" THEN "ending" ELSE @]
       /\ UNCHANGED panicked

ContainerRemove(w) ==
  /\ Head(cq[w]).op = "remove"
  /\ StopAtEOF(w, None)
  /\ UNCHANGED <<cur, hand>>

ContainerKnown(w) ==
  /\ Head(cq[w]).op = "create" /\ Head(cq[w]).name = first[w]
  /\ UNCHANGED <<cw, then, tail, cur, hand, panicked>>

\* Mutant: the first log is taken for one that cycles.
FirstCycles(w) ==
  /\ Head(cq[w]).op = "create" /\ Head(cq[w]).name # first[w] /\ cur[w] = None
  /\ StopAtEOF(w, Head(cq[w]).name)
  /\ UNCHANGED <<cur, hand>>

ContainerFirst(w) ==
  /\ Head(cq[w]).op = "create" /\ Head(cq[w]).name # first[w] /\ cur[w] = None
  /\ TailFile(w, Head(cq[w]).name)
  /\ UNCHANGED <<cw, then, panicked>>

\* The log is cycling.
ContainerCycle(w) ==
  /\ Head(cq[w]).op = "create" /\ Head(cq[w]).name # first[w] /\ cur[w] # None
  /\ StopAtEOF(w, Head(cq[w]).name)
  /\ UNCHANGED <<cur, hand>>

ContainerEvent(w) ==
  /\ Alive /\ cw[w] = "loop" /\ cq[w] # <<>>
  /\ cq' = [cq EXCEPT ![w] = Tail(@)]
  /\ ContainerRemove(w) \/ ContainerKnown(w) \/ ContainerFirst(w) \/ ContainerCycle(w)
  /\ UNCHANGED <<ContainerUnchanged, stop, first>>

ContainerStops(w) ==
  /\ Alive /\ cw[w] = "loop" /\ w \in stop
  /\ StopAtEOF(w, Return)
  /\ UNCHANGED <<ContainerUnchanged, cq, stop, cur, first, hand>>

\* StopAtEOF returns when the goroutine of the tail has ended.
StoppedAtEOF(w) ==
  /\ Alive /\ cw[w] = "stopping" /\ tail[w][cur[w]] = "ended"
  /\ cw' = [cw EXCEPT ![w] = IF then[w] = Return THEN "done" ELSE "loop"]
  /\ IF then[w] \in Logs THEN TailFile(w, then[w]) ELSE UNCHANGED <<cur, tail, hand>>
  /\ UNCHANGED <<ContainerUnchanged, cq, stop, first, then, panicked>>

-----------------------------------------------------------------------------
(***************************************************************************)
(* The lines: the tail hands them to processFile, which hands them to      *)
(* consumeLogs; none of the channels has a buffer.                         *)
(***************************************************************************)
LineUnchanged == <<fsVars, podVars, conVars, panicked, raced>>

TailReads(w, l) ==
  /\ Alive /\ tail[w][l] \in {"open", "ending"} /\ hand[w][l] = NoLine /\ read[w][l] < lines[w[1]][l]
  /\ read' = [read EXCEPT ![w][l] = @ + 1]
  /\ hand' = [hand EXCEPT ![w][l] = <<w[1], l, read[w][l] + 1>>]
  /\ UNCHANGED <<LineUnchanged, tail, consumer, shipped, again, late, closer>>

TailEnds(w, l) ==
  /\ Alive /\ tail[w][l] = "ending" /\ (read[w][l] = lines[w[1]][l] \/ hand[w][l] = Done)
  /\ tail' = [tail EXCEPT ![w][l] = "ended"]
  /\ UNCHANGED <<LineUnchanged, read, hand, consumer, shipped, again, late, closer>>

ProcessSends(w, l) ==
  /\ Alive /\ hand[w][l] \notin {NoLine, Done} /\ consumer = NoLine
  /\ consumer' = hand[w][l]
  /\ hand' = [hand EXCEPT ![w][l] = NoLine]
  /\ UNCHANGED <<LineUnchanged, tail, read, shipped, again, late, closer>>

\* The channel of the tail is closed, or it hands over an error: what the log has after
\* that is not read.
ProcessEnds(w, l) ==
  /\ Alive /\ hand[w][l] = NoLine /\ (tail[w][l] = "ended" \/ ~conf.Ships)
  /\ hand' = [hand EXCEPT ![w][l] = Done]
  /\ UNCHANGED <<LineUnchanged, tail, read, consumer, shipped, again, late, closer>>

\* The last line may be shipped when Close has drained and closed the client.
ConsumerShips ==
  /\ ~panicked /\ consumer \notin {NoLine, Done}
  /\ consumer' = NoLine
  /\ IF closer = "closed"
     THEN late' = late \union {consumer} /\ UNCHANGED <<shipped, again>>
     ELSE /\ shipped' = shipped \union {consumer}
          /\ again' = again \union ({consumer} \intersect shipped)
          /\ UNCHANGED late
  /\ UNCHANGED <<LineUnchanged, tail, read, hand, closer>>

ConsumerFails ==
  /\ ~panicked /\ consumer \notin {NoLine, Done} /\ (~conf.Ships \/ closer = "closed")
  /\ consumer' = Done
  /\ UNCHANGED <<LineUnchanged, tail, read, hand, shipped, again, late, closer>>

ConsumerEnds ==
  /\ ~panicked /\ consumer = NoLine /\ closer \in {"drain", "closed"}
  /\ consumer' = Done
  /\ UNCHANGED <<LineUnchanged, tail, read, hand, shipped, again, late, closer>>

-----------------------------------------------------------------------------
(***************************************************************************)
(* Close: of the engine, which waits for the goroutines and closes         *)
(* chLines, then of the client.                                            *)
(***************************************************************************)
CloseStop ==
  /\ Alive /\ closer = "no"
  /\ closer' = "wait"
  /\ UNCHANGED <<LineUnchanged, lineVars>>

AllDone ==
  /\ root = "done"
  /\ \A p \in Pods : \A k \in Copies : pw[p][k] \in {"no", "done"}
  /\ \A w \in Watch : cw[w] \in {"no", "done"} /\ \A l \in Logs : hand[w][l] = Done

CloseWait ==
  /\ Alive /\ closer = "wait" /\ AllDone
  /\ closer' = "drain"
  /\ UNCHANGED <<LineUnchanged, lineVars>>

CloseClient ==
  /\ Alive /\ closer = "drain"
  /\ closer' = "closed"
  /\ UNCHANGED <<LineUnchanged, lineVars>>

-----------------------------------------------------------------------------
Root == RootReadDir \/ RootEvent \/ RootStops
WatchPod(p, k) == PodAdd(p, k) \/ PodReadDir(p, k) \/ PodEvent(p, k) \/ PodStops(p, k)
WatchContainer(w) ==
  ContainerAdd(w) \/ ContainerReadDir(w) \/ ContainerEvent(w) \/ ContainerStops(w) \/ StoppedAtEOF(w)
ProcessFile(w, l) == TailReads(w, l) \/ TailEnds(w, l) \/ ProcessSends(w, l) \/ ProcessEnds(w, l)
Consumer == ConsumerShips \/ ConsumerFails \/ ConsumerEnds

FileSystem ==
  \/ \E p \in Pods : NewPod(p) \/ RemovePod(p)
  \/ \E c \in Containers : NewContainer(c) \/ NewLog(c) \/ Write(c) \/ RemoveContainer(c)
  \/ \E c \in Containers, l \in Logs : RemoveLog(c, l)

\* Closed, crashed, everything shipped and nobody closes, or Close waits for a consumer
\* that is gone.
Quiet == UNCHANGED vars

Next ==
  \/ FileSystem \/ Root \/ Consumer \/ CloseStop \/ CloseWait \/ CloseClient \/ Quiet
  \/ \E p \in Pods, k \in Copies : WatchPod(p, k)
  \/ \E w \in Watch : WatchContainer(w) \/ \E l \in Logs : ProcessFile(w, l)

Goroutines ==
  \/ Root \/ Consumer \/ CloseWait \/ CloseClient
  \/ \E p \in Pods, k \in Copies : WatchPod(p, k)
  \/ \E w \in Watch : WatchContainer(w) \/ \E l \in Logs : ProcessFile(w, l)

\* Every goroutine runs; a select that stays readable through chStop takes it at last.
\* The logs and their lines are bounded and every behaviour comes to rest, so that one
\* condition says that no goroutine is left behind.
Fairness == WF_vars(Goroutines)

Spec == Init /\ [][Next]_vars
FairSpec == Spec /\ Fairness

-----------------------------------------------------------------------------
\* Type correctness.
TypeOK ==
  /\ conf \in Confs
  /\ pod \in [Pods -> {"no", "there", "gone"}] /\ con \in [Containers -> {"no", "there", "gone"}]
  /\ logs \in [Containers -> 0 .. MaxLogs] /\ removed \in [Containers -> SUBSET Logs]
  /\ lines \in [Containers -> [Logs -> 0 .. MaxLines]]
  /\ root \in {"init", "loop", "done"} /\ rootQ \in Seq(Pods)
  /\ pw \in [Pods -> [Copies -> {"no", "new", "added", "loop", "done"}]]
  /\ pq \in [Pods -> [Copies -> Seq([op : {"create", "remove"}, name : Containers \union {None}])]]
  /\ running \in [Pods -> [Copies -> SUBSET Containers]]
  /\ cw \in [Watch -> {"no", "new", "added", "loop", "stopping", "done"}] /\ stop \subseteq Watch
  /\ cq \in [Watch -> Seq([op : {"create", "remove"}, name : 0 .. MaxLogs])]
  /\ cur \in [Watch -> 0 .. MaxLogs] /\ first \in [Watch -> 0 .. MaxLogs] /\ then \in [Watch -> Return .. MaxLogs]
  /\ tail \in [Watch -> [Logs -> {"no", "open", "ending", "ended"}]] /\ read \in [Watch -> [Logs -> 0 .. MaxLines]]
  /\ hand \in [Watch -> [Logs -> Line \union {NoLine, Done}]] /\ consumer \in Line \union {NoLine, Done}
  /\ closer \in {"no", "wait", "drain", "closed"} /\ {panicked, raced} \subseteq BOOLEAN
  /\ shipped \union again \union late \subseteq Line

\* A watcher has one tail at a time: the next log is opened when the previous one is
\* read to its end.
OneTail == \A w \in Watch : \A l, m \in Logs : tail[w][l] = "open" /\ tail[w][m] \in {"open", "ending"} => l = m

\* No line is shipped twice, and none of a pod that is filtered out, unless something
\* was created between the Add of a watcher and its ReadDir.
ShippedOnce == ~raced => again = {} /\ \A x \in shipped : Matches(conf.podOf[x[1]])

\* As long as nothing is removed the process crashes only at the end, when a container
\* that has no log is stopped.
CrashNeedsBareContainer ==
  panicked /\ ~conf.Removes => closer # "no" /\ \E w \in stop : cur[w] = None /\ cw[w] = "loop"

\* When the client is closed at most one line is still in the hands of consumeLogs.
AtMostOneLate == Cardinality(late) <= 1

\* Close returns, whatever the watchers are doing, as long as consumeLogs ships.
CloseReturns == conf.Ships => ((closer = "wait") ~> (closer = "closed" \/ panicked))

\* In the end every line that was written is shipped, if nothing is removed, nobody
\* closes and nothing raced with the start of a watcher: but of the logs that are there
\* when a watcher starts only the newest is tailed.
Written == {x \in Line : x[3] <= lines[x[1]][x[2]] /\ x[2] >= first[<<x[1], 1>>] /\ Matches(conf.podOf[x[1]])}
EveryLineShipped == <>[](conf.Ships /\ ~conf.Removes /\ closer = "no" /\ ~raced => Written \subseteq shipped)
=============================================================================
