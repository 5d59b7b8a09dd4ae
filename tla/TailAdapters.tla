---------------------------- MODULE TailAdapters ----------------------------
(***************************************************************************)
(* The two adapters that follow text files: file (its text path) and       *)
(* k8s_pods.  They share no state: the one that runs, and in which         *)
(* situation, is chosen in the initial state.                              *)
(***************************************************************************)
EXTENDS TailFiles

\* Of k8s_pods, as in K8sPods.
CONSTANTS Pods, Containers, MaxLogs, PodLines, K8sConfs

VARIABLES
  which,
  kConf, kPod, kCon, kLogs, kRemoved, kLines, kRoot, kRootQ, kPw, kPq, kRunning, kCw, kCq, kStop, kCur, kFirst, kThen,
  kTail, kRead, kHand, kConsumer, kCloser, kPanicked, kShipped, kAgain, kLate, kRaced

k8sVars ==
  <<kConf, kPod, kCon, kLogs, kRemoved, kLines, kRoot, kRootQ, kPw, kPq, kRunning, kCw, kCq, kStop, kCur, kFirst, kThen,
    kTail, kRead, kHand, kConsumer, kCloser, kPanicked, kShipped, kAgain, kLate, kRaced>>
AdaptersVars == <<which, vars, k8sVars>>

-----------------------------------------------------------------------------
K == INSTANCE K8sPods WITH
  MaxLines <- PodLines, Confs <- K8sConfs,
  conf <- kConf, pod <- kPod, con <- kCon, logs <- kLogs, removed <- kRemoved, lines <- kLines, root <- kRoot,
  rootQ <- kRootQ, pw <- kPw, pq <- kPq, running <- kRunning, cw <- kCw, cq <- kCq, stop <- kStop, cur <- kCur,
  first <- kFirst, then <- kThen, tail <- kTail, read <- kRead, hand <- kHand, consumer <- kConsumer,
  closer <- kCloser, panicked <- kPanicked, shipped <- kShipped, again <- kAgain, late <- kLate, raced <- kRaced

ASSUME K8sAssumption ==
  /\ MaxLogs \in Nat \ {0} /\ PodLines \in Nat
  /\ K8sConfs \subseteq K!Conf

-----------------------------------------------------------------------------
\* The one that does not run stays in one initial state.
AdaptersInit ==
  /\ which \in {"file", "k8s"}
  /\ Init /\ K!Init
  /\ which # "file" => conf = CHOOSE c \in Confs : TRUE
  /\ which # "k8s" => kConf = CHOOSE c \in K8sConfs : TRUE

OfFile(A) == which = "file" /\ A /\ UNCHANGED <<which, k8sVars>>
OfK8s(A) == which = "k8s" /\ A /\ UNCHANGED <<which, vars>>

AdaptersNext == OfFile(Next) \/ OfK8s(K!Next)

\* The fairness of each, for the one that runs.
AdaptersFairness ==
  /\ WF_AdaptersVars(OfFile(Poll)) /\ SF_AdaptersVars(OfFile(PollLock))
  /\ WF_AdaptersVars(OfFile(\E t \in Tails : Input(t) \/ TailReopens(t) \/ TailEnds(t)))
  /\ SF_AdaptersVars(OfFile(\E t \in Tails : InputStart(t) \/ InputAcquire(t)))
  /\ SF_AdaptersVars(OfFile(CloseStopTails)) /\ WF_AdaptersVars(OfFile(CloseWait))
  /\ WF_AdaptersVars(OfK8s(K!Goroutines))

AdaptersSafety == AdaptersInit /\ [][AdaptersNext]_AdaptersVars
AdaptersSpec == AdaptersSafety /\ AdaptersFairness

-----------------------------------------------------------------------------
\* Type correctness of the two adapters.
TailsTypeOK == TypeOK /\ K!TypeOK

\* No tail leaks and none is doubled: file finds every tail it has to stop, and one at a
\* time with serialize_files; a container watcher of k8s_pods has one open log.
TailsAreListed == LiveTailIsListed /\ OneFileAtATime /\ K!OneTail

\* Nothing is shipped once the client is closed, but for one line of k8s_pods: its Close
\* does not wait for consumeLogs.
LateIsBounded == NoShipAfterClose /\ K!AtMostOneLate

\* No line is shipped twice: of an undisturbed file, and of a pod whose directories are
\* not created in the moment its watchers start.
NoLineTwice == NoDuplicate /\ K!ShippedOnce

\* k8s_pods: unless something is removed, only the stop of a container without a log
\* crashes the process.
CrashNeedsBareContainer == K!CrashNeedsBareContainer

\* Close returns: of file unless a poll cycle reopened a file behind it, of k8s_pods as
\* long as consumeLogs ships.  (CloseReturnsUnlessLate and K!CloseReturns in one formula:
\* which never changes.)
ClosesReturn ==
  (\/ which = "file" /\ closer = "cancelled"
   \/ which = "k8s" /\ kConf.Ships /\ kCloser = "wait")
    ~> (\/ which = "file" /\ (closer = "closed" \/ lateOpen)
        \/ which = "k8s" /\ (kCloser = "closed" \/ kPanicked))

\* Every line is shipped, of a file or a pod that is left alone and not closed.
LinesAreShipped == (which = "file" => EveryLineShipped) /\ (which = "k8s" => K!EveryLineShipped)
=============================================================================
