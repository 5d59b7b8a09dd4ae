------------------------------ MODULE SqsFiles ------------------------------
(***************************************************************************)
(* sqs-files/client.go: one goroutine receives batches of messages, hands  *)
(* the files they name to ParallelFetch workers over an unbuffered channel *)
(* and deletes the batch; a worker downloads and ships a file and ends     *)
(* when a download fails.  The queue, the bucket and the client are        *)
(* external.                                                               *)
(***************************************************************************)
EXTENDS Integers, FiniteSets

CONSTANTS
  Messages,   \* each is sent once
  FilesOf,    \* the files a message names: none if it is not valid or names no bucket
  RegionOf,   \* the region of the bucket a message names
  Workers,    \* the ParallelFetch goroutines
  MaxBatch,   \* MaxNumberOfMessages
  Confs       \* which calls may fail

Files == UNION {FilesOf[m] : m \in Messages}

\* OtherRegions: the buckets are not all in one region.  PrepareFails: a file whose
\* path or content cannot be decoded.
Conf ==
  [OtherRegions : BOOLEAN, ReceiveFails : BOOLEAN, RegionFails : BOOLEAN, DownloadFails : BOOLEAN,
   PrepareFails : BOOLEAN, ShipFails : BOOLEAN, DeleteFails : BOOLEAN]

NoFile == [pc |-> "range", file |-> "none", region |-> "none"]

VARIABLES
  conf,       \* never changed
  queue,      \* per message: "unsent", "visible", "inflight" or "deleted"
  receiver,   \* where receiveEvents is; "ended" and "failed" when it has returned
  batch,      \* result.Messages
  todo,       \* messages of the batch not yet looked at
  paths,      \* files of the current message not yet sent to chFiles
  downloader, \* the region awsDownloader is for; isS3Inited is never set
  worker,     \* per worker: where processFiles is, its file and the bucket's region
  new,        \* where NewSQSFilesAdapter is: "sleep", "done" or "error"
  isStop, closer,
  clientClosed,
  shipped,    \* history: files shipped
  failed      \* history: files given up with an error report

queueVars == <<conf, queue>>
batchVars == <<batch, todo, paths, downloader>>
closeVars == <<new, isStop, closer, clientClosed>>
vars == <<queueVars, receiver, batchVars, worker, closeVars, shipped, failed>>

Init ==
  /\ conf \in Confs
  /\ queue = [m \in Messages |-> "unsent"]
  /\ receiver = "top" /\ batch = {} /\ todo = {} /\ paths = {} /\ downloader = "none"
  /\ worker = [w \in Workers |-> NoFile]
  /\ new = "sleep" /\ isStop = FALSE /\ closer = "no" /\ clientClosed = FALSE
  /\ shipped = {} /\ failed = {}

-----------------------------------------------------------------------------
(***************************************************************************)
(* The queue: a message that was received becomes visible again when its   *)
(* 60 seconds are over.                                                    *)
(***************************************************************************)
SendMessage(m) ==
  /\ queue[m] = "unsent"
  /\ queue' = [queue EXCEPT ![m] = "visible"]
  /\ UNCHANGED <<conf, receiver, batchVars, worker, closeVars, shipped, failed>>

VisibilityTimeout(m) ==
  /\ queue[m] = "inflight"
  /\ queue' = [queue EXCEPT ![m] = "visible"]
  /\ UNCHANGED <<conf, receiver, batchVars, worker, closeVars, shipped, failed>>

Visible == {m \in Messages : queue[m] = "visible"}
Batches == {B \in SUBSET Visible : Cardinality(B) <= MaxBatch /\ (B = {} => Visible = {})}
Moved(B, state) == [m \in Messages |-> IF m \in B THEN state ELSE queue[m]]

-----------------------------------------------------------------------------
(***************************************************************************)
(* receiveEvents.  Returning closes chFiles.                               *)
(***************************************************************************)
\* Mutant: the loop does not look at isStop.
ReceiveTopForever ==
  /\ receiver = "top"
  /\ receiver' = "receive"
  /\ UNCHANGED <<queueVars, batchVars, worker, closeVars, shipped, failed>>

ReceiveTop ==
  /\ receiver = "top"
  /\ receiver' = IF isStop THEN "ended" ELSE "receive"
  /\ UNCHANGED <<queueVars, batchVars, worker, closeVars, shipped, failed>>

ReceiveMessage ==
  /\ receiver = "receive"
  /\ \E B \in Batches :
       /\ batch' = B /\ todo' = B
       /\ queue' = Moved(B, "inflight")
       /\ receiver' = IF B = {} THEN "top" ELSE "message"
  /\ UNCHANGED <<conf, paths, downloader, worker, closeVars, shipped, failed>>

ReceiveMessageFails ==
  /\ receiver = "receive" /\ conf.ReceiveFails
  /\ receiver' = "failed"
  /\ UNCHANGED <<queueVars, batchVars, worker, closeVars, shipped, failed>>

Region(m) == IF conf.OtherRegions THEN RegionOf[m] ELSE "home"

\* A message without files, or not valid, is deleted with the others.  For the others
\* initS3SDKs replaces the downloader, whatever the workers do with it.
NextMessage(m) ==
  /\ receiver = "message" /\ m \in todo
  /\ todo' = todo \ {m}
  /\ paths' = FilesOf[m]
  /\ downloader' = IF FilesOf[m] = {} THEN downloader ELSE Region(m)
  /\ receiver' = IF FilesOf[m] = {} THEN "message" ELSE "send"
  /\ UNCHANGED <<queueVars, batch, worker, closeVars, shipped, failed>>

\* initS3SDKs cannot find the bucket's region.
RegionFails(m) ==
  /\ receiver = "message" /\ m \in todo /\ conf.RegionFails
  /\ FilesOf[m] # {}
  /\ receiver' = "failed"
  /\ UNCHANGED <<queueVars, batchVars, worker, closeVars, shipped, failed>>

\* a.chFiles <- fileInfo: the sender and a worker meet.
HandOver(w, f) ==
  /\ receiver = "send" /\ f \in paths
  /\ worker[w].pc = "range"
  /\ paths' = paths \ {f}
  /\ worker' = [worker EXCEPT ![w] = [pc |-> "download", file |-> f, region |-> downloader]]
  /\ receiver' = IF paths' = {} THEN "message" ELSE "send"
  /\ UNCHANGED <<queueVars, batch, todo, downloader, closeVars, shipped, failed>>

BatchDone == receiver = "message" /\ todo = {}

DeleteMessageBatch ==
  /\ BatchDone
  /\ queue' = Moved(batch, "deleted")
  /\ receiver' = "top" /\ batch' = {}
  /\ UNCHANGED <<conf, todo, paths, downloader, worker, closeVars, shipped, failed>>

\* The call fails, or for some of the messages only.
DeleteFails ==
  /\ BatchDone /\ conf.DeleteFails
  /\ \E D \in SUBSET batch : D # batch /\ queue' = Moved(D, "deleted")
  /\ receiver' = "failed"
  /\ UNCHANGED <<conf, batchVars, worker, closeVars, shipped, failed>>

-----------------------------------------------------------------------------
(***************************************************************************)
(* processFiles.                                                           *)
(***************************************************************************)
Returned == receiver \in {"ended", "failed"}

WorkerEnds(w) ==
  /\ worker[w].pc = "range" /\ Returned
  /\ worker' = [worker EXCEPT ![w].pc = "ended"]
  /\ UNCHANGED <<queueVars, receiver, batchVars, closeVars, shipped, failed>>

Download(w) ==
  /\ worker[w].pc = "download" /\ worker[w].region = downloader
  /\ worker' = [worker EXCEPT ![w].pc = "ship"]
  /\ UNCHANGED <<queueVars, receiver, batchVars, closeVars, shipped, failed>>

\* "return err": the worker is gone.  A bucket of another region does not answer.
DownloadFails(w) ==
  /\ worker[w].pc = "download" /\ (conf.DownloadFails \/ worker[w].region # downloader)
  /\ worker' = [worker EXCEPT ![w] = [NoFile EXCEPT !.pc = "ended"]]
  /\ failed' = failed \union {worker[w].file}
  /\ UNCHANGED <<queueVars, receiver, batchVars, closeVars, shipped>>

PrepareFails(w) ==
  /\ worker[w].pc = "download" /\ conf.PrepareFails
  /\ worker' = [worker EXCEPT ![w] = NoFile]
  /\ failed' = failed \union {worker[w].file}
  /\ UNCHANGED <<queueVars, receiver, batchVars, closeVars, shipped>>

\* processEvent; its result is not looked at.
Ship(w) ==
  /\ worker[w].pc = "ship"
  /\ worker' = [worker EXCEPT ![w] = NoFile]
  /\ \/ ~clientClosed /\ shipped' = shipped \union {worker[w].file} /\ UNCHANGED failed
     \/ (clientClosed \/ conf.ShipFails) /\ failed' = failed \union {worker[w].file} /\ UNCHANGED shipped
  /\ UNCHANGED <<queueVars, receiver, batchVars, closeVars>>

-----------------------------------------------------------------------------
(***************************************************************************)
(* NewSQSFilesAdapter, two seconds after the start, and Close.             *)
(***************************************************************************)
NewReturns ==
  /\ new = "sleep"
  /\ new' = IF receiver = "failed" THEN "error" ELSE "done"
  /\ clientClosed' = (receiver = "failed")
  /\ UNCHANGED <<queueVars, receiver, batchVars, worker, isStop, closer, shipped, failed>>

CloseStop ==
  /\ new = "done" /\ closer = "no"
  /\ isStop' = TRUE /\ closer' = "wait"
  /\ UNCHANGED <<queueVars, receiver, batchVars, worker, new, clientClosed, shipped, failed>>

\* wg.Wait() and the Close of the client.
CloseWait ==
  /\ closer = "wait" /\ Returned
  /\ \A w \in Workers : worker[w].pc = "ended"
  /\ closer' = "closed" /\ clientClosed' = TRUE
  /\ UNCHANGED <<queueVars, receiver, batchVars, worker, new, isStop, shipped, failed>>

\* Nobody takes from chFiles any more.
Starved == receiver = "send" /\ \A w \in Workers : worker[w].pc = "ended"

Stopped == (closer = "closed" \/ new = "error" \/ Starved) /\ UNCHANGED vars

Receiver ==
  \/ ReceiveTop \/ ReceiveMessage \/ ReceiveMessageFails \/ DeleteMessageBatch \/ DeleteFails
  \/ \E m \in Messages : NextMessage(m) \/ RegionFails(m)
  \/ \E w \in Workers, f \in Files : HandOver(w, f)
Worker(w) == WorkerEnds(w) \/ Download(w) \/ DownloadFails(w) \/ PrepareFails(w) \/ Ship(w)

Next ==
  \/ \E m \in Messages : SendMessage(m) \/ VisibilityTimeout(m)
  \/ Receiver
  \/ \E w \in Workers : Worker(w)
  \/ NewReturns \/ CloseStop \/ CloseWait \/ Stopped

\* The goroutines are scheduled and their calls return.
Fairness ==
  /\ WF_vars(Receiver) /\ WF_vars(NewReturns) /\ WF_vars(CloseWait)
  /\ \A w \in Workers : WF_vars(Worker(w))

Spec == Init /\ [][Next]_vars
FairSpec == Spec /\ Fairness

-----------------------------------------------------------------------------
\* Type correctness.
TypeOK ==
  /\ conf \in Confs
  /\ queue \in [Messages -> {"unsent", "visible", "inflight", "deleted"}]
  /\ receiver \in {"top", "receive", "message", "send", "ended", "failed"}
  /\ todo \subseteq batch /\ batch \subseteq Messages /\ Cardinality(batch) <= MaxBatch
  /\ paths \subseteq Files /\ (receiver = "send" => paths # {})
  /\ {isStop, clientClosed} \subseteq BOOLEAN
  /\ \A w \in Workers : worker[w].pc \in {"range", "download", "ship", "ended"}
  /\ new \in {"sleep", "done", "error"} /\ closer \in {"no", "wait", "closed"}
  /\ shipped \subseteq Files /\ failed \subseteq Files

UnderWay == {worker[w].file : w \in Workers}

\* A message is deleted only when a worker has taken over each of its files: none
\* is forgotten between the batch, the channel and the delete, whatever fails and
\* however often a message is delivered.
DeletedIsTakenOver ==
  \A m \in Messages : queue[m] = "deleted" => FilesOf[m] \subseteq shipped \union failed \union UnderWay

Ended == closer = "closed" \/ Starved

\* Close returns unless every worker has ended on a failed download while the
\* receiver has a file to hand over.
CloseReturnsUnlessStarved == isStop ~> Ended

NoFailure == \A f \in DOMAIN conf : ~conf[f]

Sent == {m \in Messages : queue[m] # "unsent"}

AllShipped == NoFailure => isStop \/ UNION {FilesOf[m] : m \in Sent} \subseteq shipped

\* Unless a call fails or the adapter is closed, every file named by a message that
\* was sent is shipped.
EveryFileShipped == []<>AllShipped
=============================================================================
