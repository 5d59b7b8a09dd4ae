------------------------------- MODULE Stores -------------------------------
(***************************************************************************)
(* The adapters that empty a store: the buckets of S3 and GCS, and the     *)
(* queues of sqs-files and sqs.  They share no state: the one that is      *)
(* started, and in which situation, is chosen in the initial state.        *)
(***************************************************************************)
EXTENDS S3Adapter

\* Of the queues, as in SqsFiles and Sqs.
CONSTANTS Messages, FilesOf, RegionOf, Workers, MaxBatch, QueueConfs

VARIABLES
  which,
  listed,   \* history: what the last listing of S3 has named
  \* GcsAdapter
  gBucket, gUploaded, gMain, gLast, gEnded, gAhead, gCur, gIsStop, gCloser, gShipped,
  \* SqsFiles
  fConf, fQueue, fReceiver, fBatch, fTodo, fPaths, fDownloader, fWorker, fNew, fIsStop, fCloser, fClientClosed,
  fShipped, fFailed,
  \* Sqs
  qQueue, qReceiver, qBatch, qTodo, qNew, qIsStop, qClientClosed, qShipped

s3Vars == vars
gcsVars == <<gBucket, gUploaded, gMain, gLast, gEnded, gAhead, gCur, gIsStop, gCloser, gShipped>>
filesVars ==
  <<fQueue, fReceiver, fBatch, fTodo, fPaths, fDownloader, fWorker, fNew, fIsStop, fCloser, fClientClosed, fShipped,
    fFailed>>
sqsVars == <<qQueue, qReceiver, qBatch, qTodo, qNew, qIsStop, qClientClosed, qShipped>>
StoresVars == <<which, listed, s3Vars, gcsVars, fConf, filesVars, sqsVars>>

-----------------------------------------------------------------------------
(***************************************************************************)
(* The buckets.                                                            *)
(***************************************************************************)
G == INSTANCE GcsAdapter WITH
  bucket <- gBucket, uploaded <- gUploaded, main <- gMain, last <- gLast, ended <- gEnded,
  ahead <- gAhead, cur <- gCur, isStop <- gIsStop, closer <- gCloser, shipped <- gShipped

-----------------------------------------------------------------------------
(***************************************************************************)
(* The queues.                                                             *)
(***************************************************************************)
F == INSTANCE SqsFiles WITH
  Confs <- QueueConfs,
  conf <- fConf, queue <- fQueue, receiver <- fReceiver, batch <- fBatch, todo <- fTodo, paths <- fPaths,
  downloader <- fDownloader, worker <- fWorker, new <- fNew, isStop <- fIsStop, closer <- fCloser,
  clientClosed <- fClientClosed, shipped <- fShipped, failed <- fFailed

Q == INSTANCE Sqs WITH
  Confs <- QueueConfs,
  conf <- fConf, queue <- qQueue, receiver <- qReceiver, batch <- qBatch, todo <- qTodo, new <- qNew,
  isStop <- qIsStop, clientClosed <- qClientClosed, shipped <- qShipped

\* "none" is the file of a worker that has none.
ASSUME QueueAssumption ==
  /\ MaxBatch \in Nat \ {0}
  /\ "none" \notin F!Files
  /\ QueueConfs \subseteq F!Conf

-----------------------------------------------------------------------------
\* Those that do not run stay in one initial state.
StoresInit ==
  /\ which \in {"s3", "gcs", "files", "messages"}
  /\ listed = {}
  /\ Init /\ G!Init /\ F!Init /\ Q!Init
  /\ which \in {"files", "messages"} => conf = CHOOSE c \in Confs : TRUE
  /\ which \in {"s3", "gcs"} => fConf = CHOOSE c \in QueueConfs : TRUE

OfS3(A) ==
  /\ which = "s3" /\ A
  /\ listed' = IF main = "list" /\ main' = "loop" THEN page' ELSE listed
  /\ UNCHANGED <<which, gcsVars, fConf, filesVars, sqsVars>>
OfGcs(A) == which = "gcs" /\ A /\ UNCHANGED <<which, listed, s3Vars, fConf, filesVars, sqsVars>>
OfFiles(A) == which = "files" /\ A /\ UNCHANGED <<which, listed, s3Vars, gcsVars, sqsVars>>
OfMessages(A) == which = "messages" /\ A /\ UNCHANGED <<which, listed, s3Vars, gcsVars, filesVars>>

StoresNext == OfS3(Next) \/ OfGcs(G!Next) \/ OfFiles(F!Next) \/ OfMessages(Q!Next)

\* The fairness of the adapters, for the one that runs.
StoresFairness ==
  /\ WF_StoresVars(OfS3(Main \/ MainListFails \/ MainNotShipped))
  /\ WF_StoresVars(OfS3(Fetch)) /\ WF_StoresVars(OfS3(CloseWait))
  /\ \A k \in Keys : WF_StoresVars(OfS3(Delete(k)))
  /\ WF_StoresVars(OfGcs(G!Main)) /\ WF_StoresVars(OfGcs(G!Pipe)) /\ WF_StoresVars(OfGcs(G!CloseWait))
  /\ WF_StoresVars(OfFiles(F!Receiver)) /\ WF_StoresVars(OfFiles(F!NewReturns)) /\ WF_StoresVars(OfFiles(F!CloseWait))
  /\ \A w \in Workers : WF_StoresVars(OfFiles(F!Worker(w)))
  /\ WF_StoresVars(OfMessages(Q!Receiver)) /\ WF_StoresVars(OfMessages(Q!NewReturns))
  /\ WF_StoresVars(OfMessages(Q!CloseClient))

StoresSafety == StoresInit /\ [][StoresNext]_StoresVars
StoresSpec == StoresSafety /\ StoresFairness

-----------------------------------------------------------------------------
\* Type correctness of the adapters.
StoresTypeOK == TypeOK /\ G!TypeOK /\ F!TypeOK /\ Q!TypeOK

\* Nothing leaves its store before it is accounted for: an object of GCS and a message of
\* sqs when it was shipped, a message of sqs-files when workers have taken over its files.
DeletedIsAccountedFor == G!DeletedWasShipped /\ F!DeletedIsTakenOver /\ Q!DeletedWasShipped

\* As long as the deletes succeed no file is ingested twice, although S3 deletes in
\* goroutines beside the loop and GCS lists the bucket while it empties it.
NoneIngestedTwice == IngestedOnceIfDeleted /\ G!IngestedOnceIfDeleted

\* Close ends the adapters, whichever calls fail, unless the workers of sqs-files are all
\* gone.  (CloseReturns, G!CloseReturns, F!CloseReturnsUnlessStarved and Q!ReceiverEnds in
\* one formula: which never changes.)
StoresEnd ==
  (\/ which = "s3" /\ isStop
   \/ which = "gcs" /\ gIsStop
   \/ which = "files" /\ fIsStop
   \/ which = "messages" /\ qIsStop)
    ~> (\/ which = "s3" /\ closer = "closed"
        \/ which = "gcs" /\ gCloser = "closed"
        \/ which = "files" /\ F!Ended
        \/ which = "messages" /\ Q!Ended)

\* A one time load of S3 ends, and has shipped what its listing has named.
ListedIsShipped == NoFailure /\ conf.IsOneTimeLoad => isStop \/ (main = "exited" /\ Shipped(listed))

\* Every readable object of the buckets, and every file and message of the queues, is
\* shipped, unless a call fails or the adapter is closed.  (With EveryObjectShipped,
\* G!EveryObjectShipped, F!EveryFileShipped and Q!EveryMessageShipped in one formula.)
StoresAreShipped ==
  []<>(\/ which = "s3" /\ ListedIsShipped /\ AllShipped
       \/ which = "gcs" /\ G!AllShipped
       \/ which = "files" /\ F!AllShipped
       \/ which = "messages" /\ Q!AllShipped)
=============================================================================
