------------------------------ MODULE S3Adapter ------------------------------
(***************************************************************************)
(* s3/client.go: the main loop lists the bucket, takes the downloaded      *)
(* files in order from a utils.Pipeliner, ships each and deletes it in a   *)
(* goroutine of its own; Close stops the loop.  The pipeline appears as    *)
(* what PipelinerRefines proves of it for an it() that never fails: an     *)
(* ordered queue of at most ParallelFetch results.                         *)
(***************************************************************************)
EXTENDS Integers, Sequences, FiniteSets

CONSTANTS
  Keys,           \* object keys, in listing order; each is uploaded at most once
  PageSize,       \* ListObjectsV2 answers at most this many keys
  ParallelFetch,
  Confs           \* configurations and surroundings the adapter is started in

\* Large: the objects over maxObjectSize, or that do not decode; then which calls
\* may fail.
Conf ==
  [IsOneTimeLoad : BOOLEAN, Large : SUBSET Keys,
   ListFails : BOOLEAN, DownloadFails : BOOLEAN, ShipFails : BOOLEAN, DeleteFails : BOOLEAN]

ASSUME S3Assumption ==
  /\ Keys \subseteq Nat \ {0} /\ IsFiniteSet(Keys)
  /\ {PageSize, ParallelFetch} \subseteq Nat \ {0}
  /\ Confs \subseteq Conf

NoFile == [key |-> 0, ok |-> FALSE]     \* nil from the generator

VARIABLES
  conf,      \* a.conf, never changed
  bucket,    \* keys in the bucket
  uploaded,  \* keys ever uploaded
  main,      \* where the main loop is
  page,      \* what it() has not returned yet of resp.Contents, taken in key order
  ended,     \* it() has returned nil
  ahead,     \* results of the pipeline not yet taken: key and whether it was read
  cur,       \* localFile
  err,       \* the variable lookForFiles and its delete goroutines share
  delErr,    \* guarded by errMutex
  del,       \* per key: the goroutine that deletes it
  isStop, closer,
  shipped    \* history: per key, how often it was shipped (2: more than once)

bucketVars == <<conf, bucket, uploaded>>
pipeVars == <<page, ended, ahead>>
vars == <<bucketVars, main, pipeVars, cur, err, delErr, del, isStop, closer, shipped>>

Init ==
  /\ conf \in Confs
  /\ bucket = {} /\ uploaded = {}
  /\ main = "top"
  /\ page = {} /\ ended = TRUE /\ ahead = <<>>
  /\ cur = NoFile
  /\ err = FALSE /\ delErr = FALSE
  /\ del = [k \in Keys |-> "none"]
  /\ isStop = FALSE /\ closer = "no"
  /\ shipped = [k \in Keys |-> 0]

-----------------------------------------------------------------------------
Upload(k) ==
  /\ k \notin uploaded
  /\ uploaded' = uploaded \union {k} /\ bucket' = bucket \union {k}
  /\ UNCHANGED <<conf, main, pipeVars, cur, err, delErr, del, isStop, closer, shipped>>

\* The first page of the listing.
Contents == {k \in bucket : Cardinality({j \in bucket : j < k}) < PageSize}

MainTop ==
  /\ main = "top"
  /\ main' = IF isStop THEN "exited" ELSE "list"
  /\ UNCHANGED <<bucketVars, pipeVars, cur, err, delErr, del, isStop, closer, shipped>>

\* ListObjectsV2; lookForFiles starts with fresh variables.
MainList ==
  /\ main = "list"
  /\ main' = "loop"
  /\ page' = Contents /\ ended' = FALSE /\ ahead' = <<>>
  /\ err' = FALSE /\ delErr' = FALSE
  /\ UNCHANGED <<bucketVars, cur, del, isStop, closer, shipped>>

\* The error is not passed on: (false, nil).
MainListFails ==
  /\ main = "list" /\ conf.ListFails
  /\ main' = IF conf.IsOneTimeLoad THEN "exited" ELSE "top"
  /\ UNCHANGED <<bucketVars, pipeVars, cur, err, delErr, del, isStop, closer, shipped>>

\* it() and the download of what it returns.
Fetch ==
  /\ main \notin {"top", "list", "exited"}
  /\ ~ended /\ Len(ahead) < ParallelFetch
  /\ \/ /\ isStop \/ page = {}
        /\ ended' = TRUE
        /\ UNCHANGED <<page, ahead>>
     \/ /\ ~isStop
        /\ \E k \in page :
             /\ \A j \in page : k <= j
             /\ page' = page \ {k}
             /\ \E ok \in {k \notin conf.Large, k \notin conf.Large /\ ~conf.DownloadFails} :
                  ahead' = Append(ahead, [key |-> k, ok |-> ok])
        /\ UNCHANGED ended
  /\ UNCHANGED <<bucketVars, main, cur, err, delErr, del, isStop, closer, shipped>>

\* newFile, err = genNewFile()
MainGet ==
  /\ main = "loop"
  /\ ahead # <<>> \/ ended
  /\ main' = "got"
  /\ err' = FALSE
  /\ cur' = IF ahead = <<>> THEN NoFile ELSE Head(ahead)
  /\ ahead' = IF ahead = <<>> THEN ahead ELSE Tail(ahead)
  /\ UNCHANGED <<bucketVars, page, ended, delErr, del, isStop, closer, shipped>>

\* Mutant: an object that could not be read ends the loop.
AfterGetBreaks == IF err \/ ~cur.ok THEN "delWait" ELSE "ship"

\* Break on an error or on nil, skip a file that could not be read.
AfterGet == IF err \/ cur = NoFile THEN "delWait" ELSE IF cur.ok THEN "ship" ELSE "loop"

MainGot ==
  /\ main = "got"
  /\ main' = AfterGet
  /\ UNCHANGED <<bucketVars, pipeVars, cur, err, delErr, del, isStop, closer, shipped>>

\* Mutant: a file whose Ship failed is deleted all the same.
MainNotShippedDeletes ==
  /\ main = "ship" /\ conf.ShipFails
  /\ main' = "look"
  /\ del' = [del EXCEPT ![cur.key] = "call"]
  /\ UNCHANGED <<bucketVars, pipeVars, cur, err, delErr, isStop, closer, shipped>>

\* processEvent fails: the file stays.
MainNotShipped ==
  /\ main = "ship" /\ conf.ShipFails
  /\ main' = "loop"
  /\ UNCHANGED <<bucketVars, pipeVars, cur, err, delErr, del, isStop, closer, shipped>>

\* processEvent, and the goroutine that deletes the object.
MainShipped ==
  /\ main = "ship"
  /\ shipped' = [shipped EXCEPT ![cur.key] = IF @ = 0 THEN 1 ELSE 2]
  /\ IF conf.IsOneTimeLoad
     THEN main' = "loop" /\ UNCHANGED del
     ELSE main' = "look" /\ del' = [del EXCEPT ![cur.key] = "call"]
  /\ UNCHANGED <<bucketVars, pipeVars, cur, err, delErr, isStop, closer>>

\* "Take the opportunity to check if a delete failed."
MainLook ==
  /\ main = "look"
  /\ main' = "decide"
  /\ err' = (err \/ delErr)
  /\ UNCHANGED <<bucketVars, pipeVars, cur, delErr, del, isStop, closer, shipped>>

MainDecide ==
  /\ main = "decide"
  /\ main' = IF err THEN "delWait" ELSE "loop"
  /\ UNCHANGED <<bucketVars, pipeVars, cur, err, delErr, del, isStop, closer, shipped>>

\* Mutant: delWg.Wait() is missing.
DeletesDoneAlways == TRUE

DeletesDone == \A k \in Keys : del[k] = "none"

\* The end of lookForFiles, and what the main loop makes of it; isDataFound only
\* decides whether it sleeps first.
MainReturn ==
  /\ main = "delWait" /\ DeletesDone
  /\ err' = (err \/ delErr)
  /\ main' = IF err' \/ conf.IsOneTimeLoad THEN "exited" ELSE "top"
  /\ page' = {} /\ ended' = TRUE /\ ahead' = <<>>
  /\ cur' = NoFile
  /\ UNCHANGED <<bucketVars, delErr, del, isStop, closer, shipped>>

-----------------------------------------------------------------------------
(***************************************************************************)
(* The delete goroutines.  err is the variable of lookForFiles, not one of *)
(* their own.                                                              *)
(***************************************************************************)
DeleteCall(k) ==
  /\ del[k] = "call"
  /\ \/ /\ bucket' = bucket \ {k}
        /\ err' = FALSE
        /\ del' = [del EXCEPT ![k] = "none"]
     \/ /\ conf.DeleteFails
        /\ err' = TRUE
        /\ del' = [del EXCEPT ![k] = "store"]
        /\ UNCHANGED bucket
  /\ UNCHANGED <<conf, uploaded, main, pipeVars, cur, delErr, isStop, closer, shipped>>

\* OnError and OnWarning may take their time before err is read again.
DeleteStore(k) ==
  /\ del[k] = "store"
  /\ delErr' = err
  /\ del' = [del EXCEPT ![k] = "none"]
  /\ UNCHANGED <<bucketVars, main, pipeVars, cur, err, isStop, closer, shipped>>

-----------------------------------------------------------------------------
CloseStop ==
  /\ closer = "no"
  /\ isStop' = TRUE /\ closer' = "wait"
  /\ UNCHANGED <<bucketVars, main, pipeVars, cur, err, delErr, del, shipped>>

\* wg.Wait(); Drain and Close of the client follow.
CloseWait ==
  /\ closer = "wait" /\ main = "exited"
  /\ closer' = "closed"
  /\ UNCHANGED <<bucketVars, main, pipeVars, cur, err, delErr, del, isStop, shipped>>

Terminated == closer = "closed" /\ UNCHANGED vars

Main ==
  \/ MainTop \/ MainList \/ MainGet \/ MainGot \/ MainShipped \/ MainLook \/ MainDecide \/ MainReturn
Delete(k) == DeleteCall(k) \/ DeleteStore(k)

Next ==
  \/ Main \/ MainListFails \/ MainNotShipped \/ Fetch \/ CloseStop \/ CloseWait \/ Terminated
  \/ \E k \in Keys : Upload(k) \/ Delete(k)

\* The main loop, the pipeline and the delete goroutines are scheduled.
Fairness ==
  /\ WF_vars(Main \/ MainListFails \/ MainNotShipped) /\ WF_vars(Fetch) /\ WF_vars(CloseWait)
  /\ \A k \in Keys : WF_vars(Delete(k))

Spec == Init /\ [][Next]_vars
FairSpec == Spec /\ Fairness

-----------------------------------------------------------------------------
\* Type correctness.
TypeOK ==
  /\ conf \in Confs
  /\ bucket \subseteq uploaded /\ uploaded \subseteq Keys
  /\ main \in {"top", "list", "loop", "got", "ship", "look", "decide", "delWait", "exited"}
  /\ page \subseteq Keys /\ ended \in BOOLEAN
  /\ ahead \in Seq([key : Keys, ok : BOOLEAN]) /\ Len(ahead) <= ParallelFetch
  /\ cur \in [key : Keys, ok : BOOLEAN] \union {NoFile}
  /\ {err, delErr, isStop} \subseteq BOOLEAN
  /\ del \in [Keys -> {"none", "call", "store"}]
  /\ (\E k \in Keys : del[k] # "none") => main \notin {"top", "list", "exited"}
  /\ closer \in {"no", "wait", "closed"}
  /\ shipped \in [Keys -> 0 .. 2]

\* An object leaves the bucket only after its content was shipped, whichever
\* calls fail and however the deletes interleave.
DeletedWasShipped == \A k \in uploaded \ bucket : shipped[k] > 0

\* No file is ingested twice: the loop lists again only when every file it has
\* shipped is gone, and aborts when it cannot delete one.
IngestedOnce == ~conf.IsOneTimeLoad => \A k \in Keys : shipped[k] < 2

\* The same as long as the deletes succeed, whichever other calls fail.
IngestedOnceIfDeleted == ~conf.DeleteFails => IngestedOnce

\* Close returns, whichever calls fail.
CloseReturns == isStop ~> closer = "closed"

NoFailure == ~(conf.ListFails \/ conf.DownloadFails \/ conf.ShipFails \/ conf.DeleteFails)

Shipped(K) == \A k \in K \ conf.Large : shipped[k] > 0

AllShipped ==
  NoFailure /\ ~conf.IsOneTimeLoad /\ Cardinality(conf.Large) < PageSize => isStop \/ Shipped(uploaded)

\* Objects that cannot be read, and stay in the bucket, do not keep the others from
\* being shipped as long as they do not fill a page.
EveryObjectShipped == []<>AllShipped
=============================================================================
