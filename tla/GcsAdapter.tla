----------------------------- MODULE GcsAdapter -----------------------------
(***************************************************************************)
(* gcs/client.go: like the S3 adapter, but the bucket is listed lazily by  *)
(* the pipeline's it(), listing errors travel through the pipeline, and an *)
(* object is deleted by the main loop itself.  The pipeline appears as     *)
(* what Pipeliner guarantees when it() may fail (OnlyTruncates): results   *)
(* in order, and after an error possibly a nil in place of what is left.   *)
(***************************************************************************)
EXTENDS Integers, Sequences, FiniteSets

CONSTANTS
  Keys,           \* object names, in listing order; each is uploaded at most once
  ParallelFetch,
  Confs           \* configurations and surroundings, as for the S3 adapter

VARIABLES
  conf,      \* a.conf, never changed
  bucket,    \* names in the bucket
  uploaded,  \* names ever uploaded
  main,      \* where the main loop is
  last,      \* the name the listing has reached
  ended,     \* "no", or how it() ended: "nil", "err"
  ahead,     \* results of the pipeline not yet taken: name and whether it was read
  cur,       \* localFile's name
  isStop, closer,
  shipped    \* history: per name, how often it was shipped (2: more than once)

bucketVars == <<conf, bucket, uploaded>>
pipeVars == <<last, ended, ahead>>
vars == <<bucketVars, main, pipeVars, cur, isStop, closer, shipped>>

Init ==
  /\ conf \in Confs
  /\ bucket = {} /\ uploaded = {}
  /\ main = "top"
  /\ last = 0 /\ ended = "nil" /\ ahead = <<>> /\ cur = 0
  /\ isStop = FALSE /\ closer = "no"
  /\ shipped = [k \in Keys |-> 0]

-----------------------------------------------------------------------------
Upload(k) ==
  /\ k \notin uploaded
  /\ uploaded' = uploaded \union {k} /\ bucket' = bucket \union {k}
  /\ UNCHANGED <<conf, main, pipeVars, cur, isStop, closer, shipped>>

MainTop ==
  /\ main = "top"
  /\ IF isStop
     THEN main' = "exited" /\ UNCHANGED pipeVars
     ELSE main' = "loop" /\ last' = 0 /\ ended' = "no" /\ ahead' = <<>>
  /\ UNCHANGED <<bucketVars, cur, isStop, closer, shipped>>

Rest == {k \in bucket : k > last}

\* it(): the end of the listing, or Close.
FetchEnd ==
  /\ ended = "no" /\ Len(ahead) < ParallelFetch
  /\ isStop \/ Rest = {}
  /\ ended' = "nil"
  /\ UNCHANGED <<bucketVars, main, last, ahead, cur, isStop, closer, shipped>>

FetchFails ==
  /\ conf.ListFails
  /\ ended = "no" /\ ~isStop /\ Len(ahead) < ParallelFetch
  /\ ended' = "err"
  /\ UNCHANGED <<bucketVars, main, last, ahead, cur, isStop, closer, shipped>>

\* it(), and the download of what it returns.
Fetch ==
  /\ ended = "no" /\ ~isStop /\ Len(ahead) < ParallelFetch
  /\ \E k \in Rest :
       /\ \A j \in Rest : k <= j
       /\ last' = k
       /\ \E ok \in {k \notin conf.Large, k \notin conf.Large /\ ~conf.DownloadFails} :
            ahead' = Append(ahead, [key |-> k, ok |-> ok])
  /\ UNCHANGED <<bucketVars, main, ended, cur, isStop, closer, shipped>>

\* A file that could not be read is skipped.
AfterGet(file) == IF file.ok THEN "ship" ELSE "loop"

MainGet ==
  /\ main = "loop" /\ ahead # <<>>
  /\ main' = AfterGet(Head(ahead))
  /\ cur' = Head(ahead).key /\ ahead' = Tail(ahead)
  /\ UNCHANGED <<bucketVars, last, ended, isStop, closer, shipped>>

\* genNewFile returns nil.
MainGetNil ==
  /\ main = "loop"
  /\ (ended = "nil" /\ ahead = <<>>) \/ ended = "err"
  /\ main' = "return"
  /\ UNCHANGED <<bucketVars, pipeVars, cur, isStop, closer, shipped>>

\* genNewFile returns an error.
MainGetErr ==
  /\ main = "loop"
  /\ ended = "err" /\ ahead = <<>>
  /\ main' = "returnErr"
  /\ UNCHANGED <<bucketVars, pipeVars, cur, isStop, closer, shipped>>

\* processEvent fails: the file stays.
MainNotShipped ==
  /\ main = "ship" /\ conf.ShipFails
  /\ main' = "loop"
  /\ UNCHANGED <<bucketVars, pipeVars, cur, isStop, closer, shipped>>

DeletesAfterShip == ~conf.IsOneTimeLoad

MainShipped ==
  /\ main = "ship"
  /\ shipped' = [shipped EXCEPT ![cur] = IF @ = 0 THEN 1 ELSE 2]
  /\ main' = IF DeletesAfterShip THEN "delete" ELSE "loop"
  /\ UNCHANGED <<bucketVars, pipeVars, cur, isStop, closer>>

MainDelete ==
  /\ main = "delete"
  /\ bucket' = bucket \ {cur} /\ main' = "loop"
  /\ UNCHANGED <<conf, uploaded, pipeVars, cur, isStop, closer, shipped>>

\* The error stays in the inner scope: lookForFiles returns nil.
MainDeleteFails ==
  /\ main = "delete" /\ conf.DeleteFails
  /\ main' = "return"
  /\ UNCHANGED <<bucketVars, pipeVars, cur, isStop, closer, shipped>>

\* Mutant: only an error ends the loop; a one time load starts again.
EndsOnErrorOnly == main = "returnErr"

Ends == main = "returnErr" \/ conf.IsOneTimeLoad

MainReturn ==
  /\ main \in {"return", "returnErr"}
  /\ main' = IF Ends THEN "exited" ELSE "top"
  /\ last' = 0 /\ ended' = "nil" /\ ahead' = <<>> /\ cur' = 0
  /\ UNCHANGED <<bucketVars, isStop, closer, shipped>>

-----------------------------------------------------------------------------
CloseStop ==
  /\ closer = "no"
  /\ isStop' = TRUE /\ closer' = "wait"
  /\ UNCHANGED <<bucketVars, main, pipeVars, cur, shipped>>

\* wg.Wait(); the storage client is closed, the other one drained and closed.
CloseWait ==
  /\ closer = "wait" /\ main = "exited"
  /\ closer' = "closed"
  /\ UNCHANGED <<bucketVars, main, pipeVars, cur, isStop, shipped>>

Terminated == closer = "closed" /\ UNCHANGED vars

Main ==
  \/ MainTop \/ MainGet \/ MainGetNil \/ MainGetErr \/ MainNotShipped \/ MainShipped
  \/ MainDelete \/ MainDeleteFails \/ MainReturn
Pipe == Fetch \/ FetchEnd \/ FetchFails

Next ==
  \/ Main \/ Pipe \/ CloseStop \/ CloseWait \/ Terminated
  \/ \E k \in Keys : Upload(k)

\* The main loop and the pipeline are scheduled.
Fairness == WF_vars(Main) /\ WF_vars(Pipe) /\ WF_vars(CloseWait)

Spec == Init /\ [][Next]_vars
FairSpec == Spec /\ Fairness

-----------------------------------------------------------------------------
\* Type correctness; nobody ships or touches the bucket once Close has returned.
TypeOK ==
  /\ conf \in Confs
  /\ bucket \subseteq uploaded /\ uploaded \subseteq Keys
  /\ main \in {"top", "loop", "ship", "delete", "return", "returnErr", "exited"}
  /\ closer = "closed" => main = "exited"
  /\ last \in Keys \union {0} /\ cur \in Keys \union {0}
  /\ ended \in {"no", "nil", "err"}
  /\ ahead \in Seq([key : Keys, ok : BOOLEAN]) /\ Len(ahead) <= ParallelFetch
  /\ isStop \in BOOLEAN /\ closer \in {"no", "wait", "closed"}
  /\ shipped \in [Keys -> 0 .. 2]

\* An object leaves the bucket only after its content was shipped, whichever
\* calls fail.
DeletedWasShipped == \A k \in uploaded \ bucket : shipped[k] > 0

\* No file is ingested twice: the loop lists again only when every file it has
\* shipped is gone, and aborts when it cannot delete one.
IngestedOnce == \A k \in Keys : shipped[k] < 2

\* The same as long as the deletes succeed, for a one time load too.
IngestedOnceIfDeleted == ~conf.DeleteFails => IngestedOnce

\* Close returns, whichever calls fail.
CloseReturns == isStop ~> closer = "closed"

NoFailure == ~(conf.ListFails \/ conf.DownloadFails \/ conf.ShipFails \/ conf.DeleteFails)

AllShipped ==
  NoFailure /\ ~conf.IsOneTimeLoad => isStop \/ \A k \in uploaded \ conf.Large : shipped[k] > 0

\* Objects that cannot be read do not keep the others from being shipped.
EveryObjectShipped == []<>AllShipped
=============================================================================
