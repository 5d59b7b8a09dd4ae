---------------------------- MODULE StoresProofs ----------------------------
(***************************************************************************)
(* The adapters that empty a store lose nothing and, as long as deletes    *)
(* succeed, ship nothing twice: for every set of keys, messages, files,    *)
(* page size, pipeline width and number of workers, and whichever calls    *)
(* fail.  S3 first, then GCS, sqs-files, sqs and their composition.        *)
(***************************************************************************)
EXTENDS Stores, FiniteSetTheorems, TLAPS

-----------------------------------------------------------------------------
(***************************************************************************)
(* S3.                                                                     *)
(***************************************************************************)
File == [key : Keys, ok : BOOLEAN]

\* The invariant the proof needs: a delete goroutine exists only for an object
\* that was shipped, and the file about to be shipped is a real one.
DeleteInv ==
  /\ TypeOK
  /\ DeletedWasShipped
  /\ \A k \in Keys : del[k] # "none" => shipped[k] > 0
  /\ main = "ship" => cur # NoFile

\* Facts about the queue of downloaded files: append, head and tail.
LEMMA QueueFacts ==
  ASSUME NEW q \in Seq(File)
  PROVE  /\ Len(q) \in Nat
         /\ \A f \in File : Append(q, f) \in Seq(File) /\ Len(Append(q, f)) = Len(q) + 1
         /\ q # <<>> => Head(q) \in File /\ Tail(q) \in Seq(File) /\ Len(Tail(q)) < Len(q)
  OBVIOUS

\* NewS3Adapter establishes the invariant.
LEMMA DeleteInit == Init => DeleteInv
<1> SUFFICES ASSUME Init PROVE DeleteInv OBVIOUS
<1>1. ahead \in Seq(File) /\ Len(ahead) <= ParallelFetch
  <2>1. ParallelFetch \in Nat BY S3Assumption
  <2>2. ahead = <<>> BY DEF Init
  <2>3. QED BY <2>1, <2>2
<1>2. TypeOK
  <2>1. shipped \in [Keys -> 0 .. 2] /\ del \in [Keys -> {"none", "call", "store"}]
    BY DEF Init
  <2>2. {err, delErr, isStop} \subseteq BOOLEAN /\ ended \in BOOLEAN
    BY Zenon DEF Init
  <2>3. ~ \E k \in Keys : del[k] # "none"
    BY DEF Init
  <2>4. QED
    BY <1>1, <2>1, <2>2, <2>3 DEF Init, TypeOK, File
<1>3. QED
  BY <1>2 DEF Init, DeleteInv, DeletedWasShipped

\* What every step of the main loop, of the pipeline, of a delete goroutine and
\* of Close preserves.
LEMMA DeleteStep == DeleteInv /\ [Next]_vars => DeleteInv'
<1> SUFFICES ASSUME DeleteInv, [Next]_vars PROVE DeleteInv'
  OBVIOUS
<1> USE S3Assumption
<1>t. TypeOK BY DEF DeleteInv
<1>q. /\ Len(ahead) \in Nat
      /\ \A f \in File : Append(ahead, f) \in Seq(File) /\ Len(Append(ahead, f)) = Len(ahead) + 1
      /\ ahead # <<>> => Head(ahead) \in File /\ Tail(ahead) \in Seq(File) /\ Len(Tail(ahead)) < Len(ahead)
  BY <1>t, QueueFacts DEF TypeOK, File
<1>1. CASE MainTop
  BY <1>1, <1>t DEF MainTop, DeleteInv, TypeOK, DeletedWasShipped, bucketVars, pipeVars
<1>2. CASE MainList
  <2>1. ahead' \in Seq(File) /\ Len(ahead') <= ParallelFetch
    <3>1. ParallelFetch \in Nat OBVIOUS
    <3>2. ahead' = <<>> BY <1>2 DEF MainList
    <3>3. QED BY <3>1, <3>2
  <2>2. page' \subseteq Keys
    BY <1>2, <1>t DEF MainList, Contents, TypeOK
  <2>3. QED
    BY <1>2, <2>1, <2>2, <1>t DEF MainList, DeleteInv, TypeOK, DeletedWasShipped, bucketVars, File
<1>3. CASE MainListFails
  BY <1>3, <1>t DEF MainListFails, DeleteInv, TypeOK, DeletedWasShipped, bucketVars, pipeVars
<1>4. CASE Fetch
  <2>1. /\ page' \subseteq Keys /\ ended' \in BOOLEAN
        /\ ahead' \in Seq(File) /\ Len(ahead') <= ParallelFetch
    <3>1. ParallelFetch \in Nat OBVIOUS
    <3>2. ended' \in BOOLEAN /\ page' \subseteq Keys
      BY <1>4, <1>t DEF Fetch, TypeOK
    <3>3. ahead' = ahead \/ \E f \in File : ahead' = Append(ahead, f)
      <4>1. CASE ahead' = ahead BY <4>1
      <4>2. CASE \E k \in page : \E ok \in {k \notin conf.Large, k \notin conf.Large /\ ~conf.DownloadFails} :
                   ahead' = Append(ahead, [key |-> k, ok |-> ok])
        <5>1. PICK k \in page, ok \in BOOLEAN : ahead' = Append(ahead, [key |-> k, ok |-> ok])
          BY <4>2, Zenon
        <5>2. [key |-> k, ok |-> ok] \in File
          BY <5>1, <1>t DEF TypeOK, File
        <5>3. QED BY <5>1, <5>2
      <4>3. QED BY <1>4, <4>1, <4>2 DEF Fetch
    <3>4. Len(ahead) < ParallelFetch /\ ahead \in Seq(File)
      BY <1>4, <1>t DEF Fetch, TypeOK, File
    <3>5. QED BY <3>1, <3>2, <3>3, <3>4, <1>q
  <2>2. UNCHANGED <<bucketVars, main, cur, err, delErr, del, isStop, closer, shipped>>
    BY <1>4 DEF Fetch
  <2>3. QED
    BY <2>1, <2>2, <1>t DEF DeleteInv, TypeOK, DeletedWasShipped, bucketVars, File
<1>5. CASE MainGet
  <2>1. ahead' \in Seq(File) /\ Len(ahead') <= ParallelFetch /\ cur' \in File \union {NoFile}
    BY <1>5, <1>t, <1>q DEF MainGet, TypeOK, File
  <2>2. QED
    BY <1>5, <2>1, <1>t DEF MainGet, DeleteInv, TypeOK, DeletedWasShipped, bucketVars, File
<1>6. CASE MainGot
  BY <1>6, <1>t DEF MainGot, AfterGet, DeleteInv, TypeOK, DeletedWasShipped, bucketVars, pipeVars
<1>7. CASE MainNotShipped
  BY <1>7, <1>t DEF MainNotShipped, DeleteInv, TypeOK, DeletedWasShipped, bucketVars, pipeVars
<1>8. CASE MainShipped
  <2>1. cur.key \in Keys
    BY <1>8, <1>t DEF MainShipped, DeleteInv, TypeOK
  <2>2. /\ shipped' \in [Keys -> 0 .. 2]
        /\ shipped'[cur.key] > 0
        /\ \A k \in Keys : k # cur.key => shipped'[k] = shipped[k]
    BY <1>8, <2>1, <1>t DEF MainShipped, TypeOK
  <2>3. /\ del' \in [Keys -> {"none", "call", "store"}]
        /\ \A k \in Keys : k # cur.key => del'[k] = del[k]
        /\ main' \in {"loop", "look"}
    BY <1>8, <2>1, <1>t DEF MainShipped, TypeOK
  <2>4. UNCHANGED <<bucketVars, pipeVars, cur, err, delErr, isStop, closer>>
    BY <1>8 DEF MainShipped
  <2>5. TypeOK'
    BY <2>2, <2>3, <2>4, <1>t DEF TypeOK, bucketVars, pipeVars
  <2>6. DeletedWasShipped'
    BY <2>2, <2>4, <1>t DEF DeleteInv, DeletedWasShipped, TypeOK, bucketVars
  <2>7. \A k \in Keys : del'[k] # "none" => shipped'[k] > 0
    BY <2>2, <2>3 DEF DeleteInv
  <2>8. QED
    BY <2>3, <2>5, <2>6, <2>7 DEF DeleteInv
<1>9. CASE MainLook
  BY <1>9, <1>t DEF MainLook, DeleteInv, TypeOK, DeletedWasShipped, bucketVars, pipeVars
<1>10. CASE MainDecide
  BY <1>10, <1>t DEF MainDecide, DeleteInv, TypeOK, DeletedWasShipped, bucketVars, pipeVars
<1>11. CASE MainReturn
  BY <1>11, <1>t DEF MainReturn, DeletesDone, DeleteInv, TypeOK, DeletedWasShipped, bucketVars
<1>12. ASSUME NEW k \in Keys, Upload(k) PROVE DeleteInv'
  BY <1>12, <1>t DEF Upload, DeleteInv, TypeOK, DeletedWasShipped, pipeVars
<1>13. ASSUME NEW k \in Keys, DeleteCall(k) PROVE DeleteInv'
  <2>1. /\ bucket' \subseteq bucket
        /\ \A j \in bucket \ bucket' : j = k
        /\ err' \in BOOLEAN
        /\ del' \in [Keys -> {"none", "call", "store"}]
        /\ \A j \in Keys : del'[j] # "none" => del[j] # "none"
    BY <1>13, <1>t DEF DeleteCall, TypeOK
  <2>2. UNCHANGED <<conf, uploaded, main, pipeVars, cur, delErr, isStop, closer, shipped>>
    BY <1>13 DEF DeleteCall
  <2>3. shipped[k] > 0
    BY <1>13 DEF DeleteCall, DeleteInv
  <2>4. TypeOK'
    BY <2>1, <2>2, <1>t DEF TypeOK, pipeVars
  <2>5. DeletedWasShipped'
    BY <2>1, <2>2, <2>3 DEF DeleteInv, DeletedWasShipped
  <2>6. QED
    BY <2>1, <2>2, <2>4, <2>5 DEF DeleteInv
<1>14. ASSUME NEW k \in Keys, DeleteStore(k) PROVE DeleteInv'
  BY <1>14, <1>t DEF DeleteStore, DeleteInv, TypeOK, DeletedWasShipped, bucketVars, pipeVars
<1>15. CASE CloseStop
  BY <1>15, <1>t DEF CloseStop, DeleteInv, TypeOK, DeletedWasShipped, bucketVars, pipeVars
<1>16. CASE CloseWait
  BY <1>16, <1>t DEF CloseWait, DeleteInv, TypeOK, DeletedWasShipped, bucketVars, pipeVars
<1>17. CASE UNCHANGED vars
  BY <1>17, <1>t DEF vars, DeleteInv, TypeOK, DeletedWasShipped, bucketVars, pipeVars
<1>18. QED
  BY <1>1, <1>2, <1>3, <1>4, <1>5, <1>6, <1>7, <1>8, <1>9, <1>10, <1>11, <1>12, <1>13,
     <1>14, <1>15, <1>16, <1>17
  DEF Next, Main, Delete, Terminated

\* lookForFiles never loses an object: what has left the bucket was shipped.
THEOREM NothingDeletedUnshipped == Spec => []DeletedWasShipped
<1>1. DeleteInv => DeletedWasShipped BY DEF DeleteInv
<1>2. QED BY <1>1, DeleteInit, DeleteStep, PTL DEF Spec

\* The adapter's state is well typed; in particular no delete goroutine outlives
\* the call of lookForFiles that has started it.
THEOREM S3TypeCorrect == Spec => []TypeOK
<1>1. DeleteInv => TypeOK BY DEF DeleteInv
<1>2. QED BY <1>1, DeleteInit, DeleteStep, PTL DEF Spec

-----------------------------------------------------------------------------
(***************************************************************************)
(* No object is ingested twice.  IngestedOnce alone says nothing of the    *)
(* files under way: OnceInv adds that each is under way only once and was  *)
(* not shipped yet, and that a shipped one is gone or about to go.         *)
(***************************************************************************)
Waiting(k) == k \in page \/ \E i \in 1 .. Len(ahead) : ahead[i].key = k

AtHand(k) == main \in {"got", "ship"} /\ cur.key = k

\* What it() has returned, or will, was uploaded, and the loop meets it once.
UnderWayInv ==
  /\ \A k \in page : k \in uploaded
  /\ \A i \in 1 .. Len(ahead) : ahead[i].key \in uploaded /\ ahead[i].key \notin page
  /\ \A i, j \in 1 .. Len(ahead) : ahead[i].key = ahead[j].key => i = j
  /\ main \in {"got", "ship"} /\ cur # NoFile => cur.key \in uploaded /\ ~Waiting(cur.key)
  /\ main \in {"top", "list", "exited"} => page = {} /\ ahead = <<>>

\* A shipped object will not be met again: it has left the bucket, or its delete is
\* running.
OnceInv ==
  \A k \in Keys : shipped[k] > 0 =>
    /\ shipped[k] = 1
    /\ k \in uploaded /\ ~Waiting(k) /\ ~AtHand(k)
    /\ k \in bucket => del[k] = "call"

Deleting == ~conf.DeleteFails /\ ~conf.IsOneTimeLoad

S3Inv == DeleteInv /\ UnderWayInv /\ (Deleting => OnceInv)

\* Where the results of the pipeline are after an append and after a tail.
LEMMA QueueElements ==
  ASSUME NEW q \in Seq(File)
  PROVE  /\ \A f \in File : \A i \in 1 .. Len(Append(q, f)) :
              Append(q, f)[i] = IF i = Len(q) + 1 THEN f ELSE q[i]
         /\ \A f \in File : Len(Append(q, f)) = Len(q) + 1
         /\ q # <<>> => /\ Len(q) >= 1 /\ Head(q) = q[1] /\ Len(Tail(q)) = Len(q) - 1
                        /\ \A i \in 1 .. Len(Tail(q)) : Tail(q)[i] = q[i + 1]
         /\ \A i \in 1 .. Len(q) : q[i] \in File
         /\ Len(q) \in Nat
  OBVIOUS

\* it() and the generator hand every key of the page over once.
LEMMA UnderWayStep == DeleteInv /\ UnderWayInv /\ [Next]_vars => UnderWayInv'
<1> SUFFICES ASSUME DeleteInv, UnderWayInv, [Next]_vars PROVE UnderWayInv'
  OBVIOUS
<1> USE S3Assumption
<1>t. TypeOK BY DEF DeleteInv
<1>a. ahead \in Seq(File) BY <1>t DEF TypeOK, File
<1>1. CASE MainTop
  BY <1>1 DEF MainTop, UnderWayInv, Waiting, bucketVars, pipeVars
<1>2. CASE MainList
  BY <1>2, <1>t DEF MainList, UnderWayInv, Waiting, Contents, TypeOK, bucketVars
<1>3. CASE MainListFails
  BY <1>3 DEF MainListFails, UnderWayInv, Waiting, bucketVars, pipeVars
<1>4. CASE Fetch
  <2>1. UNCHANGED <<uploaded, main, cur>> /\ main \notin {"top", "list", "exited"}
    BY <1>4 DEF Fetch, bucketVars
  <2>2. CASE UNCHANGED <<page, ahead>>
    BY <2>1, <2>2 DEF UnderWayInv, Waiting
  <2>3. CASE \E k \in page : /\ page' = page \ {k}
                            /\ \E ok \in {k \notin conf.Large, k \notin conf.Large /\ ~conf.DownloadFails} :
                                 ahead' = Append(ahead, [key |-> k, ok |-> ok])
    <3>1. PICK k \in page, ok \in BOOLEAN : page' = page \ {k} /\ ahead' = Append(ahead, [key |-> k, ok |-> ok])
      BY <2>3, Zenon
    <3>2. [key |-> k, ok |-> ok] \in File BY <3>1, <1>t DEF TypeOK, File
    <3>3. /\ Len(ahead) \in Nat /\ Len(ahead') = Len(ahead) + 1
          /\ \A i \in 1 .. Len(ahead') : ahead'[i].key = IF i = Len(ahead) + 1 THEN k ELSE ahead[i].key
      BY <3>1, <3>2, <1>a, QueueElements
    <3>4. \A j : ~Waiting(j) => ~Waiting(j)'
      BY <3>1, <3>3 DEF Waiting
    <3>5. k \in uploaded /\ \A i \in 1 .. Len(ahead) : ahead[i].key # k
      BY DEF UnderWayInv
    <3>6. \A i \in 1 .. Len(ahead') : ahead'[i].key \in uploaded' /\ ahead'[i].key \notin page'
      BY <3>1, <3>3, <3>5, <2>1 DEF UnderWayInv
    <3>7. \A i, j \in 1 .. Len(ahead') : ahead'[i].key = ahead'[j].key => i = j
      BY <3>3, <3>5 DEF UnderWayInv
    <3>8. QED
      BY <3>1, <3>4, <3>6, <3>7, <2>1 DEF UnderWayInv
  <2>4. QED BY <1>4, <2>2, <2>3 DEF Fetch
<1>5. CASE MainGet
  <2>1. UNCHANGED <<uploaded, page>> /\ main' = "got" BY <1>5 DEF MainGet, bucketVars
  <2>2. CASE ahead = <<>>
    BY <1>5, <2>1, <2>2 DEF MainGet, UnderWayInv, Waiting
  <2>3. CASE ahead # <<>>
    <3>1. cur' = Head(ahead) /\ ahead' = Tail(ahead) BY <1>5, <2>3 DEF MainGet
    <3>2. /\ Len(ahead) \in Nat /\ Len(ahead) >= 1 /\ Len(ahead') = Len(ahead) - 1
          /\ cur' = ahead[1] /\ \A i \in 1 .. Len(ahead') : ahead'[i] = ahead[i + 1]
      BY <3>1, <2>3, <1>a, QueueElements
    <3>3. cur'.key \in uploaded' /\ ~Waiting(cur.key)'
      BY <2>1, <3>2 DEF UnderWayInv, Waiting
    <3>4. \A i \in 1 .. Len(ahead') : i + 1 \in 1 .. Len(ahead) BY <3>2
    <3>5. \A i \in 1 .. Len(ahead') : ahead'[i].key \in uploaded' /\ ahead'[i].key \notin page'
      BY <2>1, <3>2, <3>4 DEF UnderWayInv
    <3>6. \A i, j \in 1 .. Len(ahead') : ahead'[i].key = ahead'[j].key => i = j
      BY <3>2, <3>4 DEF UnderWayInv
    <3>7. QED
      BY <2>1, <3>3, <3>5, <3>6 DEF UnderWayInv
  <2>4. QED BY <2>2, <2>3
<1>6. CASE MainGot
  BY <1>6 DEF MainGot, AfterGet, UnderWayInv, Waiting, bucketVars, pipeVars
<1>7. CASE MainNotShipped
  BY <1>7 DEF MainNotShipped, UnderWayInv, Waiting, bucketVars, pipeVars
<1>8. CASE MainShipped
  BY <1>8 DEF MainShipped, UnderWayInv, Waiting, bucketVars, pipeVars
<1>9. CASE MainLook
  BY <1>9 DEF MainLook, UnderWayInv, Waiting, bucketVars, pipeVars
<1>10. CASE MainDecide
  BY <1>10 DEF MainDecide, UnderWayInv, Waiting, bucketVars, pipeVars
<1>11. CASE MainReturn
  BY <1>11 DEF MainReturn, UnderWayInv, Waiting, bucketVars
<1>12. ASSUME NEW k \in Keys, Upload(k) PROVE UnderWayInv'
  BY <1>12 DEF Upload, UnderWayInv, Waiting, pipeVars
<1>13. ASSUME NEW k \in Keys, DeleteCall(k) PROVE UnderWayInv'
  BY <1>13 DEF DeleteCall, UnderWayInv, Waiting, pipeVars
<1>14. ASSUME NEW k \in Keys, DeleteStore(k) PROVE UnderWayInv'
  BY <1>14 DEF DeleteStore, UnderWayInv, Waiting, bucketVars, pipeVars
<1>15. CASE CloseStop
  BY <1>15 DEF CloseStop, UnderWayInv, Waiting, bucketVars, pipeVars
<1>16. CASE CloseWait
  BY <1>16 DEF CloseWait, UnderWayInv, Waiting, bucketVars, pipeVars
<1>17. CASE UNCHANGED vars
  BY <1>17 DEF vars, UnderWayInv, Waiting, bucketVars, pipeVars
<1>18. QED
  BY <1>1, <1>2, <1>3, <1>4, <1>5, <1>6, <1>7, <1>8, <1>9, <1>10, <1>11, <1>12, <1>13,
     <1>14, <1>15, <1>16, <1>17
  DEF Next, Main, Delete, Terminated

\* With deletes that succeed, a shipped object is never met again: the next listing
\* waits for the deletes (DeletesDone).
LEMMA OnceStep == DeleteInv /\ UnderWayInv /\ Deleting /\ OnceInv /\ [Next]_vars => OnceInv'
<1> SUFFICES ASSUME DeleteInv, UnderWayInv, Deleting, OnceInv, [Next]_vars PROVE OnceInv'
  OBVIOUS
<1> USE S3Assumption
<1>t. TypeOK BY DEF DeleteInv
<1>a. ahead \in Seq(File) BY <1>t DEF TypeOK, File
<1>1. CASE MainTop
  BY <1>1 DEF MainTop, OnceInv, Waiting, AtHand, bucketVars, pipeVars
<1>2. CASE MainList
  <2>1. \A k \in Keys : del[k] = "none" BY <1>2, <1>t DEF MainList, TypeOK
  <2>2. \A k \in Keys : shipped[k] > 0 => k \notin bucket BY <2>1 DEF OnceInv
  <2>3. page' \subseteq bucket /\ ahead' = <<>> BY <1>2 DEF MainList, Contents
  <2>4. \A k \in Keys : shipped[k] > 0 => ~Waiting(k)' BY <2>2, <2>3 DEF Waiting
  <2>5. QED BY <1>2, <2>4 DEF MainList, OnceInv, AtHand, bucketVars
<1>3. CASE MainListFails
  BY <1>3 DEF MainListFails, OnceInv, Waiting, AtHand, bucketVars, pipeVars
<1>4. CASE Fetch
  <2>1. \A k : ~Waiting(k) => ~Waiting(k)'
    <3>1. CASE UNCHANGED <<page, ahead>> BY <3>1 DEF Waiting
    <3>2. CASE \E k \in page : /\ page' = page \ {k}
                              /\ \E ok \in {k \notin conf.Large, k \notin conf.Large /\ ~conf.DownloadFails} :
                                   ahead' = Append(ahead, [key |-> k, ok |-> ok])
      <4>1. PICK k \in page, ok \in BOOLEAN : page' = page \ {k} /\ ahead' = Append(ahead, [key |-> k, ok |-> ok])
        BY <3>2, Zenon
      <4>2. [key |-> k, ok |-> ok] \in File BY <4>1, <1>t DEF TypeOK, File
      <4>3. /\ Len(ahead) \in Nat /\ Len(ahead') = Len(ahead) + 1
            /\ \A i \in 1 .. Len(ahead') : ahead'[i].key = IF i = Len(ahead) + 1 THEN k ELSE ahead[i].key
        BY <4>1, <4>2, <1>a, QueueElements
      <4>4. QED BY <4>1, <4>3 DEF Waiting
    <3>3. QED BY <1>4, <3>1, <3>2 DEF Fetch
  <2>2. UNCHANGED <<bucket, uploaded, main, cur, del, shipped>> BY <1>4 DEF Fetch, bucketVars
  <2>3. QED BY <2>1, <2>2 DEF OnceInv, AtHand
<1>5. CASE MainGet
  <2>1. UNCHANGED <<bucket, uploaded, page, del, shipped>> /\ main = "loop"
    BY <1>5 DEF MainGet, bucketVars
  <2>2. CASE ahead = <<>>
    <3>1. ahead' = ahead /\ cur' = NoFile BY <1>5, <2>2 DEF MainGet
    <3>2. \A k \in Keys : cur'.key # k BY <3>1 DEF NoFile
    <3>3. QED BY <2>1, <3>1, <3>2 DEF OnceInv, Waiting, AtHand
  <2>3. CASE ahead # <<>>
    <3>1. cur' = Head(ahead) /\ ahead' = Tail(ahead) BY <1>5, <2>3 DEF MainGet
    <3>2. /\ Len(ahead) \in Nat /\ Len(ahead) >= 1 /\ Len(ahead') = Len(ahead) - 1
          /\ cur' = ahead[1] /\ \A i \in 1 .. Len(ahead') : ahead'[i] = ahead[i + 1]
      BY <3>1, <2>3, <1>a, QueueElements
    <3>3. \A k : ~Waiting(k) => ~Waiting(k)' /\ cur'.key # k
      BY <2>1, <3>2 DEF Waiting
    <3>4. QED BY <2>1, <3>3 DEF OnceInv, AtHand
  <2>4. QED BY <2>2, <2>3
<1>6. CASE MainGot
  BY <1>6 DEF MainGot, AfterGet, OnceInv, Waiting, AtHand, bucketVars, pipeVars
<1>7. CASE MainNotShipped
  BY <1>7 DEF MainNotShipped, OnceInv, Waiting, AtHand, bucketVars, pipeVars
<1>8. CASE MainShipped
  <2>1. cur.key \in Keys /\ cur # NoFile BY <1>8, <1>t DEF MainShipped, DeleteInv, TypeOK
  <2>2. shipped[cur.key] = 0
    <3>1. AtHand(cur.key) BY <1>8 DEF MainShipped, AtHand
    <3>2. ~(shipped[cur.key] > 0) BY <2>1, <3>1 DEF OnceInv
    <3>3. shipped[cur.key] \in 0 .. 2 BY <2>1, <1>t DEF TypeOK
    <3>4. QED BY <3>2, <3>3
  <2>3. /\ shipped' = [shipped EXCEPT ![cur.key] = 1]
        /\ main' = "look" /\ del' = [del EXCEPT ![cur.key] = "call"]
        /\ UNCHANGED <<bucket, uploaded, page, ahead>>
    BY <1>8, <2>2 DEF MainShipped, Deleting, bucketVars, pipeVars
  <2>4. cur.key \in uploaded /\ ~Waiting(cur.key)
    BY <1>8, <2>1 DEF MainShipped, UnderWayInv
  <2>5. shipped'[cur.key] = 1 /\ del'[cur.key] = "call"
    BY <2>1, <2>3, <1>t DEF TypeOK
  <2>6. \A k \in Keys : k # cur.key => shipped'[k] = shipped[k] /\ del'[k] = del[k]
    BY <2>3, <1>t DEF TypeOK
  <2>7. \A k \in Keys : Waiting(k)' = Waiting(k) /\ ~AtHand(k)'
    BY <2>3 DEF Waiting, AtHand
  <2>8. QED
    BY <2>3, <2>4, <2>5, <2>6, <2>7 DEF OnceInv
<1>9. CASE MainLook
  BY <1>9 DEF MainLook, OnceInv, Waiting, AtHand, bucketVars, pipeVars
<1>10. CASE MainDecide
  BY <1>10 DEF MainDecide, OnceInv, Waiting, AtHand, bucketVars, pipeVars
<1>11. CASE MainReturn
  BY <1>11 DEF MainReturn, OnceInv, Waiting, AtHand, bucketVars
<1>12. ASSUME NEW k \in Keys, Upload(k) PROVE OnceInv'
  BY <1>12 DEF Upload, OnceInv, Waiting, AtHand, pipeVars
<1>13. ASSUME NEW k \in Keys, DeleteCall(k) PROVE OnceInv'
  <2>1. bucket' = bucket \ {k} /\ del' = [del EXCEPT ![k] = "none"]
    BY <1>13 DEF DeleteCall, Deleting
  <2>2. \A j \in Keys : j # k => del'[j] = del[j] BY <2>1, <1>t DEF TypeOK
  <2>3. UNCHANGED <<uploaded, main, page, ahead, cur, shipped>> BY <1>13 DEF DeleteCall, pipeVars
  <2>4. QED BY <2>1, <2>2, <2>3 DEF OnceInv, Waiting, AtHand
<1>14. ASSUME NEW k \in Keys, DeleteStore(k) PROVE OnceInv'
  <2>1. del[k] # "call" /\ \A j \in Keys : j # k => del'[j] = del[j]
    BY <1>14, <1>t DEF DeleteStore, TypeOK
  <2>2. UNCHANGED <<bucket, uploaded, main, page, ahead, cur, shipped>>
    BY <1>14 DEF DeleteStore, bucketVars, pipeVars
  <2>3. QED BY <2>1, <2>2 DEF OnceInv, Waiting, AtHand
<1>15. CASE CloseStop
  BY <1>15 DEF CloseStop, OnceInv, Waiting, AtHand, bucketVars, pipeVars
<1>16. CASE CloseWait
  BY <1>16 DEF CloseWait, OnceInv, Waiting, AtHand, bucketVars, pipeVars
<1>17. CASE UNCHANGED vars
  BY <1>17 DEF vars, OnceInv, Waiting, AtHand, bucketVars, pipeVars
<1>18. QED
  BY <1>1, <1>2, <1>3, <1>4, <1>5, <1>6, <1>7, <1>8, <1>9, <1>10, <1>11, <1>12, <1>13,
     <1>14, <1>15, <1>16, <1>17
  DEF Next, Main, Delete, Terminated

\* The configuration does not change.
LEMMA ConfStays == [Next]_vars => conf' = conf
BY DEF Next, Main, Delete, Terminated, MainTop, MainList, MainListFails, Fetch, MainGet, MainGot,
  MainNotShipped, MainShipped, MainLook, MainDecide, MainReturn, Upload, DeleteCall, DeleteStore,
  CloseStop, CloseWait, vars, bucketVars

\* NewS3Adapter establishes the invariant.
LEMMA S3Init == Init => S3Inv
<1> SUFFICES ASSUME Init PROVE S3Inv OBVIOUS
<1>1. DeleteInv BY DeleteInit
<1>2. UnderWayInv BY DEF Init, UnderWayInv
<1>3. OnceInv BY DEF Init, OnceInv
<1>4. QED BY <1>1, <1>2, <1>3 DEF S3Inv

\* Every step of the adapter preserves it.
LEMMA S3Step == S3Inv /\ [Next]_vars => S3Inv'
<1> SUFFICES ASSUME S3Inv, [Next]_vars PROVE S3Inv' OBVIOUS
<1>1. DeleteInv' BY DeleteStep DEF S3Inv
<1>2. UnderWayInv' BY UnderWayStep DEF S3Inv
<1>3. Deleting' = Deleting BY ConfStays DEF Deleting
<1>4. Deleting' => OnceInv' BY <1>3, OnceStep DEF S3Inv
<1>5. QED BY <1>1, <1>2, <1>4 DEF S3Inv

\* What the invariant says about ingestion.
LEMMA S3Once == S3Inv => IngestedOnceIfDeleted
<1> SUFFICES ASSUME S3Inv, Deleting, NEW k \in Keys PROVE shipped[k] < 2
  BY DEF IngestedOnceIfDeleted, IngestedOnce, Deleting
<1>1. shipped[k] \in 0 .. 2 BY DEF S3Inv, DeleteInv, TypeOK
<1>2. QED BY <1>1 DEF S3Inv, OnceInv

\* As long as the deletes succeed lookForFiles never ships an object twice, however the
\* delete goroutines, the pipeline and uploads interleave and whichever other calls fail.
THEOREM NothingIngestedTwice == Spec => []IngestedOnceIfDeleted
BY S3Init, S3Step, S3Once, PTL DEF Spec

-----------------------------------------------------------------------------
(***************************************************************************)
(* GCS.  The listing goes up by name: what the pipeline holds is in order, *)
(* and none of it is beyond the name the listing has reached.              *)
(***************************************************************************)
GcsPipeInv ==
  /\ \A i \in 1 .. Len(gAhead) : gAhead[i].key \in gUploaded /\ gAhead[i].key <= gLast
  /\ \A i, j \in 1 .. Len(gAhead) : gAhead[i].key = gAhead[j].key => i = j
  /\ gMain \in {"ship", "delete"} =>
       /\ gCur \in gUploaded /\ gCur <= gLast
       /\ \A i \in 1 .. Len(gAhead) : gAhead[i].key # gCur
  /\ gMain = "delete" => gShipped[gCur] > 0
  /\ gMain \in {"top", "exited"} => gEnded = "nil" /\ gAhead = <<>>

\* A shipped file is not met again: it has left the bucket, or is about to, or the one
\* time load has gone past it.
GcsOnceInv ==
  \A k \in Keys : gShipped[k] > 0 =>
    /\ gShipped[k] = 1 /\ k \in gUploaded
    /\ \A i \in 1 .. Len(gAhead) : gAhead[i].key # k
    /\ ~(gMain = "ship" /\ gCur = k)
    /\ k \in gBucket =>
         /\ gMain # "top" /\ (gEnded = "no" => k <= gLast)
         /\ conf.IsOneTimeLoad \/ (gMain = "delete" /\ gCur = k)

GcsInv ==
  /\ G!TypeOK /\ GcsPipeInv /\ G!DeletedWasShipped
  /\ ~conf.DeleteFails => GcsOnceInv

\* NewGCSAdapter establishes the invariant.
LEMMA GcsInit == G!Init => GcsInv
<1> SUFFICES ASSUME G!Init PROVE GcsInv OBVIOUS
<1>1. gAhead \in Seq(File) /\ Len(gAhead) <= ParallelFetch
  <2>1. ParallelFetch \in Nat BY S3Assumption
  <2>2. gAhead = <<>> BY DEF G!Init
  <2>3. QED BY <2>1, <2>2
<1>2. gShipped \in [Keys -> 0 .. 2] /\ \A k \in Keys : gShipped[k] = 0 BY DEF G!Init
<1>3. G!TypeOK
  BY <1>1, <1>2 DEF G!Init, G!TypeOK, File
<1>4. GcsPipeInv /\ G!DeletedWasShipped /\ GcsOnceInv
  BY <1>2 DEF G!Init, GcsPipeInv, G!DeletedWasShipped, GcsOnceInv
<1>5. QED BY <1>3, <1>4 DEF GcsInv

\* The state of the GCS adapter stays well typed.
LEMMA GcsTypeStep == GcsInv /\ [G!Next]_<<conf, gcsVars>> => G!TypeOK'
<1> SUFFICES ASSUME GcsInv, [G!Next]_<<conf, gcsVars>> PROVE G!TypeOK'
  OBVIOUS
<1> USE S3Assumption
<1>t. G!TypeOK BY DEF GcsInv
<1>a. gAhead \in Seq(File) /\ ParallelFetch \in Nat BY <1>t DEF G!TypeOK, File
<1>e. <<>> \in Seq(File) /\ Len(<<>>) <= ParallelFetch BY <1>a
<1>1. CASE G!MainTop
  BY <1>1, <1>t, <1>e DEF G!MainTop, G!TypeOK, G!bucketVars, G!pipeVars, File
<1>2. CASE G!FetchEnd
  BY <1>2, <1>t DEF G!FetchEnd, G!TypeOK, G!bucketVars
<1>3. CASE G!FetchFails
  BY <1>3, <1>t DEF G!FetchFails, G!TypeOK, G!bucketVars
<1>4. CASE G!Fetch
  <2>1. PICK k \in G!Rest, ok \in BOOLEAN : gLast' = k /\ gAhead' = Append(gAhead, [key |-> k, ok |-> ok])
    BY <1>4, Zenon DEF G!Fetch
  <2>2. k \in Keys BY <2>1, <1>t DEF G!Rest, G!TypeOK
  <2>3. [key |-> k, ok |-> ok] \in File BY <2>1, <2>2 DEF File
  <2>4. gAhead' \in Seq(File) /\ Len(gAhead') = Len(gAhead) + 1 /\ Len(gAhead) \in Nat
    BY <2>1, <2>3, <1>a, QueueFacts
  <2>5. Len(gAhead) < ParallelFetch BY <1>4 DEF G!Fetch
  <2>6. Len(gAhead') <= ParallelFetch BY <2>4, <2>5, <1>a
  <2>7. QED
    BY <1>4, <1>t, <2>1, <2>2, <2>4, <2>6 DEF G!Fetch, G!TypeOK, G!bucketVars, File
<1>5. CASE G!MainGet
  <2>1. gAhead # <<>> BY <1>5 DEF G!MainGet
  <2>2. Head(gAhead) \in File /\ Tail(gAhead) \in Seq(File) /\ Len(Tail(gAhead)) < Len(gAhead)
        /\ Len(gAhead) \in Nat /\ Len(Tail(gAhead)) \in Nat
    BY <2>1, <1>a, QueueFacts
  <2>3. gAhead' \in Seq(File) /\ Len(gAhead') <= ParallelFetch /\ gCur' \in Keys
    BY <1>5, <2>2, <1>t, <1>a DEF G!MainGet, G!TypeOK, File
  <2>4. QED
    BY <1>5, <2>3, <1>t DEF G!MainGet, G!AfterGet, G!TypeOK, G!bucketVars, File
<1>6. CASE G!MainGetNil
  BY <1>6, <1>t DEF G!MainGetNil, G!TypeOK, G!bucketVars, G!pipeVars
<1>7. CASE G!MainGetErr
  BY <1>7, <1>t DEF G!MainGetErr, G!TypeOK, G!bucketVars, G!pipeVars
<1>8. CASE G!MainNotShipped
  BY <1>8, <1>t DEF G!MainNotShipped, G!TypeOK, G!bucketVars, G!pipeVars
<1>9. CASE G!MainShipped
  <2>1. gCur \in Keys BY <1>9, <1>t DEF G!MainShipped, GcsInv, GcsPipeInv, G!TypeOK
  <2>2. gShipped' \in [Keys -> 0 .. 2] BY <1>9, <2>1, <1>t DEF G!MainShipped, G!TypeOK
  <2>3. QED BY <1>9, <2>2, <1>t DEF G!MainShipped, G!DeletesAfterShip, G!TypeOK, G!bucketVars, G!pipeVars
<1>10. CASE G!MainDelete
  BY <1>10, <1>t DEF G!MainDelete, G!TypeOK, G!pipeVars
<1>11. CASE G!MainDeleteFails
  BY <1>11, <1>t DEF G!MainDeleteFails, G!TypeOK, G!bucketVars, G!pipeVars
<1>12. CASE G!MainReturn
  BY <1>12, <1>t, <1>e DEF G!MainReturn, G!TypeOK, G!bucketVars, File
<1>13. CASE G!CloseStop
  BY <1>13, <1>t DEF G!CloseStop, G!TypeOK, G!bucketVars, G!pipeVars
<1>14. CASE G!CloseWait
  BY <1>14, <1>t DEF G!CloseWait, G!TypeOK, G!bucketVars, G!pipeVars
<1>15. ASSUME NEW k \in Keys, G!Upload(k) PROVE G!TypeOK'
  BY <1>15, <1>t DEF G!Upload, G!TypeOK, G!pipeVars
<1>16. CASE UNCHANGED <<conf, gcsVars>>
  BY <1>16, <1>t DEF gcsVars, G!TypeOK
<1>17. CASE G!Terminated
  BY <1>17, <1>t DEF G!Terminated, G!vars, G!bucketVars, G!pipeVars, G!TypeOK
<1>18. QED
  BY <1>1, <1>2, <1>3, <1>4, <1>5, <1>6, <1>7, <1>8, <1>9, <1>10, <1>11, <1>12, <1>13, <1>14, <1>15,
     <1>16, <1>17
  DEF G!Next, G!Main, G!Pipe

\* What the pipeline of the GCS adapter holds after one of its steps.
LEMMA GcsPipeStep == GcsInv /\ [G!Next]_<<conf, gcsVars>> => GcsPipeInv'
<1> SUFFICES ASSUME GcsInv, [G!Next]_<<conf, gcsVars>> PROVE GcsPipeInv'
  OBVIOUS
<1> USE S3Assumption
<1>t. G!TypeOK /\ GcsPipeInv BY DEF GcsInv
<1>a. gAhead \in Seq(File) /\ Len(gAhead) \in Nat BY <1>t DEF G!TypeOK, File
<1>e. Len(<<>>) = 0 OBVIOUS
<1>1. CASE G!MainTop
  BY <1>1, <1>t, <1>e DEF G!MainTop, GcsPipeInv, G!bucketVars, G!pipeVars
<1>2. CASE G!FetchEnd
  BY <1>2, <1>t DEF G!FetchEnd, GcsPipeInv, G!bucketVars
<1>3. CASE G!FetchFails
  BY <1>3, <1>t DEF G!FetchFails, GcsPipeInv, G!bucketVars
<1>4. CASE G!Fetch
  <2>1. PICK k \in G!Rest, ok \in BOOLEAN : gLast' = k /\ gAhead' = Append(gAhead, [key |-> k, ok |-> ok])
    BY <1>4, Zenon DEF G!Fetch
  <2>2. k \in Keys /\ k \in gUploaded /\ k \in Nat /\ gLast \in Nat /\ gLast < k
    BY <2>1, <1>t DEF G!Rest, G!TypeOK
  <2>3. [key |-> k, ok |-> ok] \in File BY <2>1, <2>2 DEF File
  <2>4. /\ Len(gAhead') = Len(gAhead) + 1
        /\ \A i \in 1 .. Len(gAhead') : gAhead'[i].key = IF i = Len(gAhead) + 1 THEN k ELSE gAhead[i].key
    <3> DEFINE f == [key |-> k, ok |-> ok]
    <3>1. /\ Len(gAhead') = Len(gAhead) + 1
          /\ \A i \in 1 .. Len(gAhead') : gAhead'[i] = IF i = Len(gAhead) + 1 THEN f ELSE gAhead[i]
      <4> HIDE DEF f
      <4>1. f \in File /\ gAhead' = Append(gAhead, f) BY <2>1, <2>3 DEF f
      <4>2. QED BY <4>1, <1>a, QueueElements
    <3>2. QED BY <3>1
  <2>5. \A j \in gUploaded : j \in Nat BY <1>t DEF G!TypeOK
  <2>6. \A i \in 1 .. Len(gAhead) : gAhead[i].key \in Nat /\ gAhead[i].key < k
    <3> TAKE i \in 1 .. Len(gAhead)
    <3>1. gAhead[i].key \in gUploaded /\ gAhead[i].key <= gLast BY <1>t DEF GcsPipeInv
    <3>2. gAhead[i].key \in Nat BY <3>1, <2>5
    <3>3. QED BY <3>1, <3>2, <2>2
  <2>7. UNCHANGED <<gUploaded, gMain, gEnded, gCur, gShipped>> /\ gEnded = "no"
    BY <1>4 DEF G!Fetch, G!bucketVars
  <2>8. \A i \in 1 .. Len(gAhead') : gAhead'[i].key \in gUploaded' /\ gAhead'[i].key <= gLast'
    BY <2>1, <2>2, <2>4, <2>6, <2>7, <1>a, <1>t DEF GcsPipeInv
  <2>9. \A i, j \in 1 .. Len(gAhead') : gAhead'[i].key = gAhead'[j].key => i = j
    BY <2>2, <2>4, <2>6, <1>a, <1>t DEF GcsPipeInv
  <2>10. gMain \in {"ship", "delete"} => gCur < k /\ gCur \in Nat
    BY <2>2, <2>5, <1>t DEF GcsPipeInv
  <2>11. gMain \in {"ship", "delete"} => \A i \in 1 .. Len(gAhead') : gAhead'[i].key # gCur
    BY <2>2, <2>4, <2>10, <1>a, <1>t DEF GcsPipeInv
  <2>12. gMain' \in {"ship", "delete"} => gCur' <= gLast'
    BY <2>1, <2>2, <2>7, <2>10
  <2>13. QED
    BY <2>7, <2>8, <2>9, <2>11, <2>12, <1>t DEF GcsPipeInv
<1>5. CASE G!MainGet
  <2>1. gAhead # <<>> BY <1>5 DEF G!MainGet
  <2>2. /\ Len(gAhead) >= 1 /\ Head(gAhead) = gAhead[1] /\ Len(Tail(gAhead)) = Len(gAhead) - 1
        /\ \A i \in 1 .. Len(Tail(gAhead)) : Tail(gAhead)[i] = gAhead[i + 1]
    BY <2>1, <1>a, QueueElements
  <2>3. /\ Len(gAhead') = Len(gAhead) - 1 /\ gCur' = gAhead[1].key
        /\ \A i \in 1 .. Len(gAhead') : gAhead'[i] = gAhead[i + 1]
    BY <1>5, <2>2 DEF G!MainGet
  <2>4. \A i \in 1 .. Len(gAhead') : i + 1 \in 1 .. Len(gAhead) /\ i + 1 # 1
    BY <2>3, <1>a
  <2>5. UNCHANGED <<gUploaded, gLast>> /\ gMain' \in {"ship", "loop"}
    BY <1>5 DEF G!MainGet, G!AfterGet, G!bucketVars
  <2>6. 1 \in 1 .. Len(gAhead) BY <2>2, <1>a
  <2>7. \A i \in 1 .. Len(gAhead') : gAhead'[i].key \in gUploaded' /\ gAhead'[i].key <= gLast'
    <3> TAKE i \in 1 .. Len(gAhead')
    <3>1. i + 1 \in 1 .. Len(gAhead) /\ gAhead'[i] = gAhead[i + 1] BY <2>3, <2>4
    <3>2. QED BY <3>1, <2>5, <1>t DEF GcsPipeInv
  <2>8. \A i, j \in 1 .. Len(gAhead') : gAhead'[i].key = gAhead'[j].key => i = j
    <3> TAKE i, j \in 1 .. Len(gAhead')
    <3>1. i + 1 \in 1 .. Len(gAhead) /\ j + 1 \in 1 .. Len(gAhead) BY <2>4
    <3>2. gAhead'[i] = gAhead[i + 1] /\ gAhead'[j] = gAhead[j + 1] BY <2>3
    <3>3. gAhead'[i].key = gAhead'[j].key => i + 1 = j + 1 BY <3>1, <3>2, <1>t DEF GcsPipeInv
    <3>4. QED BY <3>3
  <2>9. gCur' \in gUploaded' /\ gCur' <= gLast'
    BY <2>3, <2>5, <2>6, <1>t DEF GcsPipeInv
  <2>10. \A i \in 1 .. Len(gAhead') : gAhead'[i].key # gCur'
    BY <2>3, <2>4, <2>6, <1>t DEF GcsPipeInv
  <2>11. QED
    BY <2>5, <2>7, <2>8, <2>9, <2>10 DEF GcsPipeInv
<1>6. CASE G!MainGetNil
  BY <1>6, <1>t DEF G!MainGetNil, GcsPipeInv, G!bucketVars, G!pipeVars
<1>7. CASE G!MainGetErr
  BY <1>7, <1>t DEF G!MainGetErr, GcsPipeInv, G!bucketVars, G!pipeVars
<1>8. CASE G!MainNotShipped
  BY <1>8, <1>t DEF G!MainNotShipped, GcsPipeInv, G!bucketVars, G!pipeVars
<1>9. CASE G!MainShipped
  <2>1. gCur \in Keys BY <1>9, <1>t DEF G!MainShipped, GcsPipeInv, G!TypeOK
  <2>2. gShipped'[gCur] > 0 BY <1>9, <2>1, <1>t DEF G!MainShipped, G!TypeOK
  <2>3. QED BY <1>9, <2>2, <1>t DEF G!MainShipped, GcsPipeInv, G!bucketVars, G!pipeVars
<1>10. CASE G!MainDelete
  BY <1>10, <1>t DEF G!MainDelete, GcsPipeInv, G!pipeVars
<1>11. CASE G!MainDeleteFails
  BY <1>11, <1>t DEF G!MainDeleteFails, GcsPipeInv, G!bucketVars, G!pipeVars
<1>12. CASE G!MainReturn
  BY <1>12, <1>t, <1>e DEF G!MainReturn, GcsPipeInv, G!bucketVars
<1>13. CASE G!CloseStop
  BY <1>13, <1>t DEF G!CloseStop, GcsPipeInv, G!bucketVars, G!pipeVars
<1>14. CASE G!CloseWait
  BY <1>14, <1>t DEF G!CloseWait, GcsPipeInv, G!bucketVars, G!pipeVars
<1>15. ASSUME NEW k \in Keys, G!Upload(k) PROVE GcsPipeInv'
  BY <1>15, <1>t DEF G!Upload, GcsPipeInv, G!pipeVars
<1>16. CASE UNCHANGED <<conf, gcsVars>>
  BY <1>16, <1>t DEF gcsVars, GcsPipeInv
<1>17. CASE G!Terminated
  BY <1>17, <1>t DEF G!Terminated, G!vars, G!bucketVars, G!pipeVars, GcsPipeInv
<1>18. QED
  BY <1>1, <1>2, <1>3, <1>4, <1>5, <1>6, <1>7, <1>8, <1>9, <1>10, <1>11, <1>12, <1>13, <1>14, <1>15,
     <1>16, <1>17
  DEF G!Next, G!Main, G!Pipe

\* A file leaves the bucket only after processEvent has shipped it.
LEMMA GcsDeletedStep == GcsInv /\ [G!Next]_<<conf, gcsVars>> => G!DeletedWasShipped'
<1> SUFFICES ASSUME GcsInv, [G!Next]_<<conf, gcsVars>> PROVE G!DeletedWasShipped'
  OBVIOUS
<1> USE S3Assumption
<1>t. G!TypeOK /\ GcsPipeInv /\ G!DeletedWasShipped BY DEF GcsInv
<1>1. CASE UNCHANGED <<gBucket, gUploaded, gShipped>>
  BY <1>1, <1>t DEF G!DeletedWasShipped
<1>2. CASE G!MainShipped
  <2>1. gCur \in Keys BY <1>2, <1>t DEF G!MainShipped, GcsPipeInv, G!TypeOK
  <2>2. gShipped'[gCur] > 0 /\ \A k \in Keys : k # gCur => gShipped'[k] = gShipped[k]
    BY <1>2, <2>1, <1>t DEF G!MainShipped, G!TypeOK
  <2>3. UNCHANGED <<gBucket, gUploaded>> /\ gUploaded \subseteq Keys
    BY <1>2, <1>t DEF G!MainShipped, G!bucketVars, G!TypeOK
  <2>4. QED BY <2>2, <2>3, <1>t DEF G!DeletedWasShipped
<1>3. CASE G!MainDelete
  BY <1>3, <1>t DEF G!MainDelete, GcsPipeInv, G!DeletedWasShipped
<1>4. ASSUME NEW k \in Keys, G!Upload(k) PROVE G!DeletedWasShipped'
  BY <1>4, <1>t DEF G!Upload, G!DeletedWasShipped
<1>5. QED
  BY <1>1, <1>2, <1>3, <1>4
  DEF G!Next, G!Main, G!Pipe, G!MainTop, G!FetchEnd, G!FetchFails, G!Fetch, G!MainGet, G!MainGetNil,
    G!MainGetErr, G!MainNotShipped, G!MainDeleteFails, G!MainReturn, G!CloseStop, G!CloseWait,
    G!Terminated, G!vars, G!bucketVars, gcsVars

\* With deletes that succeed, nothing that was shipped is listed again.
LEMMA GcsOnceStep ==
  GcsInv /\ ~conf.DeleteFails /\ [G!Next]_<<conf, gcsVars>> => GcsOnceInv'
<1> SUFFICES ASSUME GcsInv, ~conf.DeleteFails, [G!Next]_<<conf, gcsVars>>,
                    NEW k \in Keys, gShipped'[k] > 0
             PROVE  /\ gShipped'[k] = 1 /\ k \in gUploaded'
                    /\ \A i \in 1 .. Len(gAhead') : gAhead'[i].key # k
                    /\ ~(gMain' = "ship" /\ gCur' = k)
                    /\ k \in gBucket' =>
                         /\ gMain' # "top" /\ (gEnded' = "no" => k <= gLast')
                         /\ conf'.IsOneTimeLoad \/ (gMain' = "delete" /\ gCur' = k)
  BY DEF GcsOnceInv
<1> USE S3Assumption
<1>t. G!TypeOK /\ GcsPipeInv /\ GcsOnceInv BY DEF GcsInv
<1>a. gAhead \in Seq(File) /\ Len(gAhead) \in Nat BY <1>t DEF G!TypeOK, File
<1>e. Len(<<>>) = 0 OBVIOUS
<1> DEFINE Old == gShipped[k] > 0
<1>o. Old => /\ gShipped[k] = 1 /\ k \in gUploaded
             /\ \A i \in 1 .. Len(gAhead) : gAhead[i].key # k
             /\ ~(gMain = "ship" /\ gCur = k)
             /\ k \in gBucket =>
                  /\ gMain # "top" /\ (gEnded = "no" => k <= gLast)
                  /\ conf.IsOneTimeLoad \/ (gMain = "delete" /\ gCur = k)
  BY <1>t DEF GcsOnceInv
<1> HIDE DEF Old
<1>c. UNCHANGED gShipped => Old BY DEF Old
<1>1. CASE G!MainTop
  BY <1>1, <1>c, <1>o, <1>e DEF G!MainTop, G!bucketVars, G!pipeVars
<1>2. CASE G!FetchEnd
  BY <1>2, <1>c, <1>o DEF G!FetchEnd, G!bucketVars
<1>3. CASE G!FetchFails
  BY <1>3, <1>c, <1>o DEF G!FetchFails, G!bucketVars
<1>4. CASE G!Fetch
  <2>1. PICK j \in G!Rest, ok \in BOOLEAN : gLast' = j /\ gAhead' = Append(gAhead, [key |-> j, ok |-> ok])
    BY <1>4, Zenon DEF G!Fetch
  <2>2. /\ UNCHANGED <<conf, gBucket, gUploaded, gMain, gEnded, gCur, gShipped>>
        /\ gEnded = "no"
    BY <1>4 DEF G!Fetch, G!bucketVars
  <2>3. Old BY <2>2, <1>c
  <2>4. j \in gBucket /\ j \in Keys /\ j > gLast /\ gLast \in Nat /\ j \in Nat /\ k \in Nat
    BY <2>1, <1>t DEF G!Rest, G!TypeOK
  <2>5. j # k /\ (k \in gBucket => k <= gLast')
    BY <2>1, <2>2, <2>3, <2>4, <1>o
  <2>6. \A i \in 1 .. Len(gAhead') : gAhead'[i].key # k
    <3> DEFINE f == [key |-> j, ok |-> ok]
    <3>1. f \in File /\ f.key = j BY <2>1, <2>4 DEF File
    <3> HIDE DEF f
    <3>2. gAhead' = Append(gAhead, f) BY <2>1 DEF f
    <3>3. /\ Len(gAhead') = Len(gAhead) + 1
          /\ \A i \in 1 .. Len(gAhead') : gAhead'[i] = IF i = Len(gAhead) + 1 THEN f ELSE gAhead[i]
      BY <3>1, <3>2, <1>a, QueueElements
    <3>4. QED BY <3>1, <3>3, <2>3, <2>5, <1>a, <1>o
  <2>7. QED BY <2>2, <2>3, <2>5, <2>6, <1>o
<1>5. CASE G!MainGet
  <2>1. gAhead # <<>> BY <1>5 DEF G!MainGet
  <2>2. /\ Len(gAhead) >= 1 /\ Head(gAhead) = gAhead[1] /\ Len(Tail(gAhead)) = Len(gAhead) - 1
        /\ \A i \in 1 .. Len(Tail(gAhead)) : Tail(gAhead)[i] = gAhead[i + 1]
    BY <2>1, <1>a, QueueElements
  <2>3. /\ Len(gAhead') = Len(gAhead) - 1 /\ gCur' = gAhead[1].key
        /\ \A i \in 1 .. Len(gAhead') : gAhead'[i] = gAhead[i + 1]
    BY <1>5, <2>2 DEF G!MainGet
  <2>4. \A i \in 1 .. Len(gAhead') : i + 1 \in 1 .. Len(gAhead)
    BY <2>3, <1>a
  <2>5. UNCHANGED <<conf, gBucket, gUploaded, gEnded, gLast, gShipped>> /\ gMain = "loop" /\ gMain' \in {"ship", "loop"}
    BY <1>5 DEF G!MainGet, G!AfterGet, G!bucketVars
  <2>6. Old BY <2>5, <1>c
  <2>7. 1 \in 1 .. Len(gAhead) BY <2>2, <1>a
  <2>8. gCur' # k BY <2>3, <2>6, <2>7, <1>o
  <2>9. \A i \in 1 .. Len(gAhead') : gAhead'[i].key # k
    <3> TAKE i \in 1 .. Len(gAhead')
    <3>1. i + 1 \in 1 .. Len(gAhead) /\ gAhead'[i] = gAhead[i + 1] BY <2>3, <2>4
    <3>2. QED BY <3>1, <2>6, <1>o
  <2>10. QED BY <2>5, <2>6, <2>8, <2>9, <1>o
<1>6. CASE G!MainGetNil
  BY <1>6, <1>c, <1>o DEF G!MainGetNil, G!bucketVars, G!pipeVars
<1>7. CASE G!MainGetErr
  BY <1>7, <1>c, <1>o DEF G!MainGetErr, G!bucketVars, G!pipeVars
<1>8. CASE G!MainNotShipped
  BY <1>8, <1>c, <1>o DEF G!MainNotShipped, G!bucketVars, G!pipeVars
<1>9. CASE G!MainShipped
  <2>1. gCur \in Keys /\ gCur \in gUploaded /\ gCur <= gLast /\ \A i \in 1 .. Len(gAhead) : gAhead[i].key # gCur
    BY <1>9, <1>t DEF G!MainShipped, GcsPipeInv, G!TypeOK
  <2>2. /\ UNCHANGED <<conf, gBucket, gUploaded, gEnded, gLast, gAhead, gCur>> /\ gMain = "ship"
        /\ gMain' = IF conf.IsOneTimeLoad THEN "loop" ELSE "delete"
    BY <1>9 DEF G!MainShipped, G!DeletesAfterShip, G!bucketVars, G!pipeVars
  <2>3. CASE k = gCur
    <3>1. ~Old BY <2>2, <2>3, <1>o
    <3>2. gShipped[k] \in 0 .. 2 BY <1>t DEF G!TypeOK
    <3>3. gShipped[k] = 0 BY <3>1, <3>2 DEF Old
    <3>4. gShipped'[k] = 1 BY <1>9, <2>3, <3>3, <1>t DEF G!MainShipped, G!TypeOK
    <3>5. QED BY <2>1, <2>2, <2>3, <3>4
  <2>4. CASE k # gCur
    <3>1. gShipped'[k] = gShipped[k] BY <1>9, <2>4, <1>t DEF G!MainShipped, G!TypeOK
    <3>2. Old BY <3>1 DEF Old
    <3>3. QED BY <2>2, <2>4, <3>1, <3>2, <1>o
  <2>5. QED BY <2>3, <2>4
<1>10. CASE G!MainDelete
  BY <1>10, <1>c, <1>o DEF G!MainDelete, G!pipeVars
<1>11. CASE G!MainDeleteFails
  BY <1>11 DEF G!MainDeleteFails
<1>12. CASE G!MainReturn
  BY <1>12, <1>c, <1>o, <1>e DEF G!MainReturn, G!Ends, G!bucketVars
<1>13. CASE G!CloseStop
  BY <1>13, <1>c, <1>o DEF G!CloseStop, G!bucketVars, G!pipeVars
<1>14. CASE G!CloseWait
  BY <1>14, <1>c, <1>o DEF G!CloseWait, G!bucketVars, G!pipeVars
<1>15. CASE \E j \in Keys : G!Upload(j)
  BY <1>15, <1>c, <1>o DEF G!Upload, G!pipeVars
<1>16. CASE UNCHANGED <<conf, gcsVars>>
  BY <1>16, <1>c, <1>o DEF gcsVars
<1>17. CASE G!Terminated
  BY <1>17, <1>c, <1>o DEF G!Terminated, G!vars, G!bucketVars, G!pipeVars
<1>18. QED
  BY <1>1, <1>2, <1>3, <1>4, <1>5, <1>6, <1>7, <1>8, <1>9, <1>10, <1>11, <1>12, <1>13, <1>14, <1>15,
     <1>16, <1>17
  DEF G!Next, G!Main, G!Pipe

\* Every step of the GCS adapter preserves its invariant.
LEMMA GcsStep == GcsInv /\ [G!Next]_<<conf, gcsVars>> => GcsInv'
<1> SUFFICES ASSUME GcsInv, [G!Next]_<<conf, gcsVars>> PROVE GcsInv' OBVIOUS
<1>1. conf' = conf
  BY DEF G!Next, G!Main, G!Pipe, G!MainTop, G!FetchEnd, G!FetchFails, G!Fetch, G!MainGet, G!MainGetNil,
    G!MainGetErr, G!MainNotShipped, G!MainShipped, G!MainDelete, G!MainDeleteFails, G!MainReturn,
    G!CloseStop, G!CloseWait, G!Upload, G!Terminated, G!vars, G!bucketVars
<1>2. QED BY <1>1, GcsTypeStep, GcsPipeStep, GcsDeletedStep, GcsOnceStep DEF GcsInv

-----------------------------------------------------------------------------
(***************************************************************************)
(* sqs.                                                                    *)
(***************************************************************************)
SqsInv ==
  /\ Q!TypeOK /\ Q!DeletedWasShipped
  /\ qReceiver = "message" => qBatch \ qTodo \subseteq qShipped

\* An empty batch fits.
LEMMA EmptyBatch == Q!Cardinality({}) <= MaxBatch /\ F!Cardinality({}) <= MaxBatch
<1>1. Cardinality({}) = 0 BY FS_EmptySet
<1>2. Q!Cardinality({}) = Cardinality({}) BY DEF Q!Cardinality, Cardinality
<1>3. F!Cardinality({}) = Cardinality({}) BY DEF F!Cardinality, Cardinality
<1>4. QED BY <1>1, <1>2, <1>3, QueueAssumption

\* NewSQSAdapter establishes the invariant.
LEMMA SqsInit == Q!Init => SqsInv
<1> SUFFICES ASSUME Q!Init PROVE SqsInv OBVIOUS
<1>1. qQueue \in [Messages -> {"unsent", "visible", "inflight", "deleted"}] /\ Q!DeletedWasShipped
  BY DEF Q!Init, Q!DeletedWasShipped
<1>2. {qIsStop, qClientClosed} \subseteq BOOLEAN BY Zenon DEF Q!Init
<1>3. Q!Cardinality(qBatch) <= MaxBatch BY EmptyBatch, Zenon DEF Q!Init
<1>4. QED BY <1>1, <1>2, <1>3, Zenon DEF Q!Init, SqsInv, Q!TypeOK

\* A batch is deleted only when each of its messages was shipped.
LEMMA SqsStep == SqsInv /\ [Q!Next]_<<fConf, sqsVars>> => SqsInv'
<1> SUFFICES ASSUME SqsInv, [Q!Next]_<<fConf, sqsVars>> PROVE SqsInv'
  OBVIOUS
<1>t. Q!TypeOK BY DEF SqsInv
<1>1. ASSUME NEW m \in Messages, Q!SendMessage(m) \/ Q!VisibilityTimeout(m) PROVE SqsInv'
  <2>1. qQueue' \in [Messages -> {"unsent", "visible", "inflight", "deleted"}]
    BY <1>1, <1>t DEF Q!SendMessage, Q!VisibilityTimeout, Q!TypeOK
  <2>2. \A n \in Messages : qQueue'[n] = "deleted" => qQueue[n] = "deleted"
    BY <1>1, <1>t DEF Q!SendMessage, Q!VisibilityTimeout, Q!TypeOK
  <2>3. UNCHANGED <<fConf, qReceiver, qBatch, qTodo, qNew, qIsStop, qClientClosed, qShipped>>
    BY <1>1 DEF Q!SendMessage, Q!VisibilityTimeout
  <2>4. QED BY <2>1, <2>2, <2>3, <1>t DEF SqsInv, Q!TypeOK, Q!DeletedWasShipped
<1>2. CASE Q!ReceiveTop
  BY <1>2, <1>t DEF Q!ReceiveTop, SqsInv, Q!TypeOK, Q!DeletedWasShipped, Q!queueVars
<1>3. CASE Q!ReceiveMessage
  <2>1. PICK B \in Q!Batches : /\ qBatch' = B /\ qTodo' = B
                               /\ qQueue' = Q!Moved(B, "inflight")
                               /\ qReceiver' = IF B = {} THEN "top" ELSE "message"
    BY <1>3 DEF Q!ReceiveMessage
  <2>2. B \subseteq Messages /\ Q!Cardinality(B) <= MaxBatch
    BY Zenon DEF Q!Batches, Q!Visible
  <2>3. /\ qQueue' \in [Messages -> {"unsent", "visible", "inflight", "deleted"}]
        /\ \A n \in Messages : qQueue'[n] = "deleted" => qQueue[n] = "deleted"
    BY <2>1, <1>t DEF Q!Moved, Q!TypeOK
  <2>4. UNCHANGED <<fConf, qNew, qIsStop, qClientClosed, qShipped>>
    BY <1>3 DEF Q!ReceiveMessage
  <2>5. Q!DeletedWasShipped' BY <2>3, <2>4 DEF SqsInv, Q!DeletedWasShipped
  <2>6. Q!Cardinality(qBatch') <= MaxBatch BY <2>1, <2>2, Zenon
  <2>7. qReceiver' \in {"top", "message"} BY <2>1
  <2>8. Q!TypeOK' BY <2>1, <2>2, <2>3, <2>4, <2>6, <2>7, <1>t DEF Q!TypeOK
  <2>9. QED BY <2>1, <2>5, <2>8, Zenon DEF SqsInv
<1>4. CASE Q!ReceiveMessageFails
  BY <1>4, <1>t DEF Q!ReceiveMessageFails, SqsInv, Q!TypeOK, Q!DeletedWasShipped, Q!queueVars
<1>5. ASSUME NEW m \in Messages, Q!Ship(m) PROVE SqsInv'
  BY <1>5, <1>t DEF Q!Ship, Q!ShipFailsTo, SqsInv, Q!TypeOK, Q!DeletedWasShipped, Q!queueVars
<1>6. CASE Q!DeleteMessageBatch \/ Q!DeleteFails
  <2>1. PICK D \in SUBSET qBatch : qQueue' = Q!Moved(D, "deleted")
    BY <1>6 DEF Q!DeleteMessageBatch, Q!DeleteFails
  <2>2. D \subseteq qShipped
    BY <1>6 DEF Q!DeleteMessageBatch, Q!DeleteFails, SqsInv
  <2>3. qQueue' \in [Messages -> {"unsent", "visible", "inflight", "deleted"}]
    BY <2>1, <1>t DEF Q!Moved, Q!TypeOK
  <2>4. Q!DeletedWasShipped'
    BY <1>6, <2>1, <2>2 DEF Q!DeleteMessageBatch, Q!DeleteFails, Q!Moved, SqsInv, Q!DeletedWasShipped
  <2>5. qReceiver' \in {"top", "failed"} /\ (qBatch' = {} \/ qBatch' = qBatch) /\ qTodo' = {} /\ qTodo = {}
    BY <1>6 DEF Q!DeleteMessageBatch, Q!DeleteFails
  <2>6. Q!Cardinality(qBatch') <= MaxBatch BY <2>5, <1>t, EmptyBatch, Zenon DEF Q!TypeOK
  <2>7. UNCHANGED <<fConf, qNew, qIsStop, qClientClosed, qShipped>>
    BY <1>6 DEF Q!DeleteMessageBatch, Q!DeleteFails
  <2>8. QED
    BY <2>3, <2>4, <2>5, <2>6, <2>7, <1>t DEF SqsInv, Q!TypeOK
<1>7. CASE Q!NewReturns
  BY <1>7, <1>t, Zenon DEF Q!NewReturns, SqsInv, Q!TypeOK, Q!DeletedWasShipped, Q!queueVars
<1>8. CASE Q!Close
  BY <1>8, <1>t DEF Q!Close, SqsInv, Q!TypeOK, Q!DeletedWasShipped, Q!queueVars
<1>9. CASE Q!CloseClient
  BY <1>9, <1>t DEF Q!CloseClient, SqsInv, Q!TypeOK, Q!DeletedWasShipped, Q!queueVars
<1>10. CASE UNCHANGED <<fConf, sqsVars>>
  BY <1>10, <1>t DEF sqsVars, SqsInv, Q!TypeOK, Q!DeletedWasShipped
<1>11. CASE Q!Stopped
  BY <1>11, <1>10 DEF Q!Stopped, Q!vars, Q!queueVars, sqsVars
<1>12. QED
  BY <1>1, <1>2, <1>3, <1>4, <1>5, <1>6, <1>7, <1>8, <1>9, <1>10, <1>11 DEF Q!Next, Q!Receiver

-----------------------------------------------------------------------------
(***************************************************************************)
(* sqs-files.  A file is taken over when a worker has it, has shipped it   *)
(* or has given it up; what the receiver has looked at is taken over or    *)
(* still in its hands.                                                     *)
(***************************************************************************)
TakenOver == fShipped \union fFailed \union F!UnderWay

Regions == {"none", "home"} \union {RegionOf[m] : m \in Messages}

WorkerInv ==
  /\ fDownloader \in Regions
  /\ fWorker \in [Workers -> [pc : {"range", "download", "ship", "ended"}, file : F!Files \union {"none"},
                               region : Regions]]
  /\ \A w \in Workers : fWorker[w].file = "none" <=> fWorker[w].pc \in {"range", "ended"}

ReceiverInv ==
  /\ fReceiver \in {"top", "receive", "message"} => fPaths = {}
  /\ fReceiver \in {"message", "send"} => \A m \in fBatch \ fTodo : FilesOf[m] \subseteq TakenOver \union fPaths

FilesInv == F!TypeOK /\ WorkerInv /\ ReceiverInv /\ F!DeletedIsTakenOver

\* NewSQSFilesAdapter establishes the invariant.
LEMMA FilesInit == F!Init => FilesInv
<1> SUFFICES ASSUME F!Init PROVE FilesInv OBVIOUS
<1>1. fQueue \in [Messages -> {"unsent", "visible", "inflight", "deleted"}] /\ F!DeletedIsTakenOver
  BY DEF F!Init, F!DeletedIsTakenOver
<1>2. {fIsStop, fClientClosed} \subseteq BOOLEAN BY Zenon DEF F!Init
<1>3. F!Cardinality(fBatch) <= MaxBatch BY EmptyBatch, Zenon DEF F!Init
<1>4. WorkerInv BY DEF F!Init, F!NoFile, WorkerInv, Regions
<1>5. ReceiverInv BY DEF F!Init, ReceiverInv
<1>6. \A w \in Workers : fWorker[w].pc \in {"range", "download", "ship", "ended"} BY <1>4 DEF WorkerInv
<1>7. F!TypeOK BY <1>1, <1>2, <1>3, <1>6, Zenon DEF F!Init, F!TypeOK
<1>8. QED BY <1>1, <1>4, <1>5, <1>7 DEF FilesInv

\* What a step of the receiver, or of the queue, leaves alone.
LEMMA TakenStays ==
  UNCHANGED <<fWorker, fShipped, fFailed>> => UNCHANGED TakenOver
BY DEF TakenOver, F!UnderWay

\* The messages' states stay typed when some of them move, and only those in B become
\* state.
LEMMA QueueMoves ==
  ASSUME F!TypeOK, NEW B, NEW state \in {"inflight", "deleted"}
  PROVE  /\ F!Moved(B, state) \in [Messages -> {"unsent", "visible", "inflight", "deleted"}]
         /\ \A m \in Messages : F!Moved(B, state)[m] = IF m \in B THEN state ELSE fQueue[m]
BY DEF F!Moved, F!TypeOK

\* Steps of the queue and of Close: neither the receiver nor a worker moves.
LEMMA FilesOthersStep ==
  ASSUME FilesInv,
         \/ \E m \in Messages : F!SendMessage(m) \/ F!VisibilityTimeout(m)
         \/ F!NewReturns \/ F!CloseStop \/ F!CloseWait \/ F!Stopped
         \/ UNCHANGED <<fConf, filesVars>>
  PROVE  FilesInv'
<1>t. F!TypeOK BY DEF FilesInv
<1>1. /\ UNCHANGED <<fReceiver, fBatch, fTodo, fPaths, fDownloader, fWorker, fShipped, fFailed>>
      /\ fConf' = fConf
  BY DEF F!SendMessage, F!VisibilityTimeout, F!NewReturns, F!CloseStop, F!CloseWait, F!Stopped,
    F!vars, F!queueVars, F!batchVars, F!closeVars, filesVars
<1>2. /\ fQueue' \in [Messages -> {"unsent", "visible", "inflight", "deleted"}]
      /\ \A m \in Messages : fQueue'[m] = "deleted" => fQueue[m] = "deleted"
  <2>1. CASE UNCHANGED fQueue BY <2>1, <1>t DEF F!TypeOK
  <2>2. CASE \E m \in Messages : fQueue[m] # "deleted" /\ fQueue' = [fQueue EXCEPT ![m] = "visible"]
    BY <2>2, <1>t DEF F!TypeOK
  <2>3. QED
    BY <2>1, <2>2 DEF F!SendMessage, F!VisibilityTimeout, F!NewReturns, F!CloseStop, F!CloseWait, F!Stopped,
      F!vars, F!queueVars, filesVars
<1>3. /\ {fIsStop', fClientClosed'} \subseteq BOOLEAN
      /\ fNew' \in {"sleep", "done", "error"} /\ fCloser' \in {"no", "wait", "closed"}
  <2>1. CASE F!NewReturns BY <2>1, <1>t, Zenon DEF F!NewReturns, F!TypeOK
  <2>2. CASE F!CloseStop BY <2>2, <1>t, Zenon DEF F!CloseStop, F!TypeOK
  <2>3. CASE F!CloseWait BY <2>3, <1>t, Zenon DEF F!CloseWait, F!TypeOK
  <2>4. CASE UNCHANGED <<fNew, fIsStop, fCloser, fClientClosed>> BY <2>4, <1>t DEF F!TypeOK
  <2>5. QED
    BY <2>1, <2>2, <2>3, <2>4 DEF F!SendMessage, F!VisibilityTimeout, F!Stopped, F!vars, F!closeVars, filesVars
<1>4. TakenOver' = TakenOver BY <1>1, TakenStays
<1>5. F!TypeOK' BY <1>1, <1>2, <1>3, <1>t DEF F!TypeOK
<1>6. WorkerInv' BY <1>1 DEF FilesInv, WorkerInv
<1>7. ReceiverInv' BY <1>1, <1>4 DEF FilesInv, ReceiverInv
<1>8. F!DeletedIsTakenOver' BY <1>2, <1>4 DEF FilesInv, F!DeletedIsTakenOver, TakenOver
<1>9. QED BY <1>5, <1>6, <1>7, <1>8 DEF FilesInv

\* receiveEvents: whatever it has looked at it still holds or has handed over.
LEMMA FilesReceiverStep == ASSUME FilesInv, F!Receiver PROVE FilesInv'
<1> USE QueueAssumption
<1>t. F!TypeOK BY DEF FilesInv
<1>1. CASE F!ReceiveTop \/ F!ReceiveMessageFails \/ \E m \in Messages : F!RegionFails(m)
  <2>1. /\ UNCHANGED <<fConf, fQueue, fBatch, fTodo, fPaths, fDownloader, fWorker, fShipped, fFailed>>
        /\ UNCHANGED <<fNew, fIsStop, fCloser, fClientClosed>>
        /\ fReceiver' \in {"receive", "ended", "failed"} /\ (fReceiver' = "receive" => fReceiver = "top")
    BY <1>1 DEF F!ReceiveTop, F!ReceiveMessageFails, F!RegionFails, F!queueVars, F!batchVars, F!closeVars
  <2>2. TakenOver' = TakenOver BY <2>1, TakenStays
  <2>3. F!TypeOK' /\ WorkerInv' BY <2>1, <1>t DEF F!TypeOK, FilesInv, WorkerInv
  <2>4. ReceiverInv' /\ F!DeletedIsTakenOver'
    BY <2>1, <2>2 DEF FilesInv, ReceiverInv, F!DeletedIsTakenOver, TakenOver
  <2>5. QED BY <2>3, <2>4 DEF FilesInv
<1>2. CASE F!ReceiveMessage
  <2>1. PICK B \in F!Batches : /\ fBatch' = B /\ fTodo' = B
                               /\ fQueue' = F!Moved(B, "inflight")
                               /\ fReceiver' = IF B = {} THEN "top" ELSE "message"
    BY <1>2 DEF F!ReceiveMessage
  <2>2. B \subseteq Messages /\ F!Cardinality(B) <= MaxBatch
    BY Zenon DEF F!Batches, F!Visible
  <2>3. /\ fQueue' \in [Messages -> {"unsent", "visible", "inflight", "deleted"}]
        /\ \A m \in Messages : fQueue'[m] = "deleted" => fQueue[m] = "deleted"
    BY <2>1, <1>t, QueueMoves
  <2>4. /\ UNCHANGED <<fConf, fPaths, fDownloader, fWorker, fShipped, fFailed>>
        /\ UNCHANGED <<fNew, fIsStop, fCloser, fClientClosed>> /\ fReceiver = "receive"
    BY <1>2 DEF F!ReceiveMessage, F!closeVars
  <2>5. F!Cardinality(fBatch') <= MaxBatch BY <2>1, <2>2, Zenon
  <2>6. TakenOver' = TakenOver BY <2>4, TakenStays
  <2>7. fReceiver' \in {"top", "message"} BY <2>1
  <2>8. F!TypeOK' /\ WorkerInv'
    BY <2>1, <2>2, <2>3, <2>4, <2>5, <2>7, <1>t DEF F!TypeOK, FilesInv, WorkerInv
  <2>9. fPaths' = {}
    BY <2>4 DEF FilesInv, ReceiverInv
  <2>10. ReceiverInv' /\ F!DeletedIsTakenOver'
    BY <2>1, <2>3, <2>6, <2>7, <2>9 DEF FilesInv, ReceiverInv, F!DeletedIsTakenOver, TakenOver
  <2>11. QED BY <2>8, <2>10 DEF FilesInv
<1>3. ASSUME NEW m \in Messages, F!NextMessage(m) PROVE FilesInv'
  <2>1. /\ UNCHANGED <<fConf, fQueue, fBatch, fWorker, fShipped, fFailed>>
        /\ UNCHANGED <<fNew, fIsStop, fCloser, fClientClosed>>
        /\ fReceiver = "message" /\ m \in fTodo
        /\ fTodo' = fTodo \ {m} /\ fPaths' = FilesOf[m]
        /\ fReceiver' = IF FilesOf[m] = {} THEN "message" ELSE "send"
    BY <1>3 DEF F!NextMessage, F!queueVars, F!closeVars
  <2>2. TakenOver' = TakenOver BY <2>1, TakenStays
  <2>3. fDownloader' \in Regions BY <1>3 DEF F!NextMessage, F!Region, FilesInv, WorkerInv, Regions
  <2>4. fPaths' \subseteq F!Files BY <2>1 DEF F!Files
  <2>5. F!TypeOK' BY <2>1, <2>4, <1>t DEF F!TypeOK
  <2>6. WorkerInv' BY <2>1, <2>3 DEF FilesInv, WorkerInv
  <2>7. ReceiverInv' BY <2>1, <2>2 DEF FilesInv, ReceiverInv
  <2>8. F!DeletedIsTakenOver' BY <2>1, <2>2 DEF FilesInv, F!DeletedIsTakenOver, TakenOver
  <2>9. QED BY <2>5, <2>6, <2>7, <2>8 DEF FilesInv
<1>4. ASSUME NEW w \in Workers, NEW f \in F!Files, F!HandOver(w, f) PROVE FilesInv'
  <2>1. /\ UNCHANGED <<fConf, fQueue, fBatch, fTodo, fDownloader, fShipped, fFailed>>
        /\ UNCHANGED <<fNew, fIsStop, fCloser, fClientClosed>>
        /\ fReceiver = "send" /\ fWorker[w].pc = "range"
        /\ fPaths' = fPaths \ {f}
        /\ fReceiver' = IF fPaths' = {} THEN "message" ELSE "send"
        /\ fWorker' = [fWorker EXCEPT ![w] = [pc |-> "download", file |-> f, region |-> fDownloader]]
    BY <1>4 DEF F!HandOver, F!queueVars, F!closeVars
  <2>2. /\ fWorker'[w] = [pc |-> "download", file |-> f, region |-> fDownloader]
        /\ \A v \in Workers : v # w => fWorker'[v] = fWorker[v]
    BY <2>1 DEF FilesInv, WorkerInv
  <2>3. WorkerInv'
    BY <2>1, <2>2 DEF FilesInv, WorkerInv
  <2>4. \A g \in F!Files : g \in TakenOver \/ g = f => g \in TakenOver'
    <3>1. fWorker[w].file = "none" BY <2>1 DEF FilesInv, WorkerInv
    <3>2. fWorker'[w].file = f BY <2>2
    <3>3. QED BY <2>1, <2>2, <3>1, <3>2 DEF TakenOver, F!UnderWay
  <2>5. \A v \in Workers : fWorker'[v].pc \in {"range", "download", "ship", "ended"}
    BY <2>3 DEF WorkerInv
  <2>6. F!TypeOK' BY <2>1, <2>5, <1>t DEF F!TypeOK
  <2>7. \A m \in Messages : FilesOf[m] \subseteq F!Files BY DEF F!Files
  <2>8. ReceiverInv' BY <2>1, <2>4, <2>7, <1>t DEF FilesInv, ReceiverInv, F!TypeOK
  <2>9. F!DeletedIsTakenOver' BY <2>1, <2>4, <2>7 DEF FilesInv, F!DeletedIsTakenOver, TakenOver
  <2>10. QED BY <2>3, <2>6, <2>8, <2>9 DEF FilesInv
<1>5. CASE F!DeleteMessageBatch \/ F!DeleteFails
  <2>1. PICK D \in SUBSET fBatch : fQueue' = F!Moved(D, "deleted")
    BY <1>5 DEF F!DeleteMessageBatch, F!DeleteFails
  <2>2. /\ UNCHANGED <<fConf, fTodo, fPaths, fDownloader, fWorker, fShipped, fFailed>>
        /\ UNCHANGED <<fNew, fIsStop, fCloser, fClientClosed>>
        /\ fReceiver = "message" /\ fTodo = {} /\ fReceiver' \in {"top", "failed"}
        /\ fBatch' = {} \/ fBatch' = fBatch
    BY <1>5 DEF F!DeleteMessageBatch, F!DeleteFails, F!BatchDone, F!batchVars, F!closeVars
  <2>3. TakenOver' = TakenOver BY <2>2, TakenStays
  <2>4. \A m \in D : FilesOf[m] \subseteq TakenOver
    BY <2>2 DEF FilesInv, ReceiverInv
  <2>5. /\ fQueue' \in [Messages -> {"unsent", "visible", "inflight", "deleted"}]
        /\ \A m \in Messages : fQueue'[m] = IF m \in D THEN "deleted" ELSE fQueue[m]
    BY <2>1, <1>t, QueueMoves
  <2>6. F!Cardinality(fBatch') <= MaxBatch BY <2>2, <1>t, EmptyBatch, Zenon DEF F!TypeOK
  <2>7. F!TypeOK' BY <2>2, <2>5, <2>6, <1>t DEF F!TypeOK
  <2>8. WorkerInv' /\ ReceiverInv' BY <2>2 DEF FilesInv, WorkerInv, ReceiverInv
  <2>9. F!DeletedIsTakenOver' BY <2>3, <2>4, <2>5 DEF FilesInv, F!DeletedIsTakenOver, TakenOver
  <2>10. QED BY <2>7, <2>8, <2>9 DEF FilesInv
<1>6. QED
  BY <1>1, <1>2, <1>3, <1>4, <1>5 DEF F!Receiver

\* processFiles: a worker keeps its file until it is shipped or given up.
LEMMA FilesWorkerStep == ASSUME FilesInv, NEW w \in Workers, F!Worker(w) PROVE FilesInv'
<1> USE QueueAssumption
<1>t. F!TypeOK BY DEF FilesInv
<1>w. /\ fWorker[w] \in [pc : {"range", "download", "ship", "ended"}, file : F!Files \union {"none"}, region : Regions]
      /\ DOMAIN fWorker = Workers
  BY DEF FilesInv, WorkerInv
<1>1. /\ UNCHANGED <<fConf, fQueue, fReceiver, fBatch, fTodo, fPaths, fDownloader>>
      /\ UNCHANGED <<fNew, fIsStop, fCloser, fClientClosed>>
  BY DEF F!Worker, F!WorkerEnds, F!Download, F!DownloadFails, F!PrepareFails, F!Ship, F!queueVars,
    F!batchVars, F!closeVars
<1>2. /\ WorkerInv' /\ fShipped' \subseteq F!Files /\ fFailed' \subseteq F!Files
      /\ \A g \in F!Files : g \in TakenOver => g \in TakenOver'
  <2>1. CASE F!WorkerEnds(w) \/ F!Download(w)
    <3>1. PICK to \in {"ended", "ship"} : /\ fWorker' = [fWorker EXCEPT ![w].pc = to]
                                          /\ to = "ended" <=> fWorker[w].pc \in {"range", "ended"}
      BY <2>1 DEF F!WorkerEnds, F!Download
    <3>2. /\ \A v \in Workers : fWorker'[v].file = fWorker[v].file
          /\ \A v \in Workers : v # w => fWorker'[v] = fWorker[v]
          /\ fWorker'[w].pc = to
      BY <3>1, <1>w DEF FilesInv, WorkerInv
    <3>3. WorkerInv' BY <1>1, <1>w, <3>1, <3>2 DEF FilesInv, WorkerInv
    <3>4. UNCHANGED <<fShipped, fFailed>> BY <2>1 DEF F!WorkerEnds, F!Download
    <3>5. TakenOver' = TakenOver BY <3>2, <3>4 DEF TakenOver, F!UnderWay
    <3>6. QED BY <3>3, <3>4, <3>5, <1>t DEF F!TypeOK
  <2>2. CASE F!DownloadFails(w) \/ F!PrepareFails(w) \/ F!Ship(w)
    <3>1. PICK to \in {"range", "ended"} : fWorker' = [fWorker EXCEPT ![w] = [pc |-> to, file |-> "none", region |-> "none"]]
      BY <2>2 DEF F!DownloadFails, F!PrepareFails, F!Ship, F!NoFile
    <3>2. /\ fWorker'[w] = [pc |-> to, file |-> "none", region |-> "none"]
          /\ \A v \in Workers : v # w => fWorker'[v] = fWorker[v]
      BY <3>1, <1>w
    <3>3. WorkerInv' BY <1>1, <3>1, <3>2 DEF FilesInv, WorkerInv, Regions
    <3>4. fWorker[w].pc \in {"download", "ship"} BY <2>2 DEF F!DownloadFails, F!PrepareFails, F!Ship
    <3>5. fWorker[w].file \in F!Files BY <3>4, <1>w DEF FilesInv, WorkerInv
    <3>6. \/ fShipped' = fShipped \union {fWorker[w].file} /\ fFailed' = fFailed
          \/ fFailed' = fFailed \union {fWorker[w].file} /\ fShipped' = fShipped
      BY <2>2 DEF F!DownloadFails, F!PrepareFails, F!Ship
    <3>7. \A g \in F!Files : g \in TakenOver => g \in TakenOver'
      BY <3>2, <3>6 DEF TakenOver, F!UnderWay
    <3>8. QED BY <3>3, <3>5, <3>6, <3>7, <1>t DEF F!TypeOK
  <2>3. QED BY <2>1, <2>2 DEF F!Worker
<1>3. \A v \in Workers : fWorker'[v].pc \in {"range", "download", "ship", "ended"}
  BY <1>2 DEF WorkerInv
<1>4. F!TypeOK' BY <1>1, <1>2, <1>3, <1>t DEF F!TypeOK
<1>5. \A m \in Messages : FilesOf[m] \subseteq F!Files BY DEF F!Files
<1>6. ReceiverInv' BY <1>1, <1>2, <1>5, <1>t DEF FilesInv, ReceiverInv, F!TypeOK
<1>7. F!DeletedIsTakenOver' BY <1>1, <1>2, <1>5 DEF FilesInv, F!DeletedIsTakenOver, TakenOver
<1>8. QED BY <1>2, <1>4, <1>6, <1>7 DEF FilesInv

\* Every step of the sqs-files adapter preserves its invariant.
LEMMA FilesStep == FilesInv /\ [F!Next]_<<fConf, filesVars>> => FilesInv'
BY FilesOthersStep, FilesReceiverStep, FilesWorkerStep DEF F!Next

-----------------------------------------------------------------------------
StoresInv == S3Inv /\ GcsInv /\ FilesInv /\ SqsInv

\* The four adapters start in the invariant.
LEMMA StoresInvInit == StoresInit => StoresInv
BY S3Init, GcsInit, FilesInit, SqsInit DEF StoresInit, StoresInv

\* A step is a step of one of the adapters and leaves the others alone.
LEMMA StoresInvStep == StoresInv /\ [StoresNext]_StoresVars => StoresInv'
<1> SUFFICES ASSUME StoresInv, [StoresNext]_StoresVars PROVE StoresInv' OBVIOUS
<1>1. [Next]_vars
  BY DEF StoresNext, OfS3, OfGcs, OfFiles, OfMessages, StoresVars, s3Vars
<1>2. [G!Next]_<<conf, gcsVars>>
  BY ConfStays, <1>1 DEF StoresNext, OfS3, OfGcs, OfFiles, OfMessages, StoresVars, s3Vars, vars, bucketVars
<1>3. Q!Next => fConf' = fConf
  BY DEF Q!Next, Q!Receiver, Q!SendMessage, Q!VisibilityTimeout, Q!ReceiveTop, Q!ReceiveMessage, Q!ReceiveMessageFails,
    Q!DeleteMessageBatch, Q!DeleteFails, Q!Ship, Q!NewReturns, Q!Close, Q!CloseClient, Q!Stopped, Q!vars, Q!queueVars
<1>4. F!Next => fConf' = fConf
  BY DEF F!Next, F!Receiver, F!Worker, F!SendMessage, F!VisibilityTimeout, F!ReceiveTop, F!ReceiveMessage,
    F!ReceiveMessageFails, F!NextMessage, F!RegionFails, F!HandOver, F!DeleteMessageBatch, F!DeleteFails,
    F!WorkerEnds, F!Download, F!DownloadFails, F!PrepareFails, F!Ship, F!NewReturns, F!CloseStop, F!CloseWait,
    F!Stopped, F!vars, F!queueVars
<1>5. [F!Next]_<<fConf, filesVars>>
  BY <1>3 DEF StoresNext, OfS3, OfGcs, OfFiles, OfMessages, StoresVars
<1>6. [Q!Next]_<<fConf, sqsVars>>
  BY <1>4 DEF StoresNext, OfS3, OfGcs, OfFiles, OfMessages, StoresVars
<1>7. QED
  BY <1>1, <1>2, <1>5, <1>6, S3Step, GcsStep, FilesStep, SqsStep DEF StoresInv

\* The adapters' states are well typed; in particular the pipelines stay within
\* ParallelFetch, a batch within MaxBatch, and the receiver of sqs-files never waits for
\* a worker without a file in its hands.
THEOREM StoresTypeCorrect == StoresSpec => []StoresTypeOK
<1>1. StoresInv => StoresTypeOK
  BY DEF StoresInv, S3Inv, DeleteInv, GcsInv, FilesInv, SqsInv, StoresTypeOK
<1>2. QED BY <1>1, StoresInvInit, StoresInvStep, PTL DEF StoresSpec, StoresSafety

\* Whichever calls fail, however often a message is delivered again and whenever Close
\* comes: a file of GCS and a message of sqs that is gone was shipped, and the files of a
\* message of sqs-files that is gone are in the workers' hands, shipped or reported.
THEOREM NothingLost == StoresSpec => []DeletedIsAccountedFor
<1>1. StoresInv => DeletedIsAccountedFor
  BY DEF StoresInv, GcsInv, FilesInv, SqsInv, DeletedIsAccountedFor
<1>2. QED BY <1>1, StoresInvInit, StoresInvStep, PTL DEF StoresSpec, StoresSafety

\* As long as the deletes succeed neither bucket adapter ships a file twice, although S3
\* deletes beside the loop and GCS lists the bucket while it empties it.
THEOREM NothingTwice == StoresSpec => []NoneIngestedTwice
<1>1. GcsInv => G!IngestedOnceIfDeleted
  <2> SUFFICES ASSUME GcsInv, ~conf.DeleteFails, NEW k \in Keys PROVE gShipped[k] < 2
    BY DEF G!IngestedOnceIfDeleted, G!IngestedOnce
  <2>1. gShipped[k] \in 0 .. 2 BY DEF GcsInv, G!TypeOK
  <2>2. QED BY <2>1 DEF GcsInv, GcsOnceInv
<1>2. StoresInv => NoneIngestedTwice
  BY <1>1, S3Once DEF StoresInv, NoneIngestedTwice
<1>3. QED BY <1>2, StoresInvInit, StoresInvStep, PTL DEF StoresSpec, StoresSafety
=============================================================================
