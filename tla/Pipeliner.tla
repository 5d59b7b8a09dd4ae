----------------------------- MODULE Pipeliner -----------------------------
(***************************************************************************)
(* utils/pipeliner.go: an iterator it() is drained by one goroutine, its   *)
(* elements are mapped by nParallel goroutines, put back in order by a     *)
(* placer goroutine and handed one at a time to the caller of the returned *)
(* generator.  The caller is the loop of s3.lookForFiles and               *)
(* gcs.lookForFiles: it stops at the first nil or error, or earlier, and   *)
(* then calls the returned close function.                                 *)
(***************************************************************************)
EXTENDS Integers, Sequences, FiniteSets

CONSTANTS
  nParallel,   \* size of the pipeline, the argument of Pipeliner()
  MaxItems,    \* bound: number of elements it() can return
  ItMayFail    \* whether it() may return an error

ASSUME PipelinerAssumption ==
  /\ nParallel \in Nat \ {0}   \* "negative parallel size invalid"
  /\ MaxItems \in Nat
  /\ ItMayFail \in BOOLEAN

VARIABLES
  evDone, evReady,  \* the two utils.Event flags
  smGen,            \* units of the semaphore that are held
  chGen, chReady,   \* contents of the two buffered channels
  arr,              \* the reordering array, slots 0 .. nParallel-1
  cpc,              \* where the consume goroutine is
  proc,             \* per process goroutine: the record it maps, Idle or Done
  readyClosed,      \* close(chReady) has run
  plc,              \* the record the placer has received, Idle or Done
  fin,              \* the wg.Wait() goroutine has set both events
  caller,           \* where the caller of the generator and closer is
  rel,              \* the goroutine that close() starts to release smGen
  panicked,         \* a panic that nothing recovers
  generated,        \* history: what it() returned, in order
  delivered         \* history: what the generator took out of arr, in order

vars == <<evDone, evReady, smGen, chGen, chReady, arr, cpc, proc, readyClosed,
          plc, fin, caller, rel, panicked, generated, delivered>>

consumeVars == <<cpc, generated, chGen>>
callerVars  == <<caller, rel, delivered>>

\* The stream the caller sees; the index of a nil or an error is immaterial.
Stream == INSTANCE OrderedStream WITH
  delivered <- [k \in DOMAIN delivered |->
                 [delivered[k] EXCEPT !.i = IF delivered[k].e = "mapped" THEN @ ELSE 0]]

Procs == 1 .. nParallel
Slots == 0 .. nParallel - 1

\* A pipelinerRecord.  e stands for the pair (e, err): "raw" and "mapped" are
\* a non-nil element before and after proc(), "nil" is (nil, nil), "err" an error.
Record == [e : {"raw", "mapped", "nil", "err"}, i : Nat]
Idle   == [e |-> "idle", i |-> 0]
Done   == [e |-> "done", i |-> 0]

Init ==
  /\ evDone = FALSE /\ evReady = FALSE
  /\ smGen = 0
  /\ chGen = <<>> /\ chReady = <<>>
  /\ arr = [j \in Slots |-> [e |-> "nil", i |-> j + 1]]
  /\ cpc = "top"
  /\ proc = [p \in Procs |-> Idle]
  /\ readyClosed = FALSE
  /\ plc = Idle
  /\ fin = FALSE
  /\ caller = "idle"
  /\ rel = "none"
  /\ panicked = FALSE
  /\ generated = <<>> /\ delivered = <<>>

-----------------------------------------------------------------------------
(***************************************************************************)
(* consume(): leaving the loop runs the deferred close(chGen), which is    *)
(* cpc = "done".                                                           *)
(***************************************************************************)
ConsumeTop ==
  /\ cpc = "top"
  /\ cpc' = IF evDone THEN "done" ELSE "acquire"
  /\ UNCHANGED <<evDone, evReady, smGen, chGen, chReady, arr, proc, readyClosed,
                 plc, fin, panicked, generated, callerVars>>

\* Mutant: smGen.Acquire does not block.
ConsumeAcquireUnbounded ==
  /\ cpc = "acquire"
  /\ smGen' = smGen + 1
  /\ cpc' = "recheck"
  /\ UNCHANGED <<evDone, evReady, chGen, chReady, arr, proc, readyClosed,
                 plc, fin, panicked, generated, callerVars>>

ConsumeAcquire ==
  /\ cpc = "acquire"
  /\ smGen < nParallel
  /\ smGen' = smGen + 1
  /\ cpc' = "recheck"
  /\ UNCHANGED <<evDone, evReady, chGen, chReady, arr, proc, readyClosed,
                 plc, fin, panicked, generated, callerVars>>

\* Mutant: the second evDone.IsSet() is forgotten.
ConsumeRecheckDropped ==
  /\ cpc = "recheck"
  /\ cpc' = "it"
  /\ UNCHANGED <<evDone, evReady, smGen, chGen, chReady, arr, proc, readyClosed,
                 plc, fin, panicked, generated, callerVars>>

ConsumeRecheck ==
  /\ cpc = "recheck"
  /\ cpc' = IF evDone THEN "done" ELSE "it"
  /\ UNCHANGED <<evDone, evReady, smGen, chGen, chReady, arr, proc, readyClosed,
                 plc, fin, panicked, generated, callerVars>>

\* it() returns an element, nil or an error; index++ is Len(generated).
ConsumeIt ==
  /\ cpc = "it"
  /\ \E x \in {"raw", "nil", "err"} :
       /\ x = "raw" => Len(generated) < MaxItems
       /\ x = "err" => ItMayFail
       /\ generated' = Append(generated, x)
  /\ cpc' = "send"
  /\ UNCHANGED <<evDone, evReady, smGen, chGen, chReady, arr, proc, readyClosed,
                 plc, fin, panicked, callerVars>>

\* The error case sends before it sets evDone: "fail" is the point in between.
ConsumeSend ==
  /\ cpc = "send"
  /\ Len(chGen) < nParallel
  /\ LET x == generated[Len(generated)] IN
       /\ chGen' = Append(chGen, [e |-> x, i |-> Len(generated)])
       /\ cpc' = CASE x = "raw" -> "top" [] x = "nil" -> "done" [] OTHER -> "fail"
  /\ UNCHANGED <<evDone, evReady, smGen, chReady, arr, proc, readyClosed,
                 plc, fin, panicked, generated, callerVars>>

ConsumeFail ==
  /\ cpc = "fail"
  /\ evDone' = TRUE
  /\ cpc' = "done"
  /\ UNCHANGED <<evReady, smGen, chGen, chReady, arr, proc, readyClosed,
                 plc, fin, panicked, generated, callerVars>>

-----------------------------------------------------------------------------
(***************************************************************************)
(* process(): nParallel goroutines ranging over chGen, and the goroutine   *)
(* that closes chReady once all of them have returned.                     *)
(***************************************************************************)
ProcessReceive(p) ==
  /\ proc[p] = Idle
  /\ \/ /\ chGen # <<>>
        /\ proc' = [proc EXCEPT ![p] = Head(chGen)]
        /\ chGen' = Tail(chGen)
     \/ /\ chGen = <<>> /\ cpc = "done"
        /\ proc' = [proc EXCEPT ![p] = Done]
        /\ UNCHANGED chGen
  /\ UNCHANGED <<evDone, evReady, smGen, chReady, arr, cpc, readyClosed,
                 plc, fin, panicked, generated, callerVars>>

\* rec.e = proc(rec.e) when it is not nil, then chReady <- rec.
ProcessSend(p) ==
  /\ proc[p] \notin {Idle, Done}
  /\ Len(chReady) < nParallel
  /\ chReady' = Append(chReady, [proc[p] EXCEPT !.e = Stream!Processed(@)])
  /\ proc' = [proc EXCEPT ![p] = Idle]
  /\ UNCHANGED <<evDone, evReady, smGen, chGen, arr, cpc, readyClosed,
                 plc, fin, panicked, generated, callerVars>>

CloseReady ==
  /\ ~readyClosed
  /\ \A p \in Procs : proc[p] = Done
  /\ readyClosed' = TRUE
  /\ UNCHANGED <<evDone, evReady, smGen, chReady, arr, proc,
                 plc, fin, panicked, consumeVars, callerVars>>

-----------------------------------------------------------------------------
(***************************************************************************)
(* placer().  mArr is held by the generator exactly while caller =         *)
(* "locked"; the placer's own critical section is one step.                *)
(***************************************************************************)
PlacerReceive ==
  /\ plc = Idle
  /\ \/ /\ chReady # <<>>
        /\ plc' = Head(chReady)
        /\ chReady' = Tail(chReady)
     \/ /\ chReady = <<>> /\ readyClosed
        /\ plc' = Done
        /\ UNCHANGED chReady
  /\ UNCHANGED <<evDone, evReady, smGen, arr, proc, readyClosed,
                 fin, panicked, consumeVars, callerVars>>

\* The slots whose successor expects the index after rec.i.
Hits(r) == {j \in 0 .. nParallel - 2 : arr[j + 1].i = r.i + 1}

\* Mutant: the search compares with rec.i itself.
SpotOffByOne(r) ==
  LET hits == {j \in 0 .. nParallel - 2 : arr[j + 1].i = r.i} IN
  IF hits = {} THEN nParallel - 1 ELSE CHOOSE j \in hits : \A k \in hits : j <= k

\* The first such slot, else the last slot of the array.
Spot(r) ==
  IF Hits(r) = {} THEN nParallel - 1
  ELSE CHOOSE j \in Hits(r) : \A k \in Hits(r) : j <= k

PlacerPlace ==
  /\ plc \notin {Idle, Done}
  /\ caller # "locked"
  /\ IF arr[Spot(plc)].e \in {"raw", "mapped"}
     THEN /\ panicked' = TRUE   \* "our position in pipeliner is taken"
          /\ UNCHANGED <<arr, evReady, plc>>
     ELSE /\ arr' = [arr EXCEPT ![Spot(plc)] = plc]
          /\ evReady' = (evReady \/ Spot(plc) = 0)
          /\ plc' = Idle
          /\ UNCHANGED panicked
  /\ UNCHANGED <<evDone, smGen, chReady, proc, readyClosed,
                 fin, consumeVars, callerVars>>

\* wg.Wait() can return: consume, every process and placer are over.
AllDone == cpc = "done" /\ plc = Done /\ \A p \in Procs : proc[p] = Done

Finish ==
  /\ AllDone /\ ~fin
  /\ caller # "locked"
  /\ evReady' = TRUE /\ evDone' = TRUE
  /\ fin' = TRUE
  /\ UNCHANGED <<smGen, chReady, arr, proc, readyClosed,
                 plc, panicked, consumeVars, callerVars>>

-----------------------------------------------------------------------------
(***************************************************************************)
(* The generator.                                                          *)
(***************************************************************************)
GeneratorCall ==
  /\ caller = "idle"
  /\ caller' = "waiting"
  /\ UNCHANGED <<evDone, evReady, smGen, chReady, arr, proc, readyClosed,
                 plc, fin, panicked, consumeVars, rel, delivered>>

\* arr moved one slot towards index 0, its last slot emptied.
Shifted ==
  [j \in Slots |->
    IF j < nParallel - 1 THEN arr[j + 1]
    ELSE [e |-> "nil", i |-> IF nParallel > 1 THEN arr[nParallel - 1].i + 1 ELSE 0]]

\* evReady.Wait() returns, mArr is locked, a unit of smGen released, slot 0
\* taken.  Nobody else clears evReady, so the wait and the lock are one step.
GeneratorTake ==
  /\ caller = "waiting"
  /\ evReady
  /\ smGen' = smGen - 1
  /\ panicked' = (smGen' < 0)   \* "semaphore: released more than held"
  /\ delivered' = Append(delivered, arr[0])
  /\ arr' = Shifted
  /\ caller' = "locked"
  /\ UNCHANGED <<evDone, evReady, chReady, proc, readyClosed,
                 plc, fin, consumeVars, rel>>

\* Mutant: evReady is never cleared.
GeneratorReturnNeverClears ==
  /\ caller = "locked"
  /\ caller' = IF delivered[Len(delivered)].e \in {"nil", "err"} THEN "stopped" ELSE "idle"
  /\ UNCHANGED <<evDone, evReady, smGen, chReady, arr, proc, readyClosed,
                 plc, fin, panicked, consumeVars, rel, delivered>>

\* evReady is cleared when the next slot is not ready, mArr is unlocked.
GeneratorReturn ==
  /\ caller = "locked"
  /\ evReady' = (evReady /\ (evDone \/ arr[0].e # "nil"))
  /\ caller' = IF delivered[Len(delivered)].e \in {"nil", "err"} THEN "stopped" ELSE "idle"
  /\ UNCHANGED <<evDone, smGen, chReady, arr, proc, readyClosed,
                 plc, fin, panicked, consumeVars, rel, delivered>>

-----------------------------------------------------------------------------
(***************************************************************************)
(* The close function.  Its semaphore release is a goroutine of its own    *)
(* that recovers from "released more than held"; the count still drops.    *)
(***************************************************************************)
CloseCall ==
  /\ caller \in {"idle", "stopped"}
  /\ caller' = "closing"
  /\ evDone' = TRUE
  /\ rel' = "pending"
  /\ UNCHANGED <<evReady, smGen, chReady, arr, proc, readyClosed,
                 plc, fin, panicked, consumeVars, delivered>>

\* Mutant: close() does not release the semaphore.
CloseReleaseForgotten ==
  /\ rel = "pending"
  /\ rel' = "done"
  /\ UNCHANGED <<smGen, evDone, evReady, chReady, arr, proc, readyClosed,
                 plc, fin, panicked, consumeVars, caller, delivered>>

CloseRelease ==
  /\ rel = "pending"
  /\ rel' = "done"
  /\ smGen' = smGen - 1
  /\ UNCHANGED <<evDone, evReady, chReady, arr, proc, readyClosed,
                 plc, fin, panicked, consumeVars, caller, delivered>>

CloseReturn ==
  /\ caller = "closing"
  /\ AllDone
  /\ caller' = "closed"
  /\ UNCHANGED <<evDone, evReady, smGen, chReady, arr, proc, readyClosed,
                 plc, fin, panicked, consumeVars, rel, delivered>>

Terminated ==
  /\ caller = "closed" /\ fin /\ rel = "done"
  /\ UNCHANGED vars

\* A panic ends the process: no goroutine takes a step after it.
Consume ==
  /\ ~panicked
  /\ \/ ConsumeTop \/ ConsumeAcquire \/ ConsumeRecheck
     \/ ConsumeIt \/ ConsumeSend \/ ConsumeFail

Process(p) == ~panicked /\ (ProcessReceive(p) \/ ProcessSend(p))
Closer     == ~panicked /\ CloseReady
Placer     == ~panicked /\ (PlacerReceive \/ PlacerPlace)
Finisher   == ~panicked /\ Finish
Generator  == ~panicked /\ (GeneratorTake \/ GeneratorReturn)
Releaser   == ~panicked /\ CloseRelease
Closing    == ~panicked /\ CloseReturn
Caller     == ~panicked /\ (GeneratorCall \/ CloseCall)

Next ==
  \/ Consume
  \/ \E p \in Procs : Process(p)
  \/ Closer
  \/ Placer
  \/ Finisher
  \/ Generator
  \/ Releaser
  \/ Closing
  \/ Caller
  \/ Terminated

\* Every goroutine the pipeline starts is scheduled, and it() and proc()
\* return; whether and when the caller calls is its own business.
Fairness ==
  /\ WF_vars(Consume)
  /\ \A p \in Procs : WF_vars(Process(p))
  /\ WF_vars(Closer)
  /\ WF_vars(Placer)
  /\ WF_vars(Finisher)
  /\ WF_vars(Generator)
  /\ WF_vars(Releaser)
  /\ WF_vars(Closing)

Spec == Init /\ [][Next]_vars
FairSpec == Spec /\ Fairness

-----------------------------------------------------------------------------
(***************************************************************************)
(* Properties.                                                             *)
(***************************************************************************)

\* Type correctness of the goroutines' shared and local state.
TypeOK ==
  /\ evDone \in BOOLEAN /\ evReady \in BOOLEAN
  /\ smGen \in Int /\ smGen <= nParallel
  /\ chGen \in Seq(Record) /\ chReady \in Seq(Record)
  /\ arr \in [Slots -> Record]
  /\ cpc \in {"top", "acquire", "recheck", "it", "send", "fail", "done"}
  /\ proc \in [Procs -> Record \union {Idle, Done}]
  /\ readyClosed \in BOOLEAN
  /\ plc \in Record \union {Idle, Done}
  /\ fin \in BOOLEAN
  /\ caller \in {"idle", "waiting", "locked", "stopped", "closing", "closed"}
  /\ rel \in {"none", "pending", "done"}
  /\ panicked \in BOOLEAN
  /\ generated \in Seq({"raw", "nil", "err"})
  /\ delivered \in Seq(Record)

\* The k-th result of the generator is the k-th result of it(), mapped when it
\* is an element: nothing is dropped, invented, duplicated or reordered by the
\* parallel processors, whatever order they finish in (the doc of Pipeliner).
InOrder ==
  \A k \in DOMAIN delivered :
    /\ k \in DOMAIN generated
    /\ delivered[k].e = Stream!Processed(generated[k])
    /\ delivered[k].e = "mapped" => delivered[k].i = k

\* No panic of placer ("our position in pipeliner is taken") or of the
\* semaphore is reached, close() included.
NoPanic == ~panicked

\* Whatever it() and the scheduler do, an error included, the elements that reach
\* the caller are the first ones it() returned, in order, each once; a delivered
\* error is the one it() returned.  The stream can only end early.
OnlyTruncates ==
  \A k \in DOMAIN delivered :
    /\ delivered[k].e # "nil" => k \in DOMAIN generated
    /\ delivered[k].e = "mapped" => delivered[k].i = k /\ generated[k] = "raw"
    /\ delivered[k].e = "err" => generated[k] = "err"
    /\ delivered[k].e # "raw"
    /\ k < Len(delivered) => delivered[k].e = "mapped"

\* The pipeline implements the ordered stream its documentation promises.
ImplementsOrderedStream == Stream!Spec

\* Calls return.  One of the generator does also when the nil element was placed
\* behind other elements and only the wg.Wait() goroutine can wake the caller;
\* close() ("terminates all the pipeline (blocking)") does even if consume is
\* blocked on the semaphore and the caller has stopped consuming.
CallsReturn ==
  /\ caller = "waiting" ~> caller # "waiting"
  /\ caller = "closing" ~> caller = "closed"
=============================================================================
