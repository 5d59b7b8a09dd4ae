-------------------------- MODULE PipelinerProofs --------------------------
(***************************************************************************)
(* Proofs about Pipeliner, for every pipeline size and every length of the *)
(* input.  The ordering theorem is about iterators that never fail, which  *)
(* is what s3.lookForFiles passes; with failures it is false (see the run  *)
(* pipeliner_error_lost).  The last section is about every iterator.       *)
(***************************************************************************)
EXTENDS Pipeliner, TLAPS

-----------------------------------------------------------------------------
(***************************************************************************)
(* Type correctness.  A record is only sent by consume after it() returned *)
(* it, which is the one fact TypeOK needs to be inductive.                 *)
(***************************************************************************)
SendHasRecord == cpc = "send" => generated # <<>>

TypeInv == TypeOK /\ SendHasRecord

\* Facts about the channels as sequences: append, head, tail and their elements.
LEMMA SeqFacts ==
  ASSUME NEW S, NEW s \in Seq(S)
  PROVE  /\ Len(s) \in Nat
         /\ DOMAIN s = 1 .. Len(s)
         /\ \A k \in 1 .. Len(s) : s[k] \in S
         /\ s # <<>> => Len(s) > 0
         /\ Len(s) > 0 => s # <<>>
         /\ s # <<>> => /\ Head(s) = s[1] /\ Head(s) \in S /\ Tail(s) \in Seq(S)
                        /\ Len(Tail(s)) = Len(s) - 1
                        /\ \A k \in 1 .. Len(s) - 1 : Tail(s)[k] = s[k + 1]
         /\ \A x \in S : /\ Append(s, x) \in Seq(S)
                         /\ Len(Append(s, x)) = Len(s) + 1
                         /\ Append(s, x)[Len(s) + 1] = x
                         /\ Append(s, x) # <<>>
                         /\ \A k \in 1 .. Len(s) : Append(s, x)[k] = s[k]
  OBVIOUS

\* The pipeline starts well typed.
LEMMA TypeInit == Init => TypeInv
  BY PipelinerAssumption DEF Init, TypeInv, TypeOK, SendHasRecord, Slots, Procs, Record

\* Every step of every goroutine keeps the state well typed.
LEMMA TypeStep == TypeInv /\ [Next]_vars => TypeInv'
<1> SUFFICES ASSUME TypeInv, [Next]_vars PROVE TypeInv'
  OBVIOUS
<1> USE PipelinerAssumption
<1> USE DEF TypeInv, TypeOK, SendHasRecord, consumeVars, callerVars
<1>1. CASE ConsumeTop BY <1>1 DEF ConsumeTop
<1>2. CASE ConsumeAcquire BY <1>2 DEF ConsumeAcquire
<1>3. CASE ConsumeRecheck BY <1>3 DEF ConsumeRecheck
<1>4. CASE ConsumeIt BY <1>4 DEF ConsumeIt
<1>5. CASE ConsumeSend
  <2>1. Len(generated) \in Nat /\ generated[Len(generated)] \in {"raw", "nil", "err"}
    BY <1>5 DEF ConsumeSend
  <2>2. chGen' \in Seq(Record)
    BY <1>5, <2>1 DEF ConsumeSend, Record
  <2> QED BY <1>5, <2>1, <2>2 DEF ConsumeSend
<1>6. CASE ConsumeFail BY <1>6 DEF ConsumeFail
<1>7. ASSUME NEW p \in Procs, ProcessReceive(p) PROVE TypeInv'
  <2>1. CASE chGen # <<>>
    <3>1. Head(chGen) \in Record /\ Tail(chGen) \in Seq(Record) BY <2>1
    <3>2. proc' = [proc EXCEPT ![p] = Head(chGen)] /\ chGen' = Tail(chGen)
      BY <1>7, <2>1 DEF ProcessReceive
    <3>3. proc' \in [Procs -> Record \union {Idle, Done}] /\ chGen' \in Seq(Record)
      BY <3>1, <3>2
    <3> QED BY <1>7, <3>3 DEF ProcessReceive
  <2>2. CASE chGen = <<>> BY <1>7, <2>2 DEF ProcessReceive
  <2> QED BY <2>1, <2>2
<1>8. ASSUME NEW p \in Procs, ProcessSend(p) PROVE TypeInv'
  <2>1. proc[p] \in Record BY <1>8 DEF ProcessSend
  <2>2. [proc[p] EXCEPT !.e = Stream!Processed(@)] \in Record
    BY <2>1 DEF Record, Stream!Processed
  <2>3. chReady' \in Seq(Record) BY <1>8, <2>2 DEF ProcessSend
  <2> QED BY <1>8, <2>3 DEF ProcessSend
<1>9. CASE CloseReady BY <1>9 DEF CloseReady
<1>10. CASE PlacerReceive
  <2>1. CASE chReady # <<>>
    <3>1. Head(chReady) \in Record /\ Tail(chReady) \in Seq(Record) BY <2>1
    <3>2. plc' \in Record /\ chReady' \in Seq(Record)
      BY <1>10, <2>1, <3>1 DEF PlacerReceive
    <3> QED BY <1>10, <3>2 DEF PlacerReceive
  <2>2. CASE chReady = <<>> BY <1>10, <2>2 DEF PlacerReceive
  <2> QED BY <2>1, <2>2
<1>11. CASE PlacerPlace
  <2>1. plc \in Record BY <1>11 DEF PlacerPlace
  <2>2. arr' \in [Slots -> Record] BY <1>11, <2>1 DEF PlacerPlace
  <2>3. /\ evReady' \in BOOLEAN /\ panicked' \in BOOLEAN
        /\ plc' \in Record \union {Idle, Done}
    BY <1>11, <2>1 DEF PlacerPlace
  <2> QED BY <1>11, <2>2, <2>3 DEF PlacerPlace
<1>12. CASE Finish BY <1>12 DEF Finish
<1>13. CASE GeneratorCall BY <1>13 DEF GeneratorCall
<1>14. CASE GeneratorTake
  <2>1. Shifted \in [Slots -> Record]
    <3>1. \A j \in Slots : j < nParallel - 1 => j + 1 \in Slots BY DEF Slots
    <3>2. nParallel - 1 \in Slots BY DEF Slots
    <3>3. \A j \in Slots : arr[j].i \in Nat BY DEF Record
    <3> QED BY <3>1, <3>2, <3>3 DEF Shifted, Record
  <2>2. arr[0] \in Record BY DEF Slots
  <2>3. delivered' \in Seq(Record) BY <1>14, <2>2 DEF GeneratorTake
  <2> QED BY <1>14, <2>1, <2>3 DEF GeneratorTake
<1>15. CASE GeneratorReturn BY <1>15 DEF GeneratorReturn
<1>16. CASE CloseCall BY <1>16 DEF CloseCall
<1>17. CASE CloseRelease BY <1>17 DEF CloseRelease
<1>18. CASE CloseReturn BY <1>18 DEF CloseReturn
<1>19. CASE UNCHANGED vars BY <1>19 DEF vars
<1> QED
  BY <1>1, <1>2, <1>3, <1>4, <1>5, <1>6, <1>7, <1>8, <1>9, <1>10, <1>11, <1>12, <1>13,
     <1>14, <1>15, <1>16, <1>17, <1>18, <1>19
  DEF Next, Consume, Process, Closer, Placer, Finisher, Generator, Releaser, Closing,
      Caller, Terminated

\* The state of the pipeline keeps its type: in particular the channels only
\* ever hold records, and the semaphore never exceeds nParallel units.
THEOREM TypeCorrect == Spec => []TypeOK
<1>1. TypeInv => TypeOK BY DEF TypeInv
<1> QED BY TypeInit, TypeStep, <1>1, PTL DEF Spec

-----------------------------------------------------------------------------
(***************************************************************************)
(* The inductive invariant behind the ordering.  Every result of it() that *)
(* has not been delivered is in exactly one place: still in chGen, with    *)
(* one of the goroutines or in chReady, or in the slot of arr that its     *)
(* distance to the delivered ones selects.                                 *)
(***************************************************************************)

\* How many results of it() have left chGen.
Taken == Len(generated) - (IF cpc = "send" THEN 1 ELSE 0) - Len(chGen)

\* Result number i is with a processor, in chReady, or with the placer.
Held(i) ==
  \/ \E p \in Procs : proc[p].i = i
  \/ \E k \in 1 .. Len(chReady) : chReady[k].i = i
  \/ plc.i = i

\* it() returns elements and then at most one nil, which ends consume().
GeneratedInv ==
  /\ cpc # "fail"
  /\ \A k \in 1 .. Len(generated) : generated[k] \in {"raw", "nil"}
  /\ \A k \in 1 .. Len(generated) - 1 : generated[k] = "raw"
  /\ cpc \in {"top", "acquire", "recheck", "it"} =>
       \A k \in 1 .. Len(generated) : generated[k] = "raw"
  /\ cpc = "send" => Len(generated) > 0
  /\ cpc = "done" /\ caller \notin {"closing", "closed"} =>
       Len(generated) > 0 /\ generated[Len(generated)] = "nil"

\* chGen holds the last results of it(), in order.
UpstreamInv ==
  /\ Len(delivered) <= Taken
  /\ \A k \in 1 .. Len(chGen) :
       chGen[k] = [e |-> generated[Taken + k], i |-> Taken + k]

InWindow(i) == i \in Len(delivered) + 1 .. Taken

\* What is in flight is undelivered, and mapped once it has left process().
InFlightInv ==
  /\ \A p \in Procs : proc[p] \notin {Idle, Done} =>
       InWindow(proc[p].i) /\ proc[p].e = generated[proc[p].i]
  /\ \A k \in 1 .. Len(chReady) :
       InWindow(chReady[k].i) /\ chReady[k].e = Stream!Processed(generated[chReady[k].i])
  /\ plc \notin {Idle, Done} =>
       InWindow(plc.i) /\ plc.e = Stream!Processed(generated[plc.i])

\* No result is in flight twice.
DistinctInv ==
  /\ \A p, q \in Procs : p # q /\ proc[p].i = proc[q].i => proc[p].i = 0
  /\ \A p \in Procs, k \in 1 .. Len(chReady) : proc[p].i # chReady[k].i
  /\ \A p \in Procs : plc.i = proc[p].i => plc.i = 0
  /\ \A k \in 1 .. Len(chReady) : plc.i # chReady[k].i
  /\ \A k, l \in 1 .. Len(chReady) : k # l => chReady[k].i # chReady[l].i

\* Slot j is for the result j + 1 after the delivered ones.
ArrInv ==
  \A j \in Slots :
    /\ arr[j].e \in {"nil", "mapped"}
    /\ nParallel > 1 => arr[j].i = Len(delivered) + j + 1
    /\ arr[j].e = "mapped" =>
         /\ arr[j].i = Len(delivered) + j + 1
         /\ Len(delivered) + j + 1 <= Taken
         /\ generated[Len(delivered) + j + 1] = "raw"
         /\ ~Held(Len(delivered) + j + 1)

\* No element is lost.
CoverInv ==
  \A i \in Len(delivered) + 1 .. Taken :
    generated[i] = "raw" =>
      Held(i) \/ (i - Len(delivered) - 1 \in Slots /\ arr[i - Len(delivered) - 1].e = "mapped")

\* The semaphore keeps the undelivered results within the array's size.
SemInv ==
  /\ Len(generated) - Len(delivered) <= nParallel
  /\ cpc = "it" => Len(generated) - Len(delivered) < nParallel
  /\ rel # "done" =>
       smGen >= Len(generated) - Len(delivered) + (IF cpc \in {"recheck", "it"} THEN 1 ELSE 0)

\* The order in which the goroutines end.
PhaseInv ==
  /\ caller \notin {"closing", "closed"} => rel = "none"
  /\ caller \in {"closing", "closed"} => evDone
  /\ evDone => fin \/ caller \in {"closing", "closed"}
  /\ fin => AllDone
  /\ plc = Done => readyClosed /\ chReady = <<>>
  /\ readyClosed => \A p \in Procs : proc[p] = Done
  /\ \A p \in Procs : proc[p] = Done => cpc = "done" /\ chGen = <<>>

\* The caller has seen elements only, and is woken for slot 0 or for the end.
CallerInv ==
  /\ caller \in {"idle", "waiting"} /\ Len(delivered) > 0 =>
       generated[Len(delivered)] = "raw"
  /\ caller = "locked" => Len(delivered) > 0
  /\ caller \in {"idle", "waiting"} /\ evReady =>
       \/ arr[0].e = "mapped"
       \/ fin
       \/ /\ Len(delivered) + 1 <= Taken
          /\ generated[Len(delivered) + 1] = "nil"
          /\ ~Held(Len(delivered) + 1)

OrderInv ==
  /\ TypeInv
  /\ GeneratedInv
  /\ UpstreamInv
  /\ InFlightInv
  /\ DistinctInv
  /\ ArrInv
  /\ CoverInv
  /\ SemInv
  /\ PhaseInv
  /\ CallerInv
  /\ InOrder
  /\ NoPanic

\* Pipeliner() starts with every slot expecting its own index.
LEMMA OrderInit == Init => OrderInv
<1> SUFFICES ASSUME Init PROVE OrderInv
  OBVIOUS
<1> USE PipelinerAssumption DEF Init
<1>1. TypeInv BY TypeInit
<1>2. Len(generated) = 0 /\ Len(delivered) = 0 /\ Len(chGen) = 0 /\ Len(chReady) = 0
  OBVIOUS
<1>3. Taken = 0 BY <1>2 DEF Taken
<1>4. GeneratedInv /\ UpstreamInv /\ InFlightInv /\ DistinctInv
  BY <1>2, <1>3 DEF GeneratedInv, UpstreamInv, InFlightInv, DistinctInv, Idle, Done
<1>5. ArrInv /\ CoverInv /\ SemInv /\ PhaseInv /\ CallerInv
  BY <1>2, <1>3 DEF ArrInv, CoverInv, SemInv, PhaseInv, CallerInv, Slots, Idle, Done
<1>6. InOrder /\ NoPanic BY <1>2 DEF InOrder, NoPanic
<1> QED BY <1>1, <1>4, <1>5, <1>6 DEF OrderInv

\* What the untouched variables give: an action that leaves the queues, the
\* array and the histories alone preserves what is said about them.
LEMMA QueuesUntouched ==
  ASSUME OrderInv, TypeInv',
         UNCHANGED <<chGen, chReady, arr, proc, plc, generated, delivered>>,
         cpc = "send" <=> cpc' = "send"
  PROVE  /\ Taken' = Taken
         /\ \A i : Held(i)' <=> Held(i)
         /\ UpstreamInv' /\ InFlightInv' /\ DistinctInv' /\ ArrInv' /\ CoverInv' /\ InOrder'
<1>1. Taken' = Taken BY DEF Taken
<1>2. \A i : Held(i)' <=> Held(i) BY DEF Held
<1>3. UpstreamInv' /\ InFlightInv' /\ DistinctInv'
  BY <1>1 DEF OrderInv, UpstreamInv, InFlightInv, DistinctInv, InWindow
<1>4. ArrInv' BY <1>1, <1>2 DEF OrderInv, ArrInv
<1>5. CoverInv' BY <1>1, <1>2 DEF OrderInv, CoverInv
<1>6. InOrder' BY DEF OrderInv, InOrder
<1> QED BY <1>1, <1>2, <1>3, <1>4, <1>5, <1>6

\* The consumer numbers and queues elements without disturbing the window.
LEMMA ConsumeOrder ==
  ASSUME ItMayFail = FALSE, OrderInv, TypeInv', Consume
  PROVE  OrderInv'
<1> USE PipelinerAssumption DEF consumeVars, callerVars
<1>0. NoPanic' BY DEF Consume, NoPanic, ConsumeTop, ConsumeAcquire, ConsumeRecheck, ConsumeIt, ConsumeSend, ConsumeFail
<1>1. CASE ConsumeTop
  BY <1>0, <1>1, QueuesUntouched
  DEF ConsumeTop, OrderInv, GeneratedInv, SemInv, PhaseInv, CallerInv, AllDone
<1>2. CASE ConsumeAcquire
  BY <1>0, <1>2, QueuesUntouched
  DEF ConsumeAcquire, OrderInv, GeneratedInv, SemInv, PhaseInv, CallerInv, AllDone,
      TypeInv, TypeOK
<1>3. CASE ConsumeRecheck
  BY <1>0, <1>3, QueuesUntouched
  DEF ConsumeRecheck, OrderInv, GeneratedInv, SemInv, PhaseInv, CallerInv, AllDone,
      TypeInv, TypeOK
<1>4. CASE ConsumeIt
  <2> USE <1>4 DEF ConsumeIt, OrderInv
  <2>1. PICK x \in {"raw", "nil"} : generated' = Append(generated, x)
    OBVIOUS
  <2>2. /\ Len(generated') = Len(generated) + 1
        /\ generated'[Len(generated) + 1] = x
        /\ \A k \in 1 .. Len(generated) : generated'[k] = generated[k]
        /\ Len(generated) \in Nat /\ Len(delivered) \in Nat /\ Len(chGen) \in Nat
    BY <2>1, SeqFacts DEF TypeInv, TypeOK
  <2>3. Taken' = Taken /\ Taken <= Len(generated) /\ Taken \in Int BY <2>2 DEF Taken
  <2>4. \A i : Held(i)' <=> Held(i) BY DEF Held, callerVars
  <2>5. GeneratedInv' BY <2>1, <2>2 DEF GeneratedInv
  <2>6. UpstreamInv'
    <3>1. \A k \in 1 .. Len(chGen) : Taken + k \in 1 .. Len(generated)
      BY <2>2 DEF Taken, UpstreamInv
    <3> QED BY <2>2, <2>3, <3>1 DEF UpstreamInv
  <2>7. \A i : InWindow(i) => i \in 1 .. Len(generated) /\ generated'[i] = generated[i]
    BY <2>2, <2>3 DEF InWindow
  <2>8. InFlightInv' BY <2>3, <2>7 DEF InFlightInv, InWindow
  <2>9. DistinctInv' BY DEF DistinctInv
  <2>10. ArrInv'
    <3>1. \A j \in Slots : Len(delivered) + j + 1 <= Taken =>
                             generated'[Len(delivered) + j + 1] = generated[Len(delivered) + j + 1]
      BY <2>2, <2>3 DEF Slots
    <3> QED BY <2>3, <2>4, <3>1 DEF ArrInv
  <2>11. CoverInv' BY <2>3, <2>4, <2>7 DEF CoverInv, InWindow
  <2>12. SemInv' BY <2>2 DEF SemInv
  <2>13. PhaseInv' BY DEF PhaseInv, AllDone
  <2>14. CallerInv'
    <3>1. Len(delivered) > 0 => generated'[Len(delivered)] = generated[Len(delivered)]
      BY <2>2, <2>3 DEF UpstreamInv
    <3>2. Len(delivered) + 1 <= Taken => generated'[Len(delivered) + 1] = generated[Len(delivered) + 1]
      BY <2>2, <2>3 DEF UpstreamInv
    <3> QED BY <2>3, <2>4, <3>1, <3>2 DEF CallerInv
  <2>15. InOrder'
    BY <2>2, SeqFacts DEF InOrder, TypeInv, TypeOK
  <2> QED BY <1>0, <2>5, <2>6, <2>8, <2>9, <2>10, <2>11, <2>12, <2>13, <2>14, <2>15
<1>5. CASE ConsumeSend
  <2> USE <1>5 DEF ConsumeSend, OrderInv
  <2> DEFINE g == Len(generated)
             r == [e |-> generated[g], i |-> g]
  <2>1. /\ g \in Nat \ {0} /\ Len(delivered) \in Nat /\ Len(chGen) \in Nat
        /\ chGen' = Append(chGen, r) /\ r \in Record
    BY DEF GeneratedInv, TypeInv, TypeOK, Record
  <2>2. /\ Len(chGen') = Len(chGen) + 1
        /\ chGen'[Len(chGen) + 1] = r
        /\ \A k \in 1 .. Len(chGen) : chGen'[k] = chGen[k]
    BY <2>1, SeqFacts DEF TypeInv, TypeOK
  <2>3. Taken' = Taken /\ Taken + Len(chGen) + 1 = g BY <2>1, <2>2 DEF Taken
  <2>4. \A i : Held(i)' <=> Held(i) BY DEF Held, callerVars
  <2>5. GeneratedInv' BY DEF GeneratedInv
  <2>6. UpstreamInv'
    <3>1. Len(delivered') <= Taken' BY <2>3 DEF UpstreamInv
    <3>2. ASSUME NEW k \in 1 .. Len(chGen')
          PROVE  chGen'[k] = [e |-> generated'[Taken' + k], i |-> Taken' + k]
      <4>1. CASE k \in 1 .. Len(chGen) BY <2>2, <2>3, <4>1 DEF UpstreamInv
      <4>2. CASE k = Len(chGen) + 1
        <5>1. Taken' + k = g BY <2>1, <2>3, <4>2 DEF Taken
        <5> QED BY <2>2, <4>2, <5>1
      <4> QED BY <2>1, <2>2, <4>1, <4>2
    <3> QED BY <3>1, <3>2 DEF UpstreamInv
  <2>7. InFlightInv' /\ DistinctInv' BY <2>3 DEF InFlightInv, InWindow, DistinctInv
  <2>8. ArrInv' /\ CoverInv' BY <2>3, <2>4 DEF ArrInv, CoverInv
  <2>9. SemInv' /\ InOrder' BY DEF SemInv, InOrder
  <2>10. PhaseInv' BY DEF PhaseInv, AllDone
  <2>11. CallerInv' BY <2>3, <2>4 DEF CallerInv
  <2> QED BY <1>0, <2>5, <2>6, <2>7, <2>8, <2>9, <2>10, <2>11
<1> QED
  BY <1>1, <1>2, <1>3, <1>4, <1>5 DEF Consume, ConsumeFail, OrderInv, GeneratedInv

\* A processor moves one record from one channel to the next.
LEMMA ProcessOrder ==
  ASSUME OrderInv, TypeInv', NEW p \in Procs, Process(p)
  PROVE  OrderInv'
<1> USE PipelinerAssumption DEF consumeVars, callerVars
<1>0. NoPanic' BY DEF Process, NoPanic, ProcessReceive, ProcessSend
<1>1. ASSUME ProcessReceive(p), chGen # <<>> PROVE OrderInv'
  <2> DEFINE r == Head(chGen)
  <2>1. /\ proc[p] = Idle /\ proc' = [proc EXCEPT ![p] = r] /\ chGen' = Tail(chGen)
        /\ UNCHANGED <<evDone, evReady, smGen, chReady, arr, cpc, readyClosed,
                       plc, fin, panicked, generated, caller, rel, delivered>>
    BY <1>1 DEF ProcessReceive
  <2>2. chGen \in Seq(Record) /\ generated \in Seq({"raw", "nil", "err"})
        /\ delivered \in Seq(Record) /\ proc \in [Procs -> Record \union {Idle, Done}]
    BY DEF OrderInv, TypeInv, TypeOK
  <2>3. /\ Len(chGen) \in Nat /\ Len(chGen) > 0
        /\ Len(chGen') = Len(chGen) - 1
        /\ r = chGen[1] /\ r \in Record
        /\ \A k \in 1 .. Len(chGen) - 1 : chGen'[k] = chGen[k + 1]
    BY <1>1, <2>1, <2>2, SeqFacts
  <2>4. Len(generated) \in Nat /\ Len(delivered) \in Nat BY <2>2
  <2> HIDE DEF r
  <2>5. Taken \in Int /\ Taken' = Taken + 1
    <3>1. Taken = Len(generated) - (IF cpc = "send" THEN 1 ELSE 0) - Len(chGen)
      BY DEF Taken
    <3>2. Taken' = Len(generated) - (IF cpc = "send" THEN 1 ELSE 0) - (Len(chGen) - 1)
      BY <2>1, <2>3 DEF Taken
    <3> QED BY <2>3, <2>4, <3>1, <3>2
  <2>6. Len(delivered) <= Taken /\ r = [e |-> generated[Taken + 1], i |-> Taken + 1]
    <3>1. 1 \in 1 .. Len(chGen) BY <2>3
    <3> QED BY <2>3, <3>1 DEF OrderInv, UpstreamInv
  <2>7. r.i = Taken + 1 /\ r.e = generated[Taken + 1] /\ r.i # 0 BY <2>4, <2>5, <2>6
  <2>8. /\ proc[p].i = 0
        /\ \A q \in Procs : proc'[q] = IF q = p THEN r ELSE proc[q]
    BY <2>1, <2>2 DEF Idle
  <2>9. \A i : i # 0 => (Held(i)' <=> Held(i) \/ i = Taken + 1)
    BY <2>1, <2>7, <2>8 DEF Held
  <2>10. GeneratedInv' BY <2>1 DEF OrderInv, GeneratedInv
  <2>11. UpstreamInv'
    <3>1. ASSUME NEW k \in 1 .. Len(chGen')
          PROVE  chGen'[k] = [e |-> generated'[Taken' + k], i |-> Taken' + k]
      <4>1. k + 1 \in 1 .. Len(chGen) /\ chGen'[k] = chGen[k + 1] BY <2>3
      <4>2. Taken + (k + 1) = Taken' + k BY <2>5
      <4> QED BY <2>1, <4>1, <4>2 DEF OrderInv, UpstreamInv
    <3> QED BY <2>1, <2>4, <2>5, <2>6, <3>1 DEF UpstreamInv
  <2>12. InFlightInv'
    BY <2>1, <2>4, <2>5, <2>6, <2>7, <2>8 DEF OrderInv, InFlightInv, InWindow
  <2>13. /\ \A q \in Procs : proc[q].i # r.i
         /\ \A k \in 1 .. Len(chReady) : chReady[k].i # r.i
         /\ plc.i # r.i
    BY <2>4, <2>5, <2>7 DEF OrderInv, InFlightInv, InWindow, Idle, Done
  <2>14. DistinctInv' BY <2>1, <2>8, <2>13 DEF OrderInv, DistinctInv
  <2>15. ArrInv'
    <3>1. \A j \in Slots : Len(delivered) + j + 1 <= Taken =>
            /\ Held(Len(delivered) + j + 1)' <=> Held(Len(delivered) + j + 1)
            /\ Len(delivered) + j + 1 <= Taken + 1
      BY <2>1, <2>4, <2>5, <2>9 DEF Slots
    <3> QED BY <2>1, <2>5, <3>1 DEF OrderInv, ArrInv
  <2>16. CoverInv' BY <2>1, <2>4, <2>5, <2>9 DEF OrderInv, CoverInv
  <2>17. SemInv' /\ InOrder' BY <2>1 DEF OrderInv, SemInv, InOrder
  <2>18. PhaseInv'
    <3>1. proc[p] # Done /\ r # Done BY <2>1, <2>3 DEF Idle, Done, Record
    <3>2. ~readyClosed /\ ~fin BY <3>1 DEF OrderInv, PhaseInv, AllDone
    <3>3. \A q \in Procs : proc[q] # Done BY <1>1 DEF OrderInv, PhaseInv
    <3> QED BY <2>1, <2>8, <3>1, <3>2, <3>3 DEF OrderInv, PhaseInv
  <2>19. CallerInv' BY <2>1, <2>4, <2>5, <2>9 DEF OrderInv, CallerInv
  <2> QED
    BY <1>0, <2>10, <2>11, <2>12, <2>14, <2>15, <2>16, <2>17, <2>18, <2>19 DEF OrderInv
<1>2. ASSUME ProcessReceive(p), chGen = <<>> PROVE OrderInv'
  <2> USE <1>2 DEF OrderInv
  <2>1. /\ proc[p] = Idle /\ proc' = [proc EXCEPT ![p] = Done]
        /\ chGen' = chGen /\ cpc = "done"
        /\ UNCHANGED <<evDone, evReady, smGen, chReady, arr, cpc, readyClosed,
                       plc, fin, panicked, generated, caller, rel, delivered>>
    BY DEF ProcessReceive
  <2>2. /\ \A q \in Procs : proc'[q] = IF q = p THEN Done ELSE proc[q]
        /\ \A q \in Procs : proc'[q].i = proc[q].i
    BY <2>1 DEF TypeInv, TypeOK, Idle, Done
  <2>3. Taken' = Taken BY <2>1 DEF Taken
  <2>4. \A i : Held(i)' <=> Held(i) BY <2>1, <2>2 DEF Held
  <2>5. GeneratedInv' /\ UpstreamInv' /\ SemInv' /\ InOrder'
    BY <2>1, <2>3 DEF GeneratedInv, UpstreamInv, SemInv, InOrder
  <2>6. InFlightInv' /\ DistinctInv'
    BY <2>1, <2>2, <2>3 DEF InFlightInv, InWindow, DistinctInv
  <2>7. ArrInv' /\ CoverInv' /\ CallerInv'
    BY <2>1, <2>3, <2>4 DEF ArrInv, CoverInv, CallerInv
  <2>8. PhaseInv'
    <3>1. proc[p] # Done BY <2>1 DEF Idle, Done
    <3>2. ~readyClosed /\ ~fin BY <3>1 DEF PhaseInv, AllDone
    <3> QED BY <2>1, <2>2, <3>2 DEF PhaseInv
  <2> QED BY <1>0, <2>5, <2>6, <2>7, <2>8
<1>3. ASSUME ProcessSend(p) PROVE OrderInv'
  <2> USE <1>3 DEF ProcessSend, OrderInv
  <2> DEFINE r == [proc[p] EXCEPT !.e = Stream!Processed(@)]
  <2>1. /\ proc[p] \in Record /\ proc[p].i # 0
        /\ InWindow(proc[p].i) /\ proc[p].e = generated[proc[p].i]
    BY DEF TypeInv, TypeOK, InFlightInv, InWindow
  <2>2. r \in Record /\ r.i = proc[p].i /\ r.e = Stream!Processed(generated[r.i])
    BY <2>1 DEF Record, Stream!Processed
  <2>3. /\ Len(chReady) \in Nat /\ Len(chReady') = Len(chReady) + 1
        /\ chReady'[Len(chReady) + 1] = r
        /\ \A k \in 1 .. Len(chReady) : chReady'[k] = chReady[k]
    BY <2>2, SeqFacts DEF TypeInv, TypeOK
  <2>4. \A q \in Procs : proc'[q] = IF q = p THEN Idle ELSE proc[q]
    BY DEF TypeInv, TypeOK
  <2>5. Taken' = Taken BY DEF Taken
  <2>6. \A i : i # 0 => (Held(i)' <=> Held(i))
    BY <2>2, <2>3, <2>4 DEF Held, Idle
  <2>7. GeneratedInv' /\ UpstreamInv' /\ SemInv' /\ InOrder'
    BY <2>5 DEF GeneratedInv, UpstreamInv, SemInv, InOrder
  <2>8. InFlightInv' BY <2>1, <2>2, <2>3, <2>4, <2>5 DEF InFlightInv, InWindow
  <2>9. DistinctInv' BY <2>1, <2>2, <2>3, <2>4 DEF DistinctInv, InFlightInv, InWindow, Idle
  <2>10. Len(delivered) \in Nat /\ Taken \in Int BY DEF TypeInv, TypeOK, Taken
  <2>11. ArrInv'
    <3>1. \A j \in Slots : Held(Len(delivered) + j + 1)' <=> Held(Len(delivered) + j + 1)
      BY <2>6, <2>10 DEF Slots
    <3>2. UNCHANGED <<arr, delivered, generated>> OBVIOUS
    <3>3. ArrInv OBVIOUS
    <3> QED BY <2>5, <3>1, <3>2, <3>3, Zenon DEF ArrInv
  <2>12. CoverInv'
    <3>1. \A i \in Len(delivered) + 1 .. Taken : Held(i)' <=> Held(i) BY <2>6, <2>10
    <3> QED BY <2>5, <3>1 DEF CoverInv
  <2>13. PhaseInv'
    <3>1. ~readyClosed /\ ~fin /\ plc # Done BY DEF PhaseInv, AllDone
    <3>2. Idle # Done BY DEF Idle, Done
    <3> QED BY <2>4, <3>1, <3>2 DEF PhaseInv
  <2>14. CallerInv' BY <2>5, <2>6, <2>10 DEF CallerInv
  <2> QED BY <1>0, <2>7, <2>8, <2>9, <2>11, <2>12, <2>13, <2>14
<1> QED BY <1>1, <1>2, <1>3 DEF Process

\* The placer takes a record out of the ready channel.
LEMMA PlacerReceiveOrder ==
  ASSUME OrderInv, TypeInv', ~panicked, PlacerReceive
  PROVE  OrderInv'
<1> USE PipelinerAssumption DEF consumeVars, callerVars
<1>0. /\ plc = Idle /\ plc.i = 0 /\ Idle # Done /\ Done.i = 0
      /\ UNCHANGED <<evDone, evReady, smGen, arr, cpc, proc, readyClosed, fin, panicked,
                     generated, chGen, caller, rel, delivered>>
  BY DEF PlacerReceive, Idle, Done
<1>1. Taken' = Taken BY <1>0 DEF Taken
<1>2. Len(delivered) \in Nat /\ Taken \in Int BY DEF OrderInv, TypeInv, TypeOK, Taken
<1>3. GeneratedInv' /\ UpstreamInv' /\ SemInv' /\ InOrder' /\ NoPanic'
  BY <1>0, <1>1 DEF OrderInv, GeneratedInv, UpstreamInv, SemInv, InOrder, NoPanic
<1>4. ~fin BY <1>0 DEF OrderInv, PhaseInv, AllDone
<1>5. ASSUME \A i : i # 0 => (Held(i)' <=> Held(i))
      PROVE  ArrInv' /\ CoverInv' /\ CallerInv'
  <2>1. \A j \in Slots : Held(Len(delivered) + j + 1)' <=> Held(Len(delivered) + j + 1)
    BY <1>0, <1>2, <1>5 DEF Slots
  <2>2. \A i \in Len(delivered) + 1 .. Taken : Held(i)' <=> Held(i) BY <1>2, <1>5
  <2>3. Held(Len(delivered) + 1)' <=> Held(Len(delivered) + 1) BY <1>0, <1>2, <1>5
  <2> QED BY <1>0, <1>1, <2>1, <2>2, <2>3 DEF OrderInv, ArrInv, CoverInv, CallerInv
<1>6. CASE chReady # <<>>
  <2> DEFINE r == Head(chReady)
  <2>1. plc' = r /\ chReady' = Tail(chReady) BY <1>6 DEF PlacerReceive
  <2>2. chReady \in Seq(Record) BY DEF OrderInv, TypeInv, TypeOK
  <2>3. /\ Len(chReady) \in Nat /\ Len(chReady) > 0
        /\ Len(chReady') = Len(chReady) - 1
        /\ r = chReady[1] /\ r \in Record
        /\ \A k \in 1 .. Len(chReady) - 1 : chReady'[k] = chReady[k + 1]
    BY <1>6, <2>1, <2>2, SeqFacts
  <2> HIDE DEF r
  <2>4. /\ 1 \in 1 .. Len(chReady)
        /\ \A k \in 1 .. Len(chReady') : k + 1 \in 1 .. Len(chReady) /\ k + 1 # 1
        /\ \A k \in 1 .. Len(chReady) : k # 1 => k - 1 \in 1 .. Len(chReady') /\ (k - 1) + 1 = k
    BY <2>3
  <2>5. \A k \in 1 .. Len(chReady') : chReady'[k] = chReady[k + 1] BY <2>3
  <2>6. \A i : i # 0 => (Held(i)' <=> Held(i))
    <3> SUFFICES ASSUME NEW i, i # 0 PROVE Held(i)' <=> Held(i)
      OBVIOUS
    <3>1. ASSUME NEW k \in 1 .. Len(chReady), chReady[k].i = i PROVE Held(i)'
      <4>1. CASE k = 1 BY <2>1, <2>3, <3>1, <4>1 DEF Held
      <4>2. CASE k # 1
        <5>1. k - 1 \in 1 .. Len(chReady') /\ chReady'[k - 1] = chReady[k]
          BY <2>4, <2>5, <4>2
        <5> QED BY <3>1, <5>1 DEF Held
      <4> QED BY <4>1, <4>2
    <3>2. ASSUME NEW k \in 1 .. Len(chReady'), chReady'[k].i = i PROVE Held(i)
      BY <2>4, <2>5, <3>2 DEF Held
    <3>3. r.i = i => Held(i) BY <2>3, <2>4 DEF Held
    <3> QED BY <1>0, <2>1, <3>1, <3>2, <3>3 DEF Held
  <2>7. InFlightInv'
    BY <1>0, <1>1, <2>1, <2>3, <2>4, <2>5 DEF OrderInv, InFlightInv, InWindow
  <2>8. DistinctInv'
    <3>1. \A k \in 1 .. Len(chReady') : r.i # chReady'[k].i
      BY <2>3, <2>4, <2>5 DEF OrderInv, DistinctInv
    <3>2. \A k, l \in 1 .. Len(chReady') : k # l => k + 1 # l + 1 OBVIOUS
    <3> QED BY <1>0, <2>1, <2>3, <2>4, <2>5, <3>1, <3>2 DEF OrderInv, DistinctInv
  <2>9. PhaseInv'
    <3>1. r # Done BY <2>3 DEF Record, Done
    <3> QED BY <1>0, <1>4, <2>1, <3>1 DEF OrderInv, PhaseInv
  <2> QED BY <1>3, <1>5, <2>6, <2>7, <2>8, <2>9 DEF OrderInv
<1>7. CASE chReady = <<>>
  <2>1. plc' = Done /\ readyClosed /\ chReady' = chReady BY <1>7 DEF PlacerReceive
  <2>2. \A i : i # 0 => (Held(i)' <=> Held(i)) BY <1>0, <2>1 DEF Held
  <2>3. InFlightInv' /\ DistinctInv'
    BY <1>0, <1>1, <2>1 DEF OrderInv, InFlightInv, InWindow, DistinctInv
  <2>4. PhaseInv' BY <1>0, <1>4, <1>7, <2>1 DEF OrderInv, PhaseInv
  <2> QED BY <1>3, <1>5, <2>2, <2>3, <2>4 DEF OrderInv
<1> QED BY <1>6, <1>7

\* The placer's search finds the one slot that is meant for the record.
LEMMA SpotIsWindowSlot ==
  ASSUME OrderInv, plc \notin {Idle, Done}
  PROVE  /\ Spot(plc) \in Slots
         /\ plc.i = Len(delivered) + Spot(plc) + 1
<1> USE PipelinerAssumption
<1>1. /\ Len(delivered) \in Nat /\ Len(generated) \in Nat /\ Len(chGen) \in Nat
      /\ Taken \in Int /\ Taken <= Len(generated)
  BY DEF OrderInv, TypeInv, TypeOK, Taken
<1>2. plc.i \in Len(delivered) + 1 .. Taken
  BY DEF OrderInv, InFlightInv, InWindow
<1> DEFINE j == plc.i - Len(delivered) - 1
<1>3. j \in Slots /\ plc.i = Len(delivered) + j + 1
  BY <1>1, <1>2 DEF OrderInv, SemInv, Slots
<1> SUFFICES Spot(plc) = j BY <1>3
<1> HIDE DEF j
<1>4. CASE nParallel = 1
  BY <1>3, <1>4 DEF Spot, Hits, Slots
<1>5. CASE nParallel > 1
  <2>1. \A k \in 0 .. nParallel - 2 : arr[k + 1].i = Len(delivered) + (k + 1) + 1
    BY <1>5 DEF OrderInv, ArrInv, Slots
  <2>2. \A k \in 0 .. nParallel - 2 : arr[k + 1].i = plc.i + 1 <=> k = j
    BY <1>1, <1>3, <2>1 DEF Slots
  <2>3. CASE j = nParallel - 1
    <3>1. Hits(plc) = {} BY <2>2, <2>3 DEF Hits
    <3> QED BY <2>3, <3>1 DEF Spot
  <2>4. CASE j \in 0 .. nParallel - 2
    <3>1. Hits(plc) = {j} BY <2>2, <2>4 DEF Hits
    <3>2. \A k \in {j} : j <= k BY <1>3 DEF Slots
    <3> QED BY <3>1, <3>2 DEF Spot
  <2> QED BY <1>3, <2>3, <2>4 DEF Slots
<1> QED BY <1>4, <1>5

\* Placing a record fills the slot of its index and no other.
LEMMA PlacerPlaceOrder ==
  ASSUME OrderInv, TypeInv', ~panicked, PlacerPlace
  PROVE  OrderInv'
<1> USE PipelinerAssumption DEF consumeVars, callerVars
<1> DEFINE j == Spot(plc)
           c == Len(delivered)
<1>0. plc \notin {Idle, Done} /\ plc \in Record /\ caller # "locked"
  BY DEF PlacerPlace, OrderInv, TypeInv, TypeOK
<1>1. j \in Slots /\ plc.i = c + j + 1 BY <1>0, SpotIsWindowSlot
<1>2. Held(c + j + 1) BY <1>1 DEF Held
<1>3. arr[j].e = "nil" BY <1>1, <1>2 DEF OrderInv, ArrInv
<1>4. /\ arr' = [arr EXCEPT ![j] = plc]
      /\ evReady' = (evReady \/ j = 0)
      /\ plc' = Idle
      /\ UNCHANGED <<evDone, smGen, chReady, cpc, proc, readyClosed, fin, panicked,
                     generated, chGen, caller, rel, delivered>>
  BY <1>3 DEF PlacerPlace
<1> HIDE DEF j
<1>5. /\ c \in Nat /\ Taken \in Int
      /\ \A k \in Slots : arr'[k] = IF k = j THEN plc ELSE arr[k]
  BY <1>4 DEF OrderInv, TypeInv, TypeOK, Taken
<1>6. Taken' = Taken BY <1>4 DEF Taken
<1>7. /\ InWindow(plc.i) /\ plc.e = Stream!Processed(generated[plc.i])
      /\ plc.i \in 1 .. Len(generated) /\ generated[plc.i] \in {"raw", "nil"}
  <2>1. InWindow(plc.i) /\ plc.e = Stream!Processed(generated[plc.i])
    BY <1>0 DEF OrderInv, InFlightInv
  <2>2. Len(generated) \in Nat /\ Taken <= Len(generated)
    BY DEF OrderInv, TypeInv, TypeOK, Taken
  <2>3. plc.i \in 1 .. Len(generated) BY <1>5, <2>1, <2>2 DEF InWindow
  <2> QED BY <2>1, <2>3 DEF OrderInv, GeneratedInv
<1>8. \A i : i # 0 => (Held(i)' <=> (Held(i) /\ i # plc.i))
  BY <1>1, <1>4, <1>5 DEF Held, Idle, OrderInv, DistinctInv, Slots
<1>9. GeneratedInv' /\ UpstreamInv' /\ SemInv' /\ InOrder' /\ NoPanic'
  BY <1>4, <1>6 DEF OrderInv, GeneratedInv, UpstreamInv, SemInv, InOrder, NoPanic
<1>10. InFlightInv' BY <1>4, <1>6 DEF OrderInv, InFlightInv, InWindow
<1>11. DistinctInv'
  <2>1. \A k \in 1 .. Len(chReady) : chReady[k].i # 0
    BY <1>5 DEF OrderInv, InFlightInv, InWindow
  <2> QED BY <1>4, <2>1 DEF OrderInv, DistinctInv, Idle
<1>12. ArrInv'
  <2>1. \A k \in Slots : c + k + 1 # 0 BY <1>5 DEF Slots
  <2>2. \A k \in Slots : Held(c + k + 1)' => Held(c + k + 1) /\ c + k + 1 # plc.i
    BY <1>4, <1>8, <2>1
  <2>3. plc.e \in {"nil", "mapped"} /\ (plc.e = "mapped" => generated[plc.i] = "raw")
    BY <1>7 DEF Stream!Processed
  <2>4. plc.i <= Taken BY <1>7 DEF InWindow
  <2>5. \A k \in Slots : k = j => ~Held(c + k + 1)' BY <1>1, <2>2
  <2> QED BY <1>1, <1>4, <1>5, <1>6, <2>2, <2>3, <2>4, <2>5 DEF OrderInv, ArrInv
<1>13. CoverInv'
  <2> SUFFICES ASSUME NEW i \in c + 1 .. Taken, generated[i] = "raw"
               PROVE  Held(i)' \/ (i - c - 1 \in Slots /\ arr'[i - c - 1].e = "mapped")
    BY <1>4, <1>6 DEF CoverInv
  <2>1. CASE i = plc.i
    <3>1. i - c - 1 = j BY <1>1, <1>5, <2>1 DEF Slots
    <3> QED BY <1>1, <1>5, <1>7, <2>1, <3>1 DEF Stream!Processed
  <2>2. CASE i # plc.i
    <3>1. i - c - 1 # j BY <1>1, <1>5, <2>2 DEF Slots
    <3>2. i # 0 BY <1>5
    <3> QED BY <1>5, <1>8, <2>2, <3>1, <3>2 DEF OrderInv, CoverInv
  <2> QED BY <2>1, <2>2
<1>14. PhaseInv'
  <2>1. ~fin /\ Idle # Done BY <1>0 DEF OrderInv, PhaseInv, AllDone, Idle, Done
  <2> QED BY <1>4, <2>1 DEF OrderInv, PhaseInv
<1>15. CallerInv'
  <2>1. c + 1 # 0 BY <1>5
  <2>2. Held(c + 1)' => Held(c + 1) /\ c + 1 # plc.i BY <1>4, <1>8, <2>1
  <2>3. 0 \in Slots BY DEF Slots
  <2>4. CASE j = 0
    <3>1. plc.i = c + 1 /\ c + 1 <= Taken /\ arr'[0] = plc
      BY <1>1, <1>5, <1>7, <2>3, <2>4 DEF InWindow
    <3>2. plc.e = "mapped" \/ generated[c + 1] = "nil" BY <1>7, <3>1 DEF Stream!Processed
    <3> QED BY <1>0, <1>4, <1>6, <2>2, <3>1, <3>2 DEF OrderInv, CallerInv
  <2>5. CASE j # 0
    BY <1>4, <1>5, <1>6, <2>2, <2>3, <2>5 DEF OrderInv, CallerInv
  <2> QED BY <2>4, <2>5
<1> QED
  BY <1>9, <1>10, <1>11, <1>12, <1>13, <1>14, <1>15 DEF OrderInv

\* When the generator is woken there is a next result, slot 0 holds its outcome
\* and nothing of it is left anywhere else.
LEMMA WokenForNext ==
  ASSUME OrderInv, caller = "waiting", evReady
  PROVE  /\ Len(delivered) + 1 <= Taken
         /\ ~Held(Len(delivered) + 1)
         /\ arr[0].e = Stream!Processed(generated[Len(delivered) + 1])
         /\ arr[0].e = "mapped" => arr[0].i = Len(delivered) + 1
         /\ smGen > 0
<1> USE PipelinerAssumption
<1> DEFINE c == Len(delivered)
<1>0. 0 \in Slots BY DEF Slots
<1>1. /\ c \in Nat /\ Len(generated) \in Nat /\ Len(chGen) \in Nat /\ smGen \in Int
      /\ Taken \in Int /\ Taken <= Len(generated) /\ c <= Taken
  BY DEF OrderInv, TypeInv, TypeOK, Taken, UpstreamInv
<1>2. /\ arr[0].e \in {"nil", "mapped"}
      /\ arr[0].e = "mapped" =>
           arr[0].i = c + 1 /\ c + 1 <= Taken /\ generated[c + 1] = "raw" /\ ~Held(c + 1)
  BY <1>0, <1>1 DEF OrderInv, ArrInv
<1>3. rel = "none" /\ (c + 1 <= Taken => smGen > 0)
  BY <1>1 DEF OrderInv, PhaseInv, SemInv
<1>4. CASE arr[0].e = "mapped" BY <1>2, <1>3, <1>4 DEF Stream!Processed
<1>5. CASE fin /\ arr[0].e = "nil"
  <2>1. cpc = "done" /\ plc = Done /\ chReady = <<>> /\ \A p \in Procs : proc[p] = Done
    BY <1>5 DEF OrderInv, PhaseInv, AllDone
  <2>2. 1 \in Procs BY DEF Procs
  <2>3. chGen = <<>> BY <2>1, <2>2 DEF OrderInv, PhaseInv
  <2>4. Taken = Len(generated) BY <1>1, <2>1, <2>3 DEF Taken
  <2>5. \A i : i # 0 => ~Held(i) BY <2>1 DEF Held, Done
  <2>6. Len(generated) > 0 /\ generated[Len(generated)] = "nil"
    BY <2>1 DEF OrderInv, GeneratedInv
  <2>7. c + 1 <= Taken BY <1>1, <2>4, <2>6 DEF OrderInv, CallerInv
  <2>8. c + 1 # 0 /\ c + 1 \in c + 1 .. Taken /\ c + 1 - c - 1 = 0 BY <1>1, <2>7
  <2>9. ~Held(c + 1) BY <2>5, <2>8
  <2>10. generated[c + 1] # "raw" BY <1>5, <2>8, <2>9 DEF OrderInv, CoverInv
  <2>11. generated[c + 1] = "nil" BY <1>1, <2>7, <2>10 DEF OrderInv, GeneratedInv
  <2> QED BY <1>2, <1>3, <1>5, <2>7, <2>9, <2>11 DEF Stream!Processed
<1>6. CASE ~fin /\ arr[0].e = "nil"
  BY <1>1, <1>2, <1>3, <1>6 DEF OrderInv, CallerInv, Stream!Processed
<1> QED BY <1>2, <1>4, <1>5, <1>6

\* Taking slot 0 and shifting the array advances the window by one.
LEMMA GeneratorTakeOrder ==
  ASSUME OrderInv, TypeInv', ~panicked, GeneratorTake
  PROVE  OrderInv'
<1> USE PipelinerAssumption DEF consumeVars
<1> DEFINE c == Len(delivered)
<1>1. /\ c + 1 <= Taken /\ ~Held(c + 1) /\ smGen > 0
      /\ arr[0].e = Stream!Processed(generated[c + 1])
      /\ arr[0].e = "mapped" => arr[0].i = c + 1
  BY WokenForNext DEF GeneratorTake
<1>2. /\ delivered' = Append(delivered, arr[0]) /\ arr' = Shifted /\ caller' = "locked"
      /\ smGen' = smGen - 1 /\ panicked' = (smGen' < 0) /\ caller = "waiting"
      /\ UNCHANGED <<evDone, evReady, chReady, cpc, proc, readyClosed, plc, fin,
                     generated, chGen, rel>>
  BY DEF GeneratorTake
<1>3. /\ c \in Nat /\ Len(generated) \in Nat /\ Len(chGen) \in Nat /\ smGen \in Int
      /\ Taken \in Int /\ Taken <= Len(generated)
      /\ arr \in [Slots -> Record] /\ delivered \in Seq(Record)
  BY DEF OrderInv, TypeInv, TypeOK, Taken
<1>4. /\ Len(delivered') = c + 1 /\ delivered'[c + 1] = arr[0]
      /\ \A k \in 1 .. c : delivered'[k] = delivered[k]
      /\ DOMAIN delivered = 1 .. c /\ DOMAIN delivered' = 1 .. c + 1
  <2>1. arr[0] \in Record BY <1>3 DEF Slots
  <2>2. delivered' \in Seq(Record) BY DEF TypeInv, TypeOK
  <2> QED BY <1>2, <1>3, <2>1, <2>2, SeqFacts
<1>5. Taken' = Taken BY <1>2 DEF Taken
<1>6. \A i : Held(i)' <=> Held(i) BY <1>2 DEF Held
<1>7. \A i : InWindow(i) /\ Held(i) => InWindow(i)' /\ i \in c + 2 .. Taken
  BY <1>1, <1>3, <1>4, <1>5 DEF InWindow
<1>8. GeneratedInv' BY <1>2 DEF OrderInv, GeneratedInv
<1>9. UpstreamInv' BY <1>1, <1>2, <1>3, <1>4, <1>5 DEF OrderInv, UpstreamInv
<1>10. InFlightInv'
  <2>1. ASSUME NEW p \in Procs, proc[p] \notin {Idle, Done} PROVE InWindow(proc[p].i)'
    <3>1. InWindow(proc[p].i) /\ Held(proc[p].i)
      BY <2>1 DEF OrderInv, InFlightInv, Held
    <3> QED BY <1>2, <1>3, <1>4, <1>5, <1>7, <3>1 DEF InWindow
  <2>2. ASSUME NEW k \in 1 .. Len(chReady) PROVE InWindow(chReady[k].i)'
    <3>1. InWindow(chReady[k].i) /\ Held(chReady[k].i)
      BY DEF OrderInv, InFlightInv, Held
    <3> QED BY <1>2, <1>3, <1>4, <1>5, <1>7, <3>1 DEF InWindow
  <2>3. ASSUME plc \notin {Idle, Done} PROVE InWindow(plc.i)'
    <3>1. InWindow(plc.i) /\ Held(plc.i) BY <2>3 DEF OrderInv, InFlightInv, Held
    <3> QED BY <1>2, <1>3, <1>4, <1>5, <1>7, <3>1 DEF InWindow
  <2> QED BY <1>2, <2>1, <2>2, <2>3 DEF OrderInv, InFlightInv
<1>11. DistinctInv' BY <1>2 DEF OrderInv, DistinctInv
<1>12. ArrInv'
  <2> SUFFICES ASSUME NEW j \in Slots
               PROVE  /\ arr'[j].e \in {"nil", "mapped"}
                      /\ nParallel > 1 => arr'[j].i = (c + 1) + j + 1
                      /\ arr'[j].e = "mapped" =>
                           /\ arr'[j].i = (c + 1) + j + 1
                           /\ (c + 1) + j + 1 <= Taken
                           /\ generated[(c + 1) + j + 1] = "raw"
                           /\ ~Held((c + 1) + j + 1)
    <3>1. \A i : Held(i)' <=> Held(i) BY <1>6
    <3> QED BY <1>2, <1>4, <1>5, <1>6, <3>1 DEF ArrInv, Held
  <2>1. CASE j < nParallel - 1
    <3>1. j + 1 \in Slots /\ arr'[j] = arr[j + 1] BY <1>2, <2>1 DEF Shifted, Slots
    <3>2. c + (j + 1) + 1 = (c + 1) + j + 1 BY <1>3 DEF Slots
    <3> QED BY <3>1, <3>2 DEF OrderInv, ArrInv
  <2>2. CASE j = nParallel - 1
    <3>1. arr'[j].e = "nil" BY <1>2, <2>2 DEF Shifted
    <3>2. ASSUME nParallel > 1 PROVE arr'[j].i = (c + 1) + j + 1
      <4>1. arr'[j].i = arr[j].i + 1 BY <1>2, <2>2, <3>2 DEF Shifted
      <4>2. arr[j].i = c + j + 1 BY <3>2 DEF OrderInv, ArrInv
      <4> QED BY <1>3, <4>1, <4>2 DEF Slots
    <3> QED BY <3>1, <3>2
  <2> QED BY <2>1, <2>2 DEF Slots
<1>13. CoverInv'
  <2> SUFFICES ASSUME NEW i \in (c + 1) + 1 .. Taken, generated[i] = "raw", ~Held(i)
               PROVE  i - (c + 1) - 1 \in Slots /\ arr'[i - (c + 1) - 1].e = "mapped"
    BY <1>2, <1>4, <1>5, <1>6 DEF CoverInv
  <2> DEFINE j == i - (c + 1) - 1
  <2>1. i \in c + 1 .. Taken /\ i - c - 1 = j + 1 BY <1>3
  <2>2. j + 1 \in Slots /\ arr[j + 1].e = "mapped" BY <2>1 DEF OrderInv, CoverInv
  <2>3. j \in Slots /\ j < nParallel - 1 BY <1>3, <2>2 DEF Slots
  <2> QED BY <1>2, <2>2, <2>3 DEF Shifted
<1>14. SemInv' BY <1>2, <1>3, <1>4 DEF OrderInv, SemInv
<1>15. PhaseInv' BY <1>2 DEF OrderInv, PhaseInv, AllDone
<1>16. CallerInv' BY <1>2, <1>3, <1>4 DEF CallerInv
<1>17. InOrder'
  <2>1. c + 1 \in DOMAIN generated BY <1>1, <1>3, SeqFacts DEF OrderInv, TypeInv, TypeOK
  <2>2. \A k \in 1 .. c + 1 : k \in 1 .. c \/ k = c + 1 BY <1>3
  <2> QED BY <1>1, <1>2, <1>4, <2>1, <2>2 DEF OrderInv, InOrder
<1>18. NoPanic'
  <2>1. ~(smGen' < 0) BY <1>1, <1>2, <1>3
  <2> QED BY <1>2, <2>1, Zenon DEF NoPanic
<1> QED
  BY <1>8, <1>9, <1>10, <1>11, <1>12, <1>13, <1>14, <1>15, <1>16, <1>17, <1>18 DEF OrderInv

\* Returning appends the taken record to what the caller has seen.
LEMMA GeneratorReturnOrder ==
  ASSUME OrderInv, TypeInv', ~panicked, GeneratorReturn
  PROVE  OrderInv'
<1> USE PipelinerAssumption DEF consumeVars, OrderInv
<1> DEFINE c == Len(delivered)
<1>1. /\ caller = "locked"
      /\ evReady' = (evReady /\ (evDone \/ arr[0].e # "nil"))
      /\ caller' = IF delivered[c].e \in {"nil", "err"} THEN "stopped" ELSE "idle"
      /\ UNCHANGED <<evDone, smGen, chReady, arr, cpc, proc, readyClosed, plc, fin,
                     panicked, generated, chGen, rel, delivered>>
  BY DEF GeneratorReturn
<1>2. Taken' = Taken /\ UpstreamInv' /\ InFlightInv' /\ DistinctInv' /\ ArrInv' /\ CoverInv' /\ InOrder'
  BY <1>1, QueuesUntouched
<1>3. GeneratedInv' /\ SemInv' /\ PhaseInv' /\ NoPanic'
  BY <1>1 DEF GeneratedInv, SemInv, PhaseInv, AllDone, NoPanic
<1>4. CallerInv'
  <2>1. c > 0 /\ c \in Nat /\ DOMAIN delivered = 1 .. c
    BY <1>1, SeqFacts DEF CallerInv, TypeInv, TypeOK
  <2>2. c \in 1 .. c BY <2>1
  <2>3. c \in DOMAIN generated /\ delivered[c].e = Stream!Processed(generated[c])
    BY <2>1, <2>2 DEF InOrder
  <2>4. generated[c] \in {"raw", "nil"}
    BY <2>3, SeqFacts DEF GeneratedInv, TypeInv, TypeOK
  <2>5. caller' = "idle" => generated[c] = "raw" BY <1>1, <2>3, <2>4 DEF Stream!Processed
  <2>6. evDone => fin BY <1>1 DEF PhaseInv
  <2>7. arr[0].e \in {"nil", "mapped"} BY DEF ArrInv, Slots
  <2>8. evReady' => fin \/ arr[0].e = "mapped"
    BY <1>1, <2>6, <2>7, Zenon
  <2> QED BY <1>1, <2>5, <2>8 DEF CallerInv
<1> QED BY <1>2, <1>3, <1>4

\* The remaining steps (events, close, waiting) touch none of the records.
LEMMA OtherOrder ==
  ASSUME OrderInv, TypeInv', ~panicked,
         CloseReady \/ Finish \/ GeneratorCall \/ CloseCall \/ CloseRelease \/ CloseReturn
  PROVE  OrderInv'
<1> USE DEF consumeVars, callerVars, OrderInv
<1>1. UpstreamInv' /\ InFlightInv' /\ DistinctInv' /\ ArrInv' /\ CoverInv' /\ InOrder'
      /\ Taken' = Taken /\ \A i : Held(i)' <=> Held(i)
  BY QueuesUntouched
  DEF CloseReady, Finish, GeneratorCall, CloseCall, CloseRelease, CloseReturn
<1>2. NoPanic'
  BY DEF NoPanic, CloseReady, Finish, GeneratorCall, CloseCall, CloseRelease, CloseReturn
<1>3. CASE CloseReady
  BY <1>1, <1>2, <1>3 DEF CloseReady, GeneratedInv, SemInv, PhaseInv, CallerInv, AllDone
<1>4. CASE Finish
  BY <1>1, <1>2, <1>4 DEF Finish, GeneratedInv, SemInv, PhaseInv, CallerInv, AllDone
<1>5. CASE GeneratorCall
  BY <1>1, <1>2, <1>5 DEF GeneratorCall, GeneratedInv, SemInv, PhaseInv, CallerInv, AllDone
<1>6. CASE CloseCall
  BY <1>1, <1>2, <1>6 DEF CloseCall, GeneratedInv, SemInv, PhaseInv, CallerInv, AllDone
<1>7. CASE CloseRelease
  BY <1>1, <1>2, <1>7 DEF CloseRelease, GeneratedInv, SemInv, PhaseInv, CallerInv, AllDone
<1>8. CASE CloseReturn
  BY <1>1, <1>2, <1>8 DEF CloseReturn, GeneratedInv, SemInv, PhaseInv, CallerInv, AllDone
<1> QED BY <1>3, <1>4, <1>5, <1>6, <1>7, <1>8

\* The order invariant is inductive as long as it() never fails.
LEMMA OrderStep == ItMayFail = FALSE /\ OrderInv /\ [Next]_vars => OrderInv'
<1> SUFFICES ASSUME ItMayFail = FALSE, OrderInv, [Next]_vars PROVE OrderInv'
  OBVIOUS
<1>1. TypeInv' BY TypeStep DEF OrderInv
<1>2. CASE Consume BY <1>1, <1>2, ConsumeOrder
<1>3. CASE \E p \in Procs : Process(p) BY <1>1, <1>3, ProcessOrder
<1>4. CASE Placer BY <1>1, <1>4, PlacerReceiveOrder, PlacerPlaceOrder DEF Placer
<1>5. CASE Generator BY <1>1, <1>5, GeneratorTakeOrder, GeneratorReturnOrder DEF Generator
<1>6. CASE Closer \/ Finisher \/ Releaser \/ Closing \/ Caller
  BY <1>1, <1>6, OtherOrder DEF Closer, Finisher, Releaser, Closing, Caller
<1>7. CASE UNCHANGED vars
  <2>1. UNCHANGED <<chGen, chReady, arr, proc, plc, generated, delivered, cpc>>
    BY <1>7 DEF vars
  <2>2. /\ Taken' = Taken /\ \A i : Held(i)' <=> Held(i)
        /\ UpstreamInv' /\ InFlightInv' /\ DistinctInv' /\ ArrInv' /\ CoverInv' /\ InOrder'
    BY <1>1, <2>1, QueuesUntouched
  <2>3. GeneratedInv' /\ SemInv' /\ PhaseInv' /\ CallerInv' /\ NoPanic'
    BY <1>7, <2>2
    DEF vars, OrderInv, GeneratedInv, SemInv, PhaseInv, AllDone, CallerInv, NoPanic
  <2> QED BY <1>1, <2>2, <2>3 DEF OrderInv
<1> QED BY <1>2, <1>3, <1>4, <1>5, <1>6, <1>7 DEF Next, Terminated

\* For every pipeline size and every input length: as long as it() does not fail,
\* the k-th result handed to the caller is the k-th result of it(), mapped.
THEOREM OrderCorrect == ItMayFail = FALSE /\ Spec => []InOrder
<1> SUFFICES ASSUME ItMayFail = FALSE PROVE Spec => []InOrder
  OBVIOUS
<1>1. OrderInv /\ [Next]_vars => OrderInv' BY OrderStep
<1>2. OrderInv => InOrder BY DEF OrderInv
<1> QED BY OrderInit, <1>1, <1>2, PTL DEF Spec

\* Under the same assumption neither the placer's assertions nor the semaphore
\* panic, at whatever moment close() runs and releases its extra unit.
THEOREM PanicFree == ItMayFail = FALSE /\ Spec => []NoPanic
<1> SUFFICES ASSUME ItMayFail = FALSE PROVE Spec => []NoPanic
  OBVIOUS
<1>1. OrderInv /\ [Next]_vars => OrderInv' BY OrderStep
<1>2. OrderInv => NoPanic BY DEF OrderInv
<1> QED BY OrderInit, <1>1, <1>2, PTL DEF Spec

-----------------------------------------------------------------------------
(***************************************************************************)
(* The pipeline implements OrderedStream.                                  *)
(***************************************************************************)

\* The refinement mapping of Stream, as an operator.
Seen(d) ==
  [k \in DOMAIN d |-> [d[k] EXCEPT !.i = IF d[k].e = "mapped" THEN @ ELSE 0]]

\* What the caller has seen is a sequence of results.
LEMMA SeenIsSeq ==
  ASSUME NEW d \in Seq(Record)
  PROVE  Seen(d) \in Seq(Record) /\ Len(Seen(d)) = Len(d)
<1>1. Len(d) \in Nat /\ DOMAIN d = 1 .. Len(d) /\ \A k \in 1 .. Len(d) : d[k] \in Record
  BY SeqFacts
<1>2. Seen(d) \in [1 .. Len(d) -> Record] BY <1>1 DEF Seen, Record
<1> QED BY <1>1, <1>2

\* One more result handed over is one more element of the abstract stream.
LEMMA SeenAppend ==
  ASSUME NEW d \in Seq(Record), NEW r \in Record
  PROVE  Seen(Append(d, r)) =
           Append(Seen(d), [r EXCEPT !.i = IF r.e = "mapped" THEN @ ELSE 0])
<1> DEFINE x == [r EXCEPT !.i = IF r.e = "mapped" THEN @ ELSE 0]
           dr == Append(d, r)
           sx == Append(Seen(d), x)
<1>1. /\ Len(d) \in Nat /\ DOMAIN d = 1 .. Len(d)
      /\ dr \in Seq(Record) /\ Len(dr) = Len(d) + 1 /\ dr[Len(d) + 1] = r
      /\ \A k \in 1 .. Len(d) : dr[k] = d[k]
  BY SeqFacts
<1>2. x \in Record BY DEF Record
<1>3. Seen(d) \in Seq(Record) /\ Len(Seen(d)) = Len(d) BY SeenIsSeq
<1>4. /\ sx \in Seq(Record) /\ Len(sx) = Len(d) + 1 /\ sx[Len(d) + 1] = x
      /\ \A k \in 1 .. Len(d) : sx[k] = Seen(d)[k]
  BY <1>2, <1>3, SeqFacts
<1>5. DOMAIN dr = 1 .. Len(d) + 1 /\ DOMAIN sx = 1 .. Len(d) + 1
  BY <1>1, <1>4, SeqFacts
<1>6. \A k \in 1 .. Len(d) + 1 : Seen(dr)[k] = sx[k]
  <2> SUFFICES ASSUME NEW k \in 1 .. Len(d) + 1 PROVE Seen(dr)[k] = sx[k]
    OBVIOUS
  <2>1. Seen(dr)[k] = [dr[k] EXCEPT !.i = IF dr[k].e = "mapped" THEN @ ELSE 0]
    BY <1>5 DEF Seen
  <2>2. CASE k \in 1 .. Len(d)
    <3>1. Seen(d)[k] = [d[k] EXCEPT !.i = IF d[k].e = "mapped" THEN @ ELSE 0]
      BY <1>1, <2>2 DEF Seen
    <3>2. dr[k] = d[k] /\ sx[k] = Seen(d)[k] BY <1>1, <1>4, <2>2
    <3> HIDE DEF dr, sx
    <3> QED BY <2>1, <3>1, <3>2
  <2>3. CASE k = Len(d) + 1
    <3>1. dr[k] = r /\ sx[k] = x BY <1>1, <1>4, <2>3
    <3> HIDE DEF dr, sx
    <3> QED BY <2>1, <3>1
  <2>4. k \in 1 .. Len(d) \/ k = Len(d) + 1 BY <1>1
  <2> QED BY <2>2, <2>3, <2>4
<1>7. /\ Seen(dr) = [k \in 1 .. Len(d) + 1 |-> Seen(dr)[k]]
      /\ sx = [k \in 1 .. Len(d) + 1 |-> sx[k]]
  <2>1. Seen(dr) \in Seq(Record) /\ Len(Seen(dr)) = Len(d) + 1 BY <1>1, SeenIsSeq
  <2> HIDE DEF dr, sx
  <2> QED BY <1>1, <1>4, <1>5, <2>1 DEF Seen
<1> HIDE DEF dr, sx
<1> QED BY <1>6, <1>7 DEF dr, sx

\* Every step of the pipeline is a step of the ordered stream, or none.
LEMMA StreamStep ==
  ASSUME ItMayFail = FALSE, OrderInv, OrderInv', [Next]_vars
  PROVE  [Stream!Next]_(Stream!vars)
<1> USE PipelinerAssumption
<1> DEFINE c == Len(delivered)
           g == Len(generated)
<1>1. /\ c \in Nat /\ g \in Nat /\ Taken \in Int /\ Taken <= g
      /\ delivered \in Seq(Record) /\ generated \in Seq({"raw", "nil", "err"})
      /\ Len(Seen(delivered)) = c
  BY SeenIsSeq DEF OrderInv, TypeInv, TypeOK, Taken
<1>2. CASE ConsumeIt
  <2>1. delivered' = delivered /\ cpc = "it"
        /\ \E x \in {"raw", "nil", "err"} : generated' = Append(generated, x)
    BY <1>2 DEF ConsumeIt, callerVars
  <2>2. g < c + nParallel BY <1>1, <2>1 DEF OrderInv, SemInv
  <2>3. generated # <<>> => generated[g] = "raw"
    BY <1>1, <2>1, SeqFacts DEF OrderInv, GeneratedInv
  <2>4. Stream!Produce
    BY <1>1, <2>1, <2>2, <2>3 DEF Stream!Produce, Stream!Ended, Seen
  <2> QED BY <2>4 DEF Stream!Next
<1>3. CASE GeneratorTake
  <2>1. delivered' = Append(delivered, arr[0]) /\ generated' = generated
    BY <1>3 DEF GeneratorTake, consumeVars
  <2>2. /\ c + 1 <= Taken
        /\ arr[0].e = Stream!Processed(generated[c + 1])
        /\ arr[0].e = "mapped" => arr[0].i = c + 1
    BY <1>3, WokenForNext DEF GeneratorTake
  <2>3. arr[0] \in Record BY DEF OrderInv, TypeInv, TypeOK, Slots
  <2> DEFINE x == [arr[0] EXCEPT !.i = IF arr[0].e = "mapped" THEN @ ELSE 0]
  <2>4. generated[c + 1] \in {"raw", "nil"} BY <1>1, <2>2 DEF OrderInv, GeneratedInv
  <2>5. x = Stream!Outcome(c + 1)
    BY <2>2, <2>3, <2>4 DEF Stream!Outcome, Stream!Processed, Record
  <2>6. Seen(delivered') = Append(Seen(delivered), x) BY <1>1, <2>1, <2>3, SeenAppend
  <2> HIDE DEF x
  <2>7. Stream!Deliver
    <3>1. /\ Len(Seen(delivered)) < g /\ UNCHANGED generated
          /\ Seen(delivered') = Append(Seen(delivered), Stream!Outcome(Len(Seen(delivered)) + 1))
      BY <1>1, <2>1, <2>2, <2>5, <2>6
    <3> QED BY <3>1 DEF Stream!Deliver, Seen
  <2> QED BY <2>7 DEF Stream!Next
<1>4. CASE ~ConsumeIt /\ ~GeneratorTake
  <2>1. UNCHANGED <<generated, delivered>>
    BY <1>4
    DEF Next, vars, consumeVars, callerVars, Consume, ConsumeTop, ConsumeAcquire,
        ConsumeRecheck, ConsumeSend, ConsumeFail, Process, ProcessReceive, ProcessSend,
        Closer, CloseReady, Placer, PlacerReceive, PlacerPlace, Finisher, Finish,
        Generator, GeneratorReturn, Releaser, CloseRelease, Closing, CloseReturn,
        Caller, GeneratorCall, CloseCall, Terminated
  <2> QED BY <2>1 DEF Stream!vars
<1> QED BY <1>2, <1>3, <1>4

\* For every pipeline size and every input length: the pipeline implements the
\* ordered, bounded stream of OrderedStream, as long as it() does not fail.
THEOREM PipelinerRefines == ItMayFail = FALSE /\ Spec => ImplementsOrderedStream
<1> SUFFICES ASSUME ItMayFail = FALSE PROVE Spec => ImplementsOrderedStream
  OBVIOUS
<1>1. OrderInv /\ [Next]_vars => OrderInv' BY OrderStep
<1>2. Init => Stream!Init BY DEF Init, Stream!Init
<1>3. OrderInv /\ OrderInv' /\ [Next]_vars => [Stream!Next]_(Stream!vars) BY StreamStep
<1> QED BY OrderInit, <1>1, <1>2, <1>3, PTL DEF Spec, ImplementsOrderedStream, Stream!Spec

-----------------------------------------------------------------------------
(***************************************************************************)
(* What remains when it() may fail.  consume() then sets evDone while      *)
(* results are still under way: the generator no longer waits, hands out   *)
(* an empty slot as the end and leaves arr shifted once too often, so that *)
(* slots no longer match indexes.  But nobody takes a slot after that: the *)
(* window is in order as long as the caller reads.                         *)
(***************************************************************************)

\* The caller has had nothing but elements, and may ask for the next.
Reading ==
  \/ caller \in {"idle", "waiting"}
  \/ caller = "locked" /\ delivered[Len(delivered)].e = "mapped"

\* Only the last result of it() is not an element, and consume() ends with it.
ResultsInv ==
  /\ \A k \in 1 .. Len(generated) - 1 : generated[k] = "raw"
  /\ cpc \in {"top", "acquire", "recheck", "it"} =>
       \A k \in 1 .. Len(generated) : generated[k] = "raw"

\* What slot j holds is the result j + 1 after the delivered ones.
SlotsInv ==
  \A j \in Slots :
    /\ arr[j].e # "raw"
    /\ nParallel > 1 => arr[j].i = Len(delivered) + j + 1
    /\ arr[j].e # "nil" =>
         /\ arr[j].i = Len(delivered) + j + 1
         /\ Len(delivered) + j + 1 <= Taken
         /\ arr[j].e = Stream!Processed(generated[Len(delivered) + j + 1])
         /\ ~Held(Len(delivered) + j + 1)

\* Only elements were delivered, and close() has not run.
ReadingInv == rel = "none" /\ \A k \in 1 .. Len(delivered) : delivered[k].e = "mapped"

WindowInv ==
  ResultsInv /\ UpstreamInv /\ InFlightInv /\ DistinctInv /\ SlotsInv /\ SemInv /\ ReadingInv

TruncateInv ==
  /\ TypeInv
  /\ OnlyTruncates
  /\ caller = "locked" => Len(delivered) > 0
  /\ ~panicked /\ Reading => WindowInv

\* The pipeline starts with nothing under way.
LEMMA TruncateInit == Init => TruncateInv
<1> SUFFICES ASSUME Init PROVE TruncateInv
  OBVIOUS
<1> USE PipelinerAssumption DEF Init
<1>1. TypeInv BY TypeInit
<1>2. Len(generated) = 0 /\ Len(delivered) = 0 /\ Len(chGen) = 0 /\ Len(chReady) = 0
      /\ DOMAIN delivered = {}
  OBVIOUS
<1>3. Taken = 0 BY <1>2 DEF Taken
<1>4. ResultsInv /\ UpstreamInv /\ InFlightInv /\ DistinctInv /\ ReadingInv
  BY <1>2, <1>3
  DEF ResultsInv, UpstreamInv, InFlightInv, DistinctInv, ReadingInv, Idle, Done
<1>5. SlotsInv /\ SemInv BY <1>2, <1>3 DEF SlotsInv, SemInv, Slots
<1>6. OnlyTruncates BY <1>2 DEF OnlyTruncates
<1> QED BY <1>1, <1>2, <1>4, <1>5, <1>6 DEF TruncateInv, WindowInv

\* Numbers the steps below calculate with.
LEMMA WindowFacts ==
  ASSUME TypeInv
  PROVE  /\ Len(generated) \in Nat /\ Len(delivered) \in Nat /\ Len(chGen) \in Nat
         /\ Len(chReady) \in Nat /\ Taken \in Int /\ Taken <= Len(generated)
         /\ generated \in Seq({"raw", "nil", "err"}) /\ delivered \in Seq(Record)
         /\ chGen \in Seq(Record) /\ chReady \in Seq(Record)
         /\ arr \in [Slots -> Record] /\ proc \in [Procs -> Record \union {Idle, Done}]
         /\ DOMAIN delivered = 1 .. Len(delivered) /\ DOMAIN generated = 1 .. Len(generated)
         /\ smGen \in Int /\ smGen <= nParallel
  BY PipelinerAssumption DEF TypeInv, TypeOK, SendHasRecord, Taken

\* A step that leaves the queues, the array and the histories alone keeps the window.
LEMMA WindowUntouched ==
  ASSUME WindowInv, TypeInv, TypeInv',
         UNCHANGED <<chGen, chReady, arr, proc, plc, generated, delivered>>,
         cpc = "send" <=> cpc' = "send"
  PROVE  UpstreamInv' /\ InFlightInv' /\ DistinctInv' /\ SlotsInv'
<1>1. Taken' = Taken BY DEF Taken
<1>2. \A i : Held(i)' <=> Held(i) BY DEF Held
<1>3. UpstreamInv' /\ InFlightInv' /\ DistinctInv'
  BY <1>1 DEF WindowInv, UpstreamInv, InFlightInv, DistinctInv, InWindow
<1>4. SlotsInv' BY <1>1, <1>2 DEF WindowInv, SlotsInv
<1> QED BY <1>3, <1>4

\* The consumer numbers and queues what it() returns, an error included.
LEMMA WindowConsume ==
  ASSUME WindowInv, TypeInv, TypeInv', Consume
  PROVE  WindowInv'
<1> USE PipelinerAssumption DEF consumeVars, callerVars, WindowInv
<1>0. ReadingInv'
  BY DEF ReadingInv, Consume, ConsumeTop, ConsumeAcquire, ConsumeRecheck, ConsumeIt,
         ConsumeSend, ConsumeFail
<1>1. CASE ConsumeTop \/ ConsumeRecheck \/ ConsumeFail
  <2>1. UpstreamInv' /\ InFlightInv' /\ DistinctInv' /\ SlotsInv'
    BY <1>1, WindowUntouched DEF ConsumeTop, ConsumeRecheck, ConsumeFail
  <2>2. ResultsInv' BY <1>1 DEF ConsumeTop, ConsumeRecheck, ConsumeFail, ResultsInv
  <2>3. SemInv'
    BY <1>1, WindowFacts DEF ConsumeTop, ConsumeRecheck, ConsumeFail, SemInv, ReadingInv
  <2> QED BY <1>0, <2>1, <2>2, <2>3
<1>2. CASE ConsumeAcquire
  <2>1. UpstreamInv' /\ InFlightInv' /\ DistinctInv' /\ SlotsInv'
    BY <1>2, WindowUntouched DEF ConsumeAcquire
  <2>2. ResultsInv' /\ SemInv'
    BY <1>2, WindowFacts DEF ConsumeAcquire, ResultsInv, SemInv, ReadingInv
  <2> QED BY <1>0, <2>1, <2>2
<1>3. CASE ConsumeIt
  <2> USE <1>3 DEF ConsumeIt
  <2>1. PICK x \in {"raw", "nil", "err"} : generated' = Append(generated, x)
    OBVIOUS
  <2>2. /\ Len(generated') = Len(generated) + 1
        /\ generated'[Len(generated) + 1] = x
        /\ \A k \in 1 .. Len(generated) : generated'[k] = generated[k]
        /\ Len(generated) \in Nat /\ Len(delivered) \in Nat /\ Len(chGen) \in Nat
    BY <2>1, SeqFacts, WindowFacts
  <2>3. Taken' = Taken /\ Taken <= Len(generated) /\ Taken \in Int BY <2>2 DEF Taken
  <2>4. \A i : Held(i)' <=> Held(i) BY DEF Held
  <2>5. ResultsInv' BY <2>1, <2>2 DEF ResultsInv
  <2>6. UpstreamInv'
    <3>1. \A k \in 1 .. Len(chGen) : Taken + k \in 1 .. Len(generated)
      BY <2>2 DEF Taken, UpstreamInv
    <3> QED BY <2>2, <2>3, <3>1 DEF UpstreamInv
  <2>7. \A i : InWindow(i) => i \in 1 .. Len(generated) /\ generated'[i] = generated[i]
    BY <2>2, <2>3 DEF InWindow
  <2>8. InFlightInv' BY <2>3, <2>7 DEF InFlightInv, InWindow
  <2>9. DistinctInv' BY DEF DistinctInv
  <2>10. SlotsInv'
    <3>1. \A j \in Slots : Len(delivered) + j + 1 <= Taken =>
                             generated'[Len(delivered) + j + 1] = generated[Len(delivered) + j + 1]
      BY <2>2, <2>3 DEF Slots
    <3> QED BY <2>3, <2>4, <3>1 DEF SlotsInv
  <2>11. SemInv' BY <2>2 DEF SemInv, ReadingInv
  <2> QED BY <1>0, <2>5, <2>6, <2>8, <2>9, <2>10, <2>11
<1>4. CASE ConsumeSend
  <2> USE <1>4 DEF ConsumeSend
  <2> DEFINE g == Len(generated)
             r == [e |-> generated[g], i |-> g]
  <2>1. /\ g \in Nat \ {0} /\ Len(delivered) \in Nat /\ Len(chGen) \in Nat
        /\ chGen' = Append(chGen, r) /\ r \in Record
    BY WindowFacts DEF TypeInv, SendHasRecord, Record
  <2>2. /\ Len(chGen') = Len(chGen) + 1
        /\ chGen'[Len(chGen) + 1] = r
        /\ \A k \in 1 .. Len(chGen) : chGen'[k] = chGen[k]
    BY <2>1, SeqFacts, WindowFacts
  <2>3. Taken' = Taken /\ Taken + Len(chGen) + 1 = g BY <2>1, <2>2 DEF Taken
  <2>4. \A i : Held(i)' <=> Held(i) BY DEF Held
  <2>5. ResultsInv' BY <2>1 DEF ResultsInv
  <2>6. UpstreamInv'
    <3>1. Len(delivered') <= Taken' BY <2>3 DEF UpstreamInv
    <3>2. ASSUME NEW k \in 1 .. Len(chGen')
          PROVE  chGen'[k] = [e |-> generated'[Taken' + k], i |-> Taken' + k]
      <4>1. CASE k \in 1 .. Len(chGen) BY <2>2, <2>3, <4>1 DEF UpstreamInv
      <4>2. CASE k = Len(chGen) + 1
        <5>1. Taken' + k = g BY <2>1, <2>3, <4>2 DEF Taken
        <5> QED BY <2>2, <4>2, <5>1
      <4> QED BY <2>1, <2>2, <4>1, <4>2
    <3> QED BY <3>1, <3>2 DEF UpstreamInv
  <2>7. InFlightInv' /\ DistinctInv' BY <2>3 DEF InFlightInv, InWindow, DistinctInv
  <2>8. SlotsInv' BY <2>3, <2>4 DEF SlotsInv
  <2>9. SemInv' BY DEF SemInv
  <2> QED BY <1>0, <2>5, <2>6, <2>7, <2>8, <2>9
<1> QED BY <1>1, <1>2, <1>3, <1>4 DEF Consume

\* A processor moves one record from one channel to the next.
LEMMA WindowProcess ==
  ASSUME WindowInv, TypeInv, TypeInv', NEW p \in Procs, Process(p)
  PROVE  WindowInv'
<1> USE PipelinerAssumption DEF consumeVars, callerVars
<1>0. /\ UpstreamInv /\ InFlightInv /\ DistinctInv /\ SlotsInv
      /\ ResultsInv' /\ SemInv' /\ ReadingInv'
  BY DEF WindowInv, Process, ProcessReceive, ProcessSend, ResultsInv, SemInv, ReadingInv
<1>1. ASSUME ProcessReceive(p), chGen # <<>> PROVE WindowInv'
  <2> DEFINE r == Head(chGen)
  <2>1. /\ proc[p] = Idle /\ proc' = [proc EXCEPT ![p] = r] /\ chGen' = Tail(chGen)
        /\ UNCHANGED <<arr, chReady, cpc, plc, generated, delivered>>
    BY <1>1 DEF ProcessReceive
  <2>2. /\ Len(chGen) \in Nat /\ Len(chGen) > 0
        /\ Len(chGen') = Len(chGen) - 1
        /\ r = chGen[1] /\ r \in Record
        /\ \A k \in 1 .. Len(chGen) - 1 : chGen'[k] = chGen[k + 1]
    BY <1>1, <2>1, SeqFacts, WindowFacts
  <2>3. Len(generated) \in Nat /\ Len(delivered) \in Nat /\ Taken \in Int BY WindowFacts
  <2> HIDE DEF r
  <2>4. Taken' = Taken + 1
    <3>1. Taken = Len(generated) - (IF cpc = "send" THEN 1 ELSE 0) - Len(chGen)
      BY DEF Taken
    <3>2. Taken' = Len(generated) - (IF cpc = "send" THEN 1 ELSE 0) - (Len(chGen) - 1)
      BY <2>1, <2>2 DEF Taken
    <3> QED BY <2>2, <2>3, <3>1, <3>2
  <2>5. Len(delivered) <= Taken /\ r = [e |-> generated[Taken + 1], i |-> Taken + 1]
    <3>1. 1 \in 1 .. Len(chGen) BY <2>2
    <3> QED BY <1>0, <2>2, <3>1 DEF UpstreamInv
  <2>6. r.i = Taken + 1 /\ r.e = generated[Taken + 1] /\ r.i # 0 BY <2>3, <2>5
  <2>7. /\ proc[p].i = 0
        /\ \A q \in Procs : proc'[q] = IF q = p THEN r ELSE proc[q]
    BY <2>1, WindowFacts DEF Idle
  <2>8. \A i : i # 0 => (Held(i)' <=> Held(i) \/ i = Taken + 1)
    BY <2>1, <2>6, <2>7 DEF Held
  <2>9. UpstreamInv'
    <3>1. ASSUME NEW k \in 1 .. Len(chGen')
          PROVE  chGen'[k] = [e |-> generated'[Taken' + k], i |-> Taken' + k]
      <4>1. k + 1 \in 1 .. Len(chGen) /\ chGen'[k] = chGen[k + 1] BY <2>2
      <4>2. Taken + (k + 1) = Taken' + k BY <2>3, <2>4
      <4> QED BY <1>0, <2>1, <4>1, <4>2 DEF UpstreamInv
    <3> QED BY <2>1, <2>3, <2>4, <2>5, <3>1 DEF UpstreamInv
  <2>10. InFlightInv'
    BY <1>0, <2>1, <2>3, <2>4, <2>5, <2>6, <2>7 DEF InFlightInv, InWindow
  <2>11. /\ \A q \in Procs : proc[q].i # r.i
         /\ \A k \in 1 .. Len(chReady) : chReady[k].i # r.i
         /\ plc.i # r.i
    BY <1>0, <2>3, <2>6 DEF InFlightInv, InWindow, Idle, Done
  <2>12. DistinctInv' BY <1>0, <2>1, <2>7, <2>11 DEF DistinctInv
  <2>13. SlotsInv'
    <3>1. \A j \in Slots : Len(delivered) + j + 1 <= Taken =>
            /\ Held(Len(delivered) + j + 1)' <=> Held(Len(delivered) + j + 1)
            /\ Len(delivered) + j + 1 <= Taken + 1
      BY <2>1, <2>3, <2>8 DEF Slots
    <3> QED BY <1>0, <2>1, <2>4, <3>1 DEF SlotsInv
  <2> QED BY <1>0, <2>9, <2>10, <2>12, <2>13 DEF WindowInv
<1>2. ASSUME ProcessReceive(p), chGen = <<>> PROVE WindowInv'
  <2>1. /\ proc[p] = Idle /\ proc' = [proc EXCEPT ![p] = Done] /\ chGen' = chGen
        /\ UNCHANGED <<chReady, arr, cpc, plc, generated, delivered>>
    BY <1>2 DEF ProcessReceive
  <2>2. /\ \A q \in Procs : proc'[q] = IF q = p THEN Done ELSE proc[q]
        /\ \A q \in Procs : proc'[q].i = proc[q].i
    BY <2>1, WindowFacts DEF Idle, Done
  <2>3. Taken' = Taken BY <2>1 DEF Taken
  <2>4. \A i : Held(i)' <=> Held(i) BY <2>1, <2>2 DEF Held
  <2>5. UpstreamInv' /\ InFlightInv' /\ DistinctInv'
    BY <1>0, <2>1, <2>2, <2>3 DEF UpstreamInv, InFlightInv, InWindow, DistinctInv
  <2>6. SlotsInv' BY <1>0, <2>1, <2>3, <2>4 DEF SlotsInv
  <2> QED BY <1>0, <2>5, <2>6 DEF WindowInv
<1>3. ASSUME ProcessSend(p) PROVE WindowInv'
  <2> DEFINE r == [proc[p] EXCEPT !.e = Stream!Processed(@)]
  <2>1. /\ proc[p] \notin {Idle, Done} /\ chReady' = Append(chReady, r)
        /\ proc' = [proc EXCEPT ![p] = Idle]
        /\ UNCHANGED <<chGen, arr, cpc, plc, generated, delivered>>
    BY <1>3 DEF ProcessSend
  <2>2. Len(delivered) \in Nat /\ Taken \in Int BY WindowFacts
  <2>3. /\ proc[p] \in Record /\ proc[p].i # 0
        /\ InWindow(proc[p].i) /\ proc[p].e = generated[proc[p].i]
    BY <1>0, <2>1, <2>2, WindowFacts DEF InFlightInv, InWindow
  <2>4. r \in Record /\ r.i = proc[p].i /\ r.e = Stream!Processed(generated[r.i])
    BY <2>3 DEF Record, Stream!Processed
  <2>5. /\ Len(chReady) \in Nat /\ Len(chReady') = Len(chReady) + 1
        /\ chReady'[Len(chReady) + 1] = r
        /\ \A k \in 1 .. Len(chReady) : chReady'[k] = chReady[k]
    BY <2>1, <2>4, SeqFacts, WindowFacts
  <2> HIDE DEF r
  <2>6. \A q \in Procs : proc'[q] = IF q = p THEN Idle ELSE proc[q]
    BY <2>1, WindowFacts
  <2>7. Taken' = Taken BY <2>1 DEF Taken
  <2>8. \A i : i # 0 => (Held(i)' <=> Held(i))
    BY <2>1, <2>4, <2>5, <2>6 DEF Held, Idle
  <2>9. UpstreamInv' BY <1>0, <2>1, <2>7 DEF UpstreamInv
  <2>10. InFlightInv'
    BY <1>0, <2>1, <2>3, <2>4, <2>5, <2>6, <2>7 DEF InFlightInv, InWindow
  <2>11. DistinctInv'
    BY <1>0, <2>1, <2>3, <2>4, <2>5, <2>6 DEF DistinctInv, InFlightInv, InWindow, Idle
  <2>12. SlotsInv'
    <3>1. \A j \in Slots : Held(Len(delivered) + j + 1)' <=> Held(Len(delivered) + j + 1)
      BY <2>1, <2>2, <2>8 DEF Slots
    <3> QED BY <1>0, <2>1, <2>7, <3>1, Zenon DEF SlotsInv
  <2> QED BY <1>0, <2>9, <2>10, <2>11, <2>12 DEF WindowInv
<1> QED BY <1>1, <1>2, <1>3 DEF Process

\* The placer takes a record out of the ready channel.
LEMMA WindowPlacerReceive ==
  ASSUME WindowInv, TypeInv, TypeInv', PlacerReceive
  PROVE  WindowInv'
<1> USE PipelinerAssumption DEF consumeVars, callerVars
<1>0. /\ plc = Idle /\ plc.i = 0 /\ Idle # Done /\ Done.i = 0
      /\ UNCHANGED <<smGen, arr, cpc, proc, generated, chGen, caller, rel, delivered>>
      /\ UpstreamInv /\ InFlightInv /\ DistinctInv /\ SlotsInv
  BY DEF PlacerReceive, Idle, Done, WindowInv
<1>1. Taken' = Taken BY <1>0 DEF Taken
<1>2. Len(delivered) \in Nat /\ Taken \in Int BY WindowFacts
<1>3. ResultsInv' /\ UpstreamInv' /\ SemInv' /\ ReadingInv'
  BY <1>0, <1>1 DEF WindowInv, ResultsInv, UpstreamInv, SemInv, ReadingInv
<1>4. ASSUME \A i : i # 0 => (Held(i)' <=> Held(i)) PROVE SlotsInv'
  <2>1. \A j \in Slots : Held(Len(delivered) + j + 1)' <=> Held(Len(delivered) + j + 1)
    BY <1>0, <1>2, <1>4 DEF Slots
  <2> QED BY <1>0, <1>1, <2>1, Zenon DEF SlotsInv
<1>5. CASE chReady # <<>>
  <2> DEFINE r == Head(chReady)
  <2>1. plc' = r /\ chReady' = Tail(chReady) BY <1>5 DEF PlacerReceive
  <2>2. /\ Len(chReady) \in Nat /\ Len(chReady) > 0
        /\ Len(chReady') = Len(chReady) - 1
        /\ r = chReady[1] /\ r \in Record
        /\ \A k \in 1 .. Len(chReady) - 1 : chReady'[k] = chReady[k + 1]
    BY <1>5, <2>1, SeqFacts, WindowFacts
  <2> HIDE DEF r
  <2>3. /\ 1 \in 1 .. Len(chReady)
        /\ \A k \in 1 .. Len(chReady') : k + 1 \in 1 .. Len(chReady) /\ k + 1 # 1
        /\ \A k \in 1 .. Len(chReady) : k # 1 => k - 1 \in 1 .. Len(chReady') /\ (k - 1) + 1 = k
    BY <2>2
  <2>4. \A k \in 1 .. Len(chReady') : chReady'[k] = chReady[k + 1] BY <2>2
  <2>5. \A i : i # 0 => (Held(i)' <=> Held(i))
    <3> SUFFICES ASSUME NEW i, i # 0 PROVE Held(i)' <=> Held(i)
      OBVIOUS
    <3>1. ASSUME NEW k \in 1 .. Len(chReady), chReady[k].i = i PROVE Held(i)'
      <4>1. CASE k = 1 BY <2>1, <2>2, <3>1, <4>1 DEF Held
      <4>2. CASE k # 1
        <5>1. k - 1 \in 1 .. Len(chReady') /\ chReady'[k - 1] = chReady[k]
          BY <2>3, <2>4, <4>2
        <5> QED BY <3>1, <5>1 DEF Held
      <4> QED BY <4>1, <4>2
    <3>2. ASSUME NEW k \in 1 .. Len(chReady'), chReady'[k].i = i PROVE Held(i)
      BY <2>3, <2>4, <3>2 DEF Held
    <3>3. r.i = i => Held(i) BY <2>2, <2>3 DEF Held
    <3> QED BY <1>0, <2>1, <3>1, <3>2, <3>3 DEF Held
  <2>6. InFlightInv'
    BY <1>0, <1>1, <2>1, <2>2, <2>3, <2>4 DEF InFlightInv, InWindow
  <2>7. DistinctInv'
    <3>1. \A k \in 1 .. Len(chReady') : r.i # chReady'[k].i
      BY <1>0, <2>2, <2>3, <2>4 DEF DistinctInv
    <3>2. \A k, l \in 1 .. Len(chReady') : k # l => k + 1 # l + 1 OBVIOUS
    <3> QED BY <1>0, <2>1, <2>2, <2>3, <2>4, <3>1, <3>2 DEF DistinctInv
  <2> QED BY <1>3, <1>4, <2>5, <2>6, <2>7 DEF WindowInv
<1>6. CASE chReady = <<>>
  <2>1. plc' = Done /\ chReady' = chReady BY <1>6 DEF PlacerReceive
  <2>2. \A i : i # 0 => (Held(i)' <=> Held(i)) BY <1>0, <2>1 DEF Held
  <2>3. InFlightInv' /\ DistinctInv'
    BY <1>0, <1>1, <2>1 DEF InFlightInv, InWindow, DistinctInv
  <2> QED BY <1>3, <1>4, <2>2, <2>3 DEF WindowInv
<1> QED BY <1>5, <1>6

\* As long as the caller reads, the placer's search finds the slot of the record.
LEMMA WindowSpot ==
  ASSUME WindowInv, TypeInv, plc \notin {Idle, Done}
  PROVE  /\ Spot(plc) \in Slots
         /\ plc.i = Len(delivered) + Spot(plc) + 1
<1> USE PipelinerAssumption
<1>1. /\ Len(delivered) \in Nat /\ Len(generated) \in Nat /\ Taken \in Int
      /\ Taken <= Len(generated)
  BY WindowFacts
<1>2. plc.i \in Len(delivered) + 1 .. Taken BY DEF WindowInv, InFlightInv, InWindow
<1> DEFINE j == plc.i - Len(delivered) - 1
<1>3. j \in Slots /\ plc.i = Len(delivered) + j + 1
  BY <1>1, <1>2 DEF WindowInv, SemInv, Slots
<1> SUFFICES Spot(plc) = j BY <1>3
<1> HIDE DEF j
<1>4. CASE nParallel = 1 BY <1>3, <1>4 DEF Spot, Hits, Slots
<1>5. CASE nParallel > 1
  <2>1. \A k \in 0 .. nParallel - 2 : arr[k + 1].i = Len(delivered) + (k + 1) + 1
    BY <1>5 DEF WindowInv, SlotsInv, Slots
  <2>2. \A k \in 0 .. nParallel - 2 : arr[k + 1].i = plc.i + 1 <=> k = j
    BY <1>1, <1>3, <2>1 DEF Slots
  <2>3. CASE j = nParallel - 1
    <3>1. Hits(plc) = {} BY <2>2, <2>3 DEF Hits
    <3> QED BY <2>3, <3>1 DEF Spot
  <2>4. CASE j \in 0 .. nParallel - 2
    <3>1. Hits(plc) = {j} BY <2>2, <2>4 DEF Hits
    <3>2. \A k \in {j} : j <= k BY <1>3 DEF Slots
    <3> QED BY <3>1, <3>2 DEF Spot
  <2> QED BY <1>3, <2>3, <2>4 DEF Slots
<1> QED BY <1>4, <1>5

\* Placing a record fills the slot of its index and no other.
LEMMA WindowPlacerPlace ==
  ASSUME WindowInv, TypeInv, TypeInv', PlacerPlace
  PROVE  WindowInv'
<1> USE PipelinerAssumption DEF consumeVars, callerVars
<1> DEFINE j == Spot(plc)
           c == Len(delivered)
<1>0. /\ plc \notin {Idle, Done} /\ plc \in Record
      /\ UpstreamInv /\ InFlightInv /\ DistinctInv /\ SlotsInv
      /\ UNCHANGED <<smGen, chReady, cpc, proc, generated, chGen, caller, rel, delivered>>
  BY DEF PlacerPlace, WindowInv, TypeInv, TypeOK
<1>1. j \in Slots /\ plc.i = c + j + 1 BY <1>0, WindowSpot
<1>2. Held(c + j + 1) BY <1>1 DEF Held
<1>3. arr[j].e = "nil" BY <1>0, <1>1, <1>2 DEF SlotsInv
<1>4. arr' = [arr EXCEPT ![j] = plc] /\ plc' = Idle
  BY <1>3 DEF PlacerPlace
<1> HIDE DEF j
<1>5. /\ c \in Nat /\ Taken \in Int
      /\ \A k \in Slots : arr'[k] = IF k = j THEN plc ELSE arr[k]
  BY <1>4, WindowFacts
<1>6. Taken' = Taken BY <1>0 DEF Taken
<1>7. InWindow(plc.i) /\ plc.e = Stream!Processed(generated[plc.i])
  BY <1>0 DEF InFlightInv
<1>8. \A i : i # 0 => (Held(i)' <=> (Held(i) /\ i # plc.i))
  BY <1>0, <1>1, <1>4, <1>5 DEF Held, Idle, DistinctInv, Slots
<1>9. ResultsInv' /\ UpstreamInv' /\ SemInv' /\ ReadingInv'
  BY <1>0, <1>6 DEF WindowInv, ResultsInv, UpstreamInv, SemInv, ReadingInv
<1>10. InFlightInv' BY <1>0, <1>4, <1>6 DEF InFlightInv, InWindow
<1>11. DistinctInv'
  <2>1. \A k \in 1 .. Len(chReady) : chReady[k].i # 0
    BY <1>0, <1>5 DEF InFlightInv, InWindow
  <2> QED BY <1>0, <1>4, <2>1 DEF DistinctInv, Idle
<1>12. SlotsInv'
  <2>1. \A k \in Slots : c + k + 1 # 0 BY <1>5 DEF Slots
  <2>2. \A k \in Slots : Held(c + k + 1)' => Held(c + k + 1) /\ c + k + 1 # plc.i
    BY <1>0, <1>8, <2>1
  <2>3. plc.e # "raw"
    <3>1. plc.i \in 1 .. Len(generated) BY <1>5, <1>7, WindowFacts DEF InWindow
    <3>2. generated[plc.i] \in {"raw", "nil", "err"} BY <3>1, WindowFacts
    <3> QED BY <1>7, <3>2 DEF Stream!Processed
  <2>4. plc.i <= Taken BY <1>7 DEF InWindow
  <2>5. \A k \in Slots : k = j => ~Held(c + k + 1)' BY <1>1, <2>2
  <2> SUFFICES ASSUME NEW k \in Slots
               PROVE  /\ arr'[k].e # "raw"
                      /\ nParallel > 1 => arr'[k].i = c + k + 1
                      /\ arr'[k].e # "nil" =>
                           /\ arr'[k].i = c + k + 1
                           /\ c + k + 1 <= Taken
                           /\ arr'[k].e = Stream!Processed(generated[c + k + 1])
                           /\ ~Held(c + k + 1)'
    BY <1>0, <1>6 DEF SlotsInv
  <2>6. CASE k = j
    <3>1. arr'[k] = plc BY <1>5, <2>6
    <3>2. ~Held(c + k + 1)' BY <2>5, <2>6
    <3>3. plc.i = c + k + 1 BY <1>1, <2>6
    <3> QED BY <1>7, <2>3, <2>4, <3>1, <3>2, <3>3
  <2>7. CASE k # j
    <3>1. arr'[k] = arr[k] BY <1>5, <2>7
    <3> QED BY <1>0, <2>2, <3>1 DEF SlotsInv
  <2> QED BY <2>6, <2>7
<1> QED BY <1>9, <1>10, <1>11, <1>12 DEF WindowInv

\* An element taken from slot 0 is the next one, and the window advances by one.
LEMMA WindowTake ==
  ASSUME WindowInv, TypeInv, TypeInv', GeneratorTake, arr[0].e = "mapped"
  PROVE  WindowInv'
<1> USE PipelinerAssumption DEF consumeVars
<1> DEFINE c == Len(delivered)
<1>0. UpstreamInv /\ InFlightInv /\ DistinctInv /\ SlotsInv /\ SemInv /\ ResultsInv /\ ReadingInv
  BY DEF WindowInv
<1>1. 0 \in Slots /\ c + 1 <= Taken /\ ~Held(c + 1)
  <2>1. 0 \in Slots /\ c \in Nat /\ c + 0 + 1 = c + 1 BY WindowFacts DEF Slots
  <2> QED BY <1>0, <2>1 DEF SlotsInv
<1>2. /\ delivered' = Append(delivered, arr[0]) /\ arr' = Shifted
      /\ smGen' = smGen - 1
      /\ UNCHANGED <<chReady, cpc, proc, plc, generated, chGen, rel>>
  BY DEF GeneratorTake
<1>3. /\ c \in Nat /\ Len(generated) \in Nat /\ Len(chGen) \in Nat /\ smGen \in Int
      /\ Taken \in Int /\ Taken <= Len(generated)
      /\ arr \in [Slots -> Record] /\ delivered \in Seq(Record)
  BY WindowFacts
<1>4. /\ Len(delivered') = c + 1 /\ delivered'[c + 1] = arr[0]
      /\ \A k \in 1 .. c : delivered'[k] = delivered[k]
  <2>1. arr[0] \in Record BY <1>1, <1>3
  <2> QED BY <1>2, <1>3, <2>1, SeqFacts
<1>5. Taken' = Taken BY <1>2 DEF Taken
<1>6. \A i : Held(i)' <=> Held(i) BY <1>2 DEF Held
<1>7. \A i : InWindow(i) /\ Held(i) => InWindow(i)'
  BY <1>1, <1>3, <1>4, <1>5 DEF InWindow
<1>8. ResultsInv' BY <1>0, <1>2 DEF ResultsInv
<1>9. UpstreamInv' BY <1>0, <1>1, <1>2, <1>3, <1>4, <1>5 DEF UpstreamInv
<1>10. InFlightInv'
  <2>1. ASSUME NEW p \in Procs, proc[p] \notin {Idle, Done} PROVE InWindow(proc[p].i)'
    <3>1. InWindow(proc[p].i) /\ Held(proc[p].i) BY <1>0, <2>1 DEF InFlightInv, Held
    <3> QED BY <1>2, <1>3, <1>4, <1>5, <1>7, <3>1 DEF InWindow
  <2>2. ASSUME NEW k \in 1 .. Len(chReady) PROVE InWindow(chReady[k].i)'
    <3>1. InWindow(chReady[k].i) /\ Held(chReady[k].i) BY <1>0 DEF InFlightInv, Held
    <3> QED BY <1>2, <1>3, <1>4, <1>5, <1>7, <3>1 DEF InWindow
  <2>3. ASSUME plc \notin {Idle, Done} PROVE InWindow(plc.i)'
    <3>1. InWindow(plc.i) /\ Held(plc.i) BY <1>0, <2>3 DEF InFlightInv, Held
    <3> QED BY <1>2, <1>3, <1>4, <1>5, <1>7, <3>1 DEF InWindow
  <2> QED BY <1>0, <1>2, <2>1, <2>2, <2>3 DEF InFlightInv
<1>11. DistinctInv' BY <1>0, <1>2 DEF DistinctInv
<1>12. SlotsInv'
  <2> SUFFICES ASSUME NEW j \in Slots
               PROVE  /\ arr'[j].e # "raw"
                      /\ nParallel > 1 => arr'[j].i = (c + 1) + j + 1
                      /\ arr'[j].e # "nil" =>
                           /\ arr'[j].i = (c + 1) + j + 1
                           /\ (c + 1) + j + 1 <= Taken
                           /\ arr'[j].e = Stream!Processed(generated[(c + 1) + j + 1])
                           /\ ~Held((c + 1) + j + 1)
    BY <1>2, <1>4, <1>5, <1>6 DEF SlotsInv, Held
  <2>1. CASE j < nParallel - 1
    <3>1. j + 1 \in Slots /\ arr'[j] = arr[j + 1] BY <1>2, <2>1 DEF Shifted, Slots
    <3>2. c + (j + 1) + 1 = (c + 1) + j + 1 BY <1>3 DEF Slots
    <3> QED BY <1>0, <3>1, <3>2 DEF SlotsInv
  <2>2. CASE j = nParallel - 1
    <3>1. arr'[j].e = "nil" BY <1>2, <2>2 DEF Shifted
    <3>2. ASSUME nParallel > 1 PROVE arr'[j].i = (c + 1) + j + 1
      <4>1. arr'[j].i = arr[j].i + 1 BY <1>2, <2>2, <3>2 DEF Shifted
      <4>2. arr[j].i = c + j + 1 BY <1>0, <3>2 DEF SlotsInv
      <4> QED BY <1>3, <4>1, <4>2 DEF Slots
    <3> QED BY <3>1, <3>2
  <2> QED BY <2>1, <2>2 DEF Slots
<1>13. SemInv' BY <1>0, <1>2, <1>3, <1>4 DEF SemInv, ReadingInv
<1>14. ReadingInv'
  <2>1. \A k \in 1 .. c + 1 : k \in 1 .. c \/ k = c + 1 BY <1>3
  <2> QED BY <1>0, <1>2, <1>4, <2>1 DEF ReadingInv
<1> QED BY <1>8, <1>9, <1>10, <1>11, <1>12, <1>13, <1>14 DEF WindowInv

\* Whatever the generator hands out, an error or a slot that is still empty
\* included, only cuts the stream short.
LEMMA TakeTruncates ==
  ASSUME WindowInv, OnlyTruncates, TypeInv, TypeInv', GeneratorTake
  PROVE  OnlyTruncates'
<1> USE PipelinerAssumption DEF consumeVars
<1> DEFINE c == Len(delivered)
<1>1. /\ c \in Nat /\ delivered \in Seq(Record) /\ DOMAIN delivered = 1 .. c
      /\ generated \in Seq({"raw", "nil", "err"}) /\ DOMAIN generated = 1 .. Len(generated)
      /\ Len(generated) \in Nat /\ Taken \in Int /\ Taken <= Len(generated)
      /\ arr \in [Slots -> Record]
  BY WindowFacts
<1>2. 0 \in Slots /\ arr[0] \in Record BY <1>1 DEF Slots
<1>3. delivered' = Append(delivered, arr[0]) /\ generated' = generated
  BY DEF GeneratorTake
<1>4. /\ Len(delivered') = c + 1 /\ DOMAIN delivered' = 1 .. c + 1
      /\ delivered'[c + 1] = arr[0] /\ \A k \in 1 .. c : delivered'[k] = delivered[k]
  <2>1. Append(delivered, arr[0]) \in Seq(Record) BY <1>1, <1>2, SeqFacts
  <2> QED BY <1>1, <1>2, <1>3, <2>1, SeqFacts
<1>5. /\ arr[0].e # "raw"
      /\ arr[0].e # "nil" =>
           arr[0].i = c + 1 /\ c + 1 <= Taken /\ arr[0].e = Stream!Processed(generated[c + 1])
  <2>1. c + 0 + 1 = c + 1 BY <1>1
  <2> QED BY <1>2, <2>1 DEF WindowInv, SlotsInv
<1>6. arr[0].e # "nil" => c + 1 \in DOMAIN generated /\ generated[c + 1] \in {"raw", "nil", "err"}
  BY <1>1, <1>5
<1>7. /\ arr[0].e = "mapped" => generated[c + 1] = "raw"
      /\ arr[0].e = "err" => generated[c + 1] = "err"
  BY <1>5, <1>6 DEF Stream!Processed
<1>8. \A k \in 1 .. c : delivered[k].e = "mapped" BY DEF WindowInv, ReadingInv
<1> SUFFICES ASSUME NEW k \in 1 .. c + 1
             PROVE  /\ delivered'[k].e # "nil" => k \in DOMAIN generated
                    /\ delivered'[k].e = "mapped" => delivered'[k].i = k /\ generated[k] = "raw"
                    /\ delivered'[k].e = "err" => generated[k] = "err"
                    /\ delivered'[k].e # "raw"
                    /\ k < c + 1 => delivered'[k].e = "mapped"
  BY <1>3, <1>4 DEF OnlyTruncates
<1>9. CASE k \in 1 .. c BY <1>1, <1>4, <1>8, <1>9 DEF OnlyTruncates
<1>10. CASE k = c + 1 BY <1>1, <1>4, <1>5, <1>6, <1>7, <1>10
<1> QED BY <1>1, <1>9, <1>10

\* Results that it() adds leave what was delivered as it is.
LEMMA AppendTruncates ==
  ASSUME OnlyTruncates, TypeInv, delivered' = delivered,
         generated' = generated \/ \E x \in {"raw", "nil", "err"} : generated' = Append(generated, x)
  PROVE  OnlyTruncates'
<1>1. CASE generated' = generated BY <1>1 DEF OnlyTruncates
<1>2. ASSUME NEW x \in {"raw", "nil", "err"}, generated' = Append(generated, x)
      PROVE  OnlyTruncates'
  <2>1. /\ generated \in Seq({"raw", "nil", "err"}) /\ DOMAIN generated = 1 .. Len(generated)
        /\ Len(generated) \in Nat
    BY WindowFacts
  <2>2. /\ generated' \in Seq({"raw", "nil", "err"})
        /\ Len(generated') = Len(generated) + 1
        /\ \A k \in 1 .. Len(generated) : generated'[k] = generated[k]
    <3> DEFINE S == {"raw", "nil", "err"}
    <3>1. generated \in Seq(S) /\ x \in S /\ generated' = Append(generated, x) BY <1>2, <2>1
    <3> HIDE DEF S
    <3>2. /\ generated' \in Seq(S) /\ Len(generated') = Len(generated) + 1
          /\ \A k \in 1 .. Len(generated) : generated'[k] = generated[k]
      BY <3>1, SeqFacts
    <3> QED BY <3>2 DEF S
  <2>3. DOMAIN generated' = 1 .. Len(generated) + 1 BY <2>2
  <2>4. \A k \in DOMAIN generated : k \in DOMAIN generated' /\ generated'[k] = generated[k]
    BY <2>1, <2>2, <2>3
  <2> QED BY <2>4 DEF OnlyTruncates
<1> QED BY <1>1, <1>2

\* The window is kept by every step after which the caller still reads.
LEMMA WindowStep ==
  ASSUME TruncateInv, TypeInv', ~panicked, [Next]_vars, ~panicked', Reading'
  PROVE  WindowInv'
<1> USE DEF consumeVars, callerVars
<1>0. TypeInv /\ OnlyTruncates /\ (Reading => WindowInv) BY DEF TruncateInv
<1>1. CASE GeneratorTake
  <2>1. Reading BY <1>1 DEF GeneratorTake, Reading
  <2>2. arr[0].e = "mapped"
    <3>1. caller' = "locked" /\ delivered' = Append(delivered, arr[0]) BY <1>1 DEF GeneratorTake
    <3>2. arr[0] \in Record /\ delivered \in Seq(Record)
      BY WindowFacts, PipelinerAssumption, <1>0 DEF Slots
    <3>3. delivered'[Len(delivered')] = arr[0] BY <3>1, <3>2, SeqFacts
    <3> QED BY <3>1, <3>3 DEF Reading
  <2> QED BY <1>0, <1>1, <2>1, <2>2, WindowTake
<1>2. CASE Consume
  <2>1. UNCHANGED <<caller, delivered>>
    BY <1>2 DEF Consume, ConsumeTop, ConsumeAcquire, ConsumeRecheck, ConsumeIt, ConsumeSend,
                ConsumeFail
  <2>2. Reading BY <2>1 DEF Reading
  <2> QED BY <1>0, <1>2, <2>2, WindowConsume
<1>3. ASSUME NEW p \in Procs, Process(p) PROVE WindowInv'
  <2>1. UNCHANGED <<caller, delivered>> BY <1>3 DEF Process, ProcessReceive, ProcessSend
  <2>2. Reading BY <2>1 DEF Reading
  <2> QED BY <1>0, <1>3, <2>2, WindowProcess
<1>4. CASE Placer
  <2>1. UNCHANGED <<caller, delivered>> BY <1>4 DEF Placer, PlacerReceive, PlacerPlace
  <2>2. Reading BY <2>1 DEF Reading
  <2> QED BY <1>0, <1>4, <2>2, WindowPlacerReceive, WindowPlacerPlace DEF Placer
<1>5. CASE Closer \/ Finisher \/ GeneratorCall \/ GeneratorReturn
  <2>1. /\ UNCHANGED <<smGen, chGen, chReady, arr, cpc, proc, plc, rel, generated, delivered>>
    BY <1>5 DEF Closer, CloseReady, Finisher, Finish, GeneratorCall, GeneratorReturn
  <2>2. Reading
    <3>1. CASE Closer \/ Finisher
      BY <2>1, <3>1 DEF Closer, CloseReady, Finisher, Finish, Reading
    <3>2. CASE GeneratorCall BY <3>2 DEF GeneratorCall, Reading
    <3>3. CASE GeneratorReturn
      <4>1. caller = "locked" /\ Len(delivered) > 0 /\ caller' # "locked"
            /\ (delivered[Len(delivered)].e \in {"nil", "err"} => caller' = "stopped")
        BY <3>3 DEF GeneratorReturn, TruncateInv
      <4>2. delivered[Len(delivered)].e \notin {"nil", "err"} BY <4>1 DEF Reading
      <4>3. Len(delivered) \in DOMAIN delivered /\ delivered[Len(delivered)] \in Record
        BY <1>0, <4>1, WindowFacts
      <4>4. delivered[Len(delivered)].e # "raw" BY <1>0, <4>3 DEF OnlyTruncates
      <4> QED BY <4>1, <4>2, <4>3, <4>4 DEF Reading, Record
    <3> QED BY <1>5, <3>1, <3>2, <3>3
  <2>3. WindowInv BY <1>0, <2>2
  <2>4. UpstreamInv' /\ InFlightInv' /\ DistinctInv' /\ SlotsInv'
    BY <1>0, <2>1, <2>3, WindowUntouched
  <2>5. ResultsInv' /\ SemInv' /\ ReadingInv'
    BY <2>1, <2>3 DEF WindowInv, ResultsInv, SemInv, ReadingInv
  <2> QED BY <2>4, <2>5 DEF WindowInv
<1>6. CASE CloseCall \/ CloseReturn
  BY <1>6 DEF CloseCall, CloseReturn, Reading
<1>7. CASE CloseRelease
  <2>1. Reading /\ rel = "pending" BY <1>7 DEF CloseRelease, Reading
  <2> QED BY <1>0, <2>1 DEF WindowInv, ReadingInv
<1>8. CASE UNCHANGED vars
  <2>1. /\ UNCHANGED <<smGen, chGen, chReady, arr, cpc, proc, plc, rel, generated, delivered>>
        /\ Reading
    BY <1>8 DEF vars, Reading
  <2>2. UpstreamInv' /\ InFlightInv' /\ DistinctInv' /\ SlotsInv'
    BY <1>0, <2>1, WindowUntouched
  <2>3. ResultsInv' /\ SemInv' /\ ReadingInv'
    BY <1>0, <2>1 DEF WindowInv, ResultsInv, SemInv, ReadingInv
  <2> QED BY <2>2, <2>3 DEF WindowInv
<1> QED
  BY <1>1, <1>2, <1>3, <1>4, <1>5, <1>6, <1>7, <1>8
  DEF Next, Generator, Releaser, Closing, Caller, Terminated

\* The invariant is inductive, whether it() fails or not.
LEMMA TruncateStep == TruncateInv /\ [Next]_vars => TruncateInv'
<1> SUFFICES ASSUME TruncateInv, [Next]_vars PROVE TruncateInv'
  OBVIOUS
<1> USE DEF consumeVars, callerVars
<1>1. TypeInv /\ TypeInv' /\ OnlyTruncates BY TypeStep DEF TruncateInv
<1>2. CASE panicked \/ UNCHANGED vars
  <2>1. UNCHANGED vars
    BY <1>2 DEF Next, Consume, Process, Closer, Placer, Finisher, Generator, Releaser,
                Closing, Caller, Terminated
  <2>2. (caller = "locked" => Len(delivered) > 0)' /\ OnlyTruncates' /\ (panicked' <=> panicked)
    BY <2>1 DEF vars, TruncateInv, OnlyTruncates
  <2>3. ~panicked' /\ Reading' => WindowInv' BY <1>1, <2>2, WindowStep
  <2> QED BY <1>1, <2>2, <2>3 DEF TruncateInv
<1>3. CASE ~panicked /\ ~UNCHANGED vars
  <2>1. ~panicked' /\ Reading' => WindowInv' BY <1>1, <1>3, WindowStep
  <2>2. CASE GeneratorTake
    <3>1. Reading BY <2>2 DEF GeneratorTake, Reading
    <3>2. OnlyTruncates' BY <1>1, <1>3, <2>2, <3>1, TakeTruncates DEF TruncateInv
    <3>3. Len(delivered') > 0
      <4>1. arr[0] \in Record /\ delivered \in Seq(Record)
        BY <1>1, WindowFacts, PipelinerAssumption DEF Slots
      <4> QED BY <2>2, <4>1, SeqFacts DEF GeneratorTake
    <3> QED BY <1>1, <2>1, <3>2, <3>3 DEF TruncateInv
  <2>3. CASE ~GeneratorTake
    <3>1. /\ delivered' = delivered
          /\ generated' = generated \/ \E x \in {"raw", "nil", "err"} : generated' = Append(generated, x)
          /\ caller' = "locked" => caller = "locked"
      BY <1>3, <2>3
      DEF Next, Consume, ConsumeTop, ConsumeAcquire, ConsumeRecheck, ConsumeIt, ConsumeSend,
          ConsumeFail, Process, ProcessReceive, ProcessSend, Closer, CloseReady, Placer,
          PlacerReceive, PlacerPlace, Finisher, Finish, Generator, GeneratorReturn, Releaser,
          CloseRelease, Closing, CloseReturn, Caller, GeneratorCall, CloseCall, Terminated
    <3>2. OnlyTruncates' BY <1>1, <3>1, AppendTruncates
    <3> QED BY <1>1, <2>1, <3>1, <3>2 DEF TruncateInv
  <2> QED BY <2>2, <2>3
<1> QED BY <1>2, <1>3

\* For every pipeline size and every input, errors of it() included: what reaches the
\* caller is a prefix of what it() returned, in order, each element once.
THEOREM TruncatesCorrect == Spec => []OnlyTruncates
<1>1. TruncateInv => OnlyTruncates BY DEF TruncateInv
<1> QED BY TruncateInit, TruncateStep, <1>1, PTL DEF Spec
=============================================================================
