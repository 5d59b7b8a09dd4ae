--------------------------- MODULE DeduperProofs ---------------------------
(***************************************************************************)
(* Proofs about Deduper, for every number of buckets and every set of      *)
(* keys.                                                                   *)
(***************************************************************************)
EXTENDS Deduper, TLAPS

\* The inductive invariant: no key is in two buckets, and the current bucket
\* is allocated.
DedupInv == TypeOK /\ CurrentIsMade /\ OneBucketPerKey

\* The wrapped index stays within the ring.
LEMMA NextBucketType == nCurrent \in Buckets => NextBucket \in Buckets
  BY DeduperAssumption DEF Buckets, NextBucket

\* An answer of CheckAndAdd is well typed.
LEMMA AnswerType ==
  ASSUME NEW e \in BOOLEAN
  PROVE  /\ [key |-> {}, exists |-> e] \in
              [key : {{}} \union {{k} : k \in Key}, exists : BOOLEAN]
         /\ \A x \in Key : [key |-> {x}, exists |-> e] \in
              [key : {{}} \union {{k} : k \in Key}, exists : BOOLEAN]
  OBVIOUS

\* The initial ring satisfies the invariant.
LEMMA DedupInit == Init => DedupInv
<1> SUFFICES ASSUME Init PROVE DedupInv
  OBVIOUS
<1> USE DeduperAssumption DEF Init, Buckets
<1>1. answer \in [key : {{}} \union {{k} : k \in Key}, exists : BOOLEAN]
  BY AnswerType
<1>2. /\ windows \in [Buckets -> SUBSET Key] /\ \A b \in Buckets : windows[b] = {}
      /\ made \subseteq Buckets /\ nCurrent \in Buckets
  OBVIOUS
<1>3. TypeOK BY <1>1, <1>2 DEF TypeOK
<1>4. CurrentIsMade /\ OneBucketPerKey BY DEF CurrentIsMade, OneBucketPerKey
<1> QED BY <1>3, <1>4 DEF DedupInv

\* Every step of the goroutine and of the callers keeps the invariant.
LEMMA DedupStep == DedupInv /\ [Next]_vars => DedupInv'
<1> SUFFICES ASSUME DedupInv, [Next]_vars PROVE DedupInv'
  OBVIOUS
<1> USE DEF DedupInv, TypeOK, CurrentIsMade, OneBucketPerKey
<1>1. CASE WaitForEnter BY <1>1 DEF WaitForEnter
<1>2. CASE WaitForStop BY <1>2 DEF WaitForStop
<1>3. CASE WaitForTimeout BY <1>3 DEF WaitForTimeout
<1>4. CASE Rotate
  <2>1. NextBucket \in Buckets BY NextBucketType
  <2>2. \A b \in Buckets : windows'[b] = IF b = NextBucket THEN {} ELSE windows[b]
    BY <1>4 DEF Rotate
  <2>3. TypeOK' BY <1>4, <2>1, <2>2 DEF Rotate
  <2>4. CurrentIsMade' BY <1>4 DEF Rotate
  <2>5. OneBucketPerKey' BY <2>2
  <2> QED BY <2>3, <2>4, <2>5
<1>5. ASSUME NEW k \in Key, CheckAndAdd(k) PROVE DedupInv'
  <2>1. UNCHANGED <<made, nCurrent, stopEvt, rotator>> /\ answer' = [key |-> {k}, exists |-> Known(k)]
    BY <1>5 DEF CheckAndAdd
  <2>2. answer' \in [key : {{}} \union {{x} : x \in Key}, exists : BOOLEAN]
    <3>1. Known(k) \in BOOLEAN BY DEF Known
    <3> QED BY <2>1, <3>1, AnswerType
  <2>3. CASE Known(k)
    BY <1>5, <2>1, <2>2, <2>3 DEF CheckAndAdd
  <2>4. CASE ~Known(k)
    <3>1. \A b \in Buckets :
            windows'[b] = IF b = nCurrent THEN windows[b] \union {k} ELSE windows[b]
      BY <1>5, <2>4 DEF CheckAndAdd
    <3>2. \A b \in Buckets : k \notin windows[b] BY <2>4 DEF Known
    <3>3. windows' \in [Buckets -> SUBSET Key] BY <1>5, <2>4 DEF CheckAndAdd
    <3>5. TypeOK' BY <2>1, <2>2, <3>1, <3>3
    <3>4. OneBucketPerKey'
      <4> SUFFICES ASSUME NEW a \in Buckets, NEW b \in Buckets, a # b,
                          NEW x \in windows'[a], x \in windows'[b]
                   PROVE  FALSE
        OBVIOUS
      <4>1. CASE x = k BY <3>1, <3>2, <4>1
      <4>2. CASE x # k
        <5>1. x \in windows[a] /\ x \in windows[b] BY <3>1, <4>2
        <5> QED BY <5>1
      <4> QED BY <4>1, <4>2
    <3> QED BY <2>1, <3>4, <3>5
  <2> QED BY <2>3, <2>4
<1>6. CASE Close BY <1>6 DEF Close
<1>7. CASE UNCHANGED vars BY <1>7 DEF vars
<1> QED BY <1>1, <1>2, <1>3, <1>4, <1>5, <1>6, <1>7 DEF Next, Rotator

\* A key is never in two buckets, whatever the interleaving of CheckAndAdd with
\* the rotation.
THEOREM OneBucket == Spec => []OneBucketPerKey
<1>1. DedupInv => OneBucketPerKey BY DEF DedupInv
<1> QED BY DedupInit, DedupStep, <1>1, PTL DEF Spec

\* CheckAndAdd never writes to a nil map.
THEOREM NoNilMap == Spec => []CurrentIsMade
<1>1. DedupInv => CurrentIsMade BY DEF DedupInv
<1> QED BY DedupInit, DedupStep, <1>1, PTL DEF Spec

-----------------------------------------------------------------------------
(***************************************************************************)
(* The ring of buckets implements the set of aging keys.                   *)
(***************************************************************************)

\* A key's age is the age of the one bucket that holds it.
LEMMA AgeOfHolder ==
  ASSUME DedupInv, NEW k \in Key, NEW b \in Buckets, k \in windows[b]
  PROVE  KeyAge(k) = BucketAge(b) /\ Known(k)
<1>1. Known(k) BY DEF Known
<1>2. \A a \in Buckets : k \in windows[a] => a = b BY DEF DedupInv, OneBucketPerKey
<1>3. (CHOOSE a \in Buckets : k \in windows[a]) = b BY <1>2
<1> QED BY <1>1, <1>3 DEF KeyAge

\* The age of a bucket is below nBuckets.
LEMMA AgeBound ==
  ASSUME DedupInv
  PROVE  \A b \in Buckets : BucketAge(b) \in 0 .. nBuckets - 1
  BY DeduperAssumption DEF DedupInv, TypeOK, BucketAge, Buckets

\* Known keys are those whose age is below nBuckets.
LEMMA KnownByAge ==
  ASSUME DedupInv, NEW k \in Key
  PROVE  /\ Known(k) <=> KeyAge(k) < nBuckets
         /\ ~Known(k) => KeyAge(k) = nBuckets
<1>1. CASE Known(k)
  <2>1. PICK b \in Buckets : k \in windows[b] BY <1>1 DEF Known
  <2>2. KeyAge(k) = BucketAge(b) BY <2>1, AgeOfHolder
  <2> QED BY <1>1, <2>2, AgeBound, DeduperAssumption
<1>2. CASE ~Known(k) BY <1>2, DeduperAssumption DEF KeyAge
<1> QED BY <1>1, <1>2

\* A rotation ages every known key by one and forgets the oldest ones.
LEMMA RotateAges ==
  ASSUME DedupInv, DedupInv', Rotate, NEW k \in Key
  PROVE  KeyAge(k)' = IF KeyAge(k) < nBuckets THEN KeyAge(k) + 1 ELSE nBuckets
<1> USE DeduperAssumption
<1>1. /\ NextBucket \in Buckets /\ nCurrent' = NextBucket
      /\ \A b \in Buckets : windows'[b] = IF b = NextBucket THEN {} ELSE windows[b]
  BY NextBucketType DEF Rotate, DedupInv, TypeOK
<1>2. \A b \in Buckets : /\ b # NextBucket => BucketAge(b)' = BucketAge(b) + 1
                         /\ b = NextBucket => BucketAge(b) = nBuckets - 1
  BY <1>1 DEF BucketAge, NextBucket, Buckets, DedupInv, TypeOK
<1>3. CASE ~Known(k)
  <2>1. ~Known(k)' BY <1>1, <1>3 DEF Known
  <2> QED BY <1>3, <2>1, KnownByAge DEF KeyAge
<1>4. CASE Known(k)
  <2>1. PICK b \in Buckets : k \in windows[b] BY <1>4 DEF Known
  <2>2. KeyAge(k) = BucketAge(b) /\ BucketAge(b) \in 0 .. nBuckets - 1
    BY <2>1, AgeOfHolder, AgeBound
  <2>3. CASE b = NextBucket
    <3>1. \A a \in Buckets : k \in windows[a] => a = b
      BY <2>1 DEF DedupInv, OneBucketPerKey
    <3>2. ~Known(k)' BY <1>1, <2>3, <3>1 DEF Known
    <3> QED BY <1>2, <2>2, <2>3, <3>2 DEF KeyAge
  <2>4. CASE b # NextBucket
    <3>1. k \in windows'[b] BY <1>1, <2>1, <2>4
    <3>2. KeyAge(k)' = BucketAge(b)'
      <4>1. Known(k)' BY <3>1 DEF Known
      <4>2. \A a \in Buckets : k \in windows'[a] => a = b
        BY <3>1 DEF DedupInv, OneBucketPerKey
      <4>3. (CHOOSE a \in Buckets : k \in windows'[a]) = b BY <3>1, <4>2
      <4> QED BY <4>1, <4>3 DEF KeyAge
    <3> QED BY <1>2, <2>2, <2>4, <3>2
  <2> QED BY <2>3, <2>4
<1> QED BY <1>3, <1>4

\* CheckAndAdd gives an unknown key age 0 and leaves every other age alone.
LEMMA CheckAges ==
  ASSUME DedupInv, DedupInv', NEW k \in Key, CheckAndAdd(k), NEW x \in Key
  PROVE  KeyAge(x)' = IF x = k /\ ~Known(k) THEN 0 ELSE KeyAge(x)
<1> USE DeduperAssumption
<1>1. nCurrent' = nCurrent /\ nCurrent \in Buckets
  BY DEF CheckAndAdd, DedupInv, TypeOK
<1>2. \A b \in Buckets : BucketAge(b)' = BucketAge(b) BY <1>1 DEF BucketAge
<1>3. CASE Known(k)
  <2>1. windows' = windows BY <1>3 DEF CheckAndAdd
  <2> QED BY <1>1, <1>3, <2>1 DEF KeyAge, Known, BucketAge
<1>4. CASE ~Known(k)
  <2>1. \A b \in Buckets :
          windows'[b] = IF b = nCurrent THEN windows[b] \union {k} ELSE windows[b]
    BY <1>4 DEF CheckAndAdd, DedupInv, TypeOK
  <2>2. CASE x = k
    <3>1. k \in windows'[nCurrent] BY <1>1, <2>1
    <3>2. \A b \in Buckets : k \in windows'[b] => b = nCurrent
      BY <1>4, <2>1 DEF Known
    <3>3. (CHOOSE b \in Buckets : k \in windows'[b]) = nCurrent BY <1>1, <3>1, <3>2
    <3>4. Known(k)' BY <1>1, <3>1 DEF Known
    <3>5. BucketAge(nCurrent) = 0 BY <1>1 DEF BucketAge, Buckets
    <3>6. KeyAge(k)' = BucketAge(CHOOSE b \in Buckets : k \in windows[b])'
      BY <3>4 DEF KeyAge
    <3>7. KeyAge(k)' = 0 BY <1>1, <3>3, <3>5, <3>6 DEF BucketAge
    <3> QED BY <1>4, <2>2, <3>7
  <2>3. CASE x # k
    <3>1. \A b \in Buckets : x \in windows'[b] <=> x \in windows[b] BY <2>1, <2>3
    <3>2. CASE Known(x)
      <4>1. PICK b \in Buckets : x \in windows[b] BY <3>2 DEF Known
      <4>2. Known(x)' /\ x \in windows'[b] BY <3>1, <4>1 DEF Known
      <4>3. \A a \in Buckets : x \in windows'[a] => a = b
        BY <4>2 DEF DedupInv, OneBucketPerKey
      <4>4. (CHOOSE a \in Buckets : x \in windows'[a]) = b BY <4>2, <4>3
      <4>5. KeyAge(x)' = BucketAge(b)' BY <4>2, <4>4 DEF KeyAge
      <4> QED BY <1>2, <2>3, <4>1, <4>5, AgeOfHolder
    <3>3. CASE ~Known(x) BY <2>3, <3>1, <3>3 DEF KeyAge, Known
    <3> QED BY <3>2, <3>3
  <2> QED BY <2>2, <2>3
<1> QED BY <1>3, <1>4

\* Every step of the deduper is a step of the aging set, or none.
LEMMA AgingStep ==
  ASSUME DedupInv, DedupInv', [Next]_vars
  PROVE  [Aging!Next]_(Aging!vars)
<1> DEFINE ages == [k \in Key |-> KeyAge(k)]
<1>1. CASE Rotate
  <2>1. ages' = [k \in Key |-> IF ages[k] < nBuckets THEN ages[k] + 1 ELSE nBuckets]
    BY <1>1, RotateAges
  <2>2. Aging!Rotate BY <1>1, <2>1 DEF Aging!Rotate, Aging!Known, Rotate
  <2> QED BY <2>2 DEF Aging!Next
<1>2. ASSUME NEW k \in Key, CheckAndAdd(k) PROVE Aging!Next
  <2>1. Known(k) <=> ages[k] < nBuckets BY KnownByAge
  <2>2. ages' = [ages EXCEPT ![k] = IF ages[k] < nBuckets THEN ages[k] ELSE 0]
    BY <1>2, <2>1, CheckAges
  <2>3. answer' = [key |-> {k}, exists |-> ages[k] < nBuckets]
    <3>1. answer' = [key |-> {k}, exists |-> Known(k)] BY <1>2 DEF CheckAndAdd
    <3>2. Known(k) \in BOOLEAN BY DEF Known
    <3>3. CASE Known(k)
      <4>1. Known(k) = TRUE BY <3>2, <3>3
      <4>2. (ages[k] < nBuckets) = TRUE BY <2>1, <3>3
      <4> QED BY <3>1, <4>1, <4>2, Zenon
    <3>4. CASE ~Known(k)
      <4>1. Known(k) = FALSE BY <3>2, <3>4
      <4>2. (ages[k] < nBuckets) = FALSE BY <2>1, <3>4
      <4> QED BY <3>1, <4>1, <4>2, Zenon
    <3> QED BY <3>3, <3>4
  <2>4. Aging!CheckAndAdd(k) BY <2>2, <2>3 DEF Aging!CheckAndAdd, Aging!Known
  <2> QED BY <2>4 DEF Aging!Next
<1>3. CASE WaitForEnter \/ WaitForStop \/ WaitForTimeout \/ Close \/ UNCHANGED vars
  <2>1. UNCHANGED <<windows, nCurrent, answer>>
    BY <1>3 DEF WaitForEnter, WaitForStop, WaitForTimeout, Close, vars
  <2>2. ages' = ages BY <2>1 DEF KeyAge, Known, BucketAge
  <2> QED BY <2>1, <2>2 DEF Aging!vars
<1> QED BY <1>1, <1>2, <1>3 DEF Next, Rotator

\* For every number of buckets and every set of keys, CheckAndAdd answers as the
\* set of aging keys does: true exactly for the keys added fewer than nBuckets
\* rotations ago.
THEOREM DeduperRefines == Spec => ImplementsAgingSet
<1>1. Init => Aging!Init
  <2> SUFFICES ASSUME Init PROVE Aging!Init
    OBVIOUS
  <2>1. \A k \in Key : KeyAge(k) = nBuckets BY DEF Init, KeyAge, Known
  <2>2. answer = Aging!NoAnswer BY DEF Init, Aging!NoAnswer
  <2> QED BY <2>1, <2>2 DEF Aging!Init
<1>2. DedupInv /\ DedupInv' /\ [Next]_vars => [Aging!Next]_(Aging!vars) BY AgingStep
<1> QED BY DedupInit, DedupStep, <1>1, <1>2, PTL DEF Spec, ImplementsAgingSet, Aging!Spec
=============================================================================
