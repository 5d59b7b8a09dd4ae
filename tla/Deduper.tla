------------------------------ MODULE Deduper ------------------------------
(***************************************************************************)
(* utils/deduping.go: localDeduper, a ring of nBuckets maps.  A goroutine  *)
(* moves to the next bucket every window and empties it; CheckAndAdd looks *)
(* into every bucket and adds an unknown key to the current one.  Both run *)
(* under d.m, so each is one step.                                         *)
(***************************************************************************)
EXTENDS Integers

CONSTANTS
  Key,       \* the keys callers check
  nBuckets   \* int(ttl / window), at least 1

ASSUME DeduperAssumption == nBuckets \in Nat \ {0}

VARIABLES
  windows,   \* the buckets: the keys of each map
  made,      \* which buckets are allocated; the others are nil maps
  nCurrent,
  stopEvt,
  rotator,   \* where the goroutine is: "top", "select" (in WaitFor), "rotate", "done"
  answer     \* the last answer of CheckAndAdd

vars == <<windows, made, nCurrent, stopEvt, rotator, answer>>

Buckets == 0 .. nBuckets - 1

Init ==
  /\ windows = [b \in Buckets |-> {}]
  /\ made = {0}
  /\ nCurrent = 0
  /\ stopEvt = FALSE
  /\ rotator = "top"
  /\ answer = [key |-> {}, exists |-> FALSE]

-----------------------------------------------------------------------------
\* stopEvt.WaitFor(window) finds the event set, or starts to wait.
WaitForEnter ==
  /\ rotator = "top"
  /\ rotator' = IF stopEvt THEN "done" ELSE "select"
  /\ UNCHANGED <<windows, made, nCurrent, stopEvt, answer>>

\* The wait is over, because the event is set or because the window has passed;
\* when both are the case either may win.
WaitForStop ==
  /\ rotator = "select" /\ stopEvt
  /\ rotator' = "done"
  /\ UNCHANGED <<windows, made, nCurrent, stopEvt, answer>>

WaitForTimeout ==
  /\ rotator = "select"
  /\ rotator' = "rotate"
  /\ UNCHANGED <<windows, made, nCurrent, stopEvt, answer>>

\* Mutant: the wrap-around test is off by one.
NextBucketOffByOne == IF nCurrent + 1 > nBuckets THEN 0 ELSE nCurrent + 1

NextBucket == IF nCurrent + 1 >= nBuckets THEN 0 ELSE nCurrent + 1

\* Mutant: the bucket is only allocated the first time round.
RotateKeeps ==
  /\ rotator = "rotate"
  /\ nCurrent' = NextBucket
  /\ made' = made \union {NextBucket}
  /\ rotator' = "top"
  /\ UNCHANGED <<windows, stopEvt, answer>>

\* Mutant: the old bucket is emptied instead of the new one.
RotateEmptiesOld ==
  /\ rotator = "rotate"
  /\ nCurrent' = NextBucket
  /\ windows' = [windows EXCEPT ![nCurrent] = {}]
  /\ made' = made \union {nCurrent}
  /\ rotator' = "top"
  /\ UNCHANGED <<stopEvt, answer>>

Rotate ==
  /\ rotator = "rotate"
  /\ nCurrent' = NextBucket
  /\ windows' = [windows EXCEPT ![NextBucket] = {}]
  /\ made' = made \union {NextBucket}
  /\ rotator' = "top"
  /\ UNCHANGED <<stopEvt, answer>>

Known(k) == \E b \in Buckets : k \in windows[b]

CheckAndAdd(k) ==
  /\ answer' = [key |-> {k}, exists |-> Known(k)]
  /\ windows' = IF Known(k) THEN windows ELSE [windows EXCEPT ![nCurrent] = @ \union {k}]
  /\ UNCHANGED <<made, nCurrent, stopEvt, rotator>>

Close ==
  /\ stopEvt' = TRUE
  /\ UNCHANGED <<windows, made, nCurrent, rotator, answer>>

Rotator == WaitForEnter \/ WaitForStop \/ WaitForTimeout \/ Rotate

Next == Rotator \/ Close \/ \E k \in Key : CheckAndAdd(k)

Spec == Init /\ [][Next]_vars

\* The goroutine is scheduled, and every window passes.
FairSpec == Spec /\ WF_vars(Rotator)

-----------------------------------------------------------------------------
(***************************************************************************)
(* Properties.                                                             *)
(***************************************************************************)

\* Type correctness.  A nil map holds nothing.
TypeOK ==
  /\ windows \in [Buckets -> SUBSET Key]
  /\ made \subseteq Buckets
  /\ \A b \in Buckets \ made : windows[b] = {}
  /\ nCurrent \in Buckets
  /\ stopEvt \in BOOLEAN
  /\ rotator \in {"top", "select", "rotate", "done"}
  /\ answer \in [key : {{}} \union {{k} : k \in Key}, exists : BOOLEAN]

\* CheckAndAdd never writes to a nil map, which would panic.
CurrentIsMade == nCurrent \in made

\* A key is in one bucket at most: otherwise it would outlive the emptying of the
\* first bucket it was put in.
OneBucketPerKey ==
  \A a, b \in Buckets : a # b => windows[a] \cap windows[b] = {}

\* How many rotations ago the current bucket was bucket b.
BucketAge(b) == IF b <= nCurrent THEN nCurrent - b ELSE nCurrent - b + nBuckets

KeyAge(k) ==
  IF Known(k) THEN BucketAge(CHOOSE b \in Buckets : k \in windows[b]) ELSE nBuckets

Aging == INSTANCE AgingSet WITH age <- [k \in Key |-> KeyAge(k)]

\* The ring of buckets implements the set of aging keys: CheckAndAdd answers true
\* exactly for the keys added less than nBuckets rotations ago.
ImplementsAgingSet == Aging!Spec

\* Close() eventually ends the goroutine, also when it races with the end of a
\* window.
RotatorEnds == stopEvt ~> rotator = "done"
=============================================================================
