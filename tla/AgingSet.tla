------------------------------ MODULE AgingSet ------------------------------
(***************************************************************************)
(* What utils.Deduper promises: a set of keys that are forgotten when they *)
(* have aged nBuckets windows, counted from the moment they were added and *)
(* not from the last time they were seen.                                  *)
(***************************************************************************)
EXTENDS Naturals

CONSTANTS Key, nBuckets

VARIABLES
  age,     \* per key: rotations since it was added, nBuckets when it is unknown
  answer   \* the last answer of CheckAndAdd: the key and whether it was known

vars == <<age, answer>>

Known(k) == age[k] < nBuckets

NoAnswer == [key |-> {}, exists |-> FALSE]

Init == age = [k \in Key |-> nBuckets] /\ answer = NoAnswer

CheckAndAdd(k) ==
  /\ answer' = [key |-> {k}, exists |-> Known(k)]
  /\ age' = [age EXCEPT ![k] = IF Known(k) THEN @ ELSE 0]

Rotate ==
  /\ age' = [k \in Key |-> IF Known(k) THEN age[k] + 1 ELSE nBuckets]
  /\ UNCHANGED answer

Next == Rotate \/ \E k \in Key : CheckAndAdd(k)

Spec == Init /\ [][Next]_vars
=============================================================================
