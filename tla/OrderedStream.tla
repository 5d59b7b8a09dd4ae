--------------------------- MODULE OrderedStream ---------------------------
(***************************************************************************)
(* What utils.Pipeliner promises its caller: "The returned generator will  *)
(* receive the processed elements _in the order they were generated_", and *)
(* a nil element once `it()` has returned nil.  Nothing here says how the  *)
(* elements travel; at most nParallel of them are ever under way.          *)
(***************************************************************************)
EXTENDS Naturals, Sequences

CONSTANT nParallel

VARIABLES
  generated,  \* what it() returned so far: "raw", then at most one "nil" or "err"
  delivered   \* what the generator handed to its caller, as records [e, i]

vars == <<generated, delivered>>

\* The mapper `proc` is applied to elements and to nothing else.
Processed(x) == IF x = "raw" THEN "mapped" ELSE x

\* What the caller gets for the k-th result of it().
Outcome(k) ==
  [e |-> Processed(generated[k]), i |-> IF generated[k] = "raw" THEN k ELSE 0]

Ended == generated # <<>> /\ generated[Len(generated)] # "raw"

Init == generated = <<>> /\ delivered = <<>>

Produce ==
  /\ ~Ended
  /\ Len(generated) < Len(delivered) + nParallel
  /\ \E x \in {"raw", "nil", "err"} : generated' = Append(generated, x)
  /\ UNCHANGED delivered

Deliver ==
  /\ Len(delivered) < Len(generated)
  /\ delivered' = Append(delivered, Outcome(Len(delivered) + 1))
  /\ UNCHANGED generated

Next == Produce \/ Deliver

Spec == Init /\ [][Next]_vars
=============================================================================
