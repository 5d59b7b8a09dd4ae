------------------------- MODULE MCStreamTokenizer -------------------------
(* Small instances of StreamTokenizer. *)
EXTENDS StreamTokenizer
=============================================================================
