---------------------------- MODULE MCPipeliner ----------------------------
(* TLC instances of Pipeliner; the constants are given by the .cfg files.  *)
EXTENDS Pipeliner
=============================================================================
