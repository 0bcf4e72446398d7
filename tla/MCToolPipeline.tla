---------------------------- MODULE MCToolPipeline -----------------------------
(* ToolPipeline with two calls, two in-flight slots and rings that fill up. *)
EXTENDS ToolPipeline, TLC

CallSymmetry == Permutations(Calls)
================================================================================
