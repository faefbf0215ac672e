------------------------------- MODULE MCForkCow -------------------------------
(* Instances of ForkCow for TLC. *)
EXTENDS ForkCow, TLC

Sym == Permutations(Page) \cup Permutations(Env \ {Root})
================================================================================
