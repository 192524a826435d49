------------------------- MODULE MCEventLoopRefines -------------------------
(* An instance of EventLoopRefines for TLC. *)
EXTENDS EventLoopRefines, TLC

ReadOnly == {{"READ"}}
Symmetry == Permutations(Events) \cup Permutations(Handles) \cup Permutations(FDs)
=============================================================================
