----------------------------- MODULE MCLinkable -----------------------------
(* Instances of Linkable for TLC. *)
EXTENDS Linkable, TLC

Symmetry == Permutations(Objects)
=============================================================================
