---------------------------- MODULE MCEventLoop ----------------------------
(* Instances of EventLoop for TLC. *)
EXTENDS EventLoop, TLC

\* Addresses are alike; so are events and descriptors: none is compared.
Symmetry == Permutations(Events) \cup Permutations(Handles) \cup Permutations(FDs)

\* Values for Masks.
ReadOnly == {{"READ"}}
ReadOrNothing == {{}, {"READ"}}
=============================================================================
