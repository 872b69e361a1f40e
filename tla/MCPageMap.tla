------------------------------ MODULE MCPageMap ------------------------------
(* Instances of PageMap for TLC. *)
EXTENDS PageMap, TLC

\* The frames, and the address spaces, are interchangeable.
Symmetry == Permutations(Frames) \cup Permutations(Spaces)
=============================================================================
