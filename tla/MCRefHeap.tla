----------------------------- MODULE MCRefHeap -----------------------------
(***************************************************************************)
(* Model checking of RefHeap: the roots are interchangeable.               *)
(***************************************************************************)
EXTENDS RefHeap, TLC

CONSTANTS r1, r2, r3
RootSymmetry == Permutations(Root)
=============================================================================
