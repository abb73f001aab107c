----------------------------- MODULE MCWrappers -----------------------------
(* A root and a child, two wrappers and up to three guards.                *)
EXTENDS Wrappers, TLC

CONSTANTS root, kid

PairParent == [m \in {kid} |-> root]
WrapSymmetry == Permutations(Wrapper) \cup Permutations(Guard)

=============================================================================
