--------------------------- MODULE MCPackedWords ----------------------------
(* The Family of MCGuardTree, with its words packed.                       *)
EXTENDS MCGuardTree, PackedWords

FamilyIndexOf == (r1 :> 0) @@ (r2 :> 1) @@ (k1 :> 0)

=============================================================================
