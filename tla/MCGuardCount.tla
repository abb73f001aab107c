---------------------------- MODULE MCGuardCount ----------------------------
(* The instances of MCGuardTree, with guard_count.                         *)
EXTENDS MCGuardTree, GuardCount
=============================================================================
