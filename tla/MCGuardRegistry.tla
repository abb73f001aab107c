-------------------------- MODULE MCGuardRegistry --------------------------
(* Instances of GuardRegistry for TLC; the sets are in the .cfg files.     *)
EXTENDS GuardRegistry, TLC

(* Guards and reporters are interchangeable.  Shards and creation sites    *)
(* are not: Init singles one of each out.                                  *)
RegistrySymmetry == Permutations(Guard) \cup Permutations(Reporter)

=============================================================================
