---------------------------- MODULE MCGuardTree ----------------------------
(***************************************************************************)
(* Instances of GuardTree for TLC.  "Family": a root with two shards, one  *)
(* per thread, and a child with a single shard that both threads share.    *)
(* "Pair": a root and a child with one shard each, shared by all threads.  *)
(* "Chain": three generations with one shard each.                         *)
(***************************************************************************)
EXTENDS GuardTreeRefinement, TLC

CONSTANTS root, kid, grandkid, r1, r2, k1, gk1, a, b

FamilyNodes == {root, kid}
FamilyShards == {r1, r2, k1}
FamilyParent == [m \in {kid} |-> root]
FamilyNodeOf == (r1 :> root) @@ (r2 :> root) @@ (k1 :> kid)
FamilyMyShard ==
  [t \in Thread |->
     (root :> IF t = b THEN r2 ELSE r1) @@ (kid :> k1)]

PairShards == {r1, k1}
PairNodeOf == (r1 :> root) @@ (k1 :> kid)
PairMyShard == [t \in Thread |-> (root :> r1) @@ (kid :> k1)]

ChainNodes == {root, kid, grandkid}
ChainShards == {r1, k1, gk1}
ChainParent == (kid :> root) @@ (grandkid :> kid)
ChainNodeOf == (r1 :> root) @@ (k1 :> kid) @@ (gk1 :> grandkid)
ChainMyShard ==
  [t \in Thread |-> (root :> r1) @@ (kid :> k1) @@ (grandkid :> gk1)]

OneHandle == [n \in Node |-> 1]
ClonedRoot == [n \in Node |-> IF n = Root THEN 2 ELSE 1]

GuardSymmetry == Permutations(Guard)
FullSymmetry == Permutations(Guard) \cup Permutations(Thread)

=============================================================================
