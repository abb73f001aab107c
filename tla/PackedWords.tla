---------------------------- MODULE PackedWords -----------------------------
(***************************************************************************)
(* The atomic words behind the records of GuardTree.  A shard's u64 holds  *)
(* its guards in the low bits, its arrived children above them, and two    *)
(* flags at the top; a node's holds its arrived shards, the index of the   *)
(* parent shard it arrived at, and the same two flags.  The code adds and  *)
(* subtracts units of a field without looking at the others, so that one   *)
(* count too many carries into its neighbour, and one too few borrows.     *)
(***************************************************************************)
EXTENDS GuardTree

CONSTANTS
  LOW,      \* 2^32: the guards of a shard, or the arrived shards of a node
  MIDDLE,   \* 2^30: the arrived children of a shard
  INDEX,    \* 2^16: the parent shard's index in a node's word
  IndexOf   \* the index of a shard among those of its node

(* Below the limits that the widths of the fields set.                     *)
ASSUME WidthAssumption ==
  /\ LOW \in Nat /\ MIDDLE \in Nat /\ INDEX \in Nat \ {0} /\ MIDDLE % INDEX = 0
  /\ Cardinality(Guard) < LOW
  /\ Cardinality(Shard) + Cardinality(Thread) < LOW
  /\ Cardinality(Child) + Cardinality(Thread) < MIDDLE
  /\ IndexOf \in [Shard -> 0 .. INDEX - 1]
  /\ \A s, u \in Shard : NodeOf[s] = NodeOf[u] /\ IndexOf[s] = IndexOf[u] => s = u

STOPPED_BIT == LOW * MIDDLE
ARRIVED_BIT == 2 * STOPPED_BIT
Bit(flags, flag, bit) == IF flag \in flags THEN bit ELSE 0
FlagBits(flags) ==
  Bit(flags, ARRIVED, ARRIVED_BIT) + Bit(flags, STOPPED, STOPPED_BIT)

PackShard(w) == FlagBits(w.flags) + LOW * w.kids + w.local
PackNode(w) ==
  FlagBits(w.flags) + LOW * (IF w.at \in Shard THEN IndexOf[w.at] ELSE 0) + w.count

(* What the code reads from a word: `state & bit != 0`, `state & !STOPPED`,*)
(* the low mask, and the parent shard's index.                             *)
Has(x, bit) == (x \div bit) % 2 = 1
Without(x, bit) == IF Has(x, bit) THEN x - bit ELSE x
Low(x) == x % LOW
Index(x) == (x \div LOW) % INDEX

FlagsAgree(x, flags) ==
  /\ Has(x, ARRIVED_BIT) <=> ARRIVED \in flags
  /\ Has(x, STOPPED_BIT) <=> STOPPED \in flags

(* Every test that Shard makes of its word says what the record says: the  *)
(* flags, guard_count, the emptiness that makes depart and stop flush, and *)
(* the debug_assert that an unarrived shard is empty.                      *)
ShardAgrees(s) ==
  LET w == shardState[s]  x == PackShard(w) IN
  /\ FlagsAgree(x, w.flags)
  /\ Low(x) = w.local
  /\ x = ARRIVED_BIT + STOPPED_BIT <=> w = EmptyShard({ARRIVED, STOPPED})
  /\ Without(x, STOPPED_BIT) = ARRIVED_BIT <=>
       ARRIVED \in w.flags /\ w.local = 0 /\ w.kids = 0
  /\ ~Has(x, ARRIVED_BIT) => Without(x, STOPPED_BIT) = 0

(* And every test that Inner makes of its own: is_stopped, is_zero, the    *)
(* arrival, and the parent shard that a departure goes back to.            *)
NodeAgrees(n) ==
  LET w == nodeState[n]  x == PackNode(w) IN
  /\ FlagsAgree(x, w.flags)
  /\ Low(x) = 0 <=> w.count = 0
  /\ n # Root /\ ARRIVED \in w.flags => Index(x) = IndexOf[w.at]
  /\ n # Root /\ ~Has(x, ARRIVED_BIT) => Without(x, STOPPED_BIT) = 0

(* No field of a packed word ever runs into the next one, however many     *)
(* arrivals and departures are in flight: the integers that the code tests *)
(* and the counts that they stand for never disagree.                      *)
PackedAgrees ==
  (\A s \in Shard : ShardAgrees(s)) /\ (\A n \in Node : NodeAgrees(n))

=============================================================================
