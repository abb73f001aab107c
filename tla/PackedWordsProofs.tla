------------------------- MODULE PackedWordsProofs --------------------------
(***************************************************************************)
(* The integers that swansong keeps in its atomic words say what the       *)
(* records of GuardTree say, for all widths that hold the load.            *)
(*                                                                         *)
(* CountsExact makes each count the number of a set of tokens, and         *)
(* WidthAssumption makes those sets smaller than the fields, so that no    *)
(* field overflows.  One fact more is needed about the words: a node that  *)
(* has not arrived keeps no index of a parent shard (AtCleared).           *)
(***************************************************************************)
EXTENDS PackedWords, GuardTreeProofs

-----------------------------------------------------------------------------
(* Arithmetic.                                                             *)

(* Quotient and remainder of a number written with its divisor.            *)
LEMMA DivMod ==
  ASSUME NEW d \in Nat \ {0}, NEW q \in Nat, NEW r \in Nat, r < d,
         NEW x, x = d * q + r
  PROVE  x \div d = q /\ x % d = r
OBVIOUS

(* The two flags are the two top bits.                                     *)
LEMMA TopDiv ==
  ASSUME NEW b \in Nat \ {0}, NEW k \in 0 .. 3, NEW v \in 0 .. b - 1
  PROVE  (b * k + v) \div b = k /\ (b * k + v) \div (2 * b) = k \div 2
<1>1. CASE k = 0
  BY <1>1
<1>2. CASE k = 1
  BY <1>2
<1>3. CASE k = 2
  BY <1>3
<1>4. CASE k = 3
  BY <1>4
<1> QED
  BY <1>1, <1>2, <1>3, <1>4

(* A low field below its width and a field above it below its own are      *)
(* together below the product of the widths.                               *)
LEMMA FieldsBelow ==
  ASSUME NEW l \in Nat, NEW m \in Nat, NEW low \in Nat, NEW mid \in Nat,
         low < l, mid < m
  PROVE  /\ l * m \in Nat \ {0}
         /\ l * mid + low \in Nat
         /\ l * mid + low < l * m
<1>1. l * (mid + 1) <= l * m
  BY Z3
<1>2. l * (mid + 1) = l * mid + l
  OBVIOUS
<1> QED BY <1>1, <1>2, Z3

-----------------------------------------------------------------------------
(* Words with fields `low` and `mid` and the two flags.                    *)

Word(flags, mid, low) == FlagBits(flags) + LOW * mid + low
TopBits(flags) == Bit(flags, ARRIVED, 2) + Bit(flags, STOPPED, 1)

(* The parts of a word whose fields are below their widths.                *)
LEMMA WordParts ==
  ASSUME NEW flags, NEW mid \in Nat, NEW low \in Nat, low < LOW, mid < MIDDLE
  PROVE  /\ LOW \in Nat \ {0} /\ MIDDLE \in Nat \ {0}
         /\ STOPPED_BIT \in Nat \ {0}
         /\ TopBits(flags) \in 0 .. 3
         /\ LOW * mid + low \in 0 .. STOPPED_BIT - 1
         /\ Word(flags, mid, low)
              = STOPPED_BIT * TopBits(flags) + (LOW * mid + low)
         /\ Word(flags, mid, low)
              = LOW * (MIDDLE * TopBits(flags) + mid) + low
<1>1. LOW \in Nat \ {0} /\ MIDDLE \in Nat \ {0}
  BY WidthAssumption
<1>2. STOPPED_BIT \in Nat \ {0} /\ LOW * mid + low \in 0 .. STOPPED_BIT - 1
  BY <1>1, FieldsBelow DEF STOPPED_BIT
<1>3. TopBits(flags) \in 0 .. 3
  BY DEF TopBits, Bit
<1>4. FlagBits(flags) = STOPPED_BIT * TopBits(flags)
  BY <1>2 DEF FlagBits, TopBits, Bit, ARRIVED_BIT
<1>5. STOPPED_BIT * TopBits(flags) = LOW * (MIDDLE * TopBits(flags))
  BY <1>1, <1>3, Z3 DEF STOPPED_BIT
<1>6. LOW * (MIDDLE * TopBits(flags) + mid)
        = LOW * (MIDDLE * TopBits(flags)) + LOW * mid
  BY <1>1, <1>3, Z3
<1> QED
  BY <1>1, <1>2, <1>3, <1>4, <1>5, <1>6 DEF Word

(* `state & ARRIVED != 0` and `state & STOPPED != 0`.                      *)
LEMMA WordFlags ==
  ASSUME NEW flags, NEW mid \in Nat, NEW low \in Nat, low < LOW, mid < MIDDLE
  PROVE  FlagsAgree(Word(flags, mid, low), flags)
<1> DEFINE b == STOPPED_BIT
           k == TopBits(flags)
           v == LOW * mid + low
           x == b * k + v
<1>1. /\ b \in Nat \ {0} /\ k \in 0 .. 3 /\ v \in 0 .. b - 1
      /\ Word(flags, mid, low) = x
  BY WordParts
<1>2. x \div b = k /\ x \div (2 * b) = k \div 2
  <2> HIDE DEF b, k, v
  <2> QED BY <1>1, TopDiv
<1>3. k % 2 = 1 <=> STOPPED \in flags
  BY DEF TopBits, Bit
<1>4. (k \div 2) % 2 = 1 <=> ARRIVED \in flags
  BY DEF TopBits, Bit
<1> QED
  BY <1>1, <1>2, <1>3, <1>4 DEF FlagsAgree, Has, ARRIVED_BIT

(* The low mask, and the field above it.                                   *)
LEMMA WordFields ==
  ASSUME NEW flags, NEW mid \in Nat, NEW low \in Nat, low < LOW, mid < MIDDLE
  PROVE  /\ Low(Word(flags, mid, low)) = low
         /\ mid < INDEX => Index(Word(flags, mid, low)) = mid
<1> DEFINE q == MIDDLE * TopBits(flags) + mid
<1>1. /\ LOW \in Nat \ {0} /\ MIDDLE \in Nat /\ TopBits(flags) \in Nat
      /\ Word(flags, mid, low) = LOW * q + low
  BY WordParts
<1>2. q \in Nat
  BY <1>1, Z3
<1> HIDE DEF q
<1>3. Low(Word(flags, mid, low)) = low /\ Word(flags, mid, low) \div LOW = q
  BY <1>1, <1>2, DivMod DEF Low
<1>4. ASSUME mid < INDEX
      PROVE  q % INDEX = mid
  <2>1. PICK c \in Nat : MIDDLE = INDEX * c
    <3>1. INDEX \in Nat \ {0} /\ MIDDLE % INDEX = 0
      BY WidthAssumption
    <3>2. MIDDLE \div INDEX \in Nat /\ MIDDLE = INDEX * (MIDDLE \div INDEX)
      BY <1>1, <3>1
    <3> QED BY <3>2
  <2> DEFINE k == TopBits(flags)
  <2>2. INDEX \in Nat \ {0} /\ k \in Nat
    BY <1>1, WidthAssumption
  <2>3. q = INDEX * c * k + mid
    BY <1>1, <2>1 DEF q
  <2> HIDE DEF k
  <2>4. INDEX * c * k = INDEX * (c * k) /\ c * k \in Nat
    BY <2>1, <2>2, Z3
  <2> DEFINE e == c * k
  <2>5. e \in Nat /\ q = INDEX * e + mid
    BY <2>3, <2>4
  <2> HIDE DEF e
  <2> QED
    BY <1>4, <2>2, <2>5, DivMod
<1> QED
  BY <1>3, <1>4 DEF Index

(* What is left without the stop bit: nothing but the arrival and the      *)
(* fields.                                                                 *)
LEMMA WordRest ==
  ASSUME NEW flags \in SUBSET Flags, NEW mid \in Nat, NEW low \in Nat,
         low < LOW, mid < MIDDLE
  PROVE  LET x == Word(flags, mid, low) IN
         /\ Without(x, STOPPED_BIT) = ARRIVED_BIT
              <=> ARRIVED \in flags /\ mid = 0 /\ low = 0
         /\ x = ARRIVED_BIT + STOPPED_BIT
              <=> flags = {ARRIVED, STOPPED} /\ mid = 0 /\ low = 0
         /\ ARRIVED \notin flags /\ mid = 0 /\ low = 0
              => Without(x, STOPPED_BIT) = 0
<1> DEFINE b == STOPPED_BIT
           v == LOW * mid + low
           x == Word(flags, mid, low)
<1>1. b \in Nat \ {0} /\ v \in 0 .. b - 1 /\ LOW \in Nat \ {0}
  BY WordParts
<1>2. x = FlagBits(flags) + v
  <2>1. FlagBits(flags) \in Int /\ LOW * mid \in Int
    BY <1>1 DEF FlagBits, Bit, ARRIVED_BIT
  <2> QED BY <2>1 DEF Word
<1>3. Has(x, b) <=> STOPPED \in flags
  BY WordFlags DEF FlagsAgree
<1>4. v = 0 <=> mid = 0 /\ low = 0
  <2>1. mid # 0 => LOW * mid > 0
    BY <1>1, Z3
  <2> QED BY <1>1, <2>1
<1>5. flags = {ARRIVED, STOPPED} <=> ARRIVED \in flags /\ STOPPED \in flags
  BY DEF Flags
<1> HIDE DEF b, v, x
<1>6. Without(x, b) = Bit(flags, ARRIVED, 2 * b) + v
  BY <1>1, <1>2, <1>3 DEF Without, FlagBits, Bit, ARRIVED_BIT, b
<1>7. Without(x, b) = 2 * b <=> ARRIVED \in flags /\ v = 0
  BY <1>1, <1>6 DEF Bit
<1>8. x = 2 * b + b <=> ARRIVED \in flags /\ STOPPED \in flags /\ v = 0
  BY <1>1, <1>2 DEF FlagBits, Bit, ARRIVED_BIT, b
<1>9. ARRIVED \notin flags /\ v = 0 => Without(x, b) = 0
  BY <1>6 DEF Bit
<1> QED
  BY <1>4, <1>5, <1>7, <1>8, <1>9 DEF b, x, ARRIVED_BIT

-----------------------------------------------------------------------------
(* The load is below the widths.                                           *)

(* Tokens are guards, children, shards and threads: no count can reach the *)
(* width of its field.                                                     *)
LEMMA LoadBelow ==
  ASSUME CoreInv
  PROVE  /\ \A s \in Shard : shardState[s].local < LOW /\ shardState[s].kids < MIDDLE
         /\ \A n \in Node : nodeState[n].count < LOW
<1> USE DEF CoreInv
<1>1. /\ IsFiniteSet(Guard) /\ IsFiniteSet(Shard) /\ IsFiniteSet(Thread)
      /\ IsFiniteSet(Child)
  BY TreeAssumption, ShardAssumption, ThreadAssumption, FS_Subset DEF Child
<1>2. /\ Cardinality(Guard) \in Nat /\ Cardinality(Shard) \in Nat
      /\ Cardinality(Thread) \in Nat /\ Cardinality(Child) \in Nat
  BY <1>1, FS_CardinalityType
<1>3. /\ Cardinality(Child \cup Thread) <= Cardinality(Child) + Cardinality(Thread)
      /\ Cardinality(Shard \cup Thread) <= Cardinality(Shard) + Cardinality(Thread)
      /\ IsFiniteSet(Child \cup Thread) /\ IsFiniteSet(Shard \cup Thread)
  <2>1. \A S : IsFiniteSet(S) /\ Cardinality(S) \in Nat =>
          /\ IsFiniteSet(S \cup Thread)
          /\ Cardinality(S \cup Thread) <= Cardinality(S) + Cardinality(Thread)
    <3> TAKE S
    <3> HAVE IsFiniteSet(S) /\ Cardinality(S) \in Nat
    <3>1. Cardinality(S \cap Thread) \in Nat
      BY <1>1, FS_Intersection, FS_CardinalityType
    <3>2. /\ IsFiniteSet(S \cup Thread)
          /\ Cardinality(S \cup Thread)
               = Cardinality(S) + Cardinality(Thread) - Cardinality(S \cap Thread)
      BY <1>1, FS_Union, Zenon
    <3> QED
      BY <1>2, <3>1, <3>2
  <2> QED BY <1>1, <1>2, <2>1
<1>4. ASSUME NEW s \in Shard
      PROVE  shardState[s].local < LOW /\ shardState[s].kids < MIDDLE
  <2>1. Cardinality(LocalTokens(s)) <= Cardinality(Guard)
    <3>1. LocalTokens(s) \subseteq Guard
      BY DEF LocalTokens
    <3> QED BY <1>1, <3>1, FS_Subset
  <2>2. Cardinality(KidTokens(s)) <= Cardinality(Child \cup Thread)
    <3>1. KidTokens(s) \subseteq Child \cup Thread
      BY DEF KidTokens
    <3> QED BY <1>3, <3>1, FS_Subset
  <2>3. shardState[s].local \in Nat /\ shardState[s].kids \in Nat
    BY DEF WordTypes, ShardWord
  <2>4. Cardinality(Child \cup Thread) \in Nat
    BY <1>3, FS_CardinalityType
  <2> QED
    BY <1>2, <1>3, <2>1, <2>2, <2>3, <2>4, WidthAssumption
       DEF CountsExact, LocalExact, KidsExact
<1>5. ASSUME NEW n \in Node
      PROVE  nodeState[n].count < LOW
  <2>1. Cardinality(ShardTokens(n)) <= Cardinality(Shard \cup Thread)
    <3>1. ShardTokens(n) \subseteq Shard \cup Thread
      BY DEF ShardTokens, Shards
    <3> QED BY <1>3, <3>1, FS_Subset
  <2>2. nodeState[n].count \in Nat
    BY DEF WordTypes, NodeWord
  <2>3. Cardinality(Shard \cup Thread) \in Nat
    BY <1>3, FS_CardinalityType
  <2> QED
    BY <1>2, <1>3, <2>1, <2>2, <2>3, WidthAssumption DEF CountsExact, ShardsExact
<1> QED
  BY <1>4, <1>5

-----------------------------------------------------------------------------
(* A node that has not arrived keeps no index of a parent shard.           *)

AtCleared ==
  \A n \in Node : ARRIVED \notin nodeState[n].flags => nodeState[n].at = NoShard

(* Only Inner::arrive and Inner::depart write the index, with the flag.    *)
LEMMA AtClearedStep ==
  ASSUME IInv, AtCleared, [Next]_vars
  PROVE  AtCleared'
<1> USE DEF IInv, CoreInv, AtCleared
<1>0. nodeState \in [Node -> NodeWord]
  BY DEF WordTypes
<1>1. ASSUME nodeState' = nodeState
      PROVE  AtCleared'
  BY <1>1
<1>2. ASSUME NEW t \in Thread, ArriveNode(t)
      PROVE  AtCleared'
  BY <1>0, <1>2 DEF ArriveNode, NodeWord
<1>3. ASSUME NEW t \in Thread, CasNode(t)
      PROVE  AtCleared'
  BY <1>0, <1>3 DEF CasNode, NodeWord
<1>4. ASSUME NEW t \in Thread, DepartNode(t)
      PROVE  AtCleared'
  BY <1>0, <1>4 DEF DepartNode, NodeWord
<1>5. ASSUME NEW t \in Thread, Unarrive(t)
      PROVE  AtCleared'
  BY <1>0, <1>5 DEF Unarrive, Unarrived, EmptyNode
<1>6. ASSUME NEW t \in Thread, Stop(t)
      PROVE  AtCleared'
  BY <1>0, <1>6 DEF Stop, NodeWord, STOPPED, ARRIVED
<1>7. ASSUME NEW t \in Thread, Walk(t)
      PROVE  AtCleared'
  BY <1>1, <1>2, <1>3, <1>4, <1>5, <1>7, SMTT(60)
     DEF Walk, Guarded, ArriveShard, CasShard, DepartShard, Flush, DepartNotify,
         words
<1>8. ASSUME NEW t \in Thread, Proceed(t)
      PROVE  AtCleared'
  BY <1>1, <1>6, <1>8
     DEF Proceed, Latch, Snapshot, StopKids, StopNotify, Release, Deregister,
         Register, Check, Adopt, Watch, GuardReturned, Upgrade, Unblock, words
<1>9. ASSUME NEW t \in Thread, Call(t)
      PROVE  AtCleared'
  BY <1>1, <1>9
     DEF Call, NewGuard, ForShard, CloneGuard, DropGuard, CloneSwansong,
         DropSwansong, AwaitSwansong, BlockOnShutdown, ShutDown, NewChild,
         DropFuture, words
<1> QED
  BY <1>1, <1>7, <1>8, <1>9 DEF Next, Poll, vars, words

-----------------------------------------------------------------------------

(* With no counter beyond its field, each test of a packed word decides    *)
(* what the record says.                                                   *)
LEMMA PackedAgreesNow ==
  ASSUME IInv, AtCleared
  PROVE  PackedAgrees
<1> USE DEF IInv, CoreInv
<1>1. ASSUME NEW s \in Shard
      PROVE  ShardAgrees(s)
  <2> DEFINE w == shardState[s]
  <2>1. /\ w = [flags |-> w.flags, local |-> w.local, kids |-> w.kids]
        /\ w.flags \in SUBSET Flags /\ w.local \in Nat /\ w.kids \in Nat
    BY DEF WordTypes, ShardWord
  <2>2. w.local < LOW /\ w.kids < MIDDLE
    BY LoadBelow
  <2>3. PackShard(w) = Word(w.flags, w.kids, w.local)
    BY DEF PackShard, Word
  <2>4. ARRIVED \notin w.flags => w.local = 0 /\ w.kids = 0
    BY DEF CountsExact, UnarrivedEmpty
  <2>5. w = EmptyShard({ARRIVED, STOPPED}) <=>
          w.flags = {ARRIVED, STOPPED} /\ w.kids = 0 /\ w.local = 0
    BY <2>1 DEF EmptyShard
  <2> HIDE DEF w
  <2>6. FlagsAgree(PackShard(w), w.flags) /\ Low(PackShard(w)) = w.local
    BY <2>1, <2>2, <2>3, WordFlags, WordFields
  <2>7. /\ Without(PackShard(w), STOPPED_BIT) = ARRIVED_BIT
             <=> ARRIVED \in w.flags /\ w.kids = 0 /\ w.local = 0
        /\ PackShard(w) = ARRIVED_BIT + STOPPED_BIT
             <=> w.flags = {ARRIVED, STOPPED} /\ w.kids = 0 /\ w.local = 0
        /\ ARRIVED \notin w.flags /\ w.kids = 0 /\ w.local = 0
             => Without(PackShard(w), STOPPED_BIT) = 0
    BY <2>1, <2>2, <2>3, WordRest
  <2> QED
    BY <2>4, <2>5, <2>6, <2>7 DEF ShardAgrees, FlagsAgree, w
<1>2. ASSUME NEW n \in Node
      PROVE  NodeAgrees(n)
  <2> DEFINE w == nodeState[n]
             i == IF w.at \in Shard THEN IndexOf[w.at] ELSE 0
  <2>1. /\ w.flags \in SUBSET Flags /\ w.count \in Nat
        /\ w.at \in Shard \cup {NoShard}
    BY DEF WordTypes, NodeWord
  <2>2. w.count < LOW
    BY LoadBelow
  <2>3. i \in Nat /\ i < INDEX /\ i < MIDDLE
    <3>1. i \in 0 .. INDEX - 1
      BY WidthAssumption
    <3>2. INDEX \in Nat \ {0} /\ MIDDLE \in Nat \ {0} /\ MIDDLE % INDEX = 0
      <4>1. Cardinality(Child) \in Nat /\ Cardinality(Thread) \in Nat
        BY FS_CardinalityType, FS_Subset, TreeAssumption, ThreadAssumption DEF Child
      <4> QED BY <4>1, WidthAssumption
    <3>3. INDEX <= MIDDLE
      BY <3>2
    <3> QED BY <3>1, <3>2, <3>3
  <2>4. PackNode(w) = Word(w.flags, i, w.count)
    BY DEF PackNode, Word
  <2>5. n # Root /\ ARRIVED \notin w.flags => w.count = 0 /\ i = 0
    BY ShardAssumption DEF CountsExact, UnarrivedEmpty, AtCleared, Child
  <2>6. n # Root /\ ARRIVED \in w.flags => i = IndexOf[w.at]
    BY DEF ControlOK, WordsLinked, Child
  <2> HIDE DEF w, i
  <2>7. /\ FlagsAgree(PackNode(w), w.flags) /\ Low(PackNode(w)) = w.count
        /\ Index(PackNode(w)) = i
    BY <2>1, <2>2, <2>3, <2>4, WordFlags, WordFields
  <2>8. ARRIVED \notin w.flags /\ i = 0 /\ w.count = 0
          => Without(PackNode(w), STOPPED_BIT) = 0
    BY <2>1, <2>2, <2>3, <2>4, WordRest
  <2> QED
    BY <2>5, <2>6, <2>7, <2>8 DEF NodeAgrees, FlagsAgree, w
<1> QED
  BY <1>1, <1>2 DEF PackedAgrees

(* However the threads interleave, and for every width that holds the      *)
(* load, the tests that Shard and Inner make of their packed words         *)
(* (flags, masks, exact values, the parent's index) give what the counts   *)
(* that the words stand for would give.                                    *)
THEOREM PackedWordsAgree == Spec => []PackedAgrees
<1>1. Init => AtCleared
  BY DEF Init, AtCleared, EmptyNode
<1>2. IInv /\ AtCleared /\ [Next]_vars => AtCleared'
  BY AtClearedStep
<1>3. IInv /\ AtCleared => PackedAgrees
  BY PackedAgreesNow
<1> QED
  BY <1>1, <1>2, <1>3, Invariance, PTL DEF Spec

=============================================================================
