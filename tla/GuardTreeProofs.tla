-------------------------- MODULE GuardTreeProofs --------------------------
(***************************************************************************)
(* Proofs about GuardTree, for every tree of nodes, every number of        *)
(* shards, threads and guards.                                             *)
(*                                                                         *)
(* S3 (GuardCounted, ResolvesEmpty) is not inductive: that a count is      *)
(* positive does not survive a decrement.  It is strengthened to           *)
(* CountsExact, in which every unit of a count has exactly one owner, its  *)
(* token: a guard, an arrived child or shard, or a thread whose arrival or *)
(* departure is in flight.  A step then adds a token, removes one, or      *)
(* passes the unit from one token to another.  ControlOK supplies what     *)
(* that needs to know of the threads.                                      *)
(***************************************************************************)
EXTENDS GuardTree, FiniteSetTheorems, TLAPS

(* The part of the inductive invariant about words and walks.              *)
CoreInv == WordTypes /\ WalkTypes /\ CountsExact /\ ControlOK

IInv == CoreInv /\ OwnerTypes

core == <<shardState, nodeState, home, walk, making>>

-----------------------------------------------------------------------------
(* Finite sets of tokens.                                                  *)

(* One more token, one more unit.                                          *)
LEMMA CardAdd ==
  ASSUME NEW S, IsFiniteSet(S), NEW x, x \notin S
  PROVE  Cardinality(S \cup {x}) = Cardinality(S) + 1
BY FS_AddElement

(* A set with a token is counted by a positive number, and one token less  *)
(* by one unit less.                                                       *)
LEMMA CardRemove ==
  ASSUME NEW S, IsFiniteSet(S), NEW x, x \in S
  PROVE  /\ Cardinality(S) \in Nat \ {0}
         /\ Cardinality(S \ {x}) = Cardinality(S) - 1
BY FS_RemoveElement, FS_CardinalityType, FS_EmptySet

(* A unit that passes from one token to another is still one unit.         *)
LEMMA CardSwap ==
  ASSUME NEW S, IsFiniteSet(S), NEW x, x \in S, NEW y, y \notin S
  PROVE  Cardinality((S \ {x}) \cup {y}) = Cardinality(S)
<1>1. IsFiniteSet(S \ {x}) /\ Cardinality(S \ {x}) = Cardinality(S) - 1
  BY FS_RemoveElement
<1>2. y \notin S \ {x}
  OBVIOUS
<1>3. Cardinality((S \ {x}) \cup {y}) = Cardinality(S \ {x}) + 1
  BY <1>1, <1>2, CardAdd
<1> QED
  BY <1>1, <1>3, CardRemove

(* The sets of tokens that the counts stand for are finite.                *)
LEMMA TokensFinite ==
  /\ \A s : IsFiniteSet(LocalTokens(s)) /\ IsFiniteSet(KidTokens(s))
  /\ \A n : IsFiniteSet(ShardTokens(n))
<1>1. \A s : IsFiniteSet(LocalTokens(s))
  BY FS_Subset, ThreadAssumption DEF LocalTokens
<1>2. \A s : IsFiniteSet(KidTokens(s))
  <2> TAKE s
  <2>1. IsFiniteSet({m \in Child : ARRIVED \in nodeState[m].flags /\ nodeState[m].at = s})
    BY FS_Subset, TreeAssumption DEF Child
  <2>2. IsFiniteSet({t \in Thread : KidInFlight(t, s)})
    BY FS_Subset, ThreadAssumption
  <2> QED BY <2>1, <2>2, FS_Union DEF KidTokens
<1>3. \A n : IsFiniteSet(ShardTokens(n))
  <2> TAKE n
  <2>1. IsFiniteSet({s \in Shards(n) : ARRIVED \in shardState[s].flags})
    BY FS_Subset, ShardAssumption DEF Shards
  <2>2. IsFiniteSet({t \in Thread : ShardInFlight(t, n)})
    BY FS_Subset, ThreadAssumption
  <2> QED BY <2>1, <2>2, FS_Union DEF ShardTokens
<1> QED BY <1>1, <1>2, <1>3

-----------------------------------------------------------------------------
(* Updates of one entry of the nested functions.                           *)

(* An arrive loop that keeps the word it loaded changes one entry.         *)
LEMMA SavedUpdate ==
  ASSUME WalkTypes, NEW t \in Thread, NEW c \in Cell, NEW f \in SUBSET Flags,
         saved' = [saved EXCEPT ![t][c] = f]
  PROVE  /\ saved' \in [Thread -> [Cell -> SUBSET Flags]]
         /\ saved'[t][c] = f
         /\ \A d \in Cell \ {c} : saved'[t][d] = saved[t][d]
         /\ \A u \in Thread \ {t} : saved'[u] = saved[u]
<1>1. saved \in [Thread -> [Cell -> SUBSET Flags]]
  BY DEF WalkTypes
<1>2. saved' = [saved EXCEPT ![t] = [saved[t] EXCEPT ![c] = f]]
  BY <1>1
<1> QED
  BY <1>1, <1>2

(* An arrival that goes up, or comes back, changes one entry.              *)
LEMMA FromUpdate ==
  ASSUME WalkTypes, NEW t \in Thread, NEW n \in Node,
         NEW m \in Node \cup {NoNode}, from' = [from EXCEPT ![t][n] = m]
  PROVE  /\ from' \in [Thread -> [Node -> Node \cup {NoNode}]]
         /\ from'[t][n] = m
         /\ \A k \in Node \ {n} : from'[t][k] = from[t][k]
         /\ \A u \in Thread \ {t} : from'[u] = from[u]
<1>1. from \in [Thread -> [Node -> Node \cup {NoNode}]]
  BY DEF WalkTypes
<1>2. from' = [from EXCEPT ![t] = [from[t] EXCEPT ![n] = m]]
  BY <1>1
<1> QED
  BY <1>1, <1>2

-----------------------------------------------------------------------------
(* What a step of t leaves alone.                                          *)

SameRow(u) ==
  /\ pc'[u] = pc[u] /\ cell'[u] = cell[u] /\ from'[u] = from[u]
  /\ saved'[u] = saved[u] /\ seen'[u] = seen[u] /\ resume'[u] = resume[u]

(* A step of t cannot disturb the walk of another thread.                  *)
LEMMA OthersWalk ==
  ASSUME ControlOK, NEW t \in Thread,
         \A u \in Thread \ {t} : SameRow(u), WalkOK(t)'
  PROVE  \A u \in Thread : WalkOK(u)'
BY DEF ControlOK, WalkOK, OnTrack, SameRow

(* A step that creates no guard keeps the guards being made distinct and   *)
(* unborn.                                                                 *)
LEMMA SameMaking ==
  ASSUME ControlOK, NEW t \in Thread, UNCHANGED <<home, making>>,
         \A u \in Thread \ {t} : SameRow(u),
         pc'[t] \in Arriving \/ resume'[t].pc # "idle" => making[t] # NoGuard
  PROVE  \A u \in Thread : MakingOK(u)'
BY DEF ControlOK, MakingOK, SameRow

(* A step that touches neither words nor walks.                            *)
LEMMA CoreFrame ==
  ASSUME CoreInv, UNCHANGED core
  PROVE  CoreInv'
<1> USE DEF core, walk
<1>1. WordTypes' /\ WalkTypes'
  BY DEF CoreInv, WordTypes, WalkTypes
<1>2. CountsExact'
  <2>1. /\ \A s : LocalTokens(s)' = LocalTokens(s) /\ KidTokens(s)' = KidTokens(s)
        /\ \A n : ShardTokens(n)' = ShardTokens(n)
    BY DEF LocalTokens, KidTokens, ShardTokens, KidInFlight, ShardInFlight
  <2> QED
    BY <2>1 DEF CoreInv, CountsExact, LocalExact, KidsExact, ShardsExact,
                UnarrivedEmpty
<1>3. ControlOK'
  BY DEF CoreInv, ControlOK, WordsLinked, WalkOK, OnTrack, MakingOK
<1> QED
  BY <1>1, <1>2, <1>3 DEF CoreInv

(* Go moves one thread.                                                    *)
LEMMA GoRow ==
  ASSUME WalkTypes, NEW t \in Thread, NEW label \in Label, NEW c \in Cell,
         Go(t, label, c)
  PROVE  /\ pc' \in [Thread -> Label] /\ cell' \in [Thread -> Cell]
         /\ pc'[t] = label /\ cell'[t] = c
         /\ \A u \in Thread \ {t} : pc'[u] = pc[u] /\ cell'[u] = cell[u]
BY DEF WalkTypes, Go

-----------------------------------------------------------------------------
(* The walk: one lemma per atomic step.                                    *)

(* Guard::for_shard that needs the node: find it, or give up.              *)
LEMMA GuardedStep ==
  ASSUME CoreInv, NEW t \in Thread, Guarded(t)
  PROVE  CoreInv'
<1> DEFINE n == cell[t]
<1> USE DEF CoreInv
<1>1. /\ n \in Node /\ making[t] # NoGuard /\ resume[t].pc = "idle"
      /\ pc[t] = "guarded"
  BY DEF Guarded, At, ControlOK, WalkOK, OnTrack, NodeLabel, MakingOK,
         Arriving, Departing
<1>2. MyShard[t][n] \in Shard /\ NodeOf[MyShard[t][n]] = n /\ Root \in Node
  BY <1>1, ShardAssumption, TreeAssumption
<1>3. UNCHANGED <<shardState, nodeState, home, from, saved, seen, resume>>
  BY DEF Guarded, words, owners
<1>4. /\ \A u \in Thread \ {t} : pc'[u] = pc[u] /\ cell'[u] = cell[u]
      /\ \/ pc'[t] = "arriveShard" /\ cell'[t] = MyShard[t][n] /\ making' = making
         \/ /\ pc'[t] = "idle" /\ cell'[t] = Root
            /\ making' = [making EXCEPT ![t] = NoGuard]
  BY DEF Guarded, Go, WalkTypes
<1>5. WordTypes' /\ WalkTypes'
  <2>1. pc' \in [Thread -> Label] /\ cell' \in [Thread -> Cell]
    BY <1>2, GoRow DEF Guarded, Label, ShardLabel, Cell
  <2>2. making' \in [Thread -> Guard \cup {NoGuard}]
    BY <1>4 DEF WalkTypes
  <2> QED
    BY <1>3, <2>1, <2>2 DEF WordTypes, WalkTypes
<1>6. CountsExact'
  <2>1. /\ \A s : LocalTokens(s)' = LocalTokens(s) /\ KidTokens(s)' = KidTokens(s)
        /\ \A k : ShardTokens(k)' = ShardTokens(k)
    BY <1>1, <1>3, <1>4
       DEF LocalTokens, KidTokens, ShardTokens, KidInFlight, ShardInFlight
  <2> QED
    BY <1>3, <2>1 DEF CountsExact, LocalExact, KidsExact, ShardsExact,
                      UnarrivedEmpty
<1>7. ControlOK'
  <2>1. WordsLinked'
    BY <1>3 DEF ControlOK, WordsLinked
  <2>2. WalkOK(t)'
    BY <1>1, <1>2, <1>3, <1>4 DEF ControlOK, WalkOK, OnTrack, ShardLabel, NodeLabel
  <2>3. \A u \in Thread : MakingOK(u)'
    BY <1>1, <1>3, <1>4 DEF ControlOK, MakingOK, Arriving, WalkTypes
  <2> QED
    BY <1>3, <1>4, <2>1, <2>2, <2>3, OthersWalk DEF ControlOK, SameRow
<1> QED
  BY <1>5, <1>6, <1>7

(* Shard::arrive on a shard that has not arrived goes up to the node.      *)
LEMMA ArriveShardUp ==
  ASSUME CoreInv, NEW t \in Thread, ArriveShard(t),
         ARRIVED \notin shardState[cell[t]].flags
  PROVE  CoreInv'
<1> DEFINE s == cell[t]
<1> USE DEF CoreInv
<1>1. s \in Shard /\ making[t] # NoGuard /\ pc[t] = "arriveShard"
  BY DEF ArriveShard, At, ControlOK, WalkOK, OnTrack, ShardLabel, MakingOK, Arriving
<1>2. NodeOf[s] \in Node /\ s \in Cell /\ shardState[s].flags \in SUBSET Flags
  BY <1>1, ShardAssumption DEF Cell, WordTypes, ShardWord
<1>3. /\ UNCHANGED <<shardState, nodeState, home, from, seen, resume, making>>
      /\ saved' = [saved EXCEPT ![t][s] = shardState[s].flags]
  BY DEF ArriveShard
<1>4. /\ \A u \in Thread \ {t} : pc'[u] = pc[u] /\ cell'[u] = cell[u]
      /\ pc'[t] = "arriveNode" /\ cell'[t] = NodeOf[s]
  BY DEF ArriveShard, Go, WalkTypes
<1>5. WordTypes' /\ WalkTypes'
  BY <1>2, <1>3, SavedUpdate
     DEF ArriveShard, Go, WordTypes, WalkTypes, Label, NodeLabel, Cell
<1>6. CountsExact'
  <2>1. /\ \A q : LocalTokens(q)' = LocalTokens(q) /\ KidTokens(q)' = KidTokens(q)
        /\ \A k : ShardTokens(k)' = ShardTokens(k)
    BY <1>1, <1>3, <1>4
       DEF LocalTokens, KidTokens, ShardTokens, KidInFlight, ShardInFlight
  <2> QED
    BY <1>3, <2>1 DEF CountsExact, LocalExact, KidsExact, ShardsExact,
                      UnarrivedEmpty
<1>7. ControlOK'
  <2>1. WordsLinked'
    BY <1>3 DEF ControlOK, WordsLinked
  <2>2. WalkOK(t)'
    BY <1>1, <1>2, <1>3, <1>4, SavedUpdate
       DEF ControlOK, WalkOK, OnTrack, ShardLabel, NodeLabel, Departing
  <2>3. \A u \in Thread \ {t} : SameRow(u)
    BY <1>2, <1>3, <1>4, SavedUpdate DEF SameRow
  <2>4. \A u \in Thread : MakingOK(u)'
    BY <1>1, <1>3, <2>3, SameMaking
  <2> QED
    BY <2>1, <2>2, <2>3, <2>4, OthersWalk DEF ControlOK
<1> QED
  BY <1>5, <1>6, <1>7

(* The unit is counted on a shard that has arrived, or has just: the guard *)
(* comes to exist, or the child becomes an arrival in flight.              *)
LEMMA CountedStep ==
  ASSUME CoreInv, NEW t \in Thread, NEW s \in Shard, Counted(t, s),
         s = MyShard[t][NodeOf[s]], pc[t] \in {"arriveShard", "casShard"},
         NEW w \in ShardWord, shardState' = [shardState EXCEPT ![s] = w],
         w.local = PlusUnit(shardState[s], t, NodeOf[s]).local,
         w.kids = PlusUnit(shardState[s], t, NodeOf[s]).kids,
         UNCHANGED <<nodeState, seen, resume>>,
         saved' \in [Thread -> [Cell -> SUBSET Flags]],
         \A c \in Cell : ARRIVED \notin saved'[t][c],
         \A u \in Thread \ {t} : saved'[u] = saved[u]
  PROVE  /\ WordTypes' /\ WalkTypes' /\ ControlOK'
         /\ LocalExact' /\ KidsExact'
         /\ pc'[t] \in {"idle", "casNode"}
         /\ \A u \in Thread \ {t} : pc'[u] = pc[u] /\ cell'[u] = cell[u]
<1> DEFINE n == NodeOf[s]
           g == making[t]
<1> USE DEF CoreInv
<1>1. /\ n \in Node /\ s \in Cell /\ Root \in Cell
      /\ shardState[s] \in ShardWord
      /\ g \in Guard /\ home[g] = NoShard /\ NoShard \notin Shard
      /\ resume[t].pc = "idle"
  <2>1. n \in Node /\ s \in Cell /\ Root \in Cell /\ NoShard \notin Shard
    BY ShardAssumption, TreeAssumption DEF Cell
  <2>2. shardState[s] \in ShardWord
    BY DEF WordTypes
  <2>3. g # NoGuard /\ home[g] = NoShard
    BY DEF ControlOK, MakingOK, Arriving
  <2>4. g \in Guard
    BY <2>3 DEF WalkTypes
  <2>5. resume[t].pc = "idle"
    BY DEF ControlOK, WalkOK, Departing
  <2> QED
    BY <2>1, <2>2, <2>3, <2>4, <2>5
<1>2. CASE from[t][n] = NoNode
  <2>1. /\ home' = [home EXCEPT ![g] = s] /\ from' = from
        /\ making' = [making EXCEPT ![t] = NoGuard]
        /\ Go(t, "idle", Root)
    BY <1>2 DEF Counted
  <2>2. /\ pc' \in [Thread -> Label] /\ cell' \in [Thread -> Cell]
        /\ pc'[t] = "idle" /\ cell'[t] = Root
        /\ \A u \in Thread \ {t} : pc'[u] = pc[u] /\ cell'[u] = cell[u]
    BY <1>1, <2>1, GoRow DEF Label
  <2>3. WordTypes' /\ WalkTypes'
    BY <1>1, <2>1, <2>2 DEF WordTypes, WalkTypes
  <2>4. LocalExact'
    <3>1. LocalTokens(s)' = LocalTokens(s) \cup {g} /\ g \notin LocalTokens(s)
      BY <1>1, <2>1 DEF LocalTokens, WordTypes
    <3>2. \A q \in Shard \ {s} : LocalTokens(q)' = LocalTokens(q)
      BY <1>1, <2>1 DEF LocalTokens, WordTypes
    <3>3. w.local = shardState[s].local + 1
      BY <1>1, <1>2 DEF PlusUnit, ShardWord
    <3>4. Cardinality(LocalTokens(s)') = Cardinality(LocalTokens(s)) + 1
      BY <3>1, TokensFinite, CardAdd
    <3> QED
      BY <3>2, <3>3, <3>4 DEF CountsExact, LocalExact, WordTypes
  <2>5. KidsExact'
    <3>1. \A q : KidTokens(q)' = KidTokens(q)
      BY <2>2 DEF KidTokens, KidInFlight
    <3>2. w.kids = shardState[s].kids
      BY <1>1, <1>2 DEF PlusUnit, ShardWord
    <3> QED
      BY <3>1, <3>2 DEF CountsExact, KidsExact, WordTypes
  <2>6. ControlOK'
    <3>1. WordsLinked'
      BY DEF ControlOK, WordsLinked
    <3>2. WalkOK(t)'
      BY <1>1, <2>1, <2>2 DEF ControlOK, WalkOK, OnTrack, ShardLabel, NodeLabel
    <3>3. \A u \in Thread : MakingOK(u)'
      BY <1>1, <2>1, <2>2 DEF ControlOK, MakingOK, Arriving, WalkTypes, WordTypes
    <3> QED
      BY <2>1, <2>2, <3>1, <3>2, <3>3, OthersWalk DEF ControlOK, SameRow
  <2> QED
    BY <2>2, <2>3, <2>4, <2>5, <2>6
<1>3. CASE from[t][n] # NoNode
  <2> DEFINE m == from[t][n]
  <2>1. /\ m \in Child /\ Parent[m] = n /\ m \in Cell /\ NoNode \in Node \cup {NoNode}
        /\ from' = [from EXCEPT ![t][n] = NoNode]
        /\ home' = home /\ making' = making
        /\ Go(t, "casNode", m)
    BY <1>1, <1>3 DEF Counted, ControlOK, WalkOK, Cell, Child
  <2>2. /\ pc' \in [Thread -> Label] /\ cell' \in [Thread -> Cell]
        /\ pc'[t] = "casNode" /\ cell'[t] = m
        /\ \A u \in Thread \ {t} : pc'[u] = pc[u] /\ cell'[u] = cell[u]
    BY <2>1, GoRow DEF Label, NodeLabel
  <2>f. /\ from' \in [Thread -> [Node -> Node \cup {NoNode}]]
        /\ from'[t][n] = NoNode
        /\ \A k \in Node \ {n} : from'[t][k] = from[t][k]
        /\ \A u \in Thread \ {t} : from'[u] = from[u]
    BY <1>1, <2>1, FromUpdate
  <2>3. WordTypes' /\ WalkTypes'
    BY <1>1, <2>1, <2>2, <2>f DEF WordTypes, WalkTypes
  <2>4. LocalExact'
    <3>1. \A q : LocalTokens(q)' = LocalTokens(q)
      BY <2>1 DEF LocalTokens
    <3>2. w.local = shardState[s].local
      BY <1>1, <1>3 DEF PlusUnit, ShardWord
    <3> QED
      BY <3>1, <3>2 DEF CountsExact, LocalExact, WordTypes
  <2>5. KidsExact'
    <3>1. KidTokens(s)' = KidTokens(s) \cup {t} /\ t \notin KidTokens(s)
      BY <2>1, <2>2, ThreadAssumption DEF KidTokens, KidInFlight, Child
    <3>2. \A q \in Shard \ {s} : KidTokens(q)' = KidTokens(q)
      BY <2>1, <2>2 DEF KidTokens, KidInFlight
    <3>3. w.kids = shardState[s].kids + 1
      BY <1>1, <1>3 DEF PlusUnit, ShardWord
    <3>4. Cardinality(KidTokens(s)') = Cardinality(KidTokens(s)) + 1
      BY <3>1, TokensFinite, CardAdd
    <3> QED
      BY <3>2, <3>3, <3>4 DEF CountsExact, KidsExact, WordTypes
  <2>6. ControlOK'
    <3>1. WordsLinked'
      BY DEF ControlOK, WordsLinked
    <3>2. WalkOK(t)'
      BY <1>1, <2>1, <2>2, <2>f
         DEF ControlOK, WalkOK, OnTrack, ShardLabel, NodeLabel, Child
    <3>r. \A u \in Thread \ {t} : SameRow(u)
      BY <2>2, <2>f DEF SameRow
    <3>3. \A u \in Thread : MakingOK(u)'
      BY <1>1, <2>1, <3>r, SameMaking, ThreadAssumption
    <3> QED
      BY <3>1, <3>2, <3>3, <3>r, OthersWalk DEF ControlOK
  <2> QED
    BY <2>2, <2>3, <2>4, <2>5, <2>6
<1> QED
  BY <1>2, <1>3

(* Shard::arrive: arrive_if_arrived, or the way up.                        *)
LEMMA ArriveShardStep ==
  ASSUME CoreInv, NEW t \in Thread, ArriveShard(t)
  PROVE  CoreInv'
<1> DEFINE s == cell[t]
           w == PlusUnit(shardState[s], t, NodeOf[s])
<1> USE DEF CoreInv
<1>1. s \in Shard /\ s = MyShard[t][NodeOf[s]] /\ pc[t] = "arriveShard"
  BY DEF ArriveShard, At, ControlOK, WalkOK, OnTrack, ShardLabel
<1>2. CASE ARRIVED \in shardState[s].flags
  <2>1. /\ Counted(t, s) /\ shardState' = [shardState EXCEPT ![s] = w]
        /\ UNCHANGED <<nodeState, saved, seen, resume>>
    BY <1>2 DEF ArriveShard
  <2>2. w \in ShardWord /\ w.flags = shardState[s].flags
    BY <1>1 DEF PlusUnit, WordTypes, ShardWord
  <2>3. /\ saved' \in [Thread -> [Cell -> SUBSET Flags]]
        /\ \A c \in Cell : ARRIVED \notin saved'[t][c]
        /\ \A u \in Thread \ {t} : saved'[u] = saved[u]
    BY <2>1 DEF WalkTypes, ControlOK, WalkOK
  <2>4. /\ WordTypes' /\ WalkTypes' /\ ControlOK' /\ LocalExact' /\ KidsExact'
        /\ pc'[t] \in {"idle", "casNode"}
        /\ \A u \in Thread \ {t} : pc'[u] = pc[u] /\ cell'[u] = cell[u]
    BY <1>1, <2>1, <2>2, <2>3, CountedStep
  <2>5. ShardsExact'
    <3>1. \A n : ShardTokens(n)' = ShardTokens(n)
      BY <1>1, <2>1, <2>2, <2>4 DEF ShardTokens, ShardInFlight, Shards, WordTypes
    <3> QED
      BY <2>1, <3>1 DEF CountsExact, ShardsExact
  <2>6. UnarrivedEmpty'
    BY <1>2, <2>1, <2>2 DEF CountsExact, UnarrivedEmpty, WordTypes
  <2> QED
    BY <2>4, <2>5, <2>6 DEF CountsExact
<1>3. CASE ARRIVED \notin shardState[s].flags
  BY <1>3, ArriveShardUp
<1> QED
  BY <1>2, <1>3

(* Inner::arrive: count the shard, or go up to the parent's shard first.   *)
LEMMA ArriveNodeStep ==
  ASSUME CoreInv, NEW t \in Thread, ArriveNode(t)
  PROVE  CoreInv'
<1> USE DEF CoreInv
<1>0. PICK n \in Node : n = cell[t]
  BY DEF ArriveNode, At, ControlOK, WalkOK, OnTrack, NodeLabel
<1>1. /\ n \in Cell /\ making[t] # NoGuard /\ pc[t] = "arriveNode"
      /\ UNCHANGED <<shardState, home, seen, resume, making>>
  BY DEF ArriveNode, At, ControlOK, MakingOK, Arriving, owners, Cell
<1>2. nodeState[n] \in NodeWord /\ nodeState[n].flags \in SUBSET Flags
  BY <1>1 DEF WordTypes, NodeWord
<1>3. CASE CountsHere(n)
  <2> DEFINE s == MyShard[t][n]
  <2>1. s \in Shard /\ s \in Cell /\ NodeOf[s] = n
    BY <1>1, ShardAssumption DEF Cell
  <2>2. /\ nodeState' = [nodeState EXCEPT ![n].count = @ + 1]
        /\ Go(t, "casShard", s) /\ UNCHANGED <<from, saved>>
    BY <1>0, <1>3 DEF ArriveNode
  <2>3. /\ pc' \in [Thread -> Label] /\ cell' \in [Thread -> Cell]
        /\ pc'[t] = "casShard" /\ cell'[t] = s
        /\ \A u \in Thread \ {t} : pc'[u] = pc[u] /\ cell'[u] = cell[u]
    BY <2>1, <2>2, GoRow DEF Label, ShardLabel
  <2>4. /\ nodeState' \in [Node -> NodeWord]
        /\ \A k \in Node : /\ nodeState'[k].flags = nodeState[k].flags
                           /\ nodeState'[k].at = nodeState[k].at
        /\ nodeState'[n].count = nodeState[n].count + 1
        /\ \A k \in Node \ {n} : nodeState'[k].count = nodeState[k].count
    BY <1>1, <2>2 DEF WordTypes, NodeWord
  <2>5. WordTypes' /\ WalkTypes'
    BY <1>1, <2>2, <2>3, <2>4 DEF WordTypes, WalkTypes
  <2>6. LocalExact' /\ KidsExact'
    <3>1. \A q : LocalTokens(q)' = LocalTokens(q) /\ KidTokens(q)' = KidTokens(q)
      BY <1>1, <2>3, <2>4 DEF LocalTokens, KidTokens, KidInFlight, Child
    <3> QED
      BY <1>1, <3>1 DEF CountsExact, LocalExact, KidsExact
  <2>7. ShardsExact'
    <3>1. ShardTokens(n)' = ShardTokens(n) \cup {t} /\ t \notin ShardTokens(n)
      BY <1>1, <2>1, <2>3, ThreadAssumption DEF ShardTokens, ShardInFlight, Shards
    <3>2. \A k \in Node \ {n} : ShardTokens(k)' = ShardTokens(k)
      BY <1>1, <2>1, <2>3 DEF ShardTokens, ShardInFlight, Shards
    <3>3. Cardinality(ShardTokens(n)') = Cardinality(ShardTokens(n)) + 1
      BY <3>1, TokensFinite, CardAdd
    <3> QED
      BY <1>1, <2>4, <3>2, <3>3 DEF CountsExact, ShardsExact
  <2>8. UnarrivedEmpty'
    BY <1>1, <1>3, <2>4 DEF CountsExact, UnarrivedEmpty, CountsHere, Child
  <2>9. ControlOK'
    <3>1. WordsLinked'
      BY <2>4 DEF ControlOK, WordsLinked, Child
    <3>2. WalkOK(t)'
      BY <1>1, <2>1, <2>2, <2>3
         DEF ControlOK, WalkOK, OnTrack, ShardLabel, NodeLabel, Departing
    <3>3. \A u \in Thread \ {t} : SameRow(u)
      BY <1>1, <2>2, <2>3 DEF SameRow
    <3>4. \A u \in Thread : MakingOK(u)'
      BY <1>1, <3>3, SameMaking
    <3> QED
      BY <3>1, <3>2, <3>3, <3>4, OthersWalk DEF ControlOK
  <2> QED
    BY <2>5, <2>6, <2>7, <2>8, <2>9 DEF CountsExact
<1>4. CASE ~CountsHere(n)
  <2> DEFINE p == Parent[n]
             s == MyShard[t][p]
  <2>1. /\ n \in Child /\ p \in Node /\ ARRIVED \notin nodeState[n].flags
        /\ s \in Shard /\ s \in Cell /\ NodeOf[s] = p
    BY <1>1, <1>4, ShardAssumption, TreeAssumption DEF CountsHere, Child, Cell
  <2>2. /\ saved' = [saved EXCEPT ![t][n] = nodeState[n].flags]
        /\ from' = [from EXCEPT ![t][p] = n]
        /\ Go(t, "arriveShard", s) /\ nodeState' = nodeState
    BY <1>0, <1>4 DEF ArriveNode
  <2>3. /\ pc' \in [Thread -> Label] /\ cell' \in [Thread -> Cell]
        /\ pc'[t] = "arriveShard" /\ cell'[t] = s
        /\ \A u \in Thread \ {t} : pc'[u] = pc[u] /\ cell'[u] = cell[u]
    BY <2>1, <2>2, GoRow DEF Label, ShardLabel
  <2>4. /\ saved' \in [Thread -> [Cell -> SUBSET Flags]]
        /\ saved'[t][n] = nodeState[n].flags
        /\ \A d \in Cell \ {n} : saved'[t][d] = saved[t][d]
        /\ \A u \in Thread \ {t} : saved'[u] = saved[u]
    BY <1>1, <1>2, <2>2, SavedUpdate
  <2>5. /\ from' \in [Thread -> [Node -> Node \cup {NoNode}]]
        /\ from'[t][p] = n
        /\ \A k \in Node \ {p} : from'[t][k] = from[t][k]
        /\ \A u \in Thread \ {t} : from'[u] = from[u]
    BY <1>1, <2>1, <2>2, FromUpdate
  <2>6. WordTypes' /\ WalkTypes'
    BY <1>1, <2>2, <2>3, <2>4, <2>5 DEF WordTypes, WalkTypes
  <2>7. CountsExact'
    <3>1. /\ \A q : LocalTokens(q)' = LocalTokens(q) /\ KidTokens(q)' = KidTokens(q)
          /\ \A k : ShardTokens(k)' = ShardTokens(k)
      BY <1>1, <2>2, <2>3
         DEF LocalTokens, KidTokens, ShardTokens, KidInFlight, ShardInFlight
    <3> QED
      BY <1>1, <2>2, <3>1 DEF CountsExact, LocalExact, KidsExact, ShardsExact,
                              UnarrivedEmpty
  <2>8. ControlOK'
    <3>1. WordsLinked'
      BY <2>2 DEF ControlOK, WordsLinked
    <3>2. WalkOK(t)'
      <4>1. \A c \in Cell : ARRIVED \notin saved'[t][c]
        BY <1>1, <2>1, <2>4 DEF ControlOK, WalkOK
      <4>2. \A k \in Node : from'[t][k] # NoNode =>
              from'[t][k] \in Child /\ Parent[from'[t][k]] = k
        BY <2>1, <2>5 DEF ControlOK, WalkOK
      <4>3. resume[t].pc = "idle"
        BY <1>1 DEF ControlOK, WalkOK, Departing
      <4> QED
        BY <1>1, <2>1, <2>3, <4>1, <4>2, <4>3
           DEF ControlOK, WalkOK, OnTrack, ShardLabel, NodeLabel
    <3>3. \A u \in Thread \ {t} : SameRow(u)
      BY <1>1, <2>3, <2>4, <2>5 DEF SameRow
    <3>4. \A u \in Thread : MakingOK(u)'
      BY <1>1, <3>3, SameMaking
    <3> QED
      BY <3>1, <3>2, <3>3, <3>4, OthersWalk DEF ControlOK
  <2> QED
    BY <2>6, <2>7, <2>8
<1> QED
  BY <1>3, <1>4

(* Return moves one thread to where it took its arrival back, or to idle.  *)
LEMMA ReturnRow ==
  ASSUME CoreInv, NEW t \in Thread, Return(t)
  PROVE  /\ pc' \in [Thread -> Label] /\ cell' \in [Thread -> Cell]
         /\ resume' \in [Thread -> [pc : Label, cell : Cell]]
         /\ pc'[t] = resume[t].pc /\ cell'[t] = resume[t].cell
         /\ resume'[t] = Idling
         /\ pc'[t] \in {"idle", "arriveShard", "arriveNode"}
         /\ \A u \in Thread \ {t} : /\ pc'[u] = pc[u] /\ cell'[u] = cell[u]
                                    /\ resume'[u] = resume[u]
<1>1. resume[t].pc \in {"idle", "arriveShard", "arriveNode"}
  BY DEF CoreInv, ControlOK, WalkOK
<1>2. resume[t].pc \in Label /\ resume[t].cell \in Cell
  BY DEF CoreInv, WalkTypes
<1>3. Idling \in [pc : Label, cell : Cell]
  BY TreeAssumption DEF Idling, Label, Cell
<1> QED
  BY <1>1, <1>2, <1>3 DEF CoreInv, WalkTypes, Return, Go

(* TakeBack moves one thread and records where it resumes.                 *)
LEMMA TakeBackRow ==
  ASSUME CoreInv, NEW t \in Thread, NEW label \in Label, NEW c \in Cell,
         NEW again \in [pc : Label, cell : Cell],
         TakeBack(t, label, c, again)
  PROVE  /\ pc' \in [Thread -> Label] /\ cell' \in [Thread -> Cell]
         /\ resume' \in [Thread -> [pc : Label, cell : Cell]]
         /\ pc'[t] = label /\ cell'[t] = c /\ resume'[t] = again
         /\ \A u \in Thread \ {t} : /\ pc'[u] = pc[u] /\ cell'[u] = cell[u]
                                    /\ resume'[u] = resume[u]
BY DEF CoreInv, WalkTypes, TakeBack, Go

(* The compare_exchange of Shard::arrive installs the arrival: the thread's*)
(* unit in its node's count becomes the shard's.                           *)
LEMMA CasShardWin ==
  ASSUME CoreInv, NEW t \in Thread, CasShard(t), NEW s \in Shard, s = cell[t],
         shardState[s] = EmptyShard(saved[t][s])
  PROVE  CoreInv'
<1> DEFINE n == NodeOf[s]
           w == PlusUnit(EmptyShard(saved[t][s] \cup {ARRIVED}), t, n)
<1> USE DEF CoreInv
<1>1. /\ pc[t] = "casShard" /\ s = MyShard[t][n] /\ s \in Cell /\ n \in Node
      /\ ARRIVED \notin saved[t][s] /\ saved[t][s] \in SUBSET Flags
  BY ShardAssumption
     DEF CasShard, At, ControlOK, WalkOK, OnTrack, Cell, WalkTypes
<1>2. /\ Counted(t, s) /\ shardState' = [shardState EXCEPT ![s] = w]
      /\ saved' = [saved EXCEPT ![t][s] = {}]
      /\ UNCHANGED <<nodeState, seen, resume>>
  BY DEF CasShard
<1>3. w \in ShardWord /\ ARRIVED \in w.flags
  BY <1>1 DEF PlusUnit, EmptyShard, ShardWord, Flags
<1>4. /\ w.local = PlusUnit(shardState[s], t, n).local
      /\ w.kids = PlusUnit(shardState[s], t, n).kids
  BY DEF PlusUnit, EmptyShard
<1>5. /\ saved' \in [Thread -> [Cell -> SUBSET Flags]]
      /\ \A c \in Cell : ARRIVED \notin saved'[t][c]
      /\ \A u \in Thread \ {t} : saved'[u] = saved[u]
  <2>1. {} \in SUBSET Flags
    OBVIOUS
  <2>2. /\ saved' \in [Thread -> [Cell -> SUBSET Flags]]
        /\ saved'[t][s] = {}
        /\ \A d \in Cell \ {s} : saved'[t][d] = saved[t][d]
        /\ \A u \in Thread \ {t} : saved'[u] = saved[u]
    <3>1. saved \in [Thread -> [Cell -> SUBSET Flags]]
      BY DEF WalkTypes
    <3>2. saved' = [saved EXCEPT ![t] = [saved[t] EXCEPT ![s] = {}]]
      BY <1>2, <3>1
    <3> QED
      BY <1>1, <2>1, <3>1, <3>2
  <2> QED
    BY <2>2 DEF ControlOK, WalkOK
<1>6. /\ WordTypes' /\ WalkTypes' /\ ControlOK' /\ LocalExact' /\ KidsExact'
      /\ pc'[t] \in {"idle", "casNode"}
      /\ \A u \in Thread \ {t} : pc'[u] = pc[u] /\ cell'[u] = cell[u]
  BY <1>1, <1>2, <1>3, <1>4, <1>5, CountedStep
<1>7. ShardsExact'
  <2>1. /\ ShardTokens(n)' = (ShardTokens(n) \ {t}) \cup {s}
        /\ t \in ShardTokens(n) /\ s \notin ShardTokens(n)
    <3>1. ARRIVED \notin shardState[s].flags
      BY <1>1 DEF EmptyShard
    <3>2. t \in ShardTokens(n) /\ s \notin ShardTokens(n)
      BY <1>1, <3>1, ThreadAssumption DEF ShardTokens, ShardInFlight, Shards
    <3>3. \A q \in Shard \ {s} : shardState'[q] = shardState[q]
      BY <1>2 DEF WordTypes
    <3>4. shardState'[s].flags = w.flags
      BY <1>2 DEF WordTypes
    <3>5. ShardTokens(n)' = (ShardTokens(n) \ {t}) \cup {s}
      BY <1>1, <1>3, <1>6, <3>3, <3>4, ThreadAssumption
         DEF ShardTokens, ShardInFlight, Shards
    <3> QED
      BY <3>2, <3>5
  <2>2. \A k \in Node \ {n} : ShardTokens(k)' = ShardTokens(k)
    BY <1>1, <1>2, <1>6 DEF ShardTokens, ShardInFlight, Shards, WordTypes
  <2>3. Cardinality(ShardTokens(n)') = Cardinality(ShardTokens(n))
    BY <2>1, TokensFinite, CardSwap
  <2> QED
    BY <1>2, <2>2, <2>3 DEF CountsExact, ShardsExact
<1>8. UnarrivedEmpty'
  BY <1>2, <1>3 DEF CountsExact, UnarrivedEmpty, WordTypes
<1> QED
  BY <1>6, <1>7, <1>8 DEF CountsExact

(* The compare_exchange of Shard::arrive fails: the unit is taken back by  *)
(* a departure, and the thread will try again.                             *)
LEMMA CasShardLose ==
  ASSUME CoreInv, NEW t \in Thread, CasShard(t), NEW s \in Shard, s = cell[t],
         shardState[s] # EmptyShard(saved[t][s])
  PROVE  CoreInv'
<1> DEFINE n == NodeOf[s]
           w == shardState[s]
<1> USE DEF CoreInv
<1>1. /\ pc[t] = "casShard" /\ s = MyShard[t][n] /\ s \in Cell /\ n \in Node
      /\ n \in Cell /\ making[t] # NoGuard /\ w.flags \in SUBSET Flags
      /\ w.flags \ {ARRIVED} \in SUBSET Flags
  BY ShardAssumption DEF CasShard, At, ControlOK, WalkOK, OnTrack, MakingOK,
     Arriving, Cell, WordTypes, ShardWord
<1>2. UNCHANGED <<shardState, nodeState, home, from, seen, making>>
  BY DEF CasShard
<1>3. PICK again \in [pc : Label, cell : Cell], f \in SUBSET Flags :
        /\ TakeBack(t, "departNode", n, again)
        /\ saved' = [saved EXCEPT ![t][s] = f] /\ ARRIVED \notin f
        /\ \/ again = [pc |-> "arriveShard", cell |-> s]
           \/ again = [pc |-> "arriveNode", cell |-> n]
  <2>1. CASE ARRIVED \in w.flags
    <3>1. [pc |-> "arriveShard", cell |-> s] \in [pc : Label, cell : Cell]
      BY <1>1 DEF Label, ShardLabel
    <3>2. {} \in SUBSET Flags /\ ARRIVED \notin {}
      OBVIOUS
    <3>3. /\ TakeBack(t, "departNode", n, [pc |-> "arriveShard", cell |-> s])
          /\ saved' = [saved EXCEPT ![t][s] = {}]
      BY <2>1 DEF CasShard
    <3> QED
      BY <3>1, <3>2, <3>3
  <2>2. CASE ARRIVED \notin w.flags
    <3>1. [pc |-> "arriveNode", cell |-> n] \in [pc : Label, cell : Cell]
      BY <1>1 DEF Label, NodeLabel
    <3>2. /\ TakeBack(t, "departNode", n, [pc |-> "arriveNode", cell |-> n])
          /\ saved' = [saved EXCEPT ![t][s] = w.flags]
      BY <2>2 DEF CasShard
    <3> QED
      BY <1>1, <2>2, <3>1, <3>2
  <2> QED
    BY <2>1, <2>2
<1>4. /\ pc' \in [Thread -> Label] /\ cell' \in [Thread -> Cell]
      /\ resume' \in [Thread -> [pc : Label, cell : Cell]]
      /\ pc'[t] = "departNode" /\ cell'[t] = n /\ resume'[t] = again
      /\ \A u \in Thread \ {t} : /\ pc'[u] = pc[u] /\ cell'[u] = cell[u]
                                 /\ resume'[u] = resume[u]
  <2>1. "departNode" \in Label
    BY DEF Label, NodeLabel
  <2> QED
    BY <1>1, <1>3, <2>1, TakeBackRow
<1>5. /\ saved' \in [Thread -> [Cell -> SUBSET Flags]]
      /\ saved'[t][s] = f
      /\ \A d \in Cell \ {s} : saved'[t][d] = saved[t][d]
      /\ \A u \in Thread \ {t} : saved'[u] = saved[u]
  <2>1. saved \in [Thread -> [Cell -> SUBSET Flags]]
    BY DEF WalkTypes
  <2>2. saved' = [saved EXCEPT ![t] = [saved[t] EXCEPT ![s] = f]]
    BY <1>3, <2>1
  <2> QED
    BY <1>1, <2>1, <2>2
<1>6. WordTypes' /\ WalkTypes'
  BY <1>2, <1>4, <1>5 DEF WordTypes, WalkTypes
<1>7. CountsExact'
  <2>1. /\ \A q : LocalTokens(q)' = LocalTokens(q) /\ KidTokens(q)' = KidTokens(q)
        /\ \A k : ShardTokens(k)' = ShardTokens(k)
    BY <1>1, <1>2, <1>4
       DEF LocalTokens, KidTokens, ShardTokens, KidInFlight, ShardInFlight
  <2> QED
    BY <1>2, <2>1 DEF CountsExact, LocalExact, KidsExact, ShardsExact,
                      UnarrivedEmpty
<1>8. ControlOK'
  <2>1. WordsLinked'
    BY <1>2 DEF ControlOK, WordsLinked
  <2>2. WalkOK(t)'
    <3>1. \A c \in Cell : ARRIVED \notin saved'[t][c]
      BY <1>1, <1>3, <1>5 DEF ControlOK, WalkOK
    <3>2. /\ OnTrack(t, resume'[t].pc, resume'[t].cell)
          /\ resume'[t].pc \in {"arriveShard", "arriveNode"}
      BY <1>1, <1>3, <1>4 DEF OnTrack, ShardLabel, NodeLabel
    <3> QED
      BY <1>1, <1>2, <1>4, <3>1, <3>2
         DEF ControlOK, WalkOK, OnTrack, ShardLabel, NodeLabel, Departing
  <2>3. \A u \in Thread \ {t} : SameRow(u)
    BY <1>2, <1>4, <1>5 DEF SameRow
  <2>4. \A u \in Thread : MakingOK(u)'
    BY <1>1, <1>2, <2>3, SameMaking
  <2> QED
    BY <2>1, <2>2, <2>3, <2>4, OthersWalk DEF ControlOK
<1> QED
  BY <1>6, <1>7, <1>8

(* The compare_exchange of Shard::arrive.                                  *)
LEMMA CasShardStep ==
  ASSUME CoreInv, NEW t \in Thread, CasShard(t)
  PROVE  CoreInv'
<1>1. cell[t] \in Shard
  BY DEF CoreInv, CasShard, At, ControlOK, WalkOK, OnTrack, ShardLabel
<1> QED
  BY <1>1, CasShardWin, CasShardLose

(* The compare_exchange of Inner::arrive installs the arrival: the thread's*)
(* unit in the parent shard's count becomes the child's.                   *)
LEMMA CasNodeWin ==
  ASSUME CoreInv, NEW t \in Thread, CasNode(t), NEW n \in Child, n = cell[t],
         nodeState[n] = EmptyNode(saved[t][n])
  PROVE  CoreInv'
<1> DEFINE p == MyShard[t][Parent[n]]
           s == MyShard[t][n]
           w == [flags |-> saved[t][n] \cup {ARRIVED}, count |-> 1, at |-> p]
<1> USE DEF CoreInv
<1>1. /\ pc[t] = "casNode" /\ n \in Node /\ n \in Cell /\ Parent[n] \in Node
      /\ p \in Shard /\ NodeOf[p] = Parent[n]
      /\ s \in Shard /\ s \in Cell /\ NodeOf[s] = n
  BY ShardAssumption, TreeAssumption DEF CasNode, At, Cell, Child
<1>2. /\ making[t] # NoGuard /\ ARRIVED \notin saved[t][n]
      /\ saved[t][n] \in SUBSET Flags /\ resume[t].pc = "idle"
  <2>1. making[t] # NoGuard
    BY <1>1 DEF ControlOK, MakingOK, Arriving
  <2>2. ARRIVED \notin saved[t][n] /\ resume[t].pc = "idle"
    BY <1>1 DEF ControlOK, WalkOK, Departing
  <2>3. saved[t][n] \in SUBSET Flags
    BY <1>1 DEF WalkTypes
  <2> QED
    BY <2>1, <2>2, <2>3
<1>3. /\ nodeState' = [nodeState EXCEPT ![n] = w]
      /\ saved' = [saved EXCEPT ![t][n] = {}]
      /\ Go(t, "casShard", s)
      /\ UNCHANGED <<shardState, home, from, seen, resume, making>>
  BY DEF CasNode, owners
<1>4. /\ pc' \in [Thread -> Label] /\ cell' \in [Thread -> Cell]
      /\ pc'[t] = "casShard" /\ cell'[t] = s
      /\ \A u \in Thread \ {t} : pc'[u] = pc[u] /\ cell'[u] = cell[u]
  BY <1>1, <1>3, GoRow DEF Label, ShardLabel
<1>5. /\ saved' \in [Thread -> [Cell -> SUBSET Flags]]
      /\ saved'[t][n] = {}
      /\ \A d \in Cell \ {n} : saved'[t][d] = saved[t][d]
      /\ \A u \in Thread \ {t} : saved'[u] = saved[u]
  <2>1. saved \in [Thread -> [Cell -> SUBSET Flags]]
    BY DEF WalkTypes
  <2>2. saved' = [saved EXCEPT ![t] = [saved[t] EXCEPT ![n] = {}]]
    BY <1>3, <2>1
  <2>3. {} \in SUBSET Flags
    OBVIOUS
  <2> QED
    BY <1>1, <2>1, <2>2, <2>3
<1>6. /\ w \in NodeWord /\ nodeState' \in [Node -> NodeWord]
      /\ nodeState'[n] = w
      /\ \A k \in Node \ {n} : nodeState'[k] = nodeState[k]
  <2>1. w \in NodeWord
    BY <1>1, <1>2 DEF NodeWord, Flags
  <2> QED
    BY <1>1, <1>3, <2>1 DEF WordTypes
<1>7. WordTypes' /\ WalkTypes'
  BY <1>3, <1>4, <1>5, <1>6 DEF WordTypes, WalkTypes
<1>8. nodeState[n].count = 0 /\ ARRIVED \notin nodeState[n].flags
  BY <1>2 DEF EmptyNode
<1>9. LocalExact'
  BY <1>3 DEF CountsExact, LocalExact, LocalTokens
<1>10. KidsExact'
  <2>1. t \in KidTokens(p) /\ n \notin KidTokens(p)
    BY <1>1, <1>8, ThreadAssumption, SMTT(60) DEF KidTokens, KidInFlight
  <2>2. KidTokens(p)' = (KidTokens(p) \ {t}) \cup {n}
    BY <1>1, <1>4, <1>6, ThreadAssumption DEF KidTokens, KidInFlight, Child
  <2>3. \A q \in Shard \ {p} : KidTokens(q)' = KidTokens(q)
    BY <1>1, <1>4, <1>6, <1>8, ThreadAssumption DEF KidTokens, KidInFlight, Child
  <2>4. Cardinality(KidTokens(p)') = Cardinality(KidTokens(p))
    BY <2>1, <2>2, TokensFinite, CardSwap
  <2> QED
    BY <1>3, <2>3, <2>4 DEF CountsExact, KidsExact
<1>11. ShardsExact'
  <2>1. ShardTokens(n)' = ShardTokens(n) \cup {t} /\ t \notin ShardTokens(n)
    BY <1>1, <1>3, <1>4, ThreadAssumption DEF ShardTokens, ShardInFlight, Shards
  <2>2. \A k \in Node \ {n} : ShardTokens(k)' = ShardTokens(k)
    BY <1>1, <1>3, <1>4 DEF ShardTokens, ShardInFlight, Shards
  <2>3. Cardinality(ShardTokens(n)') = Cardinality(ShardTokens(n)) + 1
    BY <2>1, TokensFinite, CardAdd
  <2>4. w.count = nodeState[n].count + 1
    BY <1>8
  <2> QED
    BY <1>1, <1>6, <2>2, <2>3, <2>4 DEF CountsExact, ShardsExact
<1>12. UnarrivedEmpty'
  BY <1>3, <1>6 DEF CountsExact, UnarrivedEmpty, Child
<1>13. ControlOK'
  <2>1. WordsLinked'
    BY <1>1, <1>6 DEF ControlOK, WordsLinked, Child
  <2>2. WalkOK(t)'
    BY <1>1, <1>2, <1>3, <1>4, <1>5
       DEF ControlOK, WalkOK, OnTrack, ShardLabel, NodeLabel
  <2>3. \A u \in Thread \ {t} : SameRow(u)
    BY <1>3, <1>4, <1>5 DEF SameRow
  <2>4. \A u \in Thread : MakingOK(u)'
    BY <1>2, <1>3, <2>3, SameMaking
  <2> QED
    BY <2>1, <2>2, <2>3, <2>4, OthersWalk DEF ControlOK
<1> QED
  BY <1>7, <1>9, <1>10, <1>11, <1>12, <1>13 DEF CountsExact

(* The compare_exchange of Inner::arrive fails: the unit is taken back by  *)
(* a departure, and the thread will try again.                             *)
LEMMA CasNodeLose ==
  ASSUME CoreInv, NEW t \in Thread, CasNode(t), NEW n \in Child, n = cell[t],
         nodeState[n] # EmptyNode(saved[t][n])
  PROVE  CoreInv'
<1> DEFINE p == MyShard[t][Parent[n]]
           w == nodeState[n]
<1> USE DEF CoreInv
<1>1. /\ pc[t] = "casNode" /\ n \in Node /\ n \in Cell /\ Parent[n] \in Node
      /\ p \in Shard /\ p \in Cell /\ NodeOf[p] = Parent[n]
  BY ShardAssumption, TreeAssumption DEF CasNode, At, Cell, Child
<1>2. making[t] # NoGuard /\ w.flags \in SUBSET Flags
  BY <1>1 DEF ControlOK, MakingOK, Arriving, WordTypes, NodeWord
<1>3. UNCHANGED <<shardState, nodeState, home, seen, making>>
  BY DEF CasNode, owners
<1>4. PICK again \in [pc : Label, cell : Cell], f \in SUBSET Flags,
           m \in {from[t][Parent[n]], n} :
        /\ TakeBack(t, "departShard", p, again)
        /\ saved' = [saved EXCEPT ![t][n] = f] /\ ARRIVED \notin f
        /\ from' = [from EXCEPT ![t][Parent[n]] = m]
        /\ \/ again = [pc |-> "arriveNode", cell |-> n]
           \/ again = [pc |-> "arriveShard", cell |-> p]
  <2>1. CASE ARRIVED \in w.flags
    <3>1. [pc |-> "arriveNode", cell |-> n] \in [pc : Label, cell : Cell]
      BY <1>1 DEF Label, NodeLabel
    <3>2. {} \in SUBSET Flags /\ ARRIVED \notin {}
      OBVIOUS
    <3>3. /\ TakeBack(t, "departShard", p, [pc |-> "arriveNode", cell |-> n])
          /\ saved' = [saved EXCEPT ![t][n] = {}] /\ from' = from
      BY <2>1 DEF CasNode
    <3>4. from' = [from EXCEPT ![t][Parent[n]] = from[t][Parent[n]]]
      BY <1>1, <3>3 DEF WalkTypes
    <3> QED
      BY <3>1, <3>2, <3>3, <3>4
  <2>2. CASE ARRIVED \notin w.flags
    <3>1. [pc |-> "arriveShard", cell |-> p] \in [pc : Label, cell : Cell]
      BY <1>1 DEF Label, ShardLabel
    <3>2. /\ TakeBack(t, "departShard", p, [pc |-> "arriveShard", cell |-> p])
          /\ saved' = [saved EXCEPT ![t][n] = w.flags]
          /\ from' = [from EXCEPT ![t][Parent[n]] = n]
      BY <2>2 DEF CasNode
    <3> QED
      BY <1>2, <2>2, <3>1, <3>2
  <2> QED
    BY <2>1, <2>2
<1>5. /\ pc' \in [Thread -> Label] /\ cell' \in [Thread -> Cell]
      /\ resume' \in [Thread -> [pc : Label, cell : Cell]]
      /\ pc'[t] = "departShard" /\ cell'[t] = p /\ resume'[t] = again
      /\ \A u \in Thread \ {t} : /\ pc'[u] = pc[u] /\ cell'[u] = cell[u]
                                 /\ resume'[u] = resume[u]
  <2>1. "departShard" \in Label
    BY DEF Label, ShardLabel
  <2> QED
    BY <1>1, <1>4, <2>1, TakeBackRow
<1>6. /\ saved' \in [Thread -> [Cell -> SUBSET Flags]]
      /\ saved'[t][n] = f
      /\ \A d \in Cell \ {n} : saved'[t][d] = saved[t][d]
      /\ \A u \in Thread \ {t} : saved'[u] = saved[u]
  <2>1. saved \in [Thread -> [Cell -> SUBSET Flags]]
    BY DEF WalkTypes
  <2>2. saved' = [saved EXCEPT ![t] = [saved[t] EXCEPT ![n] = f]]
    BY <1>4, <2>1
  <2> QED
    BY <1>1, <2>1, <2>2
<1>7. /\ from' \in [Thread -> [Node -> Node \cup {NoNode}]]
      /\ from'[t][Parent[n]] = m
      /\ \A k \in Node \ {Parent[n]} : from'[t][k] = from[t][k]
      /\ \A u \in Thread \ {t} : from'[u] = from[u]
  <2>1. from \in [Thread -> [Node -> Node \cup {NoNode}]]
    BY DEF WalkTypes
  <2>2. from' = [from EXCEPT ![t] = [from[t] EXCEPT ![Parent[n]] = m]]
    BY <1>4, <2>1
  <2>3. m \in Node \cup {NoNode}
    BY <1>1, <1>4, <2>1
  <2> QED
    BY <1>1, <2>1, <2>2, <2>3
<1>8. WordTypes' /\ WalkTypes'
  BY <1>3, <1>5, <1>6, <1>7 DEF WordTypes, WalkTypes
<1>9. CountsExact'
  <2>1. /\ \A q : LocalTokens(q)' = LocalTokens(q) /\ KidTokens(q)' = KidTokens(q)
        /\ \A k : ShardTokens(k)' = ShardTokens(k)
    BY <1>1, <1>3, <1>5
       DEF LocalTokens, KidTokens, ShardTokens, KidInFlight, ShardInFlight
  <2> QED
    BY <1>3, <2>1 DEF CountsExact, LocalExact, KidsExact, ShardsExact,
                      UnarrivedEmpty
<1>10. ControlOK'
  <2>1. WordsLinked'
    BY <1>3 DEF ControlOK, WordsLinked
  <2>2. WalkOK(t)'
    <3>1. \A c \in Cell : ARRIVED \notin saved'[t][c]
      BY <1>4, <1>6 DEF ControlOK, WalkOK
    <3>2. \A k \in Node : from'[t][k] # NoNode =>
            from'[t][k] \in Child /\ Parent[from'[t][k]] = k
      BY <1>1, <1>4, <1>7 DEF ControlOK, WalkOK
    <3>3. /\ OnTrack(t, resume'[t].pc, resume'[t].cell)
          /\ resume'[t].pc \in {"arriveShard", "arriveNode"}
      BY <1>1, <1>4, <1>5 DEF OnTrack, ShardLabel, NodeLabel
    <3> QED
      BY <1>1, <1>3, <1>5, <3>1, <3>2, <3>3
         DEF ControlOK, WalkOK, OnTrack, ShardLabel, NodeLabel, Departing
  <2>3. \A u \in Thread \ {t} : SameRow(u)
    BY <1>3, <1>5, <1>6, <1>7 DEF SameRow
  <2>4. \A u \in Thread : MakingOK(u)'
    BY <1>2, <1>3, <2>3, SameMaking
  <2> QED
    BY <2>1, <2>2, <2>3, <2>4, OthersWalk DEF ControlOK
<1> QED
  BY <1>8, <1>9, <1>10

(* The compare_exchange of Inner::arrive.                                  *)
LEMMA CasNodeStep ==
  ASSUME CoreInv, NEW t \in Thread, CasNode(t)
  PROVE  CoreInv'
<1>1. cell[t] \in Child
  BY DEF CoreInv, CasNode, At, ControlOK, WalkOK, OnTrack
<1> QED
  BY <1>1, CasNodeWin, CasNodeLose

(* A departing thread that returns goes on with the arrival it took back.  *)
LEMMA ReturnControl ==
  ASSUME CoreInv, NEW t \in Thread, Return(t), pc[t] \in Departing,
         UNCHANGED <<home, from, saved, making>>,
         \A u \in Thread \ {t} : seen'[u] = seen[u], WordsLinked'
  PROVE  ControlOK'
<1> USE DEF CoreInv
<1>1. /\ pc'[t] = resume[t].pc /\ cell'[t] = resume[t].cell
      /\ resume'[t] = Idling
      /\ pc'[t] \in {"idle", "arriveShard", "arriveNode"}
      /\ \A u \in Thread \ {t} : /\ pc'[u] = pc[u] /\ cell'[u] = cell[u]
                                 /\ resume'[u] = resume[u]
  BY ReturnRow
<1>2. WalkOK(t)'
  BY <1>1 DEF ControlOK, WalkOK, OnTrack, Idling, ShardLabel, NodeLabel
<1>3. \A u \in Thread \ {t} : SameRow(u)
  BY <1>1 DEF SameRow
<1>4. pc'[t] \in Arriving \/ resume'[t].pc # "idle" => making[t] # NoGuard
  BY <1>1 DEF ControlOK, MakingOK, Idling, Arriving
<1>5. \A u \in Thread : MakingOK(u)'
  BY <1>3, <1>4, SameMaking
<1> QED
  BY <1>2, <1>3, <1>5, OthersWalk DEF ControlOK

(* A thread that starts a departure, or goes on departing.                 *)
LEMMA GoControl ==
  ASSUME CoreInv, NEW t \in Thread, NEW label \in Departing, NEW c \in Cell, Go(t, label, c),
         OnTrack(t, label, c),
         label \in {"notify", "unarrive"} /\ c \in Child =>
           /\ seen'[t].count = 0 /\ ARRIVED \in seen'[t].flags
           /\ seen'[t].at \in Shard,
         UNCHANGED <<home, from, saved, resume, making>>,
         \A u \in Thread \ {t} : seen'[u] = seen[u], WordsLinked'
  PROVE  ControlOK'
<1> USE DEF CoreInv
<1>1. label \in Label
  BY DEF Departing, Label, ShardLabel, NodeLabel
<1>2. /\ pc'[t] = label /\ cell'[t] = c
      /\ \A u \in Thread \ {t} : pc'[u] = pc[u] /\ cell'[u] = cell[u]
  BY <1>1, GoRow
<1>3. WalkOK(t)'
  BY <1>2 DEF ControlOK, WalkOK, OnTrack
<1>4. \A u \in Thread \ {t} : SameRow(u)
  BY <1>2 DEF SameRow
<1>5. pc'[t] \in Arriving \/ resume'[t].pc # "idle" => making[t] # NoGuard
  BY <1>2 DEF ControlOK, MakingOK, Arriving, Departing
<1>6. \A u \in Thread : MakingOK(u)'
  BY <1>4, <1>5, SameMaking
<1> QED
  BY <1>3, <1>4, <1>6, OthersWalk DEF ControlOK

(* Shard::depart takes a child's unit off the shard.                       *)
LEMMA DepartShardStep ==
  ASSUME CoreInv, NEW t \in Thread, DepartShard(t)
  PROVE  CoreInv'
<1> USE DEF CoreInv
<1>0. PICK s \in Shard : s = cell[t]
  BY DEF DepartShard, At, ControlOK, WalkOK, OnTrack, ShardLabel
<1> DEFINE w == [shardState[s] EXCEPT !.kids = @ - 1]
<1>1. /\ pc[t] = "departShard" /\ s \in Cell
      /\ shardState' = [shardState EXCEPT ![s] = w]
      /\ UNCHANGED <<nodeState, home, from, saved, seen, making>>
      /\ \/ Go(t, "flush", s) /\ UNCHANGED resume
         \/ Return(t)
  BY <1>0 DEF DepartShard, At, owners, Cell
<1>2. t \in KidTokens(s)
  BY <1>0, <1>1 DEF KidTokens, KidInFlight
<1>3. shardState[s].kids \in Nat \ {0}
  BY <1>2, TokensFinite, CardRemove DEF CountsExact, KidsExact
<1>4. /\ w \in ShardWord /\ w.flags = shardState[s].flags
      /\ w.local = shardState[s].local /\ w.kids = shardState[s].kids - 1
      /\ ARRIVED \in shardState[s].flags
  <2>1. shardState[s] \in ShardWord
    BY DEF WordTypes
  <2> QED
    BY <1>3, <2>1 DEF ShardWord, CountsExact, UnarrivedEmpty
<1>5. /\ pc' \in [Thread -> Label] /\ cell' \in [Thread -> Cell]
      /\ resume' \in [Thread -> [pc : Label, cell : Cell]]
      /\ pc'[t] \in {"flush", "idle", "arriveShard", "arriveNode"}
      /\ \A u \in Thread \ {t} : pc'[u] = pc[u] /\ cell'[u] = cell[u]
  <2>1. CASE Go(t, "flush", s) /\ UNCHANGED resume
    BY <1>1, <2>1, GoRow DEF Label, ShardLabel, WalkTypes
  <2>2. CASE Return(t)
    BY <2>2, ReturnRow
  <2> QED
    BY <1>1, <2>1, <2>2
<1>6. WordTypes' /\ WalkTypes'
  BY <1>1, <1>4, <1>5 DEF WordTypes, WalkTypes
<1>7. LocalExact'
  BY <1>1, <1>4 DEF CountsExact, LocalExact, LocalTokens, WordTypes
<1>8. KidsExact'
  <2>1. KidTokens(s)' = KidTokens(s) \ {t}
    BY <1>0, <1>1, <1>5, ThreadAssumption DEF KidTokens, KidInFlight, Child
  <2>2. \A q \in Shard \ {s} : KidTokens(q)' = KidTokens(q)
    BY <1>0, <1>1, <1>5 DEF KidTokens, KidInFlight
  <2>3. Cardinality(KidTokens(s)') = Cardinality(KidTokens(s)) - 1
    BY <1>2, <2>1, TokensFinite, CardRemove
  <2> QED
    BY <1>1, <1>4, <2>2, <2>3 DEF CountsExact, KidsExact, WordTypes
<1>9. ShardsExact'
  <2>1. \A n : ShardTokens(n)' = ShardTokens(n)
    BY <1>0, <1>1, <1>4, <1>5 DEF ShardTokens, ShardInFlight, Shards, WordTypes
  <2> QED
    BY <1>1, <2>1 DEF CountsExact, ShardsExact
<1>10. UnarrivedEmpty'
  BY <1>1, <1>4 DEF CountsExact, UnarrivedEmpty, WordTypes
<1>11. ControlOK'
  <2>1. WordsLinked' /\ pc[t] \in Departing
    BY <1>1 DEF ControlOK, WordsLinked, Departing
  <2>2. CASE Return(t)
    BY <1>1, <2>1, <2>2, ReturnControl
  <2>3. CASE Go(t, "flush", s) /\ UNCHANGED resume
    <3>1. "flush" \in Departing /\ OnTrack(t, "flush", s)
      BY DEF OnTrack, Departing, ShardLabel, NodeLabel
    <3> QED
      BY <1>1, <2>1, <2>3, <3>1, GoControl
  <2> QED
    BY <1>1, <2>2, <2>3
<1> QED
  BY <1>6, <1>7, <1>8, <1>9, <1>10, <1>11 DEF CountsExact

(* Shard::flush: the unit of an empty, stopped shard becomes a departure in*)
(* flight, or the shard is in use again and nothing happens.               *)
LEMMA FlushStep ==
  ASSUME CoreInv, NEW t \in Thread, Flush(t)
  PROVE  CoreInv'
<1> USE DEF CoreInv
<1>0. PICK s \in Shard : s = cell[t]
  BY DEF Flush, At, ControlOK, WalkOK, OnTrack, ShardLabel
<1> DEFINE n == NodeOf[s]
<1>1. /\ pc[t] = "flush" /\ n \in Node /\ n \in Cell
      /\ UNCHANGED <<nodeState, home, from, saved, seen, making>>
      /\ WordsLinked' /\ pc[t] \in Departing
  BY <1>0, ShardAssumption
     DEF Flush, At, owners, Cell, Departing, ControlOK, WordsLinked
<1>2. CASE shardState[s] = EmptyShard({ARRIVED, STOPPED})
  <2>1. /\ shardState' = [shardState EXCEPT ![s] = Flushed]
        /\ Go(t, "departNode", n) /\ UNCHANGED resume
    BY <1>0, <1>2 DEF Flush
  <2>2. /\ pc' \in [Thread -> Label] /\ cell' \in [Thread -> Cell]
        /\ pc'[t] = "departNode" /\ cell'[t] = n
        /\ \A u \in Thread \ {t} : pc'[u] = pc[u] /\ cell'[u] = cell[u]
    BY <1>1, <2>1, GoRow DEF Label, NodeLabel
  <2>3. /\ Flushed \in ShardWord /\ ARRIVED \notin Flushed.flags
        /\ Flushed.local = 0 /\ Flushed.kids = 0
        /\ shardState[s].local = 0 /\ shardState[s].kids = 0
        /\ ARRIVED \in shardState[s].flags
    BY <1>2 DEF Flushed, EmptyShard, ShardWord, Flags, ARRIVED, STOPPED
  <2>4. WordTypes' /\ WalkTypes'
    BY <1>1, <2>1, <2>2, <2>3 DEF WordTypes, WalkTypes
  <2>5. LocalExact' /\ KidsExact'
    <3>1. \A q : LocalTokens(q)' = LocalTokens(q) /\ KidTokens(q)' = KidTokens(q)
      BY <1>1, <2>2 DEF LocalTokens, KidTokens, KidInFlight
    <3> QED
      BY <2>1, <2>3, <3>1 DEF CountsExact, LocalExact, KidsExact, WordTypes
  <2>6. ShardsExact'
    <3>1. s \in ShardTokens(n) /\ t \notin ShardTokens(n)
      BY <1>1, <2>3, ThreadAssumption DEF ShardTokens, ShardInFlight, Shards
    <3>2. ShardTokens(n)' = (ShardTokens(n) \ {s}) \cup {t}
      BY <2>1, <2>2, <2>3, ThreadAssumption
         DEF ShardTokens, ShardInFlight, Shards, WordTypes
    <3>3. \A k \in Node \ {n} : ShardTokens(k)' = ShardTokens(k)
      BY <1>1, <2>1, <2>2 DEF ShardTokens, ShardInFlight, Shards, WordTypes
    <3>4. Cardinality(ShardTokens(n)') = Cardinality(ShardTokens(n))
      BY <3>1, <3>2, TokensFinite, CardSwap
    <3> QED
      BY <1>1, <3>3, <3>4 DEF CountsExact, ShardsExact
  <2>7. UnarrivedEmpty'
    BY <1>1, <2>1, <2>3 DEF CountsExact, UnarrivedEmpty, WordTypes
  <2>8. ControlOK'
    <3>1. "departNode" \in Departing /\ OnTrack(t, "departNode", n)
      BY <1>1 DEF OnTrack, Departing, ShardLabel, NodeLabel
    <3> QED
      BY <1>1, <2>1, <3>1, GoControl
  <2> QED
    BY <2>4, <2>5, <2>6, <2>7, <2>8 DEF CountsExact
<1>3. CASE shardState[s] # EmptyShard({ARRIVED, STOPPED})
  <2>1. Return(t) /\ UNCHANGED shardState
    BY <1>0, <1>3 DEF Flush
  <2>2. /\ pc' \in [Thread -> Label] /\ cell' \in [Thread -> Cell]
        /\ resume' \in [Thread -> [pc : Label, cell : Cell]]
        /\ pc'[t] \in {"idle", "arriveShard", "arriveNode"}
        /\ \A u \in Thread \ {t} : pc'[u] = pc[u] /\ cell'[u] = cell[u]
    BY <2>1, ReturnRow
  <2>3. WordTypes' /\ WalkTypes'
    BY <1>1, <2>1, <2>2 DEF WordTypes, WalkTypes
  <2>4. CountsExact'
    <3>1. /\ \A q : LocalTokens(q)' = LocalTokens(q) /\ KidTokens(q)' = KidTokens(q)
          /\ \A k : ShardTokens(k)' = ShardTokens(k)
      BY <1>1, <2>1, <2>2
         DEF LocalTokens, KidTokens, ShardTokens, KidInFlight, ShardInFlight
    <3> QED
      BY <1>1, <2>1, <3>1 DEF CountsExact, LocalExact, KidsExact, ShardsExact,
                              UnarrivedEmpty
  <2>5. ControlOK'
    BY <1>1, <2>1, ReturnControl
  <2> QED
    BY <2>3, <2>4, <2>5
<1> QED
  BY <1>2, <1>3

(* The shard's unit leaves its node, and what is left decides what the     *)
(* departing thread does next.                                             *)
LEMMA DepartNodeStep ==
  ASSUME CoreInv, NEW t \in Thread, DepartNode(t)
  PROVE  CoreInv'
<1> USE DEF CoreInv
<1>0. PICK n \in Node : n = cell[t]
  BY DEF DepartNode, At, ControlOK, WalkOK, OnTrack, NodeLabel
<1> DEFINE w == [nodeState[n] EXCEPT !.count = @ - 1]
           next == AfterDeparture(n, w)
<1>1. /\ pc[t] = "departNode" /\ n \in Cell
      /\ nodeState' = [nodeState EXCEPT ![n] = w]
      /\ UNCHANGED <<shardState, home, from, saved, making>>
      /\ \/ next = "return" /\ Return(t) /\ UNCHANGED seen
         \/ /\ next # "return" /\ Go(t, next, n) /\ UNCHANGED resume
            /\ seen' = [seen EXCEPT ![t] = w]
  BY <1>0 DEF DepartNode, At, owners, Cell
<1>2. t \in ShardTokens(n)
  BY <1>0, <1>1 DEF ShardTokens, ShardInFlight
<1>3. nodeState[n].count \in Nat \ {0}
  BY <1>2, TokensFinite, CardRemove DEF CountsExact, ShardsExact
<1>4. /\ w \in NodeWord /\ w.flags = nodeState[n].flags
      /\ w.at = nodeState[n].at /\ w.count = nodeState[n].count - 1
  <2>1. nodeState[n] \in NodeWord
    BY DEF WordTypes
  <2> QED
    BY <1>3, <2>1 DEF NodeWord
<1>5. n \in Child => ARRIVED \in w.flags /\ w.at \in Shard
  BY <1>3, <1>4 DEF CountsExact, UnarrivedEmpty, ControlOK, WordsLinked
<1>6. /\ next \in {"return", "notify", "unarrive"}
      /\ next # "return" => w.count = 0
      /\ next = "unarrive" => n \in Child
  BY DEF AfterDeparture, Child
<1>7. /\ pc' \in [Thread -> Label] /\ cell' \in [Thread -> Cell]
      /\ resume' \in [Thread -> [pc : Label, cell : Cell]]
      /\ seen' \in [Thread -> NodeWord]
      /\ pc'[t] \in {"notify", "unarrive", "idle", "arriveShard", "arriveNode"}
      /\ \A u \in Thread \ {t} : /\ pc'[u] = pc[u] /\ cell'[u] = cell[u]
                                 /\ seen'[u] = seen[u]
  <2>1. CASE next = "return"
    BY <1>1, <2>1, ReturnRow DEF WalkTypes
  <2>2. CASE next # "return"
    <3>1. next \in Label
      BY <1>6, <2>2 DEF Label, NodeLabel
    <3>2. Go(t, next, n)
      BY <1>1, <2>2
    <3> HIDE DEF next
    <3>3. /\ pc' \in [Thread -> Label] /\ cell' \in [Thread -> Cell]
          /\ pc'[t] = next
          /\ \A u \in Thread \ {t} : pc'[u] = pc[u] /\ cell'[u] = cell[u]
      BY <1>1, <3>1, <3>2, GoRow
    <3> QED
      BY <1>1, <1>4, <1>6, <2>2, <3>3, ZenonT(60) DEF WalkTypes
  <2> QED
    BY <2>1, <2>2
<1>8. WordTypes' /\ WalkTypes'
  BY <1>1, <1>4, <1>7 DEF WordTypes, WalkTypes
<1>9. \A k \in Node : /\ nodeState'[k].flags = nodeState[k].flags
                      /\ nodeState'[k].at = nodeState[k].at
  BY <1>1, <1>4 DEF WordTypes
<1>10. LocalExact' /\ KidsExact'
  <2>1. \A q : LocalTokens(q)' = LocalTokens(q) /\ KidTokens(q)' = KidTokens(q)
    BY <1>1, <1>7, <1>9 DEF LocalTokens, KidTokens, KidInFlight, Child
  <2> QED
    BY <1>1, <2>1 DEF CountsExact, LocalExact, KidsExact
<1>11. ShardsExact'
  <2>1. ShardTokens(n)' = ShardTokens(n) \ {t}
    BY <1>0, <1>1, <1>7, ThreadAssumption DEF ShardTokens, ShardInFlight, Shards
  <2>2. \A k \in Node \ {n} : ShardTokens(k)' = ShardTokens(k)
    BY <1>0, <1>1, <1>7 DEF ShardTokens, ShardInFlight, Shards
  <2>3. Cardinality(ShardTokens(n)') = Cardinality(ShardTokens(n)) - 1
    BY <1>2, <2>1, TokensFinite, CardRemove
  <2>4. /\ nodeState'[n].count = nodeState[n].count - 1
        /\ \A k \in Node \ {n} : nodeState'[k].count = nodeState[k].count
    BY <1>1, <1>4 DEF WordTypes
  <2> QED
    BY <2>2, <2>3, <2>4 DEF CountsExact, ShardsExact
<1>12. UnarrivedEmpty'
  BY <1>1, <1>4, <1>5 DEF CountsExact, UnarrivedEmpty, WordTypes, Child
<1>13. ControlOK'
  <2>1. WordsLinked'
    BY <1>9 DEF ControlOK, WordsLinked, Child
  <2>2. pc[t] \in Departing
    BY <1>1 DEF Departing
  <2>3. CASE next = "return"
    BY <1>1, <1>7, <2>1, <2>2, <2>3, ReturnControl
  <2>4. CASE next # "return"
    <3>1. next \in Departing /\ OnTrack(t, next, n)
      BY <1>6, <2>4 DEF Departing, OnTrack, ShardLabel, NodeLabel
    <3>2. seen'[t] = w
      BY <1>1, <2>4 DEF WalkTypes
    <3>3. n \in Child => /\ seen'[t].count = 0 /\ ARRIVED \in seen'[t].flags
                         /\ seen'[t].at \in Shard
      BY <1>5, <1>6, <2>4, <3>2
    <3>4. Go(t, next, n) /\ UNCHANGED <<home, from, saved, resume, making>>
      BY <1>1, <2>4
    <3> HIDE DEF next
    <3> QED
      BY <1>1, <1>7, <2>1, <2>2, <3>1, <3>3, <3>4, GoControl
  <2> QED
    BY <2>3, <2>4
<1> QED
  BY <1>8, <1>10, <1>11, <1>12, <1>13 DEF CountsExact

(* The step on zero_event touches no word.                                 *)
LEMMA DepartNotifyStep ==
  ASSUME CoreInv, NEW t \in Thread, DepartNotify(t)
  PROVE  CoreInv'
<1> USE DEF CoreInv
<1>0. PICK n \in Node : n = cell[t]
  BY DEF DepartNotify, At, ControlOK, WalkOK, OnTrack, NodeLabel
<1>1. /\ pc[t] = "notify" /\ n \in Cell /\ pc[t] \in Departing
      /\ UNCHANGED <<shardState, nodeState, home, from, saved, making>>
      /\ \/ Return(t) /\ seen' = [seen EXCEPT ![t] = EmptyNode({})]
         \/ n # Root /\ Go(t, "unarrive", n) /\ UNCHANGED <<seen, resume>>
  BY <1>0 DEF DepartNotify, At, words, Cell, Departing
<1>2. EmptyNode({}) \in NodeWord
  BY DEF EmptyNode, NodeWord
<1>3. /\ pc' \in [Thread -> Label] /\ cell' \in [Thread -> Cell]
      /\ resume' \in [Thread -> [pc : Label, cell : Cell]]
      /\ seen' \in [Thread -> NodeWord]
      /\ pc'[t] \in {"unarrive", "idle", "arriveShard", "arriveNode"}
      /\ \A u \in Thread \ {t} : /\ pc'[u] = pc[u] /\ cell'[u] = cell[u]
                                 /\ seen'[u] = seen[u]
  <2>1. CASE Return(t) /\ seen' = [seen EXCEPT ![t] = EmptyNode({})]
    BY <1>2, <2>1, ReturnRow DEF WalkTypes
  <2>2. CASE n # Root /\ Go(t, "unarrive", n) /\ UNCHANGED <<seen, resume>>
    BY <1>1, <2>2, GoRow DEF Label, NodeLabel, WalkTypes
  <2> QED
    BY <1>1, <2>1, <2>2
<1>4. WordTypes' /\ WalkTypes'
  BY <1>1, <1>3 DEF WordTypes, WalkTypes
<1>5. CountsExact'
  <2>1. /\ \A q : LocalTokens(q)' = LocalTokens(q) /\ KidTokens(q)' = KidTokens(q)
        /\ \A k : ShardTokens(k)' = ShardTokens(k)
    BY <1>1, <1>3
       DEF LocalTokens, KidTokens, ShardTokens, KidInFlight, ShardInFlight
  <2> QED
    BY <1>1, <2>1 DEF CountsExact, LocalExact, KidsExact, ShardsExact,
                      UnarrivedEmpty
<1>6. ControlOK'
  <2>1. WordsLinked'
    BY <1>1 DEF ControlOK, WordsLinked
  <2>2. CASE Return(t)
    BY <1>1, <1>3, <2>1, <2>2, ReturnControl
  <2>3. CASE n # Root /\ Go(t, "unarrive", n) /\ UNCHANGED <<seen, resume>>
    <3>1. n \in Child /\ "unarrive" \in Departing /\ OnTrack(t, "unarrive", n)
      BY <2>3 DEF Child, Departing, OnTrack, ShardLabel, NodeLabel
    <3>2. /\ seen'[t].count = 0 /\ ARRIVED \in seen'[t].flags
          /\ seen'[t].at \in Shard
      BY <1>0, <1>1, <2>3, <3>1 DEF ControlOK, WalkOK
    <3> QED
      BY <1>1, <1>3, <2>1, <2>3, <3>1, <3>2, GoControl
  <2> QED
    BY <1>1, <2>2, <2>3
<1> QED
  BY <1>4, <1>5, <1>6

(* The child's arrival at its parent's shard becomes a departure in flight.*)
LEMMA UnarriveStep ==
  ASSUME CoreInv, NEW t \in Thread, Unarrive(t)
  PROVE  CoreInv'
<1> USE DEF CoreInv
<1>0. PICK n \in Child : n = cell[t]
  BY DEF Unarrive, At, ControlOK, WalkOK, OnTrack
<1> DEFINE w == Unarrived(seen[t])
<1>1. /\ pc[t] = "unarrive" /\ n \in Node /\ pc[t] \in Departing
      /\ UNCHANGED <<shardState, home, from, saved, making>>
      /\ seen' = [seen EXCEPT ![t] = EmptyNode({})]
  BY <1>0 DEF Unarrive, At, owners, Departing, Child
<1>2. EmptyNode({}) \in NodeWord
  BY DEF EmptyNode, NodeWord
<1>3. /\ seen' \in [Thread -> NodeWord]
      /\ \A u \in Thread \ {t} : seen'[u] = seen[u]
  BY <1>1, <1>2 DEF WalkTypes
<1>4. CASE nodeState[n] = seen[t]
  <2>1. /\ nodeState' = [nodeState EXCEPT ![n] = w]
        /\ Go(t, "departShard", seen[t].at) /\ UNCHANGED resume
    BY <1>0, <1>4 DEF Unarrive, StillEmpty
  <2>2. PICK p \in Shard : p = seen[t].at
    BY <1>0, <1>1 DEF ControlOK, WalkOK
  <2>3. /\ seen[t].count = 0 /\ ARRIVED \in nodeState[n].flags
        /\ nodeState[n].at = p /\ nodeState[n].count = 0 /\ p \in Cell
    BY <1>0, <1>1, <1>4, <2>2 DEF ControlOK, WalkOK, Cell
  <2>4. w \in NodeWord /\ ARRIVED \notin w.flags /\ w.count = 0
    <3>1. seen[t].flags \cap {STOPPED} \in SUBSET Flags
      BY DEF Flags
    <3> QED
      BY <3>1 DEF Unarrived, EmptyNode, NodeWord, ARRIVED, STOPPED
  <2>5. /\ pc' \in [Thread -> Label] /\ cell' \in [Thread -> Cell]
        /\ pc'[t] = "departShard" /\ cell'[t] = p
        /\ \A u \in Thread \ {t} : pc'[u] = pc[u] /\ cell'[u] = cell[u]
    BY <2>1, <2>2, <2>3, GoRow DEF Label, ShardLabel
  <2>6. WordTypes' /\ WalkTypes'
    BY <1>1, <1>3, <2>1, <2>4, <2>5 DEF WordTypes, WalkTypes
  <2>7. /\ nodeState'[n] = w
        /\ \A k \in Node \ {n} : nodeState'[k] = nodeState[k]
    BY <1>1, <2>1 DEF WordTypes
  <2> HIDE DEF w
  <2>8. LocalExact'
    BY <1>1 DEF CountsExact, LocalExact, LocalTokens
  <2>9. KidsExact'
    <3>1. n \in KidTokens(p) /\ t \notin KidTokens(p)
      BY <1>0, <1>1, <2>3, ThreadAssumption DEF KidTokens, KidInFlight, Child
    <3>2. KidTokens(p)' = (KidTokens(p) \ {n}) \cup {t}
      BY <1>0, <1>1, <2>3, <2>4, <2>5, <2>7, ThreadAssumption
         DEF KidTokens, KidInFlight, Child
    <3>3. \A q \in Shard \ {p} : KidTokens(q)' = KidTokens(q)
      BY <1>0, <1>1, <2>3, <2>4, <2>5, <2>7 DEF KidTokens, KidInFlight, Child
    <3>4. Cardinality(KidTokens(p)') = Cardinality(KidTokens(p))
      BY <3>1, <3>2, TokensFinite, CardSwap
    <3> QED
      BY <1>1, <3>3, <3>4 DEF CountsExact, KidsExact
  <2>10. ShardsExact'
    <3>1. \A k : ShardTokens(k)' = ShardTokens(k)
      BY <1>0, <1>1, <2>5 DEF ShardTokens, ShardInFlight, Shards
    <3> QED
      BY <2>3, <2>4, <2>7, <3>1 DEF CountsExact, ShardsExact
  <2>11. UnarrivedEmpty'
    BY <1>1, <2>4, <2>7 DEF CountsExact, UnarrivedEmpty, Child
  <2>12. WordsLinked'
    BY <2>4, <2>7 DEF ControlOK, WordsLinked, Child
  <2>13. ControlOK'
    <3>1. "departShard" \in Departing /\ OnTrack(t, "departShard", p)
      BY DEF OnTrack, Departing, ShardLabel, NodeLabel
    <3>2. Go(t, "departShard", p)
      BY <2>1, <2>2
    <3> QED
      BY <1>1, <1>3, <2>1, <2>3, <2>12, <3>1, <3>2, GoControl
  <2> QED
    BY <2>6, <2>8, <2>9, <2>10, <2>11, <2>13 DEF CountsExact
<1>5. CASE nodeState[n] # seen[t]
  <2>1. Return(t) /\ UNCHANGED nodeState
    BY <1>0, <1>5 DEF Unarrive, StillEmpty
  <2>2. /\ pc' \in [Thread -> Label] /\ cell' \in [Thread -> Cell]
        /\ resume' \in [Thread -> [pc : Label, cell : Cell]]
        /\ pc'[t] \in {"idle", "arriveShard", "arriveNode"}
        /\ \A u \in Thread \ {t} : pc'[u] = pc[u] /\ cell'[u] = cell[u]
    BY <2>1, ReturnRow
  <2>3. WordTypes' /\ WalkTypes'
    BY <1>1, <1>3, <2>1, <2>2 DEF WordTypes, WalkTypes
  <2>4. CountsExact'
    <3>1. /\ \A q : LocalTokens(q)' = LocalTokens(q) /\ KidTokens(q)' = KidTokens(q)
          /\ \A k : ShardTokens(k)' = ShardTokens(k)
      BY <1>1, <2>1, <2>2
         DEF LocalTokens, KidTokens, ShardTokens, KidInFlight, ShardInFlight
    <3> QED
      BY <1>1, <2>1, <3>1 DEF CountsExact, LocalExact, KidsExact, ShardsExact,
                              UnarrivedEmpty
  <2>5. ControlOK'
    <3>1. WordsLinked'
      BY <2>1 DEF ControlOK, WordsLinked
    <3> QED
      BY <1>1, <1>3, <2>1, <3>1, ReturnControl
  <2> QED
    BY <2>3, <2>4, <2>5
<1> QED
  BY <1>4, <1>5

-----------------------------------------------------------------------------
(* The agenda: steps that set a stop bit or start a flush.                 *)

(* The head of an agenda is a task, and so is everything behind it.        *)
LEMMA AgendaHead ==
  ASSUME OwnerTypes, NEW t \in Thread, agenda[t] # <<>>
  PROVE  /\ Head(agenda[t]) \in Task /\ Tail(agenda[t]) \in Seq(Task)
         /\ Head(agenda[t]).node \in Node
         /\ Head(agenda[t]).shards \in SUBSET Shard
         /\ Head(agenda[t]).kids \in SUBSET Child
<1>1. agenda[t] \in Seq(Task)
  BY DEF OwnerTypes
<1>2. Head(agenda[t]) \in Task /\ Tail(agenda[t]) \in Seq(Task)
  BY <1>1
<1> QED
  BY <1>2 DEF Task

(* Labels at which a thread is itself a unit of some count.                *)
CountingLabel == {"casShard", "casNode", "departShard", "departNode"}

(* A step that changes at most the stop bits, and moves threads only       *)
(* between labels that count for nothing, keeps every count exact.         *)
LEMMA CountsFrame ==
  ASSUME CoreInv, UNCHANGED home,
         \A s \in Shard : /\ shardState'[s].local = shardState[s].local
                          /\ shardState'[s].kids = shardState[s].kids
                          /\ ARRIVED \in shardState'[s].flags <=>
                               ARRIVED \in shardState[s].flags,
         \A n \in Node : /\ nodeState'[n].count = nodeState[n].count
                         /\ nodeState'[n].at = nodeState[n].at
                         /\ ARRIVED \in nodeState'[n].flags <=>
                              ARRIVED \in nodeState[n].flags,
         \A t \in Thread :
            \/ pc'[t] = pc[t] /\ cell'[t] = cell[t]
            \/ pc[t] \notin CountingLabel /\ pc'[t] \notin CountingLabel
  PROVE  CountsExact' /\ WordsLinked'
<1> USE DEF CoreInv
<1>1. \A s : LocalTokens(s)' = LocalTokens(s) /\ KidTokens(s)' = KidTokens(s)
  BY DEF LocalTokens, KidTokens, KidInFlight, Child, CountingLabel
<1>2. \A n : ShardTokens(n)' = ShardTokens(n)
  BY DEF ShardTokens, ShardInFlight, Shards, CountingLabel
<1>3. LocalExact' /\ KidsExact' /\ ShardsExact'
  BY <1>1, <1>2 DEF CountsExact, LocalExact, KidsExact, ShardsExact
<1>4. UnarrivedEmpty'
  BY DEF CountsExact, UnarrivedEmpty, Child
<1>5. WordsLinked'
  BY DEF ControlOK, WordsLinked, Child
<1> QED
  BY <1>3, <1>4, <1>5 DEF CountsExact

(* Inner::stop sets the stop bit of the node.                              *)
LEMMA StopStep ==
  ASSUME IInv, NEW t \in Thread, Stop(t)
  PROVE  CoreInv'
<1> USE DEF IInv, CoreInv
<1>0. PICK n \in Node : n = Head(agenda[t]).node
  BY AgendaHead DEF Stop, Doing
<1> DEFINE w == [nodeState[n] EXCEPT !.flags = @ \cup {STOPPED}]
<1>1. /\ nodeState' = [nodeState EXCEPT ![n] = w]
      /\ UNCHANGED <<shardState, home, pc, cell, from, saved, seen, resume, making>>
  BY <1>0 DEF Stop, walk, owners
<1>2. /\ w \in NodeWord /\ w.count = nodeState[n].count /\ w.at = nodeState[n].at
      /\ ARRIVED \in w.flags <=> ARRIVED \in nodeState[n].flags
  <2>1. nodeState[n] \in NodeWord
    BY DEF WordTypes
  <2> QED
    BY <2>1 DEF NodeWord, Flags, ARRIVED, STOPPED
<1>3. WordTypes' /\ WalkTypes'
  BY <1>1, <1>2 DEF WordTypes, WalkTypes
<1>4. CountsExact' /\ WordsLinked'
  <2>1. \A k \in Node : /\ nodeState'[k].count = nodeState[k].count
                        /\ nodeState'[k].at = nodeState[k].at
                        /\ ARRIVED \in nodeState'[k].flags <=>
                             ARRIVED \in nodeState[k].flags
    BY <1>1, <1>2 DEF WordTypes
  <2> QED
    BY <1>1, <2>1, CountsFrame
<1>5. ControlOK'
  BY <1>1, <1>4 DEF ControlOK, WalkOK, OnTrack, MakingOK
<1> QED
  BY <1>3, <1>4, <1>5

(* A thread at the head of its agenda starts a flush, or stays.            *)
LEMMA StartFlush ==
  ASSUME CoreInv, NEW t \in Thread, NEW s \in Shard, pc[t] = "idle",
         Go(t, "flush", s) \/ Stay,
         UNCHANGED <<nodeState, home, from, saved, seen, resume, making>>
  PROVE  /\ pc' \in [Thread -> Label] /\ cell' \in [Thread -> Cell]
         /\ WordsLinked' /\ ControlOK'
         /\ \A u \in Thread : \/ pc'[u] = pc[u] /\ cell'[u] = cell[u]
                              \/ pc[u] \notin CountingLabel /\ pc'[u] \notin CountingLabel
<1> USE DEF CoreInv
<1>1. WordsLinked'
  BY DEF ControlOK, WordsLinked
<1>2. CASE Stay
  BY <1>1, <1>2 DEF Stay, ControlOK, WalkOK, OnTrack, MakingOK, WalkTypes
<1>3. CASE Go(t, "flush", s)
  <2>1. "flush" \in Label /\ s \in Cell
    BY DEF Label, ShardLabel, Cell
  <2>2. /\ pc' \in [Thread -> Label] /\ cell' \in [Thread -> Cell]
        /\ pc'[t] = "flush"
        /\ \A u \in Thread \ {t} : pc'[u] = pc[u] /\ cell'[u] = cell[u]
    BY <1>3, <2>1, GoRow
  <2>3. "flush" \in Departing /\ OnTrack(t, "flush", s)
    BY DEF OnTrack, Departing, ShardLabel, NodeLabel
  <2>4. ControlOK'
    BY <1>1, <1>3, <2>1, <2>3, GoControl
  <2> QED
    BY <1>1, <2>2, <2>4 DEF CountingLabel
<1> QED
  BY <1>2, <1>3

(* Shard::stop sets the stop bit of one shard.                             *)
LEMMA LatchStep ==
  ASSUME IInv, NEW t \in Thread, Latch(t)
  PROVE  CoreInv'
<1> USE DEF IInv, CoreInv
<1>1. Head(agenda[t]).shards \in SUBSET Shard /\ pc[t] = "idle"
  BY AgendaHead DEF Latch, Doing
<1>2. PICK s \in Shard :
        /\ shardState' = [shardState EXCEPT ![s].flags = @ \cup {STOPPED}]
        /\ Go(t, "flush", s) \/ Stay
  BY <1>1 DEF Latch
<1>3. UNCHANGED <<nodeState, home, from, saved, seen, resume, making>>
  BY DEF Latch, owners
<1> DEFINE w == [shardState[s] EXCEPT !.flags = @ \cup {STOPPED}]
<1>4. /\ w \in ShardWord /\ w.local = shardState[s].local
      /\ w.kids = shardState[s].kids
      /\ ARRIVED \in w.flags <=> ARRIVED \in shardState[s].flags
  <2>1. shardState[s] \in ShardWord
    BY DEF WordTypes
  <2> QED
    BY <2>1 DEF ShardWord, Flags, ARRIVED, STOPPED
<1>5. shardState' = [shardState EXCEPT ![s] = w]
  BY <1>2
<1>6. /\ pc' \in [Thread -> Label] /\ cell' \in [Thread -> Cell] /\ ControlOK'
      /\ \A u \in Thread : \/ pc'[u] = pc[u] /\ cell'[u] = cell[u]
                           \/ pc[u] \notin CountingLabel /\ pc'[u] \notin CountingLabel
  BY <1>1, <1>2, <1>3, StartFlush
<1>7. WordTypes' /\ WalkTypes'
  BY <1>3, <1>4, <1>5, <1>6 DEF WordTypes, WalkTypes
<1>8. CountsExact'
  <2>1. \A q \in Shard : /\ shardState'[q].local = shardState[q].local
                         /\ shardState'[q].kids = shardState[q].kids
                         /\ ARRIVED \in shardState'[q].flags <=>
                              ARRIVED \in shardState[q].flags
    BY <1>4, <1>5 DEF WordTypes
  <2> QED
    BY <1>3, <1>6, <2>1, CountsFrame
<1> QED
  BY <1>6, <1>7, <1>8

(* A dropped root guard reaches its node through the Weak.                 *)
LEMMA UpgradeStep ==
  ASSUME IInv, NEW t \in Thread, Upgrade(t)
  PROVE  CoreInv'
<1> USE DEF IInv, CoreInv
<1>1. Head(agenda[t]).shards \in SUBSET Shard /\ pc[t] = "idle"
  BY AgendaHead DEF Upgrade, Doing
<1>2. PICK s \in Shard : Go(t, "flush", s) \/ Stay
  BY <1>1 DEF Upgrade
<1>3. UNCHANGED <<shardState, nodeState, home, from, saved, seen, resume, making>>
  BY DEF Upgrade, words, owners
<1>4. /\ pc' \in [Thread -> Label] /\ cell' \in [Thread -> Cell] /\ ControlOK'
      /\ \A u \in Thread : \/ pc'[u] = pc[u] /\ cell'[u] = cell[u]
                           \/ pc[u] \notin CountingLabel /\ pc'[u] \notin CountingLabel
  BY <1>1, <1>2, <1>3, StartFlush
<1>5. WordTypes' /\ WalkTypes'
  BY <1>3, <1>4 DEF WordTypes, WalkTypes
<1>6. CountsExact'
  BY <1>3, <1>4, CountsFrame
<1> QED
  BY <1>4, <1>5, <1>6

-----------------------------------------------------------------------------
(* Operations on guards.                                                   *)

(* An idle thread sets out to create a free guard.                         *)
LEMMA StartMaking ==
  ASSUME CoreInv, NEW t \in Thread, NEW g \in Guard, pc[t] = "idle", FreeGuard(g),
         making' = [making EXCEPT ![t] = g],
         NEW label \in {"arriveShard", "guarded"}, NEW c \in Cell,
         OnTrack(t, label, c), Go(t, label, c),
         UNCHANGED <<shardState, nodeState, home, from, saved, seen, resume>>
  PROVE  CoreInv'
<1> USE DEF CoreInv
<1>1. /\ pc' \in [Thread -> Label] /\ cell' \in [Thread -> Cell]
      /\ pc'[t] = label /\ cell'[t] = c
      /\ \A u \in Thread \ {t} : pc'[u] = pc[u] /\ cell'[u] = cell[u]
  <2>1. label \in Label
    BY DEF Label, ShardLabel, NodeLabel
  <2> QED
    BY <2>1, GoRow
<1>2. /\ making' \in [Thread -> Guard \cup {NoGuard}] /\ making'[t] = g
      /\ \A u \in Thread \ {t} : making'[u] = making[u]
  BY DEF WalkTypes
<1>3. WordTypes' /\ WalkTypes'
  BY <1>1, <1>2 DEF WordTypes, WalkTypes
<1>4. CountsExact' /\ WordsLinked'
  <2>1. \A u \in Thread : \/ pc'[u] = pc[u] /\ cell'[u] = cell[u]
                          \/ pc[u] \notin CountingLabel /\ pc'[u] \notin CountingLabel
    BY <1>1 DEF CountingLabel
  <2> QED
    BY <2>1, CountsFrame
<1>5. ControlOK'
  <2>1. resume[t].pc = "idle"
    BY DEF ControlOK, WalkOK, Departing
  <2>2. WalkOK(t)'
    BY <1>1, <2>1 DEF ControlOK, WalkOK, OnTrack
  <2>3. \A u \in Thread \ {t} : SameRow(u)
    BY <1>1 DEF SameRow
  <2>4. g # NoGuard
    BY ThreadAssumption
  <2>5. \A u \in Thread : MakingOK(u)'
    BY <1>1, <1>2, <2>4 DEF ControlOK, MakingOK, FreeGuard
  <2> QED
    BY <1>4, <2>2, <2>3, <2>5, OthersWalk DEF ControlOK
<1> QED
  BY <1>3, <1>4, <1>5

(* Swansong::guard.                                                        *)
LEMMA NewGuardStep ==
  ASSUME CoreInv, NEW t \in Thread, NEW n \in Node, NEW g \in Guard,
         NewGuard(t, n, g)
  PROVE  CoreInv'
<1> DEFINE s == MyShard[t][n]
<1>1. s \in Shard /\ s \in Cell /\ NodeOf[s] = n
  BY ShardAssumption DEF Cell
<1>2. OnTrack(t, "arriveShard", s)
  BY <1>1 DEF OnTrack, ShardLabel, NodeLabel
<1>3. /\ pc[t] = "idle" /\ FreeGuard(g) /\ making' = [making EXCEPT ![t] = g]
      /\ Go(t, "arriveShard", s)
      /\ UNCHANGED <<shardState, nodeState, home, from, saved, seen, resume>>
  BY DEF NewGuard, Idle, words, owners
<1> HIDE DEF s
<1> QED
  BY <1>1, <1>2, <1>3, StartMaking

(* A guard that is cloned, or created on a root shard that has arrived,    *)
(* only raises that shard's local count.                                   *)
LEMMA GuardOnArrived ==
  ASSUME CoreInv, NEW g \in Guard, NEW s \in Shard, FreeGuard(g),
         ARRIVED \in shardState[s].flags,
         shardState' = [shardState EXCEPT ![s].local = @ + 1],
         home' = [home EXCEPT ![g] = s],
         UNCHANGED <<nodeState, pc, cell, from, saved, seen, resume, making>>
  PROVE  CoreInv'
<1> DEFINE w == [shardState[s] EXCEPT !.local = @ + 1]
<1> USE DEF CoreInv
<1>1. NoShard \notin Shard
  BY ShardAssumption
<1>2. /\ w \in ShardWord /\ w.local = shardState[s].local + 1
      /\ w.kids = shardState[s].kids /\ w.flags = shardState[s].flags
  <2>1. shardState[s] \in ShardWord
    BY DEF WordTypes
  <2> QED
    BY <2>1 DEF ShardWord
<1>3. shardState'[s] = w /\ \A q \in Shard \ {s} : shardState'[q] = shardState[q]
  BY DEF WordTypes
<1>4. WordTypes' /\ WalkTypes'
  <2>1. shardState' = [shardState EXCEPT ![s] = w]
    OBVIOUS
  <2> QED
    BY <1>2, <2>1 DEF WordTypes, WalkTypes
<1> HIDE DEF w
<1>5. LocalExact'
  <2>1. LocalTokens(s)' = LocalTokens(s) \cup {g} /\ g \notin LocalTokens(s)
    BY <1>1 DEF LocalTokens, WordTypes, FreeGuard
  <2>2. \A q \in Shard \ {s} : LocalTokens(q)' = LocalTokens(q)
    BY <1>1 DEF LocalTokens, WordTypes, FreeGuard
  <2>3. Cardinality(LocalTokens(s)') = Cardinality(LocalTokens(s)) + 1
    BY <2>1, TokensFinite, CardAdd
  <2> QED
    BY <1>2, <1>3, <2>2, <2>3 DEF CountsExact, LocalExact
<1>6. KidsExact' /\ ShardsExact'
  <2>1. \A q : KidTokens(q)' = KidTokens(q)
    BY DEF KidTokens, KidInFlight
  <2>2. \A k : ShardTokens(k)' = ShardTokens(k)
    BY <1>2, <1>3 DEF ShardTokens, ShardInFlight, Shards
  <2> QED
    BY <1>2, <1>3, <2>1, <2>2 DEF CountsExact, KidsExact, ShardsExact
<1>7. UnarrivedEmpty'
  BY <1>2, <1>3 DEF CountsExact, UnarrivedEmpty
<1>8. ControlOK'
  <2>1. WordsLinked' /\ \A u \in Thread : WalkOK(u)'
    BY DEF ControlOK, WordsLinked, WalkOK, OnTrack
  <2>2. \A u \in Thread : MakingOK(u)'
    BY DEF ControlOK, MakingOK, FreeGuard, WordTypes, WalkTypes
  <2> QED
    BY <2>1, <2>2 DEF ControlOK
<1> QED
  BY <1>4, <1>5, <1>6, <1>7, <1>8 DEF CountsExact

(* Guard::for_shard.                                                       *)
LEMMA ForShardStep ==
  ASSUME CoreInv, NEW t \in Thread, NEW s \in Shard, NEW g \in Guard,
         ForShard(t, s, g)
  PROVE  CoreInv'
<1> DEFINE n == NodeOf[s]
<1>1. n \in Node /\ n \in Cell
  BY ShardAssumption DEF Cell
<1>2. /\ pc[t] = "idle" /\ FreeGuard(g)
      /\ UNCHANGED <<nodeState, from, saved, seen, resume>>
  BY DEF ForShard, Idle
<1>3. CASE n = Root /\ ARRIVED \in shardState[s].flags
  <2>1. /\ shardState' = [shardState EXCEPT ![s].local = @ + 1]
        /\ home' = [home EXCEPT ![g] = s]
        /\ UNCHANGED <<pc, cell, making>>
    BY <1>3 DEF ForShard, Stay
  <2> QED
    BY <1>2, <1>3, <2>1, GuardOnArrived
<1>4. CASE n # Root \/ ARRIVED \notin shardState[s].flags
  <2>1. /\ making' = [making EXCEPT ![t] = g] /\ Go(t, "guarded", n)
        /\ UNCHANGED <<shardState, home>>
    BY <1>4 DEF ForShard
  <2>2. OnTrack(t, "guarded", n)
    BY <1>1 DEF OnTrack, ShardLabel, NodeLabel
  <2> HIDE DEF n
  <2> QED
    BY <1>1, <1>2, <2>1, <2>2, StartMaking
<1> QED
  BY <1>3, <1>4

(* A live guard is on a shard that counts it, and so has arrived.          *)
LEMMA GuardHome ==
  ASSUME CoreInv, NEW g \in Guard, home[g] # NoShard
  PROVE  /\ home[g] \in Shard
         /\ g \in LocalTokens(home[g])
         /\ shardState[home[g]].local \in Nat \ {0}
         /\ ARRIVED \in shardState[home[g]].flags
<1> USE DEF CoreInv
<1>1. home[g] \in Shard
  BY DEF WordTypes
<1>2. g \in LocalTokens(home[g])
  BY DEF LocalTokens
<1>3. Cardinality(LocalTokens(home[g])) \in Nat \ {0}
  BY <1>2, TokensFinite, CardRemove
<1>4. shardState[home[g]].local \in Nat \ {0}
  BY <1>1, <1>3 DEF CountsExact, LocalExact
<1> QED
  BY <1>1, <1>2, <1>4 DEF CountsExact, UnarrivedEmpty

(* Clone for Guard.                                                        *)
LEMMA CloneGuardStep ==
  ASSUME CoreInv, NEW t \in Thread, NEW g \in Guard, NEW g2 \in Guard,
         CloneGuard(t, g, g2)
  PROVE  CoreInv'
<1>1. PICK s \in Shard : s = home[g] /\ ARRIVED \in shardState[s].flags
  BY GuardHome DEF CloneGuard
<1>2. /\ FreeGuard(g2)
      /\ shardState' = [shardState EXCEPT ![s].local = @ + 1]
      /\ home' = [home EXCEPT ![g2] = s]
      /\ UNCHANGED <<nodeState, pc, cell, from, saved, seen, resume, making>>
  BY <1>1 DEF CloneGuard, walk
<1> QED
  BY <1>1, <1>2, GuardOnArrived

(* Drop for Guard.                                                         *)
LEMMA DropGuardStep ==
  ASSUME CoreInv, NEW t \in Thread, NEW g \in Guard, DropGuard(t, g)
  PROVE  CoreInv'
<1> USE DEF CoreInv
<1>1. home[g] # NoShard
  BY DEF DropGuard
<1>2. PICK s \in Shard :
        /\ s = home[g] /\ g \in LocalTokens(s) /\ ARRIVED \in shardState[s].flags
        /\ shardState[s].local \in Nat \ {0}
  BY <1>1, GuardHome
<1> DEFINE w == [shardState[s] EXCEPT !.local = @ - 1]
<1>3. /\ pc[t] = "idle" /\ shardState' = [shardState EXCEPT ![s] = w]
      /\ home' = [home EXCEPT ![g] = NoShard]
      /\ Go(t, "flush", s) \/ Stay
      /\ UNCHANGED <<nodeState, from, saved, seen, resume, making>>
  BY <1>2 DEF DropGuard, Idle
<1>4. /\ w \in ShardWord /\ w.local = shardState[s].local - 1
      /\ w.kids = shardState[s].kids /\ w.flags = shardState[s].flags
  <2>1. shardState[s] \in ShardWord
    BY DEF WordTypes
  <2> QED
    BY <1>2, <2>1 DEF ShardWord
<1>5. shardState'[s] = w /\ \A q \in Shard \ {s} : shardState'[q] = shardState[q]
  BY <1>3 DEF WordTypes
<1>6. /\ pc' \in [Thread -> Label] /\ cell' \in [Thread -> Cell]
      /\ \A u \in Thread \ {t} : pc'[u] = pc[u] /\ cell'[u] = cell[u]
      /\ \/ pc'[t] = pc[t] /\ cell'[t] = cell[t]
         \/ pc'[t] = "flush" /\ cell'[t] = s
  <2>1. CASE Stay
    BY <2>1 DEF Stay, WalkTypes
  <2>2. CASE Go(t, "flush", s)
    BY <2>2, GoRow DEF Label, ShardLabel, Cell
  <2> QED
    BY <1>3, <2>1, <2>2
<1>7. WordTypes' /\ WalkTypes'
  BY <1>3, <1>4, <1>6 DEF WordTypes, WalkTypes
<1> HIDE DEF w
<1>8. LocalExact'
  <2>1. LocalTokens(s)' = LocalTokens(s) \ {g}
    BY <1>2, <1>3, ShardAssumption DEF LocalTokens, WordTypes
  <2>2. \A q \in Shard \ {s} : LocalTokens(q)' = LocalTokens(q)
    BY <1>2, <1>3, ShardAssumption DEF LocalTokens, WordTypes
  <2>3. Cardinality(LocalTokens(s)') = Cardinality(LocalTokens(s)) - 1
    BY <1>2, <2>1, TokensFinite, CardRemove
  <2> QED
    BY <1>4, <1>5, <2>2, <2>3 DEF CountsExact, LocalExact
<1>9. KidsExact' /\ ShardsExact'
  <2>1. \A q : KidTokens(q)' = KidTokens(q)
    BY <1>3, <1>6 DEF KidTokens, KidInFlight
  <2>2. \A k : ShardTokens(k)' = ShardTokens(k)
    BY <1>3, <1>4, <1>5, <1>6 DEF ShardTokens, ShardInFlight, Shards
  <2> QED
    BY <1>3, <1>4, <1>5, <2>1, <2>2 DEF CountsExact, KidsExact, ShardsExact
<1>10. UnarrivedEmpty'
  BY <1>2, <1>3, <1>4, <1>5 DEF CountsExact, UnarrivedEmpty
<1>11. ControlOK'
  <2>1. WordsLinked'
    BY <1>3 DEF ControlOK, WordsLinked
  <2>2. WalkOK(t)'
    BY <1>3, <1>6 DEF ControlOK, WalkOK, OnTrack, ShardLabel, NodeLabel, Departing
  <2>3. \A u \in Thread \ {t} : SameRow(u)
    BY <1>3, <1>6 DEF SameRow
  <2>4. \A u \in Thread : MakingOK(u)'
    BY <1>3, <1>6 DEF ControlOK, MakingOK, Arriving, WordTypes, WalkTypes
  <2> QED
    BY <2>1, <2>2, <2>3, <2>4, OthersWalk DEF ControlOK
<1> QED
  BY <1>7, <1>8, <1>9, <1>10, <1>11 DEF CountsExact

-----------------------------------------------------------------------------
(* Every step preserves the core, and the types of the owners.             *)

(* The walks, the stops, the operations on guards, and the steps that      *)
(* touch neither words nor walks, together.                                *)
LEMMA CoreNext ==
  ASSUME IInv, [Next]_vars
  PROVE  CoreInv'
<1>0. CoreInv
  BY DEF IInv
<1>1. CASE UNCHANGED vars
  BY <1>0, <1>1, CoreFrame DEF vars, core, words, owners, walk
<1>2. ASSUME NEW n \in Node, Poll(n) PROVE CoreInv'
  BY <1>0, <1>2, CoreFrame DEF Poll, core, words
<1>3. ASSUME NEW t \in Thread, Walk(t) PROVE CoreInv'
  BY <1>0, <1>3, GuardedStep, ArriveShardStep, ArriveNodeStep, CasShardStep,
     CasNodeStep, DepartShardStep, FlushStep, DepartNodeStep, DepartNotifyStep,
     UnarriveStep DEF Walk
<1>4. ASSUME NEW t \in Thread, Proceed(t) PROVE CoreInv'
  <2>1. CASE Stop(t) \/ Latch(t) \/ Upgrade(t)
    BY <2>1, StopStep, LatchStep, UpgradeStep
  <2>2. CASE \/ Snapshot(t) \/ StopKids(t) \/ StopNotify(t) \/ Release(t)
             \/ Deregister(t) \/ Register(t) \/ Check(t) \/ Adopt(t)
             \/ Watch(t) \/ GuardReturned(t) \/ Unblock(t)
    <3>1. UNCHANGED core
      BY <2>2 DEF Snapshot, StopKids, StopNotify, Release, Deregister, Register,
                  Check, Adopt, Watch, GuardReturned, Unblock, core, words, owners
    <3> QED
      BY <1>0, <3>1, CoreFrame, SMTT(60)
  <2> QED
    BY <1>4, <2>1, <2>2 DEF Proceed
<1>5. ASSUME NEW t \in Thread, Call(t) PROVE CoreInv'
  <2>1. CASE \E n \in Node, g \in Guard : NewGuard(t, n, g)
    BY <1>0, <2>1, NewGuardStep
  <2>2. CASE \E s \in Shard, g \in Guard : ForShard(t, s, g)
    BY <1>0, <2>2, ForShardStep
  <2>3. CASE \E g, g2 \in Guard : CloneGuard(t, g, g2)
    BY <1>0, <2>3, CloneGuardStep
  <2>4. CASE \E g \in Guard : DropGuard(t, g)
    BY <1>0, <2>4, DropGuardStep
  <2>5. CASE \/ \E n \in Node : \/ CloneSwansong(t, n) \/ DropSwansong(t, n)
                                \/ AwaitSwansong(t, n) \/ ShutDown(t, n)
                                \/ DropFuture(t, n) \/ BlockOnShutdown(t, n)
             \/ \E m \in Child : NewChild(t, m)
    <3>1. UNCHANGED core
      BY <2>5 DEF CloneSwansong, DropSwansong, AwaitSwansong, ShutDown,
                  DropFuture, BlockOnShutdown, NewChild, core, words, owners
    <3> QED
      BY <1>0, <3>1, CoreFrame
  <2> QED
    BY <1>5, <2>1, <2>2, <2>3, <2>4, <2>5 DEF Call
<1> QED
  BY <1>1, <1>2, <1>3, <1>4, <1>5 DEF Next

(* A fresh task.                                                           *)
LEMMA TaskOnType ==
  ASSUME NEW n \in Node, NEW do \in TaskName,
         do \in {"register", "check", "adopt"} => n # Root
  PROVE  TaskOn(do, n) \in Task
BY DEF TaskOn, Task, Shards

(* Replacing the head of an agenda, or a whole agenda, by tasks.           *)
LEMMA ThenType ==
  ASSUME OwnerTypes, NEW t \in Thread, agenda[t] # <<>>,
         NEW tasks \in Seq(Task), Then(t, tasks)
  PROVE  agenda' \in [Thread -> Seq(Task)]
<1>1. tasks \o Tail(agenda[t]) \in Seq(Task)
  BY AgendaHead
<1>2. agenda' = [agenda EXCEPT ![t] = tasks \o Tail(agenda[t])]
  BY DEF Then
<1> QED
  BY <1>1, <1>2 DEF OwnerTypes

(* An operation begins with tasks.                                         *)
LEMMA BeginType ==
  ASSUME OwnerTypes, NEW t \in Thread, NEW tasks \in Seq(Task), Begin(t, tasks)
  PROVE  agenda' \in [Thread -> Seq(Task)]
BY DEF Begin, OwnerTypes

(* The rest of a task is a task of the same kind, or nothing.              *)
LEMMA RestType ==
  ASSUME NEW task \in Task
  PROVE  RestOf(task) \in Seq(Task)
BY DEF RestOf

(* Dropping a handle leads to tasks.                                       *)
LEMMA DropTasksType ==
  ASSUME NEW n \in Node
  PROVE  DropTasks(n) \in Seq(Task)
<1>1. TaskOn("stop", n) \in Task /\ TaskOn("release", n) \in Task
  BY TaskOnType DEF TaskName
<1> QED
  BY <1>1 DEF DropTasks

(* Notifying completions keeps their type.                                 *)
LEMMA NotifyType ==
  ASSUME OwnerTypes, NEW n \in Node, NotifyZero(n)
  PROVE  future' \in [Node -> {"none", "resolved"} \cup Unresolved]
BY DEF OwnerTypes, NotifyZero, Unresolved

(* The walk finds completions to wake and leaves other owners alone.       *)
LEMMA WalkOwners ==
  ASSUME IInv, NEW t \in Thread, Walk(t)
  PROVE  OwnerTypes'
<1>0. OwnerTypes
  BY DEF IInv
<1>1. CASE Guarded(t)
  <2>1. UNCHANGED <<handles, future, life, registered>>
    BY <1>1 DEF Guarded, owners
  <2>2. cell[t] \in Node
    BY <1>1 DEF Guarded, At, IInv, CoreInv, ControlOK, WalkOK, OnTrack, NodeLabel
  <2>3. TaskOn("release", cell[t]) \in Task
    BY <2>2, TaskOnType DEF TaskName
  <2>4. <<TaskOn("release", cell[t])>> \in Seq(Task)
    BY <2>3
  <2>5. agenda' \in [Thread -> Seq(Task)]
    <3>1. CASE UNCHANGED agenda
      BY <1>0, <3>1 DEF OwnerTypes
    <3>2. CASE Begin(t, <<TaskOn("release", cell[t])>>)
      BY <1>0, <2>4, <3>2, BeginType
    <3> QED
      BY <1>1, <3>1, <3>2 DEF Guarded
  <2> QED
    BY <1>0, <2>1, <2>5 DEF OwnerTypes
<1>2. CASE DepartNotify(t)
  <2>1. cell[t] \in Node
    BY <1>2 DEF DepartNotify, At, IInv, CoreInv, ControlOK, WalkOK, OnTrack, NodeLabel
  <2>2. NotifyZero(cell[t]) /\ UNCHANGED <<handles, life, registered, agenda>>
    BY <1>2 DEF DepartNotify
  <2> QED
    BY <1>0, <2>1, <2>2, NotifyType DEF OwnerTypes
<1>3. CASE \/ ArriveShard(t) \/ ArriveNode(t) \/ CasShard(t) \/ CasNode(t)
           \/ DepartShard(t) \/ Flush(t) \/ DepartNode(t) \/ Unarrive(t)
  <2>1. UNCHANGED <<handles, future, life, registered, agenda>>
    BY <1>3, SMTT(60) DEF ArriveShard, ArriveNode, CasShard, CasNode, DepartShard, Flush,
                DepartNode, Unarrive, owners
  <2> QED
    BY <1>0, <2>1 DEF OwnerTypes
<1> QED
  BY <1>1, <1>2, <1>3 DEF Walk

(* Every step of the agenda leaves well-typed owners and tasks.            *)
LEMMA ProceedOwners ==
  ASSUME IInv, NEW t \in Thread, Proceed(t)
  PROVE  OwnerTypes'
<1>0. OwnerTypes
  BY DEF IInv
<1> DEFINE task == Head(agenda[t])
           n == task.node
<1>1. agenda[t] # <<>>
  BY DEF Proceed, Stop, Latch, Snapshot, StopKids, StopNotify, Release, Deregister,
         Register, Check, Adopt, Watch, GuardReturned, Upgrade, Unblock,
         Doing
<1>2. /\ task \in Task /\ Tail(agenda[t]) \in Seq(Task) /\ n \in Node
      /\ task.shards \in SUBSET Shard /\ task.kids \in SUBSET Child
  BY <1>0, <1>1, AgendaHead
<1>3. <<>> \in Seq(Task)
  OBVIOUS
<1>4. \A do \in TaskName \ {"register", "check", "adopt"}, k \in Node :
        <<TaskOn(do, k)>> \in Seq(Task)
  BY TaskOnType
<1>5. CASE Stop(t)
  <2>1. StopTasks(n) \in Seq(Task)
    <3>1. /\ TaskOn("latch", n) \in Task /\ TaskOn("snapshot", n) \in Task
          /\ TaskOn("notify", n) \in Task
      BY <1>2, TaskOnType DEF TaskName
    <3>2. <<TaskOn("latch", n), TaskOn("snapshot", n)>> \in Seq(Task)
      BY <3>1
    <3>3. (IF IsZero(n) THEN <<TaskOn("notify", n)>> ELSE <<>>) \in Seq(Task)
      BY <3>1
    <3> QED
      BY <3>2, <3>3 DEF StopTasks
  <2>2. (IF Stopped(n) THEN <<>> ELSE StopTasks(n)) \in Seq(Task)
    BY <2>1
  <2>3. agenda' \in [Thread -> Seq(Task)]
    BY <1>0, <1>1, <1>5, <2>2, ThenType DEF Stop
  <2> QED
    BY <1>0, <1>5, <2>3 DEF OwnerTypes, Stop, owners
<1>6. CASE Latch(t)
  <2>1. PICK s \in task.shards : Then(t, RestOf([task EXCEPT !.shards = @ \ {s}]))
    BY <1>6 DEF Latch
  <2>2. [task EXCEPT !.shards = @ \ {s}] \in Task
    BY <1>2 DEF Task
  <2>3. agenda' \in [Thread -> Seq(Task)]
    BY <1>0, <1>1, <2>1, <2>2, RestType, ThenType
  <2> QED
    BY <1>0, <1>6, <2>3 DEF OwnerTypes, Latch, owners
<1>7. CASE Snapshot(t)
  <2>1. PICK s \in task.shards :
          Then(t, RestOf([task EXCEPT
            !.do = IF task.shards \ {s} = {} THEN "stopKids" ELSE "snapshot",
            !.shards = task.shards \ {s}, !.kids = @ \cup LiveChildren(s)]))
    BY <1>7, ZenonT(60) DEF Snapshot
  <2> DEFINE rest == [task EXCEPT
               !.do = IF task.shards \ {s} = {} THEN "stopKids" ELSE "snapshot",
               !.shards = task.shards \ {s}, !.kids = @ \cup LiveChildren(s)]
  <2>2. rest \in Task
    BY <1>2 DEF Task, LiveChildren, TaskName
  <2>3. RestOf(rest) \in Seq(Task)
    BY <2>2, RestType
  <2>4. agenda' \in [Thread -> Seq(Task)]
    BY <1>0, <1>1, <2>1, <2>3, ThenType
  <2> QED
    BY <1>0, <1>7, <2>4, SMTT(60) DEF OwnerTypes, Snapshot, owners
<1>8. CASE StopKids(t)
  <2>1. PICK m \in task.kids :
          Then(t, <<TaskOn("stop", m), TaskOn("release", m)>>
                  \o RestOf([task EXCEPT !.kids = @ \ {m}]))
    BY <1>8 DEF StopKids
  <2>2. m \in Node
    BY <1>2 DEF Child
  <2>3. TaskOn("stop", m) \in Task /\ TaskOn("release", m) \in Task
    BY <2>2, TaskOnType DEF TaskName
  <2>4. RestOf([task EXCEPT !.kids = @ \ {m}]) \in Seq(Task)
    <3>1. [task EXCEPT !.kids = @ \ {m}] \in Task
      BY <1>2 DEF Task
    <3> QED
      BY <3>1, RestType
  <2>5. <<TaskOn("stop", m), TaskOn("release", m)>>
          \o RestOf([task EXCEPT !.kids = @ \ {m}]) \in Seq(Task)
    BY <2>3, <2>4
  <2>6. agenda' \in [Thread -> Seq(Task)]
    BY <1>0, <1>1, <2>1, <2>5, ThenType
  <2> QED
    BY <1>0, <1>8, <2>6 DEF OwnerTypes, StopKids, owners
<1>9. CASE StopNotify(t)
  <2>1. NotifyZero(n) /\ Then(t, <<>>) /\ UNCHANGED <<handles, life, registered>>
    BY <1>9 DEF StopNotify
  <2>2. agenda' \in [Thread -> Seq(Task)]
    BY <1>0, <1>1, <1>3, <2>1, ThenType
  <2>3. future' \in [Node -> {"none", "resolved"} \cup Unresolved]
    BY <1>0, <1>2, <2>1, NotifyType
  <2> QED
    BY <1>0, <2>1, <2>2, <2>3 DEF OwnerTypes
<1>10. CASE Release(t)
  <2>1. UNCHANGED <<handles, future, registered>>
    BY <1>10 DEF Release
  <2>2. life' \in [Node -> {"unborn", "live", "dropping", "gone"}]
    BY <1>0, <1>2, <1>10 DEF OwnerTypes, Release
  <2>3. agenda' \in [Thread -> Seq(Task)]
    <3>1. CASE agenda' = [agenda EXCEPT ![t] = Tail(@)]
      BY <1>0, <1>2, <3>1 DEF OwnerTypes
    <3>2. CASE Then(t, Collect(n))
      <4>1. TaskOn("latch", n) \in Task /\ TaskOn("deregister", n) \in Task
        BY <1>2, TaskOnType DEF TaskName
      <4>2. Collect(n) \in Seq(Task)
        BY <4>1 DEF Collect
      <4> QED
        BY <1>0, <1>1, <3>2, <4>2, ThenType
    <3> QED
      BY <1>10, <3>1, <3>2 DEF Release
  <2> QED
    BY <1>0, <2>1, <2>2, <2>3 DEF OwnerTypes
<1>11. CASE Deregister(t)
  <2>1. UNCHANGED <<handles, future>>
    BY <1>11 DEF Deregister
  <2>2. life' \in [Node -> {"unborn", "live", "dropping", "gone"}]
    BY <1>0, <1>2, <1>11 DEF OwnerTypes, Deregister
  <2>3. registered' \in [Node -> Shard \cup {NoShard}]
    BY <1>0, <1>2, <1>11 DEF OwnerTypes, Deregister
  <2>4. (IF n = Root THEN <<>> ELSE <<TaskOn("release", Parent[n])>>) \in Seq(Task)
    <3>1. n # Root => Parent[n] \in Node
      BY <1>2, TreeAssumption DEF Child
    <3>2. "release" \in TaskName \ {"register", "check", "adopt"}
      BY DEF TaskName
    <3> QED
      BY <1>4, <3>1, <3>2
  <2>5. agenda' \in [Thread -> Seq(Task)]
    BY <1>0, <1>1, <1>11, <2>4, ThenType DEF Deregister
  <2> QED
    BY <1>0, <2>1, <2>2, <2>3, <2>5 DEF OwnerTypes
<1>12. CASE Register(t)
  <2>1. UNCHANGED <<handles, future, life>> /\ Then(t, <<>>)
    BY <1>12 DEF Register
  <2>2. task.do = "register"
    BY <1>12 DEF Register, Doing
  <2>3. n \in Child
    BY <1>2, <2>2 DEF Task, Child
  <2>4. MyShard[t][Parent[n]] \in Shard
    BY <2>3, TreeAssumption, ShardAssumption
  <2>5. registered' = [registered EXCEPT ![n] = MyShard[t][Parent[n]]]
    BY <1>12 DEF Register
  <2>6. registered' \in [Node -> Shard \cup {NoShard}]
    BY <1>0, <1>2, <2>4, <2>5 DEF OwnerTypes
  <2>7. agenda' \in [Thread -> Seq(Task)]
    BY <1>0, <1>1, <1>3, <2>1, ThenType
  <2> QED
    BY <1>0, <2>1, <2>6, <2>7 DEF OwnerTypes
<1>13. CASE Check(t)
  <2>1. StopIfParentDid(n) \in Seq(Task)
    BY <1>2, <1>4 DEF StopIfParentDid, TaskName
  <2>2. agenda' \in [Thread -> Seq(Task)]
    BY <1>0, <1>1, <1>13, <2>1, ThenType DEF Check
  <2> QED
    BY <1>0, <1>13, <2>2 DEF OwnerTypes, Check, owners
<1>14. CASE Adopt(t)
  <2>1. UNCHANGED <<future, life, registered>> /\ Then(t, <<>>)
    BY <1>14 DEF Adopt
  <2>2. handles' \in [Node -> Nat]
    BY <1>0, <1>2, <1>14, ThreadAssumption DEF OwnerTypes, Adopt
  <2>3. agenda' \in [Thread -> Seq(Task)]
    BY <1>0, <1>1, <1>3, <2>1, ThenType
  <2> QED
    BY <1>0, <2>1, <2>2, <2>3 DEF OwnerTypes
<1>15. CASE Watch(t)
  <2>1. UNCHANGED <<handles, life, registered>> /\ Then(t, <<>>)
    BY <1>15 DEF Watch
  <2>2. future' \in [Node -> {"none", "resolved"} \cup Unresolved]
    BY <1>0, <1>2, <1>15 DEF OwnerTypes, Watch, Unresolved
  <2>3. agenda' \in [Thread -> Seq(Task)]
    BY <1>0, <1>1, <1>3, <2>1, ThenType
  <2> QED
    BY <1>0, <2>1, <2>2, <2>3 DEF OwnerTypes
<1>16. CASE GuardReturned(t)
  <2>1. agenda' \in [Thread -> Seq(Task)]
    BY <1>0, <1>1, <1>3, <1>16, ThenType DEF GuardReturned
  <2> QED
    BY <1>0, <1>16, <2>1 DEF OwnerTypes, GuardReturned, owners
<1>17. CASE Upgrade(t)
  <2>1. Then(t, <<TaskOn("release", Root)>>) \/ Then(t, <<>>)
    BY <1>17 DEF Upgrade
  <2>2. <<TaskOn("release", Root)>> \in Seq(Task)
    BY <1>4, TreeAssumption DEF TaskName
  <2>3. agenda' \in [Thread -> Seq(Task)]
    BY <1>0, <1>1, <1>3, <2>1, <2>2, ThenType
  <2> QED
    BY <1>0, <1>17, <2>3 DEF OwnerTypes, Upgrade, owners
<1>18. CASE Unblock(t)
  <2>1. future' \in [Node -> {"none", "resolved"} \cup Unresolved]
    BY <1>0, <1>2, <1>18 DEF OwnerTypes, Unblock
  <2>2. agenda' \in [Thread -> Seq(Task)]
    BY <1>0, <1>1, <1>2, <1>18, DropTasksType, ThenType DEF Unblock
  <2> QED
    BY <1>0, <1>18, <2>1, <2>2 DEF OwnerTypes, Unblock
<1> QED
  BY <1>5, <1>6, <1>7, <1>8, <1>9, <1>10, <1>11, <1>12, <1>13, <1>14, <1>15, <1>16,
     <1>17, <1>18, SMTT(60) DEF Proceed

(* Every operation leaves well-typed owners and begins with tasks.         *)
LEMMA CallOwners ==
  ASSUME IInv, NEW t \in Thread, Call(t)
  PROVE  OwnerTypes'
<1>0. OwnerTypes
  BY DEF IInv
<1>1. \A do \in TaskName \ {"register", "check", "adopt"}, k \in Node :
        <<TaskOn(do, k)>> \in Seq(Task)
  BY TaskOnType
<1>2. ASSUME NEW n \in Node, NEW g \in Guard, NewGuard(t, n, g) PROVE OwnerTypes'
  <2>1. <<TaskOn("return", n)>> \in Seq(Task)
    BY <1>1 DEF TaskName
  <2>2. agenda' \in [Thread -> Seq(Task)]
    BY <1>0, <1>2, <2>1, BeginType DEF NewGuard
  <2> QED
    BY <1>0, <1>2, <2>2 DEF OwnerTypes, NewGuard, owners
<1>3. ASSUME NEW s \in Shard, NEW g \in Guard, ForShard(t, s, g) PROVE OwnerTypes'
  BY <1>0, <1>3 DEF OwnerTypes, ForShard
<1>4. ASSUME NEW g \in Guard, NEW g2 \in Guard, CloneGuard(t, g, g2)
      PROVE  OwnerTypes'
  BY <1>0, <1>4 DEF OwnerTypes, CloneGuard
<1>5. ASSUME NEW g \in Guard, DropGuard(t, g) PROVE OwnerTypes'
  <2>1. PICK s \in Shard : s = home[g]
    BY <1>5 DEF DropGuard, IInv, CoreInv, WordTypes
  <2>2. NodeOf[s] \in Node
    BY ShardAssumption
  <2>3. <<TaskOn("release", NodeOf[s])>> \in Seq(Task)
    BY <1>1, <2>2 DEF TaskName
  <2>4. <<[TaskOn("upgrade", Root) EXCEPT !.shards = {s}]>> \in Seq(Task)
    <3>1. TaskOn("upgrade", Root) \in Task
      BY TaskOnType, TreeAssumption DEF TaskName
    <3>2. [TaskOn("upgrade", Root) EXCEPT !.shards = {s}] \in Task
      BY <3>1 DEF Task
    <3> QED
      BY <3>2
  <2>5. \/ Begin(t, <<TaskOn("release", NodeOf[s])>>)
        \/ Begin(t, <<[TaskOn("upgrade", Root) EXCEPT !.shards = {s}]>>)
        \/ Begin(t, <<>>)
    BY <1>5, <2>1 DEF DropGuard
  <2>6. <<>> \in Seq(Task)
    OBVIOUS
  <2>7. agenda' \in [Thread -> Seq(Task)]
    BY <1>0, <2>3, <2>4, <2>5, <2>6, BeginType
  <2> QED
    BY <1>0, <1>5, <2>7 DEF OwnerTypes, DropGuard
<1>6. ASSUME NEW n \in Node, CloneSwansong(t, n) PROVE OwnerTypes'
  <2>1. handles' \in [Node -> Nat]
    BY <1>0, <1>6, ThreadAssumption DEF OwnerTypes, CloneSwansong
  <2> QED
    BY <1>0, <1>6, <2>1 DEF OwnerTypes, CloneSwansong
<1>7. ASSUME NEW n \in Node, DropHandle(t, n)
      PROVE  /\ handles' \in [Node -> Nat]
             /\ agenda' \in [Thread -> Seq(Task)]
  <2>1. handles' \in [Node -> Nat]
    BY <1>0, <1>7, ThreadAssumption DEF OwnerTypes, DropHandle
  <2>2. agenda' \in [Thread -> Seq(Task)]
    BY <1>0, <1>7, DropTasksType, BeginType DEF DropHandle
  <2> QED
    BY <2>1, <2>2
<1>8. ASSUME NEW n \in Node, DropSwansong(t, n) PROVE OwnerTypes'
  BY <1>0, <1>7, <1>8 DEF OwnerTypes, DropSwansong
<1>9. ASSUME NEW n \in Node, AwaitSwansong(t, n) PROVE OwnerTypes'
  BY <1>0, <1>7, <1>9 DEF OwnerTypes, AwaitSwansong, Unresolved
<1>10. ASSUME NEW n \in Node, ShutDown(t, n) PROVE OwnerTypes'
  <2>1. TaskOn("stop", n) \in Task /\ TaskOn("watch", n) \in Task
    BY TaskOnType DEF TaskName
  <2>2. <<TaskOn("stop", n), TaskOn("watch", n)>> \in Seq(Task)
    BY <2>1
  <2>3. agenda' \in [Thread -> Seq(Task)]
    BY <1>0, <1>10, <2>2, BeginType DEF ShutDown
  <2> QED
    BY <1>0, <1>10, <2>3 DEF OwnerTypes, ShutDown, owners
<1>11. ASSUME NEW m \in Child, NewChild(t, m) PROVE OwnerTypes'
  <2>1. m \in Node /\ m # Root
    BY DEF Child
  <2>2. /\ TaskOn("register", m) \in Task /\ TaskOn("check", m) \in Task
        /\ TaskOn("adopt", m) \in Task
    BY <2>1, TaskOnType DEF TaskName
  <2>3. <<TaskOn("register", m), TaskOn("check", m), TaskOn("adopt", m)>>
          \in Seq(Task)
    BY <2>2
  <2>4. agenda' \in [Thread -> Seq(Task)]
    BY <1>0, <1>11, <2>3, BeginType DEF NewChild
  <2> QED
    BY <1>0, <1>11, <2>1, <2>4 DEF OwnerTypes, NewChild
<1>12. ASSUME NEW n \in Node, DropFuture(t, n) PROVE OwnerTypes'
  <2>1. <<TaskOn("release", n)>> \in Seq(Task)
    BY <1>1 DEF TaskName
  <2>2. agenda' \in [Thread -> Seq(Task)]
    BY <1>0, <1>12, <2>1, BeginType DEF DropFuture
  <2> QED
    BY <1>0, <1>12, <2>2 DEF OwnerTypes, DropFuture
<1>13. ASSUME NEW n \in Node, BlockOnShutdown(t, n) PROVE OwnerTypes'
  <2>1. handles' \in [Node -> Nat]
    BY <1>0, <1>13, ThreadAssumption DEF OwnerTypes, BlockOnShutdown
  <2>2. <<TaskOn("block", n)>> \in Seq(Task)
    BY <1>1 DEF TaskName
  <2>3. agenda' \in [Thread -> Seq(Task)]
    BY <1>0, <1>13, <2>2, BeginType DEF BlockOnShutdown
  <2> QED
    BY <1>0, <1>13, <2>1, <2>3 DEF OwnerTypes, BlockOnShutdown, Unresolved
<1> QED
  BY <1>2, <1>3, <1>4, <1>5, <1>6, <1>8, <1>9, <1>10, <1>11, <1>12, <1>13 DEF Call

(* No step disturbs the types of the owners.                               *)
LEMMA OwnersNext ==
  ASSUME IInv, [Next]_vars
  PROVE  OwnerTypes'
<1>1. CASE UNCHANGED vars
  BY <1>1 DEF IInv, OwnerTypes, vars, owners
<1>2. ASSUME NEW n \in Node, Poll(n) PROVE OwnerTypes'
  <2>1. StillWaiting(n) \in {"resolved"} \cup Unresolved
    BY DEF StillWaiting, Keep, Unresolved
  <2> QED
    BY <1>2, <2>1 DEF IInv, OwnerTypes, Poll
<1> QED
  BY <1>1, <1>2, WalkOwners, ProceedOwners, CallOwners DEF Next

-----------------------------------------------------------------------------
(* The initial state: nothing is counted and no thread runs.               *)

(* Nothing is counted and nothing is owed when the root is created.        *)
LEMMA InitIInv ==
  ASSUME Init
  PROVE  IInv
<1> USE DEF Init
<1>1. /\ EmptyShard({}) \in ShardWord /\ EmptyNode({}) \in NodeWord
      /\ Idling \in [pc : Label, cell : Cell] /\ Root \in Cell
      /\ "idle" \in Label
  BY TreeAssumption DEF EmptyShard, EmptyNode, ShardWord, NodeWord, Idling, Label,
                        Cell
<1>2. WordTypes /\ WalkTypes
  BY <1>1 DEF WordTypes, WalkTypes
<1>3. OwnerTypes
  BY ThreadAssumption DEF OwnerTypes
<1>4. CountsExact
  <2>1. \A s \in Shard : shardState[s].flags = {} /\ shardState[s].local = 0
                         /\ shardState[s].kids = 0
    BY DEF EmptyShard
  <2>2. \A n \in Node : nodeState[n].flags = {} /\ nodeState[n].count = 0
    BY DEF EmptyNode
  <2>3. \A s \in Shard : LocalTokens(s) = {}
    BY ShardAssumption DEF LocalTokens
  <2>4. \A s \in Shard : KidTokens(s) = {}
    BY <2>2 DEF KidTokens, KidInFlight, Child
  <2>5. \A n \in Node : ShardTokens(n) = {}
    BY <2>1 DEF ShardTokens, ShardInFlight, Shards
  <2>6. Cardinality({}) = 0
    BY FS_EmptySet
  <2>7. LocalExact /\ KidsExact
    BY <2>1, <2>3, <2>4, <2>6 DEF LocalExact, KidsExact
  <2>8. ShardsExact
    BY <2>2, <2>5, <2>6 DEF ShardsExact
  <2>9. UnarrivedEmpty
    BY <2>1, <2>2 DEF UnarrivedEmpty, Child
  <2> QED
    BY <2>7, <2>8, <2>9 DEF CountsExact
<1>5. ControlOK
  <2>1. WordsLinked
    BY DEF WordsLinked, EmptyNode, Child
  <2>2. ASSUME NEW t \in Thread PROVE WalkOK(t) /\ MakingOK(t)
    BY <1>1 DEF WalkOK, OnTrack, MakingOK, Idling, ShardLabel, NodeLabel, Arriving
  <2> QED
    BY <2>1, <2>2 DEF ControlOK
<1> QED
  BY <1>2, <1>3, <1>4, <1>5 DEF IInv, CoreInv

(* The inductive invariant holds of every behaviour.                       *)
THEOREM Invariance == Spec => []IInv
<1>1. Init => IInv
  BY InitIInv
<1>2. IInv /\ [Next]_vars => IInv'
  BY CoreNext, OwnersNext DEF IInv
<1> QED
  BY <1>1, <1>2, PTL DEF Spec

(* The words, the walks and the owners have their types in every reachable *)
(* state: no fetch_sub of Shard::depart, Inner::depart or Drop for Guard   *)
(* takes a packed count below zero into its neighbour's bits.              *)
THEOREM TypeCorrect == Spec => []TypeOK
<1>1. IInv => TypeOK
  BY DEF IInv, CoreInv, TypeOK
<1> QED
  BY <1>1, Invariance, PTL

(* Every packed count is the number of guards, children and shards it      *)
(* stands for, with arrivals and departures in flight counted once, for    *)
(* any tree, any number of shards, threads and guards.                     *)
THEOREM CountsCorrect == Spec => []CountsExact
<1>1. IInv => CountsExact
  BY DEF IInv, CoreInv
<1> QED
  BY <1>1, Invariance, PTL

(* No thread's control is ever confused: each walk is on a word of the     *)
(* kind its next access is for, a thread that will count a guard has one   *)
(* that nobody else has, and an arrived child is at a shard of its parent. *)
THEOREM ControlCorrect == Spec => []ControlOK
<1>1. IInv => ControlOK
  BY DEF IInv, CoreInv
<1> QED
  BY <1>1, Invariance, PTL

-----------------------------------------------------------------------------
(* From exact counts to S3.                                                *)

(* An arrived shard is counted by its node.                                *)
LEMMA ShardCounted ==
  ASSUME CoreInv, NEW s \in Shard, ARRIVED \in shardState[s].flags
  PROVE  nodeState[NodeOf[s]].count > 0
<1> USE DEF CoreInv
<1>1. NodeOf[s] \in Node
  BY ShardAssumption
<1>2. s \in ShardTokens(NodeOf[s])
  BY DEF ShardTokens, Shards
<1>3. Cardinality(ShardTokens(NodeOf[s])) \in Nat \ {0}
  BY <1>2, TokensFinite, CardRemove
<1> QED
  BY <1>1, <1>3 DEF CountsExact, ShardsExact

(* A nonempty child is counted by its parent.                              *)
LEMMA ChildCounted ==
  ASSUME CoreInv, NEW n \in Child, nodeState[n].count > 0
  PROVE  nodeState[Parent[n]].count > 0
<1> USE DEF CoreInv
<1>1. nodeState[n].count # 0
  OBVIOUS
<1>2. ARRIVED \in nodeState[n].flags
  BY <1>1 DEF CountsExact, UnarrivedEmpty
<1>3. PICK p \in Shard : p = nodeState[n].at /\ NodeOf[p] = Parent[n]
  BY <1>2 DEF ControlOK, WordsLinked
<1>4. n \in KidTokens(p)
  BY <1>2, <1>3 DEF KidTokens
<1>5. Cardinality(KidTokens(p)) \in Nat \ {0}
  BY <1>4, TokensFinite, CardRemove
<1>6. shardState[p].kids # 0
  BY <1>5 DEF CountsExact, KidsExact
<1>7. ARRIVED \in shardState[p].flags
  BY <1>6 DEF CountsExact, UnarrivedEmpty
<1> QED
  BY <1>3, <1>7, ShardCounted

(* The nodes with a positive count form a set that contains the guard's    *)
(* node and is closed under Parent, so it contains every ancestor.         *)
LEMMA GuardCountedNow ==
  ASSUME IInv
  PROVE  GuardCounted
<1> SUFFICES ASSUME CoreInv, NEW g \in Guard, home[g] # NoShard,
                    NEW a \in Ancestors(NodeOf[home[g]])
             PROVE  nodeState[a].count > 0
  BY DEF IInv, GuardCounted
<1> DEFINE S == {n \in Node : nodeState[n].count > 0}
<1>1. home[g] \in Shard /\ ARRIVED \in shardState[home[g]].flags
  BY GuardHome
<1>2. NodeOf[home[g]] \in S
  BY <1>1, ShardCounted, ShardAssumption
<1>3. \A m \in S \ {Root} : Parent[m] \in S
  BY ChildCounted, TreeAssumption DEF Child
<1>4. S \in SUBSET Node
  OBVIOUS
<1>5. a \in S
  BY <1>2, <1>3, <1>4 DEF Ancestors
<1> QED
  BY <1>5

(* S3 on the words, for every tree: while a guard lives, however it was    *)
(* counted and whatever raced with it, no ancestor of its node is empty.   *)
THEOREM GuardsAreCounted == Spec => []GuardCounted
<1>1. IInv => GuardCounted
  BY GuardCountedNow
<1> QED
  BY <1>1, Invariance, PTL

-----------------------------------------------------------------------------
(* Action properties.                                                      *)

(* Only ShutdownCompletion::poll resolves a completion, and only one that  *)
(* finds its node stopped and empty.                                       *)
LEMMA OnlyPollResolves ==
  ASSUME IInv, Next, NEW n \in Node, future[n] # "resolved",
         future'[n] = "resolved"
  PROVE  Complete(n)
<1>0. future \in [Node -> {"none", "resolved"} \cup Unresolved]
  BY DEF IInv, OwnerTypes
<1>1. ASSUME NEW k \in Node, NotifyZero(k) PROVE FALSE
  BY <1>0, <1>1 DEF NotifyZero, Unresolved
<1>2. ASSUME NEW t \in Thread, Walk(t) PROVE FALSE
  <2>1. CASE DepartNotify(t)
    <3>1. cell[t] \in Node
      BY <2>1, SMTT(60) DEF DepartNotify, At, IInv, CoreInv, ControlOK, WalkOK, OnTrack,
                  NodeLabel
    <3> QED
      BY <1>1, <2>1, <3>1 DEF DepartNotify
  <2>2. CASE ~DepartNotify(t)
    BY <1>2, <2>2 DEF Walk, Guarded, ArriveShard, ArriveNode, CasShard, CasNode,
                      DepartShard, Flush, DepartNode, Unarrive, owners
  <2> QED
    BY <2>1, <2>2
<1>3. ASSUME NEW t \in Thread, Proceed(t) PROVE FALSE
  <2>1. CASE StopNotify(t)
    <3>1. Head(agenda[t]).node \in Node
      BY <2>1, AgendaHead DEF StopNotify, Doing, IInv
    <3> QED
      BY <1>1, <2>1, <3>1 DEF StopNotify
  <2>2. CASE Watch(t)
    BY <1>0, <2>2, SMTT(60) DEF Watch
  <2>3. CASE \/ Stop(t) \/ Latch(t) \/ Snapshot(t) \/ StopKids(t) \/ Release(t)
             \/ Deregister(t) \/ Register(t) \/ Check(t) \/ Adopt(t)
             \/ GuardReturned(t) \/ Upgrade(t)
    BY <2>3 DEF Stop, Latch, Snapshot, StopKids, Release, Deregister, Register,
                Check, Adopt, GuardReturned, Upgrade, owners
  <2>4. CASE Unblock(t)
    BY <1>0, <2>4 DEF Unblock
  <2> QED
    BY <1>3, <2>1, <2>2, <2>3, <2>4 DEF Proceed
<1>4. ASSUME NEW t \in Thread, Call(t) PROVE FALSE
  <2>1. CASE \E k \in Node : \/ AwaitSwansong(t, k) \/ DropFuture(t, k)
                            \/ BlockOnShutdown(t, k)
    BY <1>0, <2>1 DEF AwaitSwansong, DropFuture, BlockOnShutdown
  <2>2. CASE ~\E k \in Node : \/ AwaitSwansong(t, k) \/ DropFuture(t, k)
                             \/ BlockOnShutdown(t, k)
    BY <1>4, <2>2 DEF Call, NewGuard, ForShard, CloneGuard, DropGuard,
                      CloneSwansong, DropSwansong, ShutDown, NewChild, owners
  <2> QED
    BY <2>1, <2>2
<1>5. PICK k \in Node : Poll(k)
  BY <1>2, <1>3, <1>4 DEF Next
<1> QED
  BY <1>0, <1>5 DEF Poll, StillWaiting, Keep

(* S3 as clients see it, for every tree and any number of threads: a       *)
(* completion resolves only in a step that finds no guard alive in the     *)
(* subset of its node.                                                     *)
THEOREM CompletionsFindNoGuard == Spec => ResolvesEmpty
<1> DEFINE Empty == \A n \in Node : future[n] # "resolved" /\ future'[n] = "resolved"
                      => GuardsUnder(n) = {}
<1>1. IInv /\ [Next]_vars => [Empty]_vars
  <2> SUFFICES ASSUME IInv, Next, NEW n \in Node, future[n] # "resolved",
                      future'[n] = "resolved", NEW g \in GuardsUnder(n)
               PROVE  FALSE
    OBVIOUS
  <2>1. nodeState[n].count = 0
    BY OnlyPollResolves DEF Complete, IsZero
  <2>2. nodeState[n].count > 0
    BY GuardCountedNow DEF GuardsUnder, GuardCounted
  <2> QED
    BY <2>1, <2>2
<1> QED
  BY <1>1, Invariance, PTL DEF ResolvesEmpty, Spec

(* The stop bits of all words survive a step.                              *)
Latched ==
  /\ \A n \in Node : Stopped(n) => Stopped(n)'
  /\ \A s \in Shard : STOPPED \in shardState[s].flags
                        => STOPPED \in shardState'[s].flags

(* A compare_exchange that installs an arrival keeps the stop bit that it  *)
(* compared.                                                               *)
LEMMA WalkLatches ==
  ASSUME CoreInv, NEW t \in Thread, Walk(t)
  PROVE  Latched
<1> USE DEF CoreInv
<1>0. shardState \in [Shard -> ShardWord] /\ nodeState \in [Node -> NodeWord]
  BY DEF WordTypes
<1>1. \A n : \A w \in ShardWord : PlusUnit(w, t, n).flags = w.flags
  BY DEF PlusUnit, ShardWord
<1>2. CASE ArriveShard(t)
  <2>1. cell[t] \in Shard
    BY <1>2 DEF ArriveShard, At, ControlOK, WalkOK, OnTrack, ShardLabel
  <2>2. /\ UNCHANGED nodeState
        /\ \/ UNCHANGED shardState
           \/ shardState' = [shardState EXCEPT ![cell[t]] =
                PlusUnit(shardState[cell[t]], t, NodeOf[cell[t]])]
    BY <1>2 DEF ArriveShard
  <2> QED
    BY <1>0, <1>1, <2>1, <2>2 DEF Latched, Stopped
<1>3. CASE ArriveNode(t)
  BY <1>0, <1>3 DEF ArriveNode, Latched, Stopped, NodeWord
<1>4. CASE CasShard(t)
  <2>1. PICK s \in Shard : s = cell[t]
    BY <1>4 DEF CasShard, At, ControlOK, WalkOK, OnTrack, ShardLabel
  <2>2. saved[t][s] \in SUBSET Flags
    BY DEF WalkTypes, Cell
  <2> DEFINE w == EmptyShard(saved[t][s] \cup {ARRIVED})
  <2>3. w \in ShardWord /\ w.flags = saved[t][s] \cup {ARRIVED}
    BY <2>2 DEF EmptyShard, ShardWord, Flags
  <2>4. /\ UNCHANGED nodeState
        /\ \/ UNCHANGED shardState
           \/ /\ shardState[s] = EmptyShard(saved[t][s])
              /\ shardState' = [shardState EXCEPT ![s] = PlusUnit(w, t, NodeOf[s])]
    BY <1>4, <2>1 DEF CasShard
  <2>5. PlusUnit(w, t, NodeOf[s]).flags = saved[t][s] \cup {ARRIVED}
    BY <1>1, <2>3
  <2>6. EmptyShard(saved[t][s]).flags = saved[t][s]
    BY DEF EmptyShard
  <2> HIDE DEF w
  <2> QED
    BY <1>0, <2>4, <2>5, <2>6 DEF Latched, Stopped
<1>5. CASE CasNode(t)
  <2>1. PICK n \in Node : n = cell[t]
    BY <1>5 DEF CasNode, At, ControlOK, WalkOK, OnTrack, NodeLabel
  <2> DEFINE w == [flags |-> saved[t][n] \cup {ARRIVED}, count |-> 1,
                   at |-> MyShard[t][Parent[n]]]
  <2>2. /\ UNCHANGED shardState
        /\ \/ UNCHANGED nodeState
           \/ /\ nodeState[n] = EmptyNode(saved[t][n])
              /\ nodeState' = [nodeState EXCEPT ![n] = w]
    BY <1>5, <2>1 DEF CasNode
  <2>3. EmptyNode(saved[t][n]).flags = saved[t][n] /\ w.flags = saved[t][n] \cup {ARRIVED}
    BY DEF EmptyNode
  <2> HIDE DEF w
  <2> QED
    BY <1>0, <2>2, <2>3 DEF Latched, Stopped
<1>6. CASE DepartShard(t)
  <2>1. PICK s \in Shard : s = cell[t]
    BY <1>6 DEF DepartShard, At, ControlOK, WalkOK, OnTrack, ShardLabel
  <2> DEFINE w == [shardState[s] EXCEPT !.kids = @ - 1]
  <2>2. UNCHANGED nodeState /\ shardState' = [shardState EXCEPT ![s] = w]
    BY <1>6, <2>1 DEF DepartShard
  <2>3. w.flags = shardState[s].flags
    BY <1>0 DEF ShardWord
  <2> QED
    BY <1>0, <2>2, <2>3 DEF Latched, Stopped
<1>7. CASE Flush(t)
  <2>1. /\ UNCHANGED nodeState
        /\ \/ UNCHANGED shardState
           \/ shardState' = [shardState EXCEPT ![cell[t]] = Flushed]
    BY <1>7 DEF Flush
  <2>2. STOPPED \in Flushed.flags
    BY DEF Flushed, EmptyShard
  <2> QED
    BY <1>0, <2>1, <2>2 DEF Latched, Stopped
<1>8. CASE DepartNode(t)
  <2>1. PICK n \in Node : n = cell[t]
    BY <1>8 DEF DepartNode, At, ControlOK, WalkOK, OnTrack, NodeLabel
  <2> DEFINE w == [nodeState[n] EXCEPT !.count = @ - 1]
  <2>2. UNCHANGED shardState /\ nodeState' = [nodeState EXCEPT ![n] = w]
    BY <1>8, <2>1 DEF DepartNode
  <2>3. w.flags = nodeState[n].flags
    BY <1>0 DEF NodeWord
  <2> QED
    BY <1>0, <2>2, <2>3 DEF Latched, Stopped
<1>9. CASE Unarrive(t)
  <2>1. PICK n \in Node : n = cell[t]
    BY <1>9 DEF Unarrive, At, ControlOK, WalkOK, OnTrack, NodeLabel
  <2>2. /\ UNCHANGED shardState
        /\ \/ UNCHANGED nodeState
           \/ /\ nodeState[n] = seen[t]
              /\ nodeState' = [nodeState EXCEPT ![n] = Unarrived(seen[t])]
    BY <1>9, <2>1 DEF Unarrive, StillEmpty
  <2>3. Unarrived(seen[t]).flags = seen[t].flags \cap {STOPPED}
    BY DEF Unarrived, EmptyNode
  <2> QED
    BY <1>0, <2>2, <2>3 DEF Latched, Stopped
<1>10. CASE Guarded(t) \/ DepartNotify(t)
  BY <1>10 DEF Guarded, DepartNotify, words, Latched, Stopped
<1> QED
  BY <1>2, <1>3, <1>4, <1>5, <1>6, <1>7, <1>8, <1>9, <1>10 DEF Walk

(* The other steps set stop bits or leave them alone.                      *)
LEMMA NextLatches ==
  ASSUME IInv, Next
  PROVE  Latched
<1>0. shardState \in [Shard -> ShardWord] /\ nodeState \in [Node -> NodeWord]
  BY DEF IInv, CoreInv, WordTypes
<1>1. ASSUME NEW t \in Thread, Walk(t) PROVE Latched
  BY <1>1, WalkLatches DEF IInv
<1>2. ASSUME NEW t \in Thread, Proceed(t) PROVE Latched
  <2>1. CASE Stop(t)
    BY <1>0, <2>1 DEF Stop, Latched, Stopped, NodeWord
  <2>2. CASE Latch(t)
    BY <1>0, <2>2 DEF Latch, Latched, Stopped, ShardWord
  <2>3. CASE \/ Snapshot(t) \/ StopKids(t) \/ StopNotify(t) \/ Release(t)
             \/ Deregister(t) \/ Register(t) \/ Check(t) \/ Adopt(t)
             \/ Watch(t) \/ GuardReturned(t) \/ Upgrade(t) \/ Unblock(t)
    <3>1. UNCHANGED words
      BY <2>3 DEF Snapshot, StopKids, StopNotify, Release, Deregister, Register,
                  Check, Adopt, Watch, GuardReturned, Upgrade, Unblock
    <3> QED
      BY <3>1, SMTT(60) DEF words, Latched, Stopped
  <2> QED
    BY <1>2, <2>1, <2>2, <2>3 DEF Proceed
<1>3. ASSUME NEW t \in Thread, Call(t) PROVE Latched
  <2>1. \/ UNCHANGED words
        \/ /\ UNCHANGED nodeState
           /\ \E s : \/ shardState' = [shardState EXCEPT ![s].local = @ + 1]
                     \/ shardState' = [shardState EXCEPT ![s] =
                          [shardState[s] EXCEPT !.local = @ - 1]]
    BY <1>3 DEF Call, NewGuard, ForShard, CloneGuard, DropGuard, CloneSwansong,
                DropSwansong, AwaitSwansong, ShutDown, NewChild, DropFuture,
                BlockOnShutdown, words
  <2> QED
    BY <1>0, <2>1 DEF words, Latched, Stopped, ShardWord
<1>4. ASSUME NEW n \in Node, Poll(n) PROVE Latched
  BY <1>4 DEF Poll, words, Latched, Stopped
<1> QED
  BY <1>1, <1>2, <1>3, <1>4 DEF Next

(* S1 for every tree: no read-modify-write of a word, not even a           *)
(* compare_exchange that races with the stop, erases a stop bit.           *)
THEOREM StopBitsLatch == Spec => StopLatches
<1>1. IInv /\ [Next]_vars => [Latched]_vars
  BY NextLatches
<1> QED
  BY <1>1, Invariance, PTL DEF StopLatches, Latched, Spec

=============================================================================
