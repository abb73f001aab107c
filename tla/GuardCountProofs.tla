--------------------------- MODULE GuardCountProofs ---------------------------
(***************************************************************************)
(* That Swansong::guard_count is bracketed: a count that races with guards,*)
(* child creations and collections misses no guard that was there          *)
(* throughout, and counts none twice; and that a guard_report that races   *)
(* with them has the record of every such guard.                           *)
(*                                                                         *)
(* First, what the walk relies on: a child that new_child has not returned *)
(* yet has nothing below it (ChildInv), so that a guard is always below    *)
(* children that their parents' registries hold.  Then the walk itself:    *)
(* its tasks stand for disjoint parts of the subtree, and what they still  *)
(* stand for bounds what the sum, or the report, lacks (CensusInv).        *)
(***************************************************************************)
EXTENDS GuardCount, GuardTreeRefinementProofs

-----------------------------------------------------------------------------
(* Children under construction.                                            *)

AdoptOf(t, i, c) == agenda[t][i].do = "adopt" /\ agenda[t][i].node = c

(* Nobody has a handle, a guard or a child of c, or is creating one.       *)
Untouched(c) ==
  /\ handles[c] = 0
  /\ \A g \in Guard : home[g] # NoShard => NodeOf[home[g]] # c
  /\ \A m \in Child : Parent[m] = c => life[m] \notin {"live", "dropping"}
  /\ \A t \in Thread : /\ pc[t] = "guarded" => cell[t] # c
                       /\ Active(t) => Base(t) # c

AdoptUntouched == \A c \in Child : Constructing(c) => Untouched(c)
AdoptOnce ==
  \A t \in Thread : \A i \in 1 .. Len(agenda[t]) : agenda[t][i].do = "adopt" =>
    /\ i = Len(agenda[t])
    /\ \A u \in Thread \ {t} : \A j \in 1 .. Len(agenda[u]) :
         ~AdoptOf(u, j, agenda[t][i].node)

(* Guard::for_shard is called for nodes that exist, or have existed.       *)
AskedBorn == \A t \in Thread : pc[t] = "guarded" => life[cell[t]] # "unborn"

(* A child that is about to be registered is about to be returned.         *)
AdoptDue ==
  \A t \in Thread : \A i \in 1 .. Len(agenda[t]) : agenda[t][i].do = "register" =>
    \E j \in 1 .. Len(agenda[t]) : AdoptOf(t, j, agenda[t][i].node)

ChildInv == AdoptUntouched /\ AdoptOnce /\ AskedBorn /\ AdoptDue

(* A guard comes to a node on which its thread was creating it, to one     *)
(* that has a guard, or to the root; once there, it stays until dropped.   *)
LEMMA HomeMoves ==
  ASSUME IInv, OwnInv, [Next]_vars, NEW g \in Guard,
         home'[g] # home[g], home'[g] # NoShard
  PROVE  /\ home[g] = NoShard /\ home'[g] \in Shard
         /\ \/ NodeOf[home'[g]] = Root
            \/ \E h \in Guard : home[h] = home'[g]
            \/ \E t \in Thread : Active(t) /\ NodeOf[home'[g]] = Base(t)
<1>0. home \in [Guard -> Shard \cup {NoShard}]
  BY DEF IInv, CoreInv, WordTypes
<1>1. ASSUME NEW t \in Thread, Walk(t)
      PROVE  /\ home[g] = NoShard /\ home'[g] \in Shard
             /\ Active(t) /\ NodeOf[home'[g]] = Base(t)
  <2>1. PICK s \in Shard : s = cell[t] /\ Counted(t, s) /\ pc[t] \in {"arriveShard", "casShard"}
    <3>1. CASE ArriveShard(t)
      <4>1. cell[t] \in Shard
        BY <3>1 DEF ArriveShard, At, IInv, CoreInv, ControlOK, WalkOK, OnTrack, ShardLabel
      <4> QED
        BY <3>1, <4>1 DEF ArriveShard, At
    <3>2. CASE CasShard(t)
      <4>1. cell[t] \in Shard
        BY <3>2 DEF CasShard, At, IInv, CoreInv, ControlOK, WalkOK, OnTrack, ShardLabel
      <4> QED
        BY <3>2, <4>1 DEF CasShard, At
    <3> QED
      BY <1>1, <3>1, <3>2 DEF Walk, Guarded, ArriveNode, CasNode, DepartShard, Flush,
         DepartNode, DepartNotify, Unarrive, owners
  <2>2. home' = [home EXCEPT ![making[t]] = s] /\ from[t][NodeOf[s]] = NoNode
    BY <2>1 DEF Counted
  <2>3. making[t] \in Guard \cup {NoGuard}
    BY DEF IInv, CoreInv, WalkTypes
  <2>4. making[t] = g /\ home'[g] = s
    BY <1>0, <2>2, <2>3
  <2>5. home[g] = NoShard
    BY <2>4, ThreadAssumption DEF IInv, CoreInv, ControlOK, MakingOK
  <2>6. Active(t) /\ resume[t].pc = "idle"
    BY <2>1 DEF Active, Arriving, Departing, IInv, CoreInv, ControlOK, WalkOK
  <2>7. Here(t) = NodeOf[s] /\ NodeOf[s] \in Node
    BY <2>1, <2>6, ShardAssumption DEF Here, Under
  <2>8. Base(t) = NodeOf[s]
    BY <2>2, <2>6, <2>7 DEF OwnInv, WalksInv, ChainOK, OnChain
  <2> QED
    BY <2>4, <2>5, <2>6, <2>8, SMTT(60)
<1>2. ASSUME NEW t \in Thread, Call(t)
      PROVE  /\ home[g] = NoShard /\ home'[g] \in Shard
             /\ NodeOf[home'[g]] = Root \/ \E h \in Guard : home[h] = home'[g]
  <2>1. ASSUME NEW s \in Shard, NEW k \in Guard, ForShard(t, s, k)
        PROVE  home[g] = NoShard /\ home'[g] \in Shard /\ NodeOf[home'[g]] = Root
    BY <1>0, <2>1 DEF ForShard, FreeGuard
  <2>2. ASSUME NEW h \in Guard, NEW k \in Guard, CloneGuard(t, h, k)
        PROVE  home[g] = NoShard /\ home'[g] \in Shard /\ home[h] = home'[g]
    BY <1>0, <2>2 DEF CloneGuard, FreeGuard
  <2>3. ASSUME NEW h \in Guard, DropGuard(t, h)
        PROVE  FALSE
    BY <1>0, <2>3, SMTT(60) DEF DropGuard
  <2> QED
    BY <1>2, <2>1, <2>2, <2>3 DEF Call, NewGuard, CloneSwansong, DropSwansong, AwaitSwansong,
       ShutDown, NewChild, DropFuture, BlockOnShutdown, owners
<1>3. ASSUME NEW t \in Thread, Proceed(t)
      PROVE  FALSE
  BY <1>3 DEF Proceed, Stop, Latch, Snapshot, StopKids, StopNotify, Release, Deregister,
     Register, Check, Adopt, Watch, GuardReturned, Upgrade, Unblock, owners
<1>4. ASSUME NEW n \in Node, Poll(n)
      PROVE  FALSE
  BY <1>4 DEF Poll
<1> QED
  BY <1>1, <1>2, <1>3, <1>4 DEF Next, vars, owners

(* A thread asks for a guard through an interrupt.                         *)
LEMMA AskMoves ==
  ASSUME IInv, OwnInv, [Next]_vars, NEW u \in Thread, pc'[u] = "guarded"
  PROVE  \/ pc[u] = "guarded" /\ cell'[u] = cell[u]
         \/ \E s \in Shard, g \in Guard : ForShard(u, s, g) /\ cell'[u] = NodeOf[s]
<1>0. pc \in [Thread -> Label] /\ cell \in [Thread -> Cell]
  BY DEF IInv, CoreInv, WalkTypes
<1>1. ASSUME NEW t \in Thread, Walk(t)
      PROVE  pc[u] = "guarded" /\ cell'[u] = cell[u]
  <2>1. CASE u = t
    <3>1. resume[t].pc # "guarded"
      BY DEF IInv, CoreInv, ControlOK, WalkOK
    <3> QED
      BY <1>0, <1>1, <2>1, <3>1 DEF Walk, Guarded, ArriveShard, ArriveNode, CasShard, CasNode,
         DepartShard, Flush, DepartNode, DepartNotify, Unarrive, Counted, TakeBack, Return, Go,
         AfterDeparture
  <2>2. CASE u # t
    BY <1>1, <2>2, WalkRows DEF SameRow
  <2> QED
    BY <2>1, <2>2, SMTT(60)
<1>2. ASSUME NEW t \in Thread, Proceed(t)
      PROVE  pc[u] = "guarded" /\ cell'[u] = cell[u]
  <2>1. UNCHANGED <<pc, cell>> \/ \E s : Go(t, "flush", s)
    BY <1>2 DEF Proceed, Stop, Latch, Snapshot, StopKids, StopNotify, Release, Deregister,
       Register, Check, Adopt, Watch, GuardReturned, Upgrade, Unblock, walk, Stay
  <2> QED
    BY <1>0, <2>1, SMTT(60) DEF Go
<1>3. ASSUME NEW t \in Thread, Call(t)
      PROVE  \/ pc[u] = "guarded" /\ cell'[u] = cell[u]
             \/ \E s \in Shard, g \in Guard : ForShard(u, s, g) /\ cell'[u] = NodeOf[s]
  <2>1. CASE \E s \in Shard, g \in Guard : ForShard(t, s, g)
    BY <1>0, <2>1 DEF ForShard, Go, Stay
  <2>2. CASE UNCHANGED <<pc, cell>> \/ \E label \in {"flush", "arriveShard"} : \E c : Go(t, label, c)
    BY <1>0, <2>2 DEF Go
  <2> QED
    BY <1>3, <2>1, <2>2 DEF Call, NewGuard, CloneGuard, DropGuard, CloneSwansong, DropSwansong,
         AwaitSwansong, ShutDown, NewChild, DropFuture, BlockOnShutdown, walk, Stay
<1>4. ASSUME NEW n \in Node, Poll(n)
      PROVE  pc[u] = "guarded" /\ cell'[u] = cell[u]
  BY <1>4 DEF Poll, walk
<1> QED
  BY <1>1, <1>2, <1>3, <1>4 DEF Next, vars, walk

(* A thread comes to create a guard on a node that it has a handle of, or  *)
(* that it asked for through an interrupt.                                 *)
LEMMA BaseMoves ==
  ASSUME IInv, OwnInv, [Next]_vars, NEW u \in Thread, Active(u)'
  PROVE  \/ Active(u) /\ Base(u)' = Base(u)
         \/ pc[u] = "guarded" /\ Base(u)' = cell[u]
         \/ \E n \in Node : handles[n] > 0 /\ Base(u)' = n
<1>0. /\ pc \in [Thread -> Label] /\ cell \in [Thread -> Cell]
      /\ resume \in [Thread -> [pc : Label, cell : Cell]]
      /\ agenda \in [Thread -> Seq(Task)]
      /\ resume[u].pc # "idle" => pc[u] \in Departing
  BY DEF IInv, CoreInv, WalkTypes, OwnerTypes, ControlOK, WalkOK
<1>1. CASE SameRow(u) /\ agenda'[u] = agenda[u]
  BY <1>1 DEF SameRow, Active, Base
<1>2. ASSUME Guarded(u)
      PROVE  pc[u] = "guarded" /\ Base(u)' = cell[u]
  <2> DEFINE n == cell[u]
             x == TaskOn("release", n)
  <2>1. n \in Node /\ pc[u] = "guarded" /\ resume' = resume
    BY <1>2 DEF Guarded, At, IInv, CoreInv, ControlOK, WalkOK, OnTrack, NodeLabel
  <2>2. CASE Begin(u, <<x>>)
    <3>1. x \in Task /\ x.node = n
      BY <2>1, FreshJob DEF TaskName
    <3> HIDE DEF x
    <3>2. agenda'[u] = <<x>>
      BY <1>0, <2>2 DEF Begin
    <3> QED
      BY <2>1, <3>1, <3>2 DEF Base
  <2>3. CASE Go(u, "idle", Root)
    <3>1. pc'[u] = "idle" /\ resume'[u].pc = "idle"
      BY <1>0, <2>1, <2>3 DEF Go, Departing
    <3> QED
      BY <3>1 DEF Active, Arriving
  <2> QED
    BY <1>2, <2>2, <2>3 DEF Guarded
<1>3. ASSUME Walk(u), ~Guarded(u)
      PROVE  Active(u) /\ Base(u)' = Base(u)
  <2>1. agenda' = agenda
    BY <1>3 DEF Walk, ArriveShard, ArriveNode, CasShard, CasNode, DepartShard, Flush,
       DepartNode, DepartNotify, Unarrive
  <2>2. Active(u)
    <3> SUFFICES ASSUME ~Active(u) PROVE FALSE
      OBVIOUS
    <3>1. resume[u].pc = "idle" /\ pc[u] \notin Arriving \ {"guarded"}
      BY DEF Active
    <3>2. DepartShard(u) \/ Flush(u) \/ DepartNode(u) \/ DepartNotify(u) \/ Unarrive(u)
      BY <1>3, <3>1 DEF Walk, ArriveShard, ArriveNode, CasShard, CasNode, At, Arriving
    <3>3. /\ pc'[u] \in Departing \cup {"idle"} /\ resume'[u].pc = "idle"
      BY <1>0, <3>1, <3>2 DEF DepartShard, Flush, DepartNode, DepartNotify, Unarrive,
         Return, Go, Departing, AfterDeparture, Idling
    <3> QED
      BY <3>3 DEF Active, Arriving, Departing
  <2> QED
    BY <2>1, <2>2, SMTT(60) DEF Base
<1>4. CASE Proceed(u)
  <2>1. pc'[u] \in {"idle", "flush"} /\ resume'[u].pc = "idle"
    <3>1. pc[u] = "idle" /\ UNCHANGED resume
      BY <1>4, ProceedRows, ZenonT(60) DEF Starts, Proceed, Stop, Latch, Snapshot, StopKids, StopNotify,
         Release, Deregister, Register, Check, Adopt, Watch, GuardReturned, Upgrade, Unblock, walk
    <3>2. UNCHANGED <<pc, cell>> \/ \E s : Go(u, "flush", s)
      BY <1>4 DEF Proceed, Stop, Latch, Snapshot, StopKids, StopNotify, Release, Deregister,
         Register, Check, Adopt, Watch, GuardReturned, Upgrade, Unblock, walk, Stay
    <3> QED
      BY <1>0, <3>1, <3>2, SMTT(60) DEF Go, Departing
  <2> QED
    BY <2>1 DEF Active, Arriving
<1>5. CASE Call(u)
  <2>0. pc[u] = "idle" /\ resume'[u].pc = "idle"
    BY <1>0, <1>5, CallRows DEF Starts, Departing
  <2>1. PICK n \in Node, g \in Guard : NewGuard(u, n, g)
    <3> SUFFICES ASSUME ~\E n \in Node, g \in Guard : NewGuard(u, n, g)
                 PROVE  FALSE
      OBVIOUS
    <3>1. UNCHANGED <<pc, cell>> \/ \E label \in {"flush", "guarded"} : \E c : Go(u, label, c)
      BY <1>5 DEF Call, ForShard, CloneGuard, DropGuard, CloneSwansong, DropSwansong,
         AwaitSwansong, ShutDown, NewChild, DropFuture, BlockOnShutdown, walk, Stay
    <3>2. pc'[u] \in {"idle", "flush", "guarded"}
      BY <1>0, <2>0, <3>1 DEF Go
    <3> QED
      BY <2>0, <3>2 DEF Active, Arriving
  <2> DEFINE x == TaskOn("return", n)
  <2>2. handles[n] > 0 /\ Begin(u, <<x>>)
    BY <2>1 DEF NewGuard
  <2>3. x \in Task /\ x.node = n
    BY FreshJob DEF TaskName
  <2> HIDE DEF x
  <2>4. agenda'[u] = <<x>>
    BY <1>0, <2>2 DEF Begin
  <2> QED
    BY <2>2, <2>3, <2>4 DEF Base
<1>6. \/ SameRow(u) /\ agenda'[u] = agenda[u]
      \/ Walk(u) \/ Proceed(u) \/ Call(u)
  <2>1. ASSUME NEW t \in Thread, Walk(t) \/ Proceed(t) \/ Call(t), u # t
        PROVE  SameRow(u) /\ agenda'[u] = agenda[u]
    BY <2>1, WalkRows, ProceedRows, CallRows DEF Rest
  <2>2. CASE (\E n \in Node : Poll(n)) \/ UNCHANGED vars
    BY <2>2 DEF Poll, walk, vars, SameRow
  <2> QED
    BY <2>1, <2>2 DEF Next
<1> QED
  BY <1>1, <1>2, <1>3, <1>4, <1>5, <1>6

(* Where a task to return a child stands after a step.                     *)
LEMMA AdoptOrigin ==
  ASSUME IInv, OwnInv, [Next]_vars, NEW t \in Thread,
         NEW j \in 1 .. Len(agenda'[t]), agenda'[t][j].do = "adopt"
  PROVE  \/ \E i \in 1 .. Len(agenda[t]) :
              /\ agenda[t][i] = agenda'[t][j] /\ (i # 1 \/ ~Proceed(t))
              /\ i = Len(agenda[t]) => j = Len(agenda'[t])
         \/ /\ NewChild(t, agenda'[t][j].node) /\ agenda'[t][j].node \in Child
            /\ agenda[t] = <<>> /\ j = Len(agenda'[t])
<1>0. agenda \in [Thread -> Seq(Task)]
  BY DEF IInv, OwnerTypes
<1>1. CASE Proceed(t)
  <2>1. agenda[t] # <<>> /\ \E q : FreshTasks(t, q)
    BY <1>1, ProceedThen
  <2>2. PICK q : FreshTasks(t, q)
    BY <2>1
  <2>3. q \in Seq(Task) /\ Then(t, q)
    BY <2>2 DEF FreshTasks
  <2>4. ASSUME j \in 1 .. Len(q), agenda'[t][j] = q[j] PROVE FALSE
    <3>1. q[j] \in Task /\ FreshTask(t, q[j])
      BY <2>2, <2>3, <2>4 DEF FreshTasks
    <3> QED
      BY <2>4, <3>1 DEF FreshTask
  <2>5. \E i \in 2 .. Len(agenda[t]) :
          j = i - 1 + Len(q) /\ agenda'[t][j] = agenda[t][i]
    BY <1>0, <2>1, <2>3, <2>4, ThenPositions
  <2>6. /\ Len(agenda[t]) \in Nat \ {0} /\ Len(q) \in Nat
        /\ Len(agenda'[t]) = Len(q) + Len(agenda[t]) - 1
    BY <1>0, <2>1, <2>3, ThenJobs
  <2> QED
    BY <2>5, <2>6, SMTT(60)
<1>2. CASE ~Proceed(t) /\ agenda'[t] = agenda[t]
  BY <1>2
<1>3. CASE ~Proceed(t) /\ agenda'[t] # agenda[t]
  <2> DEFINE m == agenda'[t][j].node
  <2>1. agenda[t] = <<>>
    BY <1>3, StepRows
  <2>2. NewChild(t, m) /\ m \in Child
    <3>1. agenda'[t][j] \in Task /\ BegunTask(t, agenda'[t][j])
      BY <1>3, <2>1, TaskOrigin
    <3> QED
      BY <3>1 DEF BegunTask, Task, Child
  <2> HIDE DEF m
  <2>3. /\ Len(agenda'[t]) = 3
        /\ agenda'[t][1].do = "register" /\ agenda'[t][2].do = "check"
    BY <2>2, NewChildHas
  <2>4. j = 3
    BY <2>3
  <2> QED
    BY <2>1, <2>2, <2>3, <2>4 DEF m
<1> QED
  BY <1>1, <1>2, <1>3

(* AdoptOnce.                                                              *)
LEMMA AdoptOnceNext ==
  ASSUME IInv, OwnInv, AdoptOnce, [Next]_vars
  PROVE  AdoptOnce'
<1> DEFINE New(t, j) == \A c \in Child : agenda'[t][j].do = "adopt" /\ agenda'[t][j].node = c =>
                          NewChild(t, c) /\ agenda[t] = <<>>
           Old(t, j) == \E i \in 1 .. Len(agenda[t]) : agenda[t][i] = agenda'[t][j]
<1>1. ASSUME NEW t \in Thread, NEW j \in 1 .. Len(agenda'[t]), agenda'[t][j].do = "adopt"
      PROVE  /\ j = Len(agenda'[t])
             /\ Old(t, j) \/ New(t, j)
             /\ Old(t, j) => life[agenda'[t][j].node] = "live"
  <2>1. ASSUME NEW i \in 1 .. Len(agenda[t]), agenda[t][i] = agenda'[t][j]
        PROVE  i = Len(agenda[t]) /\ life[agenda'[t][j].node] = "live"
    BY <1>1, <2>1 DEF AdoptOnce, OwnInv, AgendaInv, JobsOK, JobOK
  <2> QED
    BY <1>1, <2>1, AdoptOrigin
<1>2. ASSUME NEW t \in Thread, NEW u \in Thread,
             NEW i \in 1 .. Len(agenda'[t]), NEW j \in 1 .. Len(agenda'[u]),
             NEW c \in Child, agenda'[t][i].do = "adopt", agenda'[t][i].node = c,
             agenda'[u][j].do = "adopt", agenda'[u][j].node = c, t # u
      PROVE  FALSE
  <2>1. CASE Old(t, i) /\ Old(u, j)
    <3>1. PICK k \in 1 .. Len(agenda[t]) : agenda[t][k] = agenda'[t][i]
      BY <2>1
    <3>2. PICK l \in 1 .. Len(agenda[u]) : agenda[u][l] = agenda'[u][j]
      BY <2>1
    <3>3. u \in Thread \ {t} /\ AdoptOf(u, l, c)
      BY <1>2, <3>2 DEF AdoptOf
    <3>4. agenda[t][k].do = "adopt" /\ agenda[t][k].node = c
      BY <1>2, <3>1
    <3> QED
      BY <3>1, <3>2, <3>3, <3>4, SMTT(60) DEF AdoptOnce
  <2>2. CASE NewChild(t, c) \/ NewChild(u, c)
    <3>1. ~Old(t, i) /\ ~Old(u, j)
      BY <1>1, <1>2, <2>2 DEF NewChild
    <3>2. NewChild(t, c) /\ NewChild(u, c) /\ agenda[u] = <<>>
      BY <1>1, <1>2, <3>1
    <3>3. agenda'[u] = agenda[u]
      BY <1>2, <3>2 DEF NewChild, Begin, IInv, OwnerTypes
    <3> QED
      BY <3>2, <3>3
  <2> QED
    BY <1>1, <1>2, <2>1, <2>2
<1>3. ASSUME NEW t \in Thread, NEW i \in 1 .. Len(agenda'[t]), agenda'[t][i].do = "adopt"
      PROVE  agenda'[t][i].node \in Child
  <2>1. agenda'[t][i] \in Task
    BY TaskOrigin
  <2> QED
    BY <1>3, <2>1 DEF Task, Child
<1> HIDE DEF New, Old
<1> QED
  BY <1>1, <1>2, <1>3 DEF AdoptOnce, AdoptOf

(* AdoptDue.                                                               *)
LEMMA AdoptDueNext ==
  ASSUME IInv, OwnInv, RegisterFirst, AdoptDue, [Next]_vars
  PROVE  AdoptDue'
<1> SUFFICES ASSUME NEW t \in Thread, NEW j \in 1 .. Len(agenda'[t]),
                    agenda'[t][j].do = "register"
             PROVE  \E k \in 1 .. Len(agenda'[t]) :
                      /\ agenda'[t][k].do = "adopt"
                      /\ agenda'[t][k].node = agenda'[t][j].node
  BY DEF AdoptDue, AdoptOf
<1>1. CASE \E i \in 1 .. Len(agenda[t]) :
             agenda[t][i] = agenda'[t][j] /\ (i # 1 \/ ~Proceed(t))
  <2>1. PICK i \in 1 .. Len(agenda[t]) :
             agenda[t][i] = agenda'[t][j] /\ (i # 1 \/ ~Proceed(t))
    BY <1>1
  <2>2. i = 1 /\ ~Proceed(t) /\ agenda[t] # <<>>
    <3>1. agenda[t] \in Seq(Task)
      BY DEF IInv, OwnerTypes
    <3> QED
      BY <2>1, <3>1 DEF RegisterFirst
  <2>3. agenda'[t] = agenda[t]
    BY <2>2, StepRows
  <2> QED
    BY <2>3 DEF AdoptDue, AdoptOf
<1>2. CASE FreshTask(t, agenda'[t][j])
  BY <1>2 DEF FreshTask
<1>3. CASE BegunTask(t, agenda'[t][j])
  <2> DEFINE m == agenda'[t][j].node
  <2>1. NewChild(t, m)
    BY <1>3 DEF BegunTask
  <2>2. m \in Child
    BY TaskOrigin DEF Task, Child
  <2> HIDE DEF m
  <2>3. Len(agenda'[t]) = 3 /\ agenda'[t][3].do = "adopt" /\ agenda'[t][3].node = m
    BY <2>1, <2>2, NewChildHas
  <2> QED
    BY <2>3 DEF m
<1> QED
  BY <1>1, <1>2, <1>3, TaskOrigin

(* AskedBorn.                                                              *)
LEMMA AskedBornNext ==
  ASSUME IInv, OwnInv, AskedBorn, [Next]_vars
  PROVE  AskedBorn'
<1> SUFFICES ASSUME NEW t \in Thread, pc'[t] = "guarded"
             PROVE  life'[cell'[t]] # "unborn"
  BY DEF AskedBorn
<1>1. cell'[t] \in Node /\ life[cell'[t]] # "unborn"
  <2>1. CASE pc[t] = "guarded" /\ cell'[t] = cell[t]
    BY <2>1 DEF AskedBorn, IInv, CoreInv, ControlOK, WalkOK, OnTrack, NodeLabel
  <2>2. CASE \E s \in Shard, g \in Guard : ForShard(t, s, g) /\ cell'[t] = NodeOf[s]
    BY <2>2, ShardAssumption DEF ForShard
  <2> QED
    BY <2>1, <2>2, AskMoves
<1> QED
  BY <1>1, LifeMoves

(* Nobody but child() can give a node under construction to a client.      *)
LEMMA UntouchedNext ==
  ASSUME IInv, OwnInv, [Next]_vars, NEW c \in Child, Untouched(c),
         Constructing(c) \/ life[c] = "unborn",
         \A t \in Thread : Adopt(t) => Head(agenda[t]).node # c
  PROVE  Untouched(c)'
<1>0. c \in Node /\ c # Root /\ handles \in [Node -> Nat] /\ handles' \in [Node -> Nat]
  BY OwnersNext DEF Child, IInv, OwnerTypes
<1>1. handles'[c] = 0
  BY <1>0, HandleRises DEF Untouched
<1>2. ASSUME NEW g \in Guard, home'[g] # NoShard
      PROVE  NodeOf[home'[g]] # c
  <2>1. CASE home'[g] = home[g]
    BY <1>2, <2>1 DEF Untouched
  <2>2. CASE home'[g] # home[g]
    <3>1. CASE \E h \in Guard : home[h] = home'[g]
      BY <1>2, <3>1 DEF Untouched
    <3>2. CASE \E t \in Thread : Active(t) /\ NodeOf[home'[g]] = Base(t)
      BY <3>2 DEF Untouched
    <3> QED
      BY <1>0, <1>2, <2>2, <3>1, <3>2, HomeMoves
  <2> QED
    BY <2>1, <2>2
<1>3. ASSUME NEW m \in Child, Parent[m] = c
      PROVE  life'[m] \notin {"live", "dropping"}
  <2>1. m \in Node /\ life[m] \notin {"live", "dropping"}
    BY <1>3 DEF Untouched, Child
  <2>2. ASSUME NEW t \in Thread, NewChild(t, m) PROVE FALSE
    BY <1>3, <2>2 DEF NewChild, Untouched
  <2> QED
    BY <2>1, <2>2, LifeMoves
<1>4. ASSUME NEW t \in Thread, pc'[t] = "guarded"
      PROVE  cell'[t] # c
  <2>1. CASE pc[t] = "guarded" /\ cell'[t] = cell[t]
    BY <2>1 DEF Untouched
  <2>2. CASE \E s \in Shard, g \in Guard : ForShard(t, s, g) /\ cell'[t] = NodeOf[s]
    BY <2>2 DEF ForShard
  <2> QED
    BY <1>4, <2>1, <2>2, AskMoves
<1>5. ASSUME NEW t \in Thread, Active(t)'
      PROVE  Base(t)' # c
  <2>1. CASE Active(t) /\ Base(t)' = Base(t)
    BY <2>1 DEF Untouched
  <2>2. CASE pc[t] = "guarded" /\ Base(t)' = cell[t]
    BY <2>2 DEF Untouched
  <2>3. CASE \E n \in Node : handles[n] > 0 /\ Base(t)' = n
    BY <1>0, <2>3 DEF Untouched
  <2> QED
    BY <1>5, <2>1, <2>2, <2>3, BaseMoves
<1> QED
  BY <1>1, <1>2, <1>3, <1>4, <1>5 DEF Untouched

(* A node that does not exist is untouched.                                *)
LEMMA UnbornUntouched ==
  ASSUME IInv, OwnInv, AskedBorn, NEW c \in Child, life[c] = "unborn"
  PROVE  Untouched(c)
<1>0. c \in Node /\ c # Root /\ handles \in [Node -> Nat]
  BY DEF Child, IInv, OwnerTypes
<1>1. handles[c] = 0
  BY <1>0 DEF OwnInv, KeptAlive
<1>2. \A g \in Guard : home[g] # NoShard => NodeOf[home[g]] # c
  BY <1>0 DEF OwnInv, KeptAlive
<1>3. \A m \in Child : Parent[m] = c => life[m] \notin {"live", "dropping"}
  BY <1>0 DEF OwnInv, KeptAlive
<1>4. \A t \in Thread : pc[t] = "guarded" => cell[t] # c
  BY DEF AskedBorn
<1>5. \A t \in Thread : Active(t) => Base(t) # c
  BY BaseKept
<1> QED
  BY <1>1, <1>2, <1>3, <1>4, <1>5 DEF Untouched

(* AdoptUntouched.                                                         *)
LEMMA AdoptUntouchedNext ==
  ASSUME IInv, OwnInv, AdoptUntouched, AdoptOnce, AskedBorn, [Next]_vars
  PROVE  AdoptUntouched'
<1>0. agenda \in [Thread -> Seq(Task)] /\ agenda' \in [Thread -> Seq(Task)]
  BY OwnersNext DEF IInv, OwnerTypes
<1> SUFFICES ASSUME NEW c \in Child, NEW t \in Thread, NEW j \in 1 .. Len(agenda'[t]),
                    agenda'[t][j].do = "adopt", agenda'[t][j].node = c
             PROVE  Untouched(c)'
  <2>1. \A t \in Thread : DOMAIN agenda'[t] = 1 .. Len(agenda'[t])
    BY <1>0
  <2> QED
    BY <2>1 DEF AdoptUntouched, Constructing
<1>1. CASE \E i \in 1 .. Len(agenda[t]) :
             agenda[t][i] = agenda'[t][j] /\ (i # 1 \/ ~Proceed(t))
  <2>1. PICK i \in 1 .. Len(agenda[t]) :
             agenda[t][i] = agenda'[t][j] /\ (i # 1 \/ ~Proceed(t))
    BY <1>1
  <2>2. i \in DOMAIN agenda[t] /\ AdoptOf(t, i, c)
    BY <1>0, <2>1 DEF AdoptOf
  <2>3. Constructing(c)
    BY <2>2 DEF Constructing, AdoptOf
  <2>4. ASSUME NEW u \in Thread, Adopt(u), Head(agenda[u]).node = c
        PROVE  FALSE
    <3>1. agenda[u] \in Seq(Task) /\ agenda[u] # <<>> /\ agenda[u][1].do = "adopt"
      BY <1>0, <2>4 DEF Adopt, Doing
    <3>2. 1 \in 1 .. Len(agenda[u]) /\ AdoptOf(u, 1, c)
      BY <2>4, <3>1 DEF AdoptOf
    <3>3. u = t
      BY <2>1, <2>2, <3>2, SMTT(60) DEF AdoptOnce, AdoptOf
    <3>4. i = Len(agenda[t]) /\ 1 = Len(agenda[t])
      BY <2>1, <2>2, <3>2, <3>3 DEF AdoptOnce, AdoptOf
    <3> QED
      BY <2>1, <2>4, <3>3, <3>4 DEF Proceed
  <2> QED
    BY <2>3, <2>4, UntouchedNext DEF AdoptUntouched
<1>2. CASE NewChild(t, c)
  <2>1. life[c] = "unborn"
    BY <1>2 DEF NewChild
  <2>2. \A u \in Thread : ~Adopt(u)
    BY <1>2, <2>1 DEF NewChild, Adopt, Child, IInv, OwnerTypes
  <2> QED
    BY <2>1, <2>2, UnbornUntouched, UntouchedNext
<1> QED
  BY <1>1, <1>2, AdoptOrigin

(* The parts together.                                                     *)
LEMMA ChildInvNext ==
  ASSUME IInv, OwnInv, RegisterFirst, ChildInv, [Next]_vars
  PROVE  ChildInv'
BY AdoptUntouchedNext, AdoptOnceNext, AskedBornNext, AdoptDueNext DEF ChildInv

(* The initial states.                                                     *)
LEMMA InitChild ==
  ASSUME Init
  PROVE  ChildInv
<1>1. \A t \in Thread : agenda[t] = <<>> /\ Len(agenda[t]) = 0 /\ pc[t] = "idle"
  BY DEF Init
<1>2. \A c : ~Constructing(c)
  BY <1>1 DEF Constructing
<1> QED
  BY <1>1, <1>2 DEF ChildInv, AdoptUntouched, AdoptOnce, AskedBorn, AdoptDue

(* Below a node of a chain of ancestors is one of its children.            *)
LEMMA ChildAbove ==
  ASSUME NEW n \in Node, NEW c \in Ancestors(n), c # n
  PROVE  \E m \in Child : Parent[m] = c /\ m \in Ancestors(n)
<1> DEFINE S == {k \in Ancestors(n) : k = n \/ \E m \in Child : Parent[m] = k /\ m \in Ancestors(n)}
<1>1. n \in S
  BY AncestorsClosed
<1>2. ASSUME NEW m \in Child, m \in S
      PROVE  Parent[m] \in S
  BY <1>2, AncestorsClosed DEF Child
<1> HIDE DEF S
<1>3. Ancestors(n) \subseteq S
  BY <1>1, <1>2, AncestorsLeast
<1> QED
  BY <1>3 DEF S

(* No guard is below a child that has not been returned.                   *)
LEMMA NoneBelow ==
  ASSUME IInv, OwnInv, ChildInv, NEW g \in Guard, home[g] # NoShard,
         NEW c \in Child, c \in Ancestors(NodeOf[home[g]])
  PROVE  ~Constructing(c) /\ life[c] = "live"
<1> DEFINE n == NodeOf[home[g]]
<1>0. n \in Node
  BY ShardAssumption DEF IInv, CoreInv, WordTypes
<1>1. n # Root
  BY <1>0, AncestorsUnfold, AncestorsAcyclic, RootAssumption DEF Child
<1>2. life[n] = "live"
  BY <1>1 DEF OwnInv, KeptAlive
<1> HIDE DEF n
<1>3. \A a \in Ancestors(n) : life[a] = "live"
  BY <1>0, <1>2, LiveAncestors DEF OwnInv
<1>4. c \in Ancestors(n)
  BY DEF n
<1>5. CASE n = c
  BY <1>2, <1>5 DEF ChildInv, AdoptUntouched, Untouched, n
<1>6. CASE n # c
  <2>1. PICK m \in Child : Parent[m] = c /\ m \in Ancestors(n)
    BY <1>0, <1>4, <1>6, ChildAbove
  <2> QED
    BY <1>3, <1>4, <2>1 DEF ChildInv, AdoptUntouched, Untouched
<1> QED
  BY <1>5, <1>6

(* A child with a guard below it is not about to be registered, either.    *)
LEMMA RegisterAdopts ==
  ASSUME IInv, ChildInv, NEW t \in Thread, NEW i \in 1 .. Len(agenda[t]),
         agenda[t][i].do = "register"
  PROVE  Constructing(agenda[t][i].node)
<1>1. PICK j \in 1 .. Len(agenda[t]) : AdoptOf(t, j, agenda[t][i].node)
  BY DEF ChildInv, AdoptDue
<1>2. j \in DOMAIN agenda[t]
  BY DEF IInv, OwnerTypes
<1> QED
  BY <1>1, <1>2 DEF Constructing, AdoptOf

LEMMA GuardsRegisteredNow ==
  ASSUME IInv, OwnInv, RegisterDue, ChildInv
  PROVE  GuardsRegistered
<1> SUFFICES ASSUME NEW g \in Guard, home[g] # NoShard,
                    NEW c \in Ancestors(NodeOf[home[g]]) \ {Root}
             PROVE  registered[c] \in Shards(Parent[c])
  BY DEF GuardsRegistered
<1>1. c \in Child /\ c \in Node
  <2>1. NodeOf[home[g]] \in Node
    BY ShardAssumption DEF IInv, CoreInv, WordTypes
  <2> QED
    BY <2>1, AncestorsClosed
<1>2. ~Constructing(c) /\ life[c] = "live"
  BY <1>1, NoneBelow
<1>3. registered[c] # NoShard
  <2> SUFFICES ASSUME registered[c] = NoShard PROVE FALSE
    OBVIOUS
  <2>1. PICK t \in Thread : Registering(t, c)
    BY <1>1, <1>2 DEF RegisterDue
  <2>2. 1 \in 1 .. Len(agenda[t]) /\ agenda[t][1].do = "register" /\ agenda[t][1].node = c
    BY <2>1 DEF Registering, IInv, OwnerTypes
  <2> QED
    BY <1>2, <2>2, RegisterAdopts
<1> QED
  BY <1>1, <1>3 DEF OwnInv, KeptAlive, Shards, IInv, OwnerTypes

-----------------------------------------------------------------------------
(* The steps of a count.                                                   *)

(* The children that were found, in some order.                            *)
LEMMA SetToSeqOrders ==
  ASSUME NEW S, IsFiniteSet(S)
  PROVE  /\ SetToSeq(S) \in Seq(S)
         /\ \A i, j \in 1 .. Len(SetToSeq(S)) : SetToSeq(S)[i] = SetToSeq(S)[j] => i = j
         /\ \A x \in S : \E i \in 1 .. Len(SetToSeq(S)) : SetToSeq(S)[i] = x
<1> DEFINE n == Cardinality(S)
           f == SetToSeq(S)
<1>1. n \in Nat /\ ExistsBijection(1 .. n, S)
  BY FS_CardinalityType
<1>2. f \in [1 .. n -> S] /\ IsInjective(f)
  BY <1>1 DEF SetToSeq, ExistsBijection, Bijection, Injection
<1>3. f \in Injection(1 .. n, S)
  BY <1>2 DEF Injection
<1>4. Cardinality(1 .. n) = n
  BY <1>1, FS_Interval
<1> HIDE DEF f
<1>5. f \in Surjection(1 .. n, S)
  BY <1>3, <1>4, FS_Injection
<1>6. f \in Seq(S) /\ Len(f) = n
  BY <1>1, <1>2
<1>7. \A x \in S : \E i \in 1 .. n : f[i] = x
  BY <1>5 DEF Surjection
<1>8. \A i, j \in 1 .. n : f[i] = f[j] => i = j
  BY <1>2 DEF IsInjective
<1> QED
  BY <1>6, <1>7, <1>8 DEF f

(* The odd positions are for the shards, the even ones for the children.   *)
LEMMA Pairs ==
  ASSUME NEW n \in Nat
  PROVE  /\ \A i \in 1 .. 2 * n : (i + 1) \div 2 \in 1 .. n
         /\ \A i, j \in 1 .. 2 * n : i % 2 = j % 2 /\ (i + 1) \div 2 = (j + 1) \div 2 => i = j
         /\ \A i \in 1 .. 2 * n : i % 2 = 1 \/ i % 2 = 0
         /\ \A k \in 1 .. n : /\ 2 * k - 1 \in 1 .. 2 * n /\ 2 * k \in 1 .. 2 * n
                              /\ (2 * k - 1) % 2 = 1 /\ (2 * k) % 2 = 0
                              /\ (2 * k - 1 + 1) \div 2 = k /\ (2 * k + 1) \div 2 = k
OBVIOUS

(* The tasks that visit a child, and the one that drops its Arc.           *)
KidTask(m) == {TaskOn("tally", m), TaskOn("gather", m), TaskOn("release", m)}

(* The visits of the children kids: two of each, and none twice.           *)
VisitsOf(q, kids) ==
  /\ \A i \in 1 .. Len(q) : \E m \in kids : q[i] \in KidTask(m)
  /\ \A i, j \in 1 .. Len(q) :
       q[i].do # "release" /\ q[i].do = q[j].do /\ q[i].node = q[j].node => i = j
  /\ \A m \in kids : /\ \E i \in 1 .. Len(q) : q[i] = TaskOn("tally", m)
                     /\ \E i \in 1 .. Len(q) : q[i] = TaskOn("gather", m)

(* A count drops the Arcs of the children once all are counted.            *)
LEMMA KidTasks ==
  ASSUME NEW kids \in SUBSET Child
  PROVE  LET q == CountKids(SetToSeq(kids)) IN
         q \in Seq(Task) /\ VisitsOf(q, kids)
<1> DEFINE f == SetToSeq(kids)
           n == Len(f)
           v == Visits(f)
           r == Releases(f)
           q == v \o r
<1>1. IsFiniteSet(kids)
  BY FS_Subset, TreeAssumption DEF Child
<1>2. /\ f \in Seq(kids) /\ n \in Nat
      /\ \A i, j \in 1 .. n : f[i] = f[j] => i = j
      /\ \A m \in kids : \E i \in 1 .. n : f[i] = m
  BY <1>1, SetToSeqOrders
<1> HIDE DEF f
<1>3. \A k \in 1 .. n : f[k] \in kids /\ f[k] \in Node
  BY <1>2 DEF Child
<1>4. ASSUME NEW do \in {"tally", "gather", "release"}, NEW m \in kids
      PROVE  TaskOn(do, m) \in Task /\ TaskOn(do, m).do = do /\ TaskOn(do, m).node = m
  BY FreshJob DEF TaskName, Child
<1>5. /\ v \in Seq(Task) /\ Len(v) = 2 * n
      /\ \A i \in 1 .. 2 * n :
           v[i] = TaskOn(IF i % 2 = 1 THEN "tally" ELSE "gather", f[(i + 1) \div 2])
  <2>1. \A i \in 1 .. 2 * n :
          TaskOn(IF i % 2 = 1 THEN "tally" ELSE "gather", f[(i + 1) \div 2]) \in Task
    BY <1>2, <1>3, <1>4, Pairs
  <2> DEFINE k == 2 * n
  <2>2. k \in Nat
    BY <1>2
  <2>3. v \in [1 .. k -> Task]
    BY <2>1 DEF Visits
  <2>4. \A i \in 1 .. k :
          v[i] = TaskOn(IF i % 2 = 1 THEN "tally" ELSE "gather", f[(i + 1) \div 2])
    BY DEF Visits
  <2> HIDE DEF v, k
  <2>5. v \in Seq(Task) /\ Len(v) = k
    BY <2>2, <2>3
  <2> QED
    BY <2>4, <2>5 DEF k
<1>6. /\ r \in Seq(Task) /\ Len(r) = n
      /\ \A i \in 1 .. n : r[i] = TaskOn("release", f[i])
  <2>1. DOMAIN f = 1 .. n
    BY <1>2
  <2>2. r \in [1 .. n -> Task] /\ \A i \in 1 .. n : r[i] = TaskOn("release", f[i])
    BY <1>3, <1>4, <2>1 DEF Releases
  <2> HIDE DEF r
  <2> QED
    BY <1>2, <2>2, SMTT(60)
<1> HIDE DEF v, r
<1>7. /\ q \in Seq(Task) /\ Len(q) = 3 * n
      /\ \A i \in 1 .. 2 * n : q[i] = v[i]
      /\ \A i \in 1 .. n : q[2 * n + i] = r[i]
  <2> DEFINE k == 2 * n
  <2>1. k \in Nat /\ 3 * n = k + n /\ v \in Seq(Task) /\ Len(v) = k
    BY <1>2, <1>5
  <2> HIDE DEF k
  <2>2. Len(q) = k + n /\ q \in Seq(Task)
    BY <1>2, <1>6, <2>1
  <2>3. ASSUME NEW i \in 1 .. k PROVE q[i] = v[i]
    BY <1>2, <1>6, <2>1
  <2>4. ASSUME NEW i \in 1 .. n PROVE q[k + i] = r[i]
    BY <1>2, <1>6, <2>1
  <2> QED
    BY <2>1, <2>2, <2>3, <2>4 DEF k
<1>8. \A i \in 1 .. 3 * n : i \in 1 .. 2 * n \/ \E k \in 1 .. n : i = 2 * n + k
  <2> TAKE i \in 1 .. 3 * n
  <2>1. i \notin 1 .. 2 * n => i - 2 * n \in 1 .. n /\ i = 2 * n + (i - 2 * n)
    BY <1>2
  <2> QED
    BY <2>1
<1> HIDE DEF q
<1>9. ASSUME NEW i \in 1 .. 2 * n
      PROVE  /\ (i + 1) \div 2 \in 1 .. n
             /\ q[i] = TaskOn(IF i % 2 = 1 THEN "tally" ELSE "gather", f[(i + 1) \div 2])
             /\ q[i].do = IF i % 2 = 1 THEN "tally" ELSE "gather"
             /\ q[i].node = f[(i + 1) \div 2]
  <2>1. (i + 1) \div 2 \in 1 .. n
    BY <1>2, Pairs
  <2>2. q[i] = TaskOn(IF i % 2 = 1 THEN "tally" ELSE "gather", f[(i + 1) \div 2])
    BY <1>5, <1>7
  <2>3. f[(i + 1) \div 2] \in kids
    BY <1>3, <2>1
  <2> QED
    BY <1>4, <2>1, <2>2, <2>3
<1>10. ASSUME NEW k \in 1 .. n
       PROVE  q[2 * n + k] = TaskOn("release", f[k]) /\ q[2 * n + k].do = "release"
  BY <1>3, <1>4, <1>6, <1>7
<1>11. \A i \in 1 .. Len(q) : \E m \in kids : q[i] \in KidTask(m)
  <2> TAKE i \in 1 .. Len(q)
  <2>1. CASE i \in 1 .. 2 * n
    BY <1>3, <1>9, <2>1 DEF KidTask
  <2>2. CASE \E k \in 1 .. n : i = 2 * n + k
    BY <1>3, <1>10, <2>2 DEF KidTask
  <2> QED
    BY <1>7, <1>8, <2>1, <2>2
<1>12. ASSUME NEW i \in 1 .. Len(q), NEW j \in 1 .. Len(q),
              q[i].do # "release", q[i].do = q[j].do, q[i].node = q[j].node
       PROVE  i = j
  <2>1. i \in 1 .. 2 * n /\ j \in 1 .. 2 * n
    <3>1. i \in 1 .. 3 * n /\ j \in 1 .. 3 * n
      BY <1>7
    <3>2. i \in 1 .. 2 * n
      BY <1>8, <1>10, <1>12, <3>1
    <3>3. j \in 1 .. 2 * n
      BY <1>8, <1>10, <1>12, <3>1
    <3> QED
      BY <3>2, <3>3
  <2>2. i % 2 = j % 2
    <3>1. /\ i % 2 = 1 \/ i % 2 = 0
          /\ j % 2 = 1 \/ j % 2 = 0
      BY <1>2, <2>1, Pairs
    <3>2. /\ q[i].do = IF i % 2 = 1 THEN "tally" ELSE "gather"
          /\ q[j].do = IF j % 2 = 1 THEN "tally" ELSE "gather"
      BY <1>9, <2>1
    <3> QED
      BY <1>12, <3>1, <3>2
  <2>3. (i + 1) \div 2 = (j + 1) \div 2
    BY <1>2, <1>9, <1>12, <2>1
  <2> QED
    BY <1>2, <2>1, <2>2, <2>3, Pairs
<1>13. ASSUME NEW m \in kids
       PROVE  /\ \E i \in 1 .. Len(q) : q[i] = TaskOn("tally", m)
              /\ \E i \in 1 .. Len(q) : q[i] = TaskOn("gather", m)
  <2>1. PICK k \in 1 .. n : f[k] = m
    BY <1>2
  <2>2. /\ 2 * k - 1 \in 1 .. 2 * n /\ 2 * k \in 1 .. 2 * n
        /\ (2 * k - 1) % 2 = 1 /\ (2 * k) % 2 = 0
        /\ (2 * k - 1 + 1) \div 2 = k /\ (2 * k + 1) \div 2 = k
    BY <1>2, Pairs
  <2>3. q[2 * k - 1] = TaskOn("tally", m) /\ q[2 * k] = TaskOn("gather", m)
    BY <1>9, <2>1, <2>2
  <2>4. 2 * k - 1 \in 1 .. Len(q) /\ 2 * k \in 1 .. Len(q)
    BY <1>2, <1>7, <2>2
  <2> QED
    BY <2>3, <2>4
<1>14. CountKids(SetToSeq(kids)) = q
  BY DEF CountKids, q, v, r, f
<1> QED
  BY <1>7, <1>11, <1>12, <1>13, <1>14 DEF VisitsOf

(* Of three positions the first is for the shards, the second for the      *)
(* children, the third for the Arc.                                        *)
LEMMA Triples ==
  ASSUME NEW n \in Nat
  PROVE  /\ \A i \in 1 .. 3 * n : (i + 2) \div 3 \in 1 .. n
         /\ \A i, j \in 1 .. 3 * n : i % 3 = j % 3 /\ (i + 2) \div 3 = (j + 2) \div 3 => i = j
         /\ \A i \in 1 .. 3 * n : i % 3 = 1 \/ i % 3 = 2 \/ i % 3 = 0
         /\ \A k \in 1 .. n : /\ 3 * k - 2 \in 1 .. 3 * n /\ 3 * k - 1 \in 1 .. 3 * n
                              /\ (3 * k - 2) % 3 = 1 /\ (3 * k - 1) % 3 = 2
                              /\ (3 * k - 2 + 2) \div 3 = k /\ (3 * k - 1 + 2) \div 3 = k
OBVIOUS

(* A report drops that of each child before it goes on to the next.        *)
LEMMA ReportTasks ==
  ASSUME NEW kids \in SUBSET Child
  PROVE  LET q == ReportKids(SetToSeq(kids)) IN
         q \in Seq(Task) /\ VisitsOf(q, kids)
<1> DEFINE f == SetToSeq(kids)
           n == Len(f)
           l == 3 * n
           Do(i) == IF i % 3 = 1 THEN "tally" ELSE IF i % 3 = 2 THEN "gather" ELSE "release"
           q == ReportKids(f)
<1>1. IsFiniteSet(kids)
  BY FS_Subset, TreeAssumption DEF Child
<1>2. /\ f \in Seq(kids) /\ n \in Nat
      /\ \A i, j \in 1 .. n : f[i] = f[j] => i = j
      /\ \A m \in kids : \E i \in 1 .. n : f[i] = m
  BY <1>1, SetToSeqOrders
<1> HIDE DEF f
<1>3. \A k \in 1 .. n : f[k] \in kids /\ f[k] \in Node
  BY <1>2 DEF Child
<1>4. ASSUME NEW do \in {"tally", "gather", "release"}, NEW m \in kids
      PROVE  TaskOn(do, m) \in Task /\ TaskOn(do, m).do = do /\ TaskOn(do, m).node = m
  BY FreshJob DEF TaskName, Child
<1>5. \A i \in 1 .. l : TaskOn(Do(i), f[(i + 2) \div 3]) \in Task
  BY <1>2, <1>3, <1>4, Triples
<1>6. /\ q \in Seq(Task) /\ Len(q) = l /\ l \in Nat
      /\ \A i \in 1 .. l : q[i] = TaskOn(Do(i), f[(i + 2) \div 3])
  <2>1. l \in Nat
    BY <1>2
  <2>2. /\ q \in [1 .. l -> Task]
        /\ \A i \in 1 .. l : q[i] = TaskOn(Do(i), f[(i + 2) \div 3])
    BY <1>5 DEF ReportKids
  <2> HIDE DEF q, l, Do
  <2> QED
    BY <2>1, <2>2
<1> HIDE DEF q
<1>7. ASSUME NEW i \in 1 .. Len(q)
      PROVE  /\ i \in 1 .. l /\ (i + 2) \div 3 \in 1 .. n /\ f[(i + 2) \div 3] \in kids
             /\ Do(i) \in {"tally", "gather", "release"}
             /\ q[i] = TaskOn(Do(i), f[(i + 2) \div 3])
             /\ q[i].do = Do(i) /\ q[i].node = f[(i + 2) \div 3]
  <2>1. i \in 1 .. l /\ (i + 2) \div 3 \in 1 .. n
    BY <1>2, <1>6, Triples
  <2>2. f[(i + 2) \div 3] \in kids /\ Do(i) \in {"tally", "gather", "release"}
    BY <1>3, <2>1
  <2> QED
    BY <1>4, <1>6, <2>1, <2>2
<1>8. \A i \in 1 .. Len(q) : \E m \in kids : q[i] \in KidTask(m)
  <2> HIDE DEF Do, l
  <2> QED
    BY <1>7 DEF KidTask
<1>9. ASSUME NEW i \in 1 .. Len(q), NEW j \in 1 .. Len(q),
             q[i].do # "release", q[i].do = q[j].do, q[i].node = q[j].node
      PROVE  i = j
  <2>1. i \in 1 .. l /\ j \in 1 .. l /\ Do(i) = Do(j) /\ Do(i) # "release"
    BY <1>7, <1>9
  <2>2. i % 3 = j % 3
    BY <2>1
  <2>3. (i + 2) \div 3 = (j + 2) \div 3
    <3> DEFINE a == (i + 2) \div 3
               b == (j + 2) \div 3
    <3>1. a \in 1 .. n /\ q[i].node = f[a]
      BY <1>7
    <3>2. b \in 1 .. n /\ q[j].node = f[b]
      BY <1>7
    <3> HIDE DEF a, b
    <3>3. a = b
      BY <1>2, <1>9, <3>1, <3>2
    <3> QED
      BY <3>3 DEF a, b
  <2> QED
    BY <1>2, <2>1, <2>2, <2>3, Triples
<1>10. ASSUME NEW m \in kids
       PROVE  /\ \E i \in 1 .. Len(q) : q[i] = TaskOn("tally", m)
              /\ \E i \in 1 .. Len(q) : q[i] = TaskOn("gather", m)
  <2>1. PICK k \in 1 .. n : f[k] = m
    BY <1>2
  <2>2. /\ 3 * k - 2 \in 1 .. l /\ 3 * k - 1 \in 1 .. l
        /\ (3 * k - 2) % 3 = 1 /\ (3 * k - 1) % 3 = 2
        /\ (3 * k - 2 + 2) \div 3 = k /\ (3 * k - 1 + 2) \div 3 = k
    BY <1>2, Triples
  <2>3. Do(3 * k - 2) = "tally" /\ Do(3 * k - 1) = "gather"
    BY <2>2
  <2>4. q[3 * k - 2] = TaskOn("tally", m) /\ q[3 * k - 1] = TaskOn("gather", m)
    BY <1>6, <2>1, <2>2, <2>3
  <2> QED
    BY <1>6, <2>2, <2>4
<1> QED
  BY <1>6, <1>8, <1>9, <1>10 DEF VisitsOf, q, f

(* The tree under the count.                                               *)
TreeInv == IInv /\ OwnInv /\ StopInv /\ ChildInv

CountTask == {"tally", "gather"}
Visiting(x) == x.do \in CountTask

(* A step that only touches the agenda of one thread, and neither drops a  *)
(* task that is not a visit nor adds one that belongs to new_child.        *)
LEMMA VisitFrame ==
  ASSUME TreeInv, NEW t \in Thread, pc[t] = "idle",
         UNCHANGED <<words, walk, owners, making>>,
         agenda' \in [Thread -> Seq(Task)], AgendaInv',
         \A u \in Thread \ {t} : agenda'[u] = agenda[u],
         \A i \in 1 .. Len(agenda[t]) :
           /\ agenda[t][i].do # "register"
           /\ Visiting(agenda[t][i]) \/ \E j \in 1 .. Len(agenda'[t]) : agenda'[t][j] = agenda[t][i],
         \A j \in 1 .. Len(agenda'[t]) : agenda'[t][j].do \in {"register", "adopt"} =>
           \E i \in 1 .. Len(agenda[t]) :
             agenda[t][i] = agenda'[t][j] /\ (i = Len(agenda[t]) => j = Len(agenda'[t]))
  PROVE  TreeInv'
<1> USE DEF TreeInv
<1>1. IInv'
  <2>1. CoreInv'
    BY CoreFrame DEF IInv, core, owners, words
  <2>2. OwnerTypes'
    BY DEF IInv, OwnerTypes, owners
  <2> QED
    BY <2>1, <2>2 DEF IInv
<1>2. OwnInv'
  <2>1. KeptAlive'
    BY DEF OwnInv, KeptAlive, owners
  <2>2. WalksInv'
    BY ProceedWalks DEF walk
  <2> QED
    BY <2>1, <2>2 DEF OwnInv
<1>3. ASSUME NEW u \in Thread, NEW i \in 1 .. Len(agenda[u]), ~Visiting(agenda[u][i])
      PROVE  \E j \in 1 .. Len(agenda'[u]) : agenda'[u][j] = agenda[u][i]
  BY <1>3, SMTT(60)
<1>4. ASSUME NEW u \in Thread, NEW j \in 1 .. Len(agenda'[u]), agenda'[u][j].do = "register"
      PROVE  agenda'[u] = agenda[u]
  BY <1>4
<1>5. ASSUME NEW u \in Thread, NEW m \in Child, Registering(u, m)
      PROVE  agenda'[u] = agenda[u]
  <2>1. 1 \in 1 .. Len(agenda[u])
    BY <1>5 DEF Registering, IInv, OwnerTypes
  <2> QED
    BY <1>5, <2>1 DEF Registering
<1>6. StopInv'
  <2>1. LatchDue'
    <3> SUFFICES ASSUME NEW n \in Node, Stopped(n), NEW s \in Shards(n),
                        STOPPED \notin shardState[s].flags
                 PROVE  \E u \in Thread : \E j \in 1 .. Len(agenda'[u]) :
                          /\ agenda'[u][j].do = "latch" /\ agenda'[u][j].node = n
                          /\ s \in agenda'[u][j].shards
      BY DEF LatchDue, Stopped, words, Shards
    <3>0. PICK u \in Thread : \E i \in 1 .. Len(agenda[u]) :
            /\ agenda[u][i].do = "latch" /\ agenda[u][i].node = n
            /\ s \in agenda[u][i].shards
      BY DEF StopInv, LatchDue
    <3>1. PICK i \in 1 .. Len(agenda[u]) :
            /\ agenda[u][i].do = "latch" /\ agenda[u][i].node = n
            /\ s \in agenda[u][i].shards
      BY <3>0
    <3>2. PICK j \in 1 .. Len(agenda'[u]) : agenda'[u][j] = agenda[u][i]
      BY <1>3, <3>1 DEF Visiting, CountTask
    <3> QED
      BY <3>1, <3>2
  <2>2. RegisterFirst'
    BY <1>4 DEF StopInv, RegisterFirst, Registering
  <2>3. RegisterDue'
    <3> SUFFICES ASSUME NEW m \in Child, life[m] \in {"live", "dropping"},
                        registered[m] = NoShard
                 PROVE  \E u \in Thread : Registering(u, m)'
      BY DEF RegisterDue, owners
    <3>1. PICK u \in Thread : Registering(u, m)
      BY DEF StopInv, RegisterDue
    <3> QED
      BY <1>5, <3>1 DEF Registering
  <2>4. ChildStopDue'
    <3> SUFFICES ASSUME NEW m \in Child, life[m] = "live", Stopped(Parent[m]), ~Stopped(m)
                 PROVE  \E u \in Thread : \E j \in 1 .. Len(agenda'[u]) :
                          StopsKid(agenda[u][j], m)'
      BY DEF ChildStopDue, StopDue, Stopped, words, owners
    <3>1. PICK u \in Thread : \E i \in 1 .. Len(agenda[u]) : StopsKid(agenda[u][i], m)
      BY DEF StopInv, ChildStopDue, StopDue
    <3>2. PICK i \in 1 .. Len(agenda[u]) : StopsKid(agenda[u][i], m)
      BY <3>1
    <3>3. PICK j \in 1 .. Len(agenda'[u]) : agenda'[u][j] = agenda[u][i]
      BY <1>3, <3>2 DEF Visiting, CountTask, StopsKid
    <3>4. StopsKid(agenda[u][j], m)'
      BY <3>2, <3>3 DEF StopsKid, owners
    <3> QED
      BY <3>4
  <2> QED
    BY <2>1, <2>2, <2>3, <2>4 DEF StopInv
<1>7. ASSUME NEW u \in Thread, NEW j \in 1 .. Len(agenda'[u]), agenda'[u][j].do = "adopt"
      PROVE  \E i \in 1 .. Len(agenda[u]) :
               agenda[u][i] = agenda'[u][j] /\ (i = Len(agenda[u]) => j = Len(agenda'[u]))
  <2>1. CASE u = t
    BY <1>7, <2>1
  <2>2. CASE u # t
    <3>1. agenda'[u] = agenda[u]
      BY <2>2
    <3> QED
      BY <3>1
  <2> QED
    BY <2>1, <2>2
<1>8. ChildInv'
  <2>1. AdoptUntouched'
    <3> SUFFICES ASSUME NEW c \in Child, NEW u \in Thread, NEW j \in DOMAIN agenda'[u],
                        agenda'[u][j].do = "adopt", agenda'[u][j].node = c
                 PROVE  Untouched(c)'
      BY DEF AdoptUntouched, Constructing
    <3>1. j \in 1 .. Len(agenda'[u])
      OBVIOUS
    <3>2. PICK i \in 1 .. Len(agenda[u]) : agenda[u][i] = agenda'[u][j]
      BY <1>7, <3>1, ZenonT(60)
    <3>3. i \in DOMAIN agenda[u]
      BY DEF IInv, OwnerTypes
    <3>4. Untouched(c)
      BY <3>2, <3>3 DEF ChildInv, AdoptUntouched, Constructing
    <3>5. ASSUME NEW v \in Thread, Active(v)' PROVE Base(v)' # c
      <4>1. Active(v)
        BY <3>5 DEF Active, walk
      <4>2. v # t
        BY <4>1 DEF Active, Arriving, IInv, CoreInv, ControlOK, WalkOK, Departing
      <4> QED
        BY <3>4, <4>1, <4>2, SMTT(60) DEF Untouched, Base
    <3> QED
      BY <3>4, <3>5 DEF Untouched, owners, walk
  <2>2. AdoptOnce'
    <3> SUFFICES ASSUME NEW u \in Thread, NEW j \in 1 .. Len(agenda'[u]),
                        agenda'[u][j].do = "adopt"
                 PROVE  /\ j = Len(agenda'[u])
                        /\ \A v \in Thread \ {u} : \A k \in 1 .. Len(agenda'[v]) :
                             ~(agenda'[v][k].do = "adopt" /\ agenda'[v][k].node = agenda'[u][j].node)
      BY DEF AdoptOnce, AdoptOf
    <3>1. PICK i \in 1 .. Len(agenda[u]) :
            agenda[u][i] = agenda'[u][j] /\ (i = Len(agenda[u]) => j = Len(agenda'[u]))
      BY <1>7
    <3>2. /\ i = Len(agenda[u])
          /\ \A v \in Thread \ {u} : \A k \in 1 .. Len(agenda[v]) :
               ~(agenda[v][k].do = "adopt" /\ agenda[v][k].node = agenda'[u][j].node)
      BY <3>1 DEF ChildInv, AdoptOnce, AdoptOf
    <3>3. ASSUME NEW v \in Thread \ {u}, NEW k \in 1 .. Len(agenda'[v]),
                 agenda'[v][k].do = "adopt", agenda'[v][k].node = agenda'[u][j].node
          PROVE  FALSE
      <4>1. PICK l \in 1 .. Len(agenda[v]) : agenda[v][l] = agenda'[v][k]
        BY <1>7, <3>3
      <4> QED
        BY <3>2, <3>3, <4>1
    <3> QED
      BY <3>1, <3>2, <3>3
  <2>3. AskedBorn'
    BY DEF ChildInv, AskedBorn, walk, owners
  <2>4. AdoptDue'
    <3> SUFFICES ASSUME NEW u \in Thread, NEW i \in 1 .. Len(agenda'[u]),
                        agenda'[u][i].do = "register"
                 PROVE  \E j \in 1 .. Len(agenda'[u]) :
                          agenda'[u][j].do = "adopt" /\ agenda'[u][j].node = agenda'[u][i].node
      BY DEF AdoptDue, AdoptOf
    <3>1. agenda'[u] = agenda[u]
      BY <1>4
    <3>2. PICK j \in 1 .. Len(agenda[u]) : AdoptOf(u, j, agenda[u][i].node)
      BY <3>1, SMTT(60) DEF ChildInv, AdoptDue
    <3> QED
      BY <3>1, <3>2 DEF AdoptOf
  <2> QED
    BY <2>1, <2>2, <2>3, <2>4 DEF ChildInv
<1> QED
  BY <1>1, <1>2, <1>6, <1>8

(* A visit is replaced by visits and by drops of Arcs.                     *)
LEMMA VisitThen ==
  ASSUME TreeInv, NEW t \in Thread, NEW do \in CountTask, Doing(t, do),
         NEW q \in Seq(Task), Then(t, q), UNCHANGED <<words, walk, owners, making>>,
         \A i \in 1 .. Len(q) : q[i].do \in CountTask \cup {"release"} /\ JobOK(q[i])
  PROVE  TreeInv'
<1>1. /\ pc[t] = "idle" /\ agenda[t] # <<>> /\ agenda \in [Thread -> Seq(Task)]
      /\ 1 \in 1 .. Len(agenda[t]) /\ agenda[t][1].do = do /\ AgendaInv
  BY DoingJob DEF TreeInv
<1>2. agenda' \in [Thread -> Seq(Task)]
  BY <1>1, ThenType DEF TreeInv, IInv
<1>3. \A x \in Task : JobOK(x) => JobOK(x)'
  BY DEF JobOK, Shards, owners
<1>4. AgendaInv'
  <2>1. \A x \in Task : (\E i \in 1 .. Len(q) : q[i] = x) => JobOK(x)'
    BY <1>3
  <2>2. \A i \in 1 .. Len(q) : q[i].do \notin Using /\ q[i].do # "deregister"
    BY DEF CountTask, Using
  <2> QED
    BY <1>1, <1>3, <2>1, <2>2, ThenAgenda
<1>5. /\ Len(agenda[t]) \in Nat \ {0} /\ Len(q) \in Nat
      /\ Len(agenda'[t]) = Len(q) + Len(agenda[t]) - 1
      /\ \A i \in 2 .. Len(agenda[t]) : agenda'[t][i - 1 + Len(q)] = agenda[t][i]
      /\ \A u \in Thread \ {t} : agenda'[u] = agenda[u]
  BY <1>1, ThenJobs
<1>6. ASSUME NEW i \in 1 .. Len(agenda[t])
      PROVE  /\ agenda[t][i].do # "register"
             /\ Visiting(agenda[t][i]) \/ \E j \in 1 .. Len(agenda'[t]) : agenda'[t][j] = agenda[t][i]
  <2>1. agenda[t][i].do # "register"
    <3> SUFFICES ASSUME agenda[t][i].do = "register" PROVE FALSE
      OBVIOUS
    <3>1. Registering(t, agenda[t][1].node)
      BY DEF TreeInv, StopInv, RegisterFirst
    <3> QED
      BY <1>1, <3>1 DEF Registering, CountTask
  <2>2. CASE i = 1
    BY <1>1, <2>1, <2>2 DEF Visiting
  <2>3. CASE i # 1
    <3>1. i \in 2 .. Len(agenda[t]) /\ i - 1 + Len(q) \in 1 .. Len(agenda'[t])
      BY <1>5, <2>3
    <3>2. agenda'[t][i - 1 + Len(q)] = agenda[t][i]
      BY <1>5, <3>1
    <3> QED
      BY <2>1, <3>1, <3>2
  <2> QED
    BY <2>2, <2>3
<1>7. ASSUME NEW j \in 1 .. Len(agenda'[t]), agenda'[t][j].do \in {"register", "adopt"}
      PROVE  \E i \in 1 .. Len(agenda[t]) :
               agenda[t][i] = agenda'[t][j] /\ (i = Len(agenda[t]) => j = Len(agenda'[t]))
  <2>1. ~(j \in 1 .. Len(q) /\ agenda'[t][j] = q[j])
    BY <1>7 DEF CountTask
  <2>2. PICK i \in 2 .. Len(agenda[t]) : j = i - 1 + Len(q) /\ agenda'[t][j] = agenda[t][i]
    BY <1>1, <2>1, ThenPositions
  <2>3. i \in 1 .. Len(agenda[t]) /\ (i = Len(agenda[t]) => j = Len(agenda'[t]))
    BY <1>5, <2>2, SMTT(60)
  <2> QED
    BY <2>2, <2>3
<1> QED
  BY <1>1, <1>2, <1>4, <1>5, <1>6, <1>7, VisitFrame

(* A count, or a report, begins on an idle thread.                         *)
LEMMA BeginHas ==
  ASSUME TreeInv, NEW t \in Thread, NEW n \in Node, NEW c, BeginWalk(t, n, c)
  PROVE  /\ TreeInv'
         /\ Len(agenda'[t]) = 3 /\ agenda'[t][1] = TaskOn("tally", n)
         /\ agenda'[t][2] = TaskOn("gather", n) /\ agenda'[t][3] = TaskOn("return", n)
         /\ \A u \in Thread \ {t} : agenda'[u] = agenda[u]
<1> DEFINE x == TaskOn("tally", n)
           y == TaskOn("gather", n)
           z == TaskOn("return", n)
           q == <<x, y, z>>
<1>1. /\ x \in Task /\ x.do = "tally" /\ x.node = n /\ x.shards = Shards(n) /\ x.kids = {}
      /\ y \in Task /\ y.do = "gather" /\ y.node = n /\ y.shards = Shards(n) /\ y.kids = {}
      /\ z \in Task /\ z.do = "return" /\ z.node = n /\ z.shards = Shards(n) /\ z.kids = {}
  BY FreshJob DEF TaskName
<1>2. /\ Idle(t) /\ handles[n] > 0 /\ Begin(t, q) /\ UNCHANGED <<words, walk, owners, making>>
  BY DEF BeginWalk
<1> HIDE DEF x, y, z
<1>3. q \in Seq(Task) /\ Len(q) = 3 /\ q[1] = x /\ q[2] = y /\ q[3] = z
  BY <1>1
<1> HIDE DEF q
<1>4. \A i \in 1 .. Len(q) : i = 1 \/ i = 2 \/ i = 3
  BY <1>3
<1>5. agenda \in [Thread -> Seq(Task)] /\ AgendaInv /\ pc[t] = "idle" /\ agenda[t] = <<>>
  BY <1>2 DEF TreeInv, IInv, OwnerTypes, OwnInv, Idle
<1>6. agenda' \in [Thread -> Seq(Task)]
  BY <1>2, <1>3, BeginType DEF TreeInv, IInv
<1>7. agenda'[t] = q /\ \A u \in Thread \ {t} : agenda'[u] = agenda[u]
  BY <1>2, <1>3, <1>5, BeginJobs
<1>8. \A w \in Task : JobOK(w) => JobOK(w)'
  BY <1>2 DEF JobOK, Shards, owners
<1>9. JobOK(x) /\ JobOK(y) /\ JobOK(z)
  BY <1>1, <1>2 DEF JobOK
<1>10. AgendaInv'
  <2>1. \A w \in Task : (\E i \in 1 .. Len(q) : q[i] = w) => JobOK(w)'
    BY <1>3, <1>4, <1>8, <1>9
  <2>2. \A i \in 1 .. Len(q) : q[i].do \notin Using /\ q[i].do # "deregister"
    BY <1>1, <1>3, <1>4 DEF Using
  <2> QED
    BY <1>2, <1>3, <1>5, <1>8, <2>1, <2>2, BeginAgenda
<1>11. \A j \in 1 .. Len(q) : q[j].do \notin {"register", "adopt"}
  BY <1>1, <1>3, <1>4
<1>12. \A i \in 1 .. Len(agenda[t]) : FALSE
  BY <1>5
<1>13. TreeInv'
  BY <1>2, <1>5, <1>6, <1>7, <1>10, <1>11, <1>12, VisitFrame
<1> QED
  BY <1>3, <1>7, <1>13 DEF x, y, z

(* The tasks that a walk leaves when it has read a shard, or a registry of *)
(* children: the rest of the visit, or those for the children it found.    *)
LEMMA TallyHas ==
  ASSUME TreeInv, NEW t \in Thread, Tally(t)
  PROVE  /\ TreeInv' /\ Doing(t, "tally")
         /\ \E s \in agenda[t][1].shards : \E q \in Seq(Task) :
              /\ Then(t, q) /\ census' = [census EXCEPT ![t] = Seen(census[t], s)]
              /\ \A i \in 1 .. Len(q) :
                   i = 1 /\ q[i] = [agenda[t][1] EXCEPT !.shards = @ \ {s}]
              /\ (agenda[t][1].shards # {s} => Len(q) = 1)
<1> DEFINE h == agenda[t][1]
<1>1. /\ Doing(t, "tally") /\ h \in Task /\ h.do = "tally" /\ Head(agenda[t]) = h /\ JobOK(h)
  BY DoingJob DEF TreeInv, Tally
<1>2. PICK s \in h.shards :
        /\ census' = [census EXCEPT ![t] = Seen(census[t], s)]
        /\ Then(t, RestOf([h EXCEPT !.shards = @ \ {s}]))
  BY <1>1 DEF Tally
<1> DEFINE y == [h EXCEPT !.shards = @ \ {s}]
           q == RestOf(y)
<1> HIDE DEF h
<1>3. y \in Task /\ y.do = "tally" /\ y.node = h.node /\ y.shards = h.shards \ {s} /\ y.kids = h.kids
  BY <1>1 DEF Task
<1>4. JobOK(y)
  BY <1>1, <1>3 DEF JobOK
<1>5. Then(t, q)
  BY <1>2
<1> HIDE DEF y
<1>6. /\ q \in Seq(Task) /\ \A i \in 1 .. Len(q) : i = 1 /\ q[i] = y
      /\ (h.shards # {s} => Len(q) = 1)
  BY <1>2, <1>3, RestJobs DEF RestOf
<1> HIDE DEF q
<1>7. TreeInv'
  <2>1. \A i \in 1 .. Len(q) : q[i].do \in CountTask \cup {"release"} /\ JobOK(q[i])
    BY <1>3, <1>4, <1>6 DEF CountTask
  <2>2. "tally" \in CountTask /\ UNCHANGED <<words, walk, owners, making>>
    BY DEF CountTask, Tally
  <2> QED
    BY <1>1, <1>5, <1>6, <2>1, <2>2, VisitThen
<1> QED
  BY <1>1, <1>2, <1>5, <1>6, <1>7 DEF h, y

(* A registry of children is read.                                         *)
LEMMA GatherHas ==
  ASSUME TreeInv, NEW t \in Thread, Gather(t)
  PROVE  /\ TreeInv' /\ Doing(t, "gather") /\ census' = census
         /\ \E s \in agenda[t][1].shards : \E kids \in SUBSET Child : \E q \in Seq(Task) :
              /\ Then(t, q) /\ kids = agenda[t][1].kids \cup LiveChildren(s)
              /\ \A m \in kids : Parent[m] = agenda[t][1].node
              /\ \/ /\ agenda[t][1].shards # {s} /\ Len(q) = 1
                    /\ q[1] = [agenda[t][1] EXCEPT !.shards = @ \ {s}, !.kids = kids]
                 \/ agenda[t][1].shards = {s} /\ VisitsOf(q, kids)
<1> DEFINE h == agenda[t][1]
<1>1. /\ Doing(t, "gather") /\ h \in Task /\ h.do = "gather" /\ Head(agenda[t]) = h /\ JobOK(h)
      /\ KeptAlive
  BY DoingJob DEF TreeInv, Gather
<1>2. PICK s \in h.shards :
        Then(t, IF h.shards \ {s} # {}
                THEN <<[h EXCEPT !.shards = h.shards \ {s}, !.kids = h.kids \cup LiveChildren(s)]>>
                ELSE IF census[t].report
                THEN ReportKids(SetToSeq(h.kids \cup LiveChildren(s)))
                ELSE CountKids(SetToSeq(h.kids \cup LiveChildren(s))))
  BY <1>1 DEF Gather
<1>3. census' = census /\ UNCHANGED <<words, walk, owners, making>>
  BY DEF Gather
<1> DEFINE kids == h.kids \cup LiveChildren(s)
           y == [h EXCEPT !.shards = h.shards \ {s}, !.kids = kids]
           q == IF h.shards \ {s} # {} THEN <<y>>
                ELSE IF census[t].report THEN ReportKids(SetToSeq(kids))
                ELSE CountKids(SetToSeq(kids))
<1> HIDE DEF h
<1>4. kids \in SUBSET Child /\ h.shards \subseteq Shards(h.node) /\ h.node \in Node
  BY <1>1 DEF Task, LiveChildren, JobOK, Child
<1>5. ASSUME NEW m \in kids
      PROVE  Parent[m] = h.node /\ life[m] = "live"
  <2>1. CASE m \in h.kids
    BY <1>1, <2>1 DEF JobOK
  <2>2. CASE m \in LiveChildren(s)
    BY <1>1, <1>4, <2>2, ShardAssumption DEF LiveChildren, KeptAlive, Shards
  <2> QED
    BY <2>1, <2>2
<1>6. Then(t, q)
  BY <1>2, SMTT(60)
<1> HIDE DEF kids
<1> SUFFICES /\ TreeInv'
             /\ \/ /\ h.shards # {s} /\ q \in Seq(Task) /\ Len(q) = 1
                   /\ q[1] = [h EXCEPT !.shards = @ \ {s}, !.kids = kids]
                \/ h.shards = {s} /\ q \in Seq(Task) /\ VisitsOf(q, kids)
  <2> DEFINE Splits(a, k, p) ==
               /\ Then(t, p) /\ k = h.kids \cup LiveChildren(a)
               /\ \A m \in k : Parent[m] = h.node
               /\ \/ /\ h.shards # {a} /\ Len(p) = 1
                     /\ p[1] = [h EXCEPT !.shards = @ \ {a}, !.kids = k]
                  \/ h.shards = {a} /\ VisitsOf(p, k)
  <2> HIDE DEF q
  <2>1. q \in Seq(Task) /\ Splits(s, kids, q)
    BY <1>5, <1>6 DEF kids
  <2>2. \E a \in h.shards : \E k \in SUBSET Child : \E p \in Seq(Task) : Splits(a, k, p)
    <3> HIDE DEF Splits
    <3> QED
      BY <1>4, <2>1
  <2> QED
    BY <1>1, <1>3, <2>2 DEF h
<1>7. CASE h.shards # {s}
  <2>1. /\ y \in Task /\ y.do = "gather" /\ y.node = h.node
        /\ y.shards = h.shards \ {s} /\ y.kids = kids
    BY <1>1, <1>4 DEF Task
  <2>2. JobOK(y)
    BY <1>1, <1>5, <2>1 DEF JobOK
  <2>3. q = <<y>>
    BY <1>2, <1>7
  <2> HIDE DEF y, q
  <2>4. q \in Seq(Task) /\ Len(q) = 1 /\ q[1] = y
    BY <2>1, <2>3
  <2>5. \A i \in 1 .. Len(q) : i = 1
    BY <2>4
  <2>6. "gather" \in CountTask
    BY DEF CountTask
  <2>7. \A i \in 1 .. Len(q) : q[i].do \in CountTask \cup {"release"} /\ JobOK(q[i])
    BY <2>1, <2>2, <2>4, <2>5, <2>6
  <2>8. TreeInv'
    BY <1>1, <1>3, <1>6, <2>4, <2>6, <2>7, VisitThen
  <2>9. q[1] = [h EXCEPT !.shards = @ \ {s}, !.kids = kids]
    BY <2>4 DEF y
  <2> QED
    BY <1>7, <2>4, <2>8, <2>9
<1>8. CASE h.shards = {s}
  <2>1. q = ReportKids(SetToSeq(kids)) \/ q = CountKids(SetToSeq(kids))
    BY <1>8
  <2> HIDE DEF q
  <2>2. q \in Seq(Task) /\ VisitsOf(q, kids)
    BY <1>4, <2>1, KidTasks, ReportTasks
  <2>3. ASSUME NEW i \in 1 .. Len(q)
        PROVE  q[i].do \in CountTask \cup {"release"} /\ JobOK(q[i])
    <3>1. PICK m \in kids : q[i] \in KidTask(m)
      BY <2>2 DEF VisitsOf
    <3>2. m \in Node /\ life[m] = "live"
      BY <1>4, <1>5 DEF Child
    <3>3. ASSUME NEW do \in {"tally", "gather", "release"}
          PROVE  TaskOn(do, m).do = do /\ JobOK(TaskOn(do, m))
      <4>1. /\ TaskOn(do, m).do = do /\ TaskOn(do, m).node = m
            /\ TaskOn(do, m).shards = Shards(m) /\ TaskOn(do, m).kids = {}
        BY <3>2, FreshJob DEF TaskName
      <4> QED
        BY <3>2, <4>1 DEF JobOK
    <3> QED
      BY <3>1, <3>3 DEF KidTask, CountTask
  <2>4. TreeInv'
    <3>1. "gather" \in CountTask
      BY DEF CountTask
    <3> QED
      BY <1>1, <1>3, <1>6, <2>2, <2>3, <3>1, VisitThen
  <2> QED
    BY <1>8, <2>2, <2>4
<1> QED
  BY <1>7, <1>8

(* The steps of GuardTree that TreeStep takes: a guard comes to be late    *)
(* when it is counted.                                                     *)
LEMMA TreeSteps ==
  ASSUME late \in [Thread -> Guard \cup {NoGuard}], TreeStep
  PROVE  /\ \/ \E u \in Thread : Walk(u) \/ Call(u) \/ (~Returning(u) /\ Proceed(u))
            \/ \E n \in Node : Poll(n)
         /\ late' \in [Thread -> Guard \cup {NoGuard}]
         /\ \A g \in Guard : g \in Late' /\ g \notin Late => home[g] = NoShard
<1>1. ASSUME UNCHANGED late
      PROVE  /\ late' \in [Thread -> Guard \cup {NoGuard}]
             /\ Late' = Late
  BY <1>1 DEF Late
<1>2. ASSUME NEW t \in Thread, CountFirst(t)
      PROVE  /\ Call(t)
             /\ late' \in [Thread -> Guard \cup {NoGuard}]
             /\ \A g \in Guard : g \in Late' /\ g \notin Late => home[g] = NoShard
  <2>1. PICK s \in Shard, g \in Guard :
          ForShard(t, s, g) /\ late' = [late EXCEPT ![t] = g] /\ "for_shard" \in Calls
    BY <1>2 DEF CountFirst
  <2>2. home[g] = NoShard
    BY <2>1 DEF ForShard, FreeGuard
  <2>3. \A k : k \in Late' => k = g \/ k \in Late
    BY <2>1 DEF Late
  <2> QED
    BY <2>1, <2>2, <2>3 DEF Call
<1>3. CASE \E t \in Thread : InTime(t) /\ CountFirst(t)
  BY <1>2, <1>3
<1>4. CASE ~\E t \in Thread : InTime(t) /\ CountFirst(t)
  BY <1>1, <1>4 DEF TreeStep
<1> QED
  BY <1>3, <1>4

(* The tree keeps its invariant under every step of CountNext.             *)
LEMMA TreeNext ==
  ASSUME TreeInv, late \in [Thread -> Guard \cup {NoGuard}], CountNext
  PROVE  TreeInv'
<1>1. ASSUME [Next]_vars PROVE TreeInv'
  BY <1>1, CoreNext, OwnersNext, OwnNext, LatchDueNext, RegisterFirstNext, RegisterDueNext,
     ChildStopDueNext, ChildInvNext DEF TreeInv, IInv, StopInv
<1>2. ASSUME NEW t \in Thread, EndCount(t) PROVE Next
  BY <1>2 DEF EndCount, Next, Proceed
<1>3. ASSUME NEW t \in Thread, NEW n \in Node, BeginCount(t, n) \/ BeginReport(t, n)
      PROVE  TreeInv'
  BY <1>3, BeginHas DEF BeginCount, BeginReport
<1>4. ASSUME NEW t \in Thread, RecordLate(t) PROVE UNCHANGED vars
  BY <1>4 DEF RecordLate
<1>5. ASSUME NEW t \in Thread, Counting(t) PROVE TreeInv' \/ [Next]_vars
  BY <1>2, <1>3, <1>4, <1>5, TallyHas, GatherHas DEF Counting
<1>6. ASSUME TreeStep PROVE Next
  BY <1>6, TreeSteps DEF Next
<1> QED
  BY <1>1, <1>5, <1>6 DEF CountNext

-----------------------------------------------------------------------------
(* What the tasks of a walk stand for.                                     *)

(* The shards that a visit is yet to count, whatever the registries say:   *)
(* a gather leads to the whole subtree below its node, at most.            *)
Strictly(n) == {s \in Shard : NodeOf[s] # n /\ n \in Ancestors(NodeOf[s])}
Region(x) == IF x.do = "tally" THEN x.shards ELSE Strictly(x.node)

(* The shards that it will count, as the registries are: a gather has      *)
(* found the child above the shard, or is about to find it.                *)
Covers(x, s) ==
  \/ x.do = "tally" /\ s \in x.shards
  \/ x.do = "gather" /\ \E c \in Child :
       /\ Parent[c] = x.node /\ c \in Ancestors(NodeOf[s])
       /\ c \in x.kids \/ registered[c] \in x.shards

Remaining(t) ==
  {s \in Shard : \E i \in 1 .. Len(agenda[t]) :
     Visiting(agenda[t][i]) /\ s \in Region(agenda[t][i])}
Due(t) ==
  {s \in Shard : \E i \in 1 .. Len(agenda[t]) :
     Visiting(agenda[t][i]) /\ Covers(agenda[t][i], s)}

(* The walk returns last; its visits are in the subtree that it walks, and *)
(* no shard is in the regions of two.                                      *)
ReturnsLast(t) ==
  /\ agenda[t] # <<>>
  /\ \A i \in 1 .. Len(agenda[t]) : agenda[t][i].do = "return" <=> i = Len(agenda[t])
VisitsUnder(t) ==
  \A i \in 1 .. Len(agenda[t]) : Visiting(agenda[t][i]) =>
    census[t].node \in Ancestors(agenda[t][i].node)
VisitsApart(t) ==
  \A i, j \in 1 .. Len(agenda[t]) :
    Visiting(agenda[t][i]) /\ Visiting(agenda[t][j]) /\ i # j =>
      Region(agenda[t][i]) \cap Region(agenda[t][j]) = {}

(* What the sum lacks of the guards that were there throughout is due, and *)
(* with all that remains it does not exceed what there was at the start.   *)
SumBounded(t) ==
  LET c == census[t] IN
  /\ c.through \subseteq GuardsUnder(c.node)
  /\ c.sum >= Cardinality({g \in c.through : home[g] \notin Due(t)})
  /\ ~c.grown => c.sum + Cardinality({g \in Guard : home[g] \in Remaining(t)}) <= c.begun

(* What a report lacks of the guards that were there throughout is due,    *)
(* and recorded.                                                           *)
Listed(t) ==
  LET c == census[t] IN
  /\ c.through \subseteq GuardsUnder(c.node)
  /\ \A g \in c.through : g \notin Late /\ (g \in c.infos \/ home[g] \in Due(t))

CensusOK(t) ==
  census[t].busy =>
    /\ ReturnsLast(t) /\ VisitsUnder(t) /\ VisitsApart(t)
    /\ IF census[t].report THEN Listed(t) ELSE SumBounded(t)
CensusInv ==
  /\ census \in [Thread -> Census]
  /\ late \in [Thread -> Guard \cup {NoGuard}]
  /\ \A t \in Thread : CensusOK(t)

(* The region of a visit of a child is in the subtree of the child, below  *)
(* its parent: the shards of the child are those of the tally.             *)
LEMMA KidRegion ==
  ASSUME NEW m \in Child, NEW x \in KidTask(m), Visiting(x), NEW s \in Region(x)
  PROVE  /\ s \in Shard /\ m \in Ancestors(NodeOf[s]) /\ s \in Strictly(Parent[m])
         /\ x.do = "tally" <=> NodeOf[s] = m
<1>1. m \in Node /\ Parent[m] \in Node
  BY ParentBelowNone
<1>2. /\ x.do \in {"tally", "gather"} /\ x.node = m /\ x.shards = Shards(m)
  <2>1. PICK do \in {"tally", "gather", "release"} : x = TaskOn(do, m)
    BY DEF KidTask
  <2>2. x.do = do /\ x.node = m /\ x.shards = Shards(m)
    BY <1>1, <2>1, FreshJob DEF TaskName
  <2> QED
    BY <2>2 DEF Visiting, CountTask
<1>3. /\ s \in Shard /\ m \in Ancestors(NodeOf[s]) /\ (x.do = "tally" <=> NodeOf[s] = m)
  BY <1>1, <1>2, AncestorsClosed DEF Region, Strictly, Shards
<1>4. NodeOf[s] \in Node
  BY <1>3, ShardAssumption
<1>5. Parent[m] \in Ancestors(NodeOf[s])
  BY <1>3, <1>4, AncestorsClosed DEF Child
<1>6. NodeOf[s] # Parent[m]
  BY <1>3, ParentBelowNone
<1> QED
  BY <1>3, <1>5, <1>6 DEF Strictly

(* The subtrees of two children of a node have no shard in common.         *)
LEMMA KidsApart ==
  ASSUME NEW m \in Child, NEW k \in Child, Parent[m] = Parent[k], NEW n \in Node,
         m \in Ancestors(n), k \in Ancestors(n)
  PROVE  m = k
<1>1. m \in Node /\ k \in Node
  BY DEF Child
<1>2. CASE m \in Ancestors(k)
  BY <1>1, <1>2, AncestorsUnfold, ParentBelowNone
<1>3. CASE k \in Ancestors(m)
  BY <1>1, <1>3, AncestorsUnfold, ParentBelowNone
<1> QED
  BY <1>2, <1>3, AncestorsLinear

(* The last task stays the last while the others are replaced.             *)
LEMMA ThenReturnsLast ==
  ASSUME agenda \in [Thread -> Seq(Task)], NEW t \in Thread, ReturnsLast(t),
         agenda[t][1].do # "return", NEW q \in Seq(Task), Then(t, q),
         \A i \in 1 .. Len(q) : q[i].do # "return"
  PROVE  ReturnsLast(t)'
<1>1. agenda[t] # <<>>
  BY DEF ReturnsLast
<1>2. /\ Len(agenda[t]) \in Nat \ {0} /\ Len(q) \in Nat
      /\ Len(agenda'[t]) = Len(q) + Len(agenda[t]) - 1
  BY <1>1, ThenJobs
<1>3. Len(agenda[t]) # 1
  BY <1>2 DEF ReturnsLast
<1>4. Len(agenda'[t]) > Len(q) /\ Len(agenda'[t]) # 0
  <2> DEFINE a == Len(agenda[t])
             b == Len(q)
             c == Len(agenda'[t])
  <2>1. a \in Nat \ {0} /\ a # 1 /\ b \in Nat /\ c = b + a - 1
    BY <1>2, <1>3
  <2> HIDE DEF a, b, c
  <2>2. c > b /\ c # 0
    BY <2>1
  <2> QED
    BY <2>2 DEF b, c
<1>5. agenda'[t] # <<>>
  BY <1>4
<1>6. ASSUME NEW j \in 1 .. Len(agenda'[t])
      PROVE  agenda'[t][j].do = "return" <=> j = Len(agenda'[t])
  <2>1. CASE j \in 1 .. Len(q) /\ agenda'[t][j] = q[j]
    BY <1>2, <1>4, <2>1
  <2>2. CASE \E i \in 2 .. Len(agenda[t]) :
               j = i - 1 + Len(q) /\ agenda'[t][j] = agenda[t][i]
    <3>1. PICK i \in 2 .. Len(agenda[t]) :
               j = i - 1 + Len(q) /\ agenda'[t][j] = agenda[t][i]
      BY <2>2
    <3>2. i \in 1 .. Len(agenda[t]) /\ (i = Len(agenda[t]) <=> j = Len(agenda'[t]))
      BY <1>2, <3>1
    <3> QED
      BY <3>1, <3>2 DEF ReturnsLast
  <2> QED
    BY <1>1, <2>1, <2>2, ThenPositions
<1> QED
  BY <1>5, <1>6 DEF ReturnsLast

(* A visit that is replaced by visits of disjoint parts of its region.     *)
LEMMA ThenApart ==
  ASSUME agenda \in [Thread -> Seq(Task)], NEW t \in Thread, agenda[t] # <<>>,
         Visiting(agenda[t][1]), VisitsApart(t), NEW q \in Seq(Task), Then(t, q),
         \A i \in 1 .. Len(q) : Visiting(q[i]) => Region(q[i]) \subseteq Region(agenda[t][1]),
         \A i, j \in 1 .. Len(q) : Visiting(q[i]) /\ Visiting(q[j]) /\ i # j =>
           Region(q[i]) \cap Region(q[j]) = {}
  PROVE  /\ VisitsApart(t)' /\ Remaining(t)' \subseteq Remaining(t)
         /\ \A s \in Remaining(t)' :
              \/ \E i \in 1 .. Len(q) : Visiting(q[i]) /\ s \in Region(q[i])
              \/ s \notin Region(agenda[t][1])
<1> DEFINE New(j) == j \in 1 .. Len(q) /\ agenda'[t][j] = q[j]
           Old(j, i) == j = i - 1 + Len(q) /\ agenda'[t][j] = agenda[t][i]
<1>0. 1 \in 1 .. Len(agenda[t]) /\ Len(agenda[t]) \in Nat
  BY ThenJobs
<1>1. ASSUME NEW j \in 1 .. Len(agenda'[t])
      PROVE  New(j) \/ \E i \in 2 .. Len(agenda[t]) : Old(j, i)
  BY ThenPositions
<1>2. \A x : Visiting(x)' = Visiting(x) /\ Region(x)' = Region(x)
  BY DEF Visiting, Region, Strictly
<1>3. ASSUME NEW j \in 1 .. Len(agenda'[t]), NEW k \in 1 .. Len(agenda'[t]),
             Visiting(agenda'[t][j]), Visiting(agenda'[t][k]), j # k
      PROVE  Region(agenda'[t][j]) \cap Region(agenda'[t][k]) = {}
  <2>1. CASE New(j) /\ New(k)
    BY <1>3, <2>1
  <2>2. ASSUME NEW i \in 2 .. Len(agenda[t])
        PROVE  i \in 1 .. Len(agenda[t]) /\ i # 1
    OBVIOUS
  <2>3. ASSUME NEW a \in 1 .. Len(agenda'[t]), NEW b \in 1 .. Len(agenda'[t]), New(a),
               NEW i \in 2 .. Len(agenda[t]), Old(b, i),
               Visiting(agenda'[t][a]), Visiting(agenda'[t][b])
        PROVE  Region(agenda'[t][a]) \cap Region(agenda'[t][b]) = {}
    <3>1. Region(agenda[t][1]) \cap Region(agenda[t][i]) = {}
      BY <1>0, <2>2, <2>3 DEF VisitsApart
    <3> QED
      BY <2>3, <3>1
  <2>4. ASSUME NEW i \in 2 .. Len(agenda[t]), Old(j, i),
               NEW l \in 2 .. Len(agenda[t]), Old(k, l)
        PROVE  Region(agenda'[t][j]) \cap Region(agenda'[t][k]) = {}
    <3>1. i # l
      BY <1>3, <2>4
    <3> HIDE DEF Old
    <3>2. agenda'[t][j] = agenda[t][i] /\ agenda'[t][k] = agenda[t][l]
      BY <2>4 DEF Old
    <3> QED
      BY <1>3, <2>2, <3>1, <3>2 DEF VisitsApart
  <2> HIDE DEF New, Old
  <2>5. CASE New(j) /\ ~New(k)
    BY <1>1, <1>3, <2>3, <2>5
  <2>6. CASE ~New(j) /\ New(k)
    BY <1>1, <1>3, <2>3, <2>6
  <2>7. CASE ~New(j) /\ ~New(k)
    BY <1>1, <2>4, <2>7
  <2> QED
    BY <2>1, <2>5, <2>6, <2>7
<1>4. VisitsApart(t)'
  BY <1>2, <1>3 DEF VisitsApart
<1>5. ASSUME NEW s \in Remaining(t)'
      PROVE  /\ s \in Remaining(t)
             /\ \/ \E i \in 1 .. Len(q) : Visiting(q[i]) /\ s \in Region(q[i])
                \/ s \notin Region(agenda[t][1])
  <2>1. PICK j \in 1 .. Len(agenda'[t]) :
          s \in Shard /\ Visiting(agenda'[t][j]) /\ s \in Region(agenda'[t][j])
    BY <1>2 DEF Remaining
  <2>2. CASE New(j)
    BY <1>0, <2>1, <2>2 DEF Remaining
  <2>3. ASSUME NEW i \in 2 .. Len(agenda[t]), Old(j, i)
        PROVE  s \in Remaining(t) /\ s \notin Region(agenda[t][1])
    <3>1. i \in 1 .. Len(agenda[t]) /\ i # 1 /\ agenda'[t][j] = agenda[t][i]
      BY <2>3
    <3>2. Region(agenda[t][1]) \cap Region(agenda[t][i]) = {}
      BY <1>0, <2>1, <3>1 DEF VisitsApart
    <3> QED
      BY <2>1, <3>1, <3>2 DEF Remaining
  <2> QED
    BY <1>1, <2>2, <2>3
<1> QED
  BY <1>4, <1>5

(* A shard that another visit covers stays due.                            *)
LEMMA ThenDue ==
  ASSUME agenda \in [Thread -> Seq(Task)], NEW t \in Thread, agenda[t] # <<>>,
         NEW q \in Seq(Task), Then(t, q), registered' = registered,
         NEW s \in Due(t),
         ~Covers(agenda[t][1], s) \/ \E k \in 1 .. Len(q) : Visiting(q[k]) /\ Covers(q[k], s)
  PROVE  s \in Due(t)'
<1>0. \A x : Visiting(x)' = Visiting(x) /\ Covers(x, s)' = Covers(x, s)
  BY DEF Visiting, Covers
<1>1. PICK i \in 1 .. Len(agenda[t]) : Visiting(agenda[t][i]) /\ Covers(agenda[t][i], s)
  BY DEF Due
<1>2. /\ Len(agenda[t]) \in Nat \ {0} /\ Len(q) \in Nat
      /\ Len(agenda'[t]) = Len(q) + Len(agenda[t]) - 1
      /\ \A k \in 1 .. Len(q) : agenda'[t][k] = q[k]
      /\ \A k \in 2 .. Len(agenda[t]) : agenda'[t][k - 1 + Len(q)] = agenda[t][k]
  BY ThenJobs
<1>3. s \in Shard
  BY DEF Due
<1>4. CASE \E k \in 1 .. Len(q) : Visiting(q[k]) /\ Covers(q[k], s)
  <2>1. PICK k \in 1 .. Len(q) : Visiting(q[k]) /\ Covers(q[k], s)
    BY <1>4
  <2>2. k \in 1 .. Len(agenda'[t]) /\ agenda'[t][k] = q[k]
    BY <1>2
  <2> QED
    BY <1>0, <1>3, <2>1, <2>2 DEF Due
<1>5. CASE ~Covers(agenda[t][1], s)
  <2>1. i \in 2 .. Len(agenda[t]) /\ i - 1 + Len(q) \in 1 .. Len(agenda'[t])
    BY <1>1, <1>2, <1>5
  <2>2. agenda'[t][i - 1 + Len(q)] = agenda[t][i]
    BY <1>2, <2>1
  <2> QED
    BY <1>0, <1>1, <1>3, <2>1, <2>2 DEF Due
<1> QED
  BY <1>4, <1>5

(* A step that does not concern a walk.                                    *)
LEMMA CensusFrame ==
  ASSUME NEW t \in Thread, CensusOK(t), agenda'[t] = agenda[t], census'[t] = census[t],
         home' = home, registered' = registered, census[t] \in Census,
         \A g \in Guard : g \in Late' => g \in Late
  PROVE  CensusOK(t)'
<1>1. \A x : Visiting(x)' = Visiting(x) /\ Region(x)' = Region(x)
             /\ \A s : Covers(x, s)' = Covers(x, s)
  BY DEF Visiting, Region, Strictly, Covers
<1>2. Remaining(t)' = Remaining(t) /\ Due(t)' = Due(t)
  BY <1>1 DEF Remaining, Due
<1>3. \A n : GuardsUnder(n)' = GuardsUnder(n)
  BY DEF GuardsUnder
<1>4. SumBounded(t) => SumBounded(t)'
  BY <1>2, <1>3 DEF SumBounded
<1>5. VisitsApart(t) => VisitsApart(t)'
  BY <1>1 DEF VisitsApart
<1>6. VisitsUnder(t) => VisitsUnder(t)'
  BY <1>1 DEF VisitsUnder
<1>7. ASSUME Listed(t) PROVE Listed(t)'
  <2>1. census[t].through \subseteq Guard
    BY DEF Census
  <2> QED
    BY <1>2, <1>3, <1>7, <2>1 DEF Listed
<1> QED
  BY <1>4, <1>5, <1>6, <1>7 DEF CensusOK, ReturnsLast

(* Two sets of guards in a third one.                                      *)
LEMMA GuardSets ==
  ASSUME NEW A \in SUBSET Guard, NEW B \in SUBSET Guard, NEW C \in SUBSET Guard
  PROVE  /\ Cardinality(A) \in Nat /\ Cardinality(B) \in Nat /\ Cardinality(C) \in Nat
         /\ A \subseteq B => Cardinality(A) <= Cardinality(B)
         /\ C \subseteq A \cup B => Cardinality(C) <= Cardinality(A) + Cardinality(B)
         /\ A \cup B \subseteq C /\ A \cap B = {} => Cardinality(A) + Cardinality(B) <= Cardinality(C)
<1>1. IsFiniteSet(A) /\ IsFiniteSet(B) /\ IsFiniteSet(C)
  BY FS_Subset, ThreadAssumption
<1>2. /\ Cardinality(A) \in Nat /\ Cardinality(B) \in Nat /\ Cardinality(C) \in Nat
      /\ Cardinality(A \cap B) \in Nat /\ IsFiniteSet(A \cup B) /\ IsFiniteSet(A \cap B)
  BY <1>1, FS_CardinalityType, FS_Union, FS_Intersection
<1>3. A \subseteq B => Cardinality(A) <= Cardinality(B)
  BY <1>1, FS_Subset
<1>4. Cardinality(A \cup B) = Cardinality(A) + Cardinality(B) - Cardinality(A \cap B)
  BY <1>1, FS_Union
<1>5. C \subseteq A \cup B => Cardinality(C) <= Cardinality(A \cup B)
  BY <1>2, FS_Subset
<1>6. A \cup B \subseteq C => Cardinality(A \cup B) <= Cardinality(C)
  BY <1>1, FS_Subset
<1>7. A \cap B = {} => Cardinality(A \cap B) = 0
  BY FS_EmptySet
<1>8. Cardinality(A \cup B) \in Nat
  BY <1>2, FS_CardinalityType
<1> QED
  BY <1>2, <1>3, <1>4, <1>5, <1>6, <1>7, <1>8

(* The two visits of a node cover the guards of its subtree.               *)
LEMMA VisitsCover ==
  ASSUME TreeInv, NEW g \in Guard, home[g] # NoShard, NEW n \in Ancestors(NodeOf[home[g]])
  PROVE  /\ home[g] \in Shard /\ NodeOf[home[g]] \in Node
         /\ Covers(TaskOn("tally", n), home[g]) \/ Covers(TaskOn("gather", n), home[g])
<1> DEFINE s == home[g]
<1>1. s \in Shard /\ NodeOf[s] \in Node
  BY ShardAssumption DEF TreeInv, IInv, CoreInv, WordTypes
<1>2. n \in Node
  BY <1>1, AncestorsClosed
<1>3. CASE NodeOf[s] = n
  <2>1. TaskOn("tally", n).do = "tally" /\ TaskOn("tally", n).shards = Shards(n)
    BY <1>2, FreshJob DEF TaskName
  <2> QED
    BY <1>1, <1>3, <2>1 DEF Covers, Shards
<1>4. CASE NodeOf[s] # n
  <2>1. PICK c \in Child : Parent[c] = n /\ c \in Ancestors(NodeOf[s])
    BY <1>1, <1>4, ChildAbove
  <2>2. registered[c] \in Shards(n)
    <3>1. GuardsRegistered
      BY GuardsRegisteredNow DEF TreeInv, StopInv
    <3> QED
      BY <2>1, <3>1 DEF GuardsRegistered, Child
  <2>3. /\ TaskOn("gather", n).do = "gather" /\ TaskOn("gather", n).node = n
        /\ TaskOn("gather", n).shards = Shards(n)
    BY <1>2, FreshJob DEF TaskName
  <2> QED
    BY <1>1, <2>1, <2>2, <2>3 DEF Covers
<1> QED
  BY <1>1, <1>3, <1>4

(* The start of a count, or of a report.                                   *)
LEMMA CensusBegin ==
  ASSUME TreeInv, census \in [Thread -> Census], NEW t \in Thread, NEW n \in Node,
         BeginCount(t, n) \/ BeginReport(t, n)
  PROVE  CensusOK(t)'
<1>0. /\ census'[t].node = n /\ census'[t].sum = 0
      /\ census'[t].through \subseteq GuardsUnder(n)
      /\ ~census'[t].report => census'[t].begun = Cardinality(GuardsUnder(n))
      /\ census'[t].report => census'[t].through \cap Late = {}
      /\ UNCHANGED <<home, registered, late>>
      /\ \E c : BeginWalk(t, n, c)
  <2> DEFINE a == [NoCensus EXCEPT !.busy = TRUE, !.node = n, !.through = GuardsUnder(n),
                                   !.begun = Cardinality(GuardsUnder(n))]
             b == [NoCensus EXCEPT !.busy = TRUE, !.node = n, !.report = TRUE,
                                   !.through = GuardsUnder(n) \ Late]
  <2>1. PICK c \in {a, b} : BeginWalk(t, n, c)
    BY DEF BeginCount, BeginReport
  <2>2. census'[t] = c /\ UNCHANGED <<home, registered, late>>
    BY <2>1 DEF BeginWalk, owners
  <2>3. /\ c.node = n /\ c.sum = 0 /\ c.through \subseteq GuardsUnder(n)
        /\ ~c.report => c.begun = Cardinality(GuardsUnder(n))
        /\ c.report => c.through \cap Late = {}
    BY DEF NoCensus
  <2> HIDE DEF a, b
  <2> QED
    BY <2>1, <2>2, <2>3
<1> DEFINE x == TaskOn("tally", n)
           y == TaskOn("gather", n)
           z == TaskOn("return", n)
<1>1. /\ x.do = "tally" /\ x.node = n /\ x.shards = Shards(n) /\ x.kids = {}
      /\ y.do = "gather" /\ y.node = n /\ y.shards = Shards(n) /\ y.kids = {}
      /\ z.do = "return"
  BY FreshJob DEF TaskName
<1>2. Len(agenda'[t]) = 3 /\ agenda'[t][1] = x /\ agenda'[t][2] = y /\ agenda'[t][3] = z
  BY <1>0, BeginHas
<1>3. census'[t].node = n /\ UNCHANGED <<home, registered>>
  BY <1>0
<1> HIDE DEF x, y, z
<1>4. \A i \in 1 .. Len(agenda'[t]) : i = 1 \/ i = 2 \/ i = 3
  BY <1>2
<1>5. \A w : Visiting(w)' = Visiting(w) /\ Region(w)' = Region(w)
             /\ \A s : Covers(w, s)' = Covers(w, s)
  BY <1>3 DEF Visiting, Region, Strictly, Covers
<1>6. ReturnsLast(t)'
  BY <1>1, <1>2, <1>4 DEF ReturnsLast
<1>7. VisitsUnder(t)'
  <2>1. n \in Ancestors(n)
    BY AncestorsClosed
  <2>2. ASSUME NEW i \in 1 .. Len(agenda'[t]), Visiting(agenda'[t][i])
        PROVE  agenda'[t][i].node = n
    BY <1>1, <1>2, <1>4, <2>2 DEF Visiting, CountTask
  <2> QED
    BY <1>3, <1>5, <2>1, <2>2 DEF VisitsUnder
<1>8. /\ Visiting(x) /\ Visiting(y) /\ ~Visiting(z) /\ Region(x) = Shards(n) /\ Region(y) = Strictly(n)
  BY <1>1 DEF Visiting, CountTask, Region
<1>9. VisitsApart(t)'
  <2>1. Shards(n) \cap Strictly(n) = {}
    BY DEF Shards, Strictly
  <2> QED
    BY <1>2, <1>4, <1>5, <1>8, <2>1 DEF VisitsApart
<1>10. \A s \in Remaining(t)' : s \in Shard /\ n \in Ancestors(NodeOf[s])
  <2> TAKE s \in Remaining(t)'
  <2>1. PICK i \in 1 .. Len(agenda'[t]) :
          s \in Shard /\ Visiting(agenda'[t][i]) /\ s \in Region(agenda'[t][i])
    BY <1>5 DEF Remaining
  <2>2. s \in Shards(n) \/ s \in Strictly(n)
    BY <1>2, <1>4, <1>8, <2>1
  <2> QED
    BY <2>1, <2>2, AncestorsClosed DEF Shards, Strictly
<1>11. ASSUME NEW g \in GuardsUnder(n)
       PROVE  home[g] \in Due(t)'
  <2>1. home[g] \in Shard /\ (Covers(x, home[g]) \/ Covers(y, home[g]))
    BY VisitsCover DEF GuardsUnder, x, y
  <2> QED
    BY <1>2, <1>5, <1>8, <2>1 DEF Due
<1>12. ASSUME ~census'[t].report
       PROVE  SumBounded(t)'
  <2> DEFINE A == GuardsUnder(n)
             B == {g \in Guard : home[g] \in Remaining(t)'}
             C == {g \in census'[t].through : home[g] \notin Due(t)'}
  <2>1. B \subseteq A
    BY <1>10, ShardAssumption DEF GuardsUnder
  <2>2. C = {}
    BY <1>0, <1>11
  <2>3. A \in SUBSET Guard /\ B \in SUBSET Guard
    BY DEF GuardsUnder
  <2> HIDE DEF A, B, C
  <2>4. Cardinality(B) <= Cardinality(A) /\ Cardinality(A) \in Nat /\ Cardinality(B) \in Nat
    BY <2>1, <2>3, GuardSets
  <2>5. Cardinality(C) = 0
    BY <2>2, FS_EmptySet
  <2>6. /\ A = GuardsUnder(n)
        /\ B = {g \in Guard : home'[g] \in Remaining(t)'}
        /\ C = {g \in census'[t].through : home'[g] \notin Due(t)'}
    BY <1>0 DEF A, B, C
  <2>7. /\ census'[t].sum >= Cardinality(C)
        /\ census'[t].sum + Cardinality(B) <= census'[t].begun
    BY <1>0, <1>12, <2>4, <2>5, <2>6
  <2>8. SUFFICES
          /\ census'[t].through \subseteq
               {g \in Guard : home'[g] # NoShard /\ census'[t].node \in Ancestors(NodeOf[home'[g]])}
          /\ census'[t].sum >= Cardinality({g \in census'[t].through : home'[g] \notin Due(t)'})
          /\ ~census'[t].grown =>
               census'[t].sum + Cardinality({g \in Guard : home'[g] \in Remaining(t)'})
                 <= census'[t].begun
    BY DEF SumBounded, GuardsUnder
  <2>9. census'[t].through \subseteq
           {g \in Guard : home'[g] # NoShard /\ census'[t].node \in Ancestors(NodeOf[home'[g]])}
    BY <1>0 DEF GuardsUnder
  <2> QED
    BY <2>6, <2>7, <2>9
<1>13. ASSUME census'[t].report
       PROVE  Listed(t)'
  <2>1. GuardsUnder(n)' = GuardsUnder(n) /\ Late' = Late
    BY <1>0 DEF GuardsUnder, Late
  <2> QED
    BY <1>0, <1>11, <1>13, <2>1 DEF Listed
<1> QED
  BY <1>6, <1>7, <1>9, <1>12, <1>13 DEF CensusOK

(* A shard is read: the guards homed on it are counted, or reported.       *)
LEMMA CensusTally ==
  ASSUME TreeInv, census \in [Thread -> Census], NEW t \in Thread, CensusOK(t), Tally(t)
  PROVE  CensusOK(t)'
<1> DEFINE h == agenda[t][1]
           c == census[t]
<1>1. /\ h \in Task /\ h.do = "tally" /\ JobOK(h) /\ agenda[t] # <<>>
      /\ agenda \in [Thread -> Seq(Task)] /\ 1 \in 1 .. Len(agenda[t])
  BY DoingJob DEF TreeInv, Tally
<1>2. PICK s \in h.shards, q \in Seq(Task) :
        /\ Then(t, q) /\ census' = [census EXCEPT ![t] = Seen(census[t], s)]
        /\ \A i \in 1 .. Len(q) : i = 1 /\ q[i] = [h EXCEPT !.shards = @ \ {s}]
        /\ (h.shards # {s} => Len(q) = 1)
  BY TallyHas
<1>3. UNCHANGED <<shardState, home, registered, late>>
  BY DEF Tally, words, owners
<1>4. c \in Census
  OBVIOUS
<1>5. /\ census'[t].busy = c.busy /\ census'[t].report = c.report /\ census'[t].node = c.node
      /\ census'[t].through = c.through /\ census'[t].begun = c.begun
      /\ census'[t].grown = c.grown
      /\ ~c.report => census'[t].sum = c.sum + shardState[s].local
      /\ c.report => census'[t].infos = c.infos \cup Recorded(s)
  <2>1. census'[t] = Seen(c, s)
    BY <1>2
  <2>2. /\ ~c.report => Seen(c, s) = [c EXCEPT !.sum = @ + shardState[s].local]
        /\ c.report => Seen(c, s) = [c EXCEPT !.infos = @ \cup Recorded(s)]
    BY DEF Seen
  <2> HIDE DEF c
  <2> QED
    BY <1>4, <2>1, <2>2 DEF Census
<1> DEFINE y == [h EXCEPT !.shards = @ \ {s}]
<1> HIDE DEF h, c
<1>6. /\ y.do = "tally" /\ y.node = h.node /\ y.shards = h.shards \ {s}
      /\ h.shards \subseteq Shard /\ s \in Shard
  BY <1>1 DEF Task
<1> HIDE DEF y
<1>7. \A i \in 1 .. Len(q) : i = 1 /\ q[i] = y
  BY <1>2 DEF y
<1> SUFFICES ASSUME c.busy
             PROVE  /\ ReturnsLast(t)' /\ VisitsUnder(t)' /\ VisitsApart(t)'
                    /\ c.report => Listed(t)'
                    /\ ~c.report => SumBounded(t)'
  BY <1>5 DEF CensusOK
<1>8. /\ ReturnsLast(t) /\ VisitsUnder(t) /\ VisitsApart(t)
      /\ c.report => Listed(t)
      /\ ~c.report => SumBounded(t)
  BY DEF CensusOK, c
<1>9. /\ Visiting(h) /\ Visiting(y) /\ Region(h) = h.shards /\ Region(y) = h.shards \ {s}
      /\ ~(s \in Region(y))
  BY <1>1, <1>6 DEF Visiting, CountTask, Region
<1>10. ReturnsLast(t)'
  BY <1>1, <1>2, <1>6, <1>7, <1>8, ThenReturnsLast DEF h
<1>11. VisitsUnder(t)'
  <2> SUFFICES ASSUME NEW j \in 1 .. Len(agenda'[t]), Visiting(agenda'[t][j])
               PROVE  c.node \in Ancestors(agenda'[t][j].node)
    BY <1>5 DEF VisitsUnder, Visiting
  <2>1. CASE j \in 1 .. Len(q) /\ agenda'[t][j] = q[j]
    BY <1>1, <1>6, <1>7, <1>8, <1>9, <2>1 DEF VisitsUnder, c, h
  <2>2. CASE \E i \in 2 .. Len(agenda[t]) : agenda'[t][j] = agenda[t][i]
    BY <1>8, <2>2 DEF VisitsUnder, c
  <2> QED
    BY <1>1, <1>2, <2>1, <2>2, ThenPositions
<1>12. /\ VisitsApart(t)' /\ Remaining(t)' \subseteq Remaining(t)
       /\ s \notin Remaining(t)' /\ s \in Remaining(t)
  <2>1. \A i \in 1 .. Len(q) : Region(q[i]) \subseteq Region(h) /\ s \notin Region(q[i])
    BY <1>7, <1>9
  <2>2. \A i, j \in 1 .. Len(q) : i = j
    BY <1>7
  <2>3. s \in Region(h)
    BY <1>9
  <2>4. s \in Remaining(t)
    BY <1>1, <1>6, <1>9, <2>3 DEF Remaining, h
  <2>5. /\ VisitsApart(t)' /\ Remaining(t)' \subseteq Remaining(t)
        /\ \A r \in Remaining(t)' :
              \/ \E i \in 1 .. Len(q) : Visiting(q[i]) /\ r \in Region(q[i])
              \/ r \notin Region(h)
    <3>1. \A i \in 1 .. Len(q) : Visiting(q[i]) => Region(q[i]) \subseteq Region(agenda[t][1])
      BY <2>1 DEF h
    <3>2. \A i, j \in 1 .. Len(q) : Visiting(q[i]) /\ Visiting(q[j]) /\ i # j =>
            Region(q[i]) \cap Region(q[j]) = {}
      BY <2>2
    <3> QED
      BY <1>1, <1>2, <1>8, <1>9, <3>1, <3>2, ThenApart DEF h
  <2> QED
    BY <2>1, <2>3, <2>4, <2>5
<1>13. ASSUME NEW r \in Due(t), r # s
       PROVE  r \in Due(t)'
  <2>1. ASSUME Covers(h, r)
        PROVE  \E k \in 1 .. Len(q) : Visiting(q[k]) /\ Covers(q[k], r)
    <3>1. r \in h.shards
      BY <1>1, <2>1 DEF Covers
    <3>2. Len(q) = 1
      BY <1>2, <1>13, <3>1
    <3>3. 1 \in 1 .. Len(q) /\ q[1] = y
      BY <1>7, <3>2
    <3>4. Covers(y, r)
      BY <1>6, <1>13, <3>1 DEF Covers
    <3> QED
      BY <1>9, <3>3, <3>4
  <2> QED
    BY <1>1, <1>2, <1>3, <2>1, ThenDue DEF h
<1>14. ASSUME ~c.report
       PROVE  SumBounded(t)'
  <2>0. SUFFICES
          /\ census'[t].through \subseteq
               {g \in Guard : home'[g] # NoShard /\ census'[t].node \in Ancestors(NodeOf[home'[g]])}
          /\ census'[t].sum >= Cardinality({g \in census'[t].through : home'[g] \notin Due(t)'})
          /\ ~census'[t].grown =>
               census'[t].sum + Cardinality({g \in Guard : home'[g] \in Remaining(t)'})
                 <= census'[t].begun
    BY DEF SumBounded, GuardsUnder
  <2> DEFINE L == LocalTokens(s)
             M == {g \in c.through : home[g] \notin Due(t)}
             N == {g \in c.through : home[g] \notin Due(t)'}
             R == {g \in Guard : home[g] \in Remaining(t)}
             T == {g \in Guard : home[g] \in Remaining(t)'}
  <2>1. shardState[s].local = Cardinality(L)
    BY <1>6 DEF TreeInv, IInv, CoreInv, CountsExact, LocalExact
  <2>2. N \subseteq M \cup L
    BY <1>13, <1>4 DEF LocalTokens, Census
  <2>3. T \cup L \subseteq R /\ T \cap L = {}
    BY <1>12 DEF LocalTokens
  <2>4. /\ L \in SUBSET Guard /\ M \in SUBSET Guard /\ N \in SUBSET Guard
        /\ R \in SUBSET Guard /\ T \in SUBSET Guard
    BY <1>4 DEF LocalTokens, Census
  <2> DEFINE l == Cardinality(L)
             m == Cardinality(M)
             n == Cardinality(N)
             r == Cardinality(R)
             k == Cardinality(T)
  <2>5. /\ c.through \subseteq GuardsUnder(c.node) /\ c.sum >= m /\ (~c.grown => c.sum + r <= c.begun)
    BY <1>8, <1>14 DEF SumBounded, c
  <2>6. c.sum \in Nat /\ c.begun \in Nat
    BY <1>4 DEF Census
  <2>7. /\ {g \in census'[t].through : home'[g] \notin Due(t)'} = N
        /\ {g \in Guard : home'[g] \in Remaining(t)'} = T
    BY <1>3, <1>5
  <2> HIDE DEF L, M, N, R, T
  <2>8. l \in Nat /\ m \in Nat /\ n \in Nat /\ r \in Nat /\ k \in Nat /\ n <= m + l /\ k + l <= r
    BY <2>2, <2>3, <2>4, GuardSets
  <2> HIDE DEF l, m, n, r, k
  <2>9. c.sum + l >= n /\ (~c.grown => c.sum + l + k <= c.begun)
    BY <2>5, <2>6, <2>8, SMTT(60)
  <2>10. census'[t].through \subseteq
           {g \in Guard : home'[g] # NoShard /\ census'[t].node \in Ancestors(NodeOf[home'[g]])}
    BY <1>3, <1>5, <2>5 DEF GuardsUnder
  <2> QED
    BY <1>5, <1>14, <2>1, <2>7, <2>9, <2>10 DEF n, k, l
<1>15. ASSUME c.report
       PROVE  Listed(t)'
  <2>1. /\ c.through \subseteq GuardsUnder(c.node) /\ c.through \subseteq Guard
        /\ \A g \in c.through : g \notin Late /\ (g \in c.infos \/ home[g] \in Due(t))
    BY <1>4, <1>8, <1>15 DEF Listed, c, Census
  <2>2. Late' = Late
    BY <1>3 DEF Late
  <2>3. ASSUME NEW g \in c.through
        PROVE  g \in c.infos \cup Recorded(s) \/ home[g] \in Due(t)'
    BY <1>13, <2>1, <2>3 DEF Recorded
  <2>4. SUFFICES
          /\ census'[t].through \subseteq
               {g \in Guard : home'[g] # NoShard /\ census'[t].node \in Ancestors(NodeOf[home'[g]])}
          /\ \A g \in census'[t].through :
               g \notin Late' /\ (g \in census'[t].infos \/ home'[g] \in Due(t)')
    BY DEF Listed, GuardsUnder
  <2>5. census'[t].through \subseteq
          {g \in Guard : home'[g] # NoShard /\ census'[t].node \in Ancestors(NodeOf[home'[g]])}
    BY <1>3, <1>5, <2>1 DEF GuardsUnder
  <2> QED
    BY <1>3, <1>5, <1>15, <2>1, <2>2, <2>3, <2>5
<1> QED
  BY <1>10, <1>11, <1>12, <1>14, <1>15

(* A step that adds nothing to the sum.                                    *)
LEMMA SumKept ==
  ASSUME NEW t \in Thread, census[t] \in Census, SumBounded(t),
         census'[t].node = census[t].node, census'[t].sum = census[t].sum,
         census'[t].begun = census[t].begun, ~census'[t].grown => ~census[t].grown,
         census'[t].through \subseteq census[t].through,
         \A g \in census'[t].through :
           home'[g] = home[g] /\ (home[g] \in Due(t) => home[g] \in Due(t)'),
         ~census'[t].grown =>
           \A g \in Guard : home'[g] \in Remaining(t)' => home[g] \in Remaining(t)
  PROVE  SumBounded(t)'
<1> DEFINE M == {g \in census[t].through : home[g] \notin Due(t)}
           N == {g \in census'[t].through : home'[g] \notin Due(t)'}
           R == {g \in Guard : home[g] \in Remaining(t)}
           T == {g \in Guard : home'[g] \in Remaining(t)'}
<1>1. SUFFICES
        /\ census'[t].through \subseteq
             {g \in Guard : home'[g] # NoShard /\ census'[t].node \in Ancestors(NodeOf[home'[g]])}
        /\ census'[t].sum >= Cardinality(N)
        /\ ~census'[t].grown => census'[t].sum + Cardinality(T) <= census'[t].begun
  BY DEF SumBounded, GuardsUnder
<1>2. N \subseteq M /\ (~census'[t].grown => T \subseteq R)
  OBVIOUS
<1>3. M \in SUBSET Guard /\ N \in SUBSET Guard /\ R \in SUBSET Guard /\ T \in SUBSET Guard
  BY DEF Census
<1>4. /\ census[t].through \subseteq GuardsUnder(census[t].node)
      /\ census[t].sum >= Cardinality(M)
      /\ ~census[t].grown => census[t].sum + Cardinality(R) <= census[t].begun
  BY DEF SumBounded
<1>5. census[t].sum \in Nat /\ census[t].begun \in Nat
  BY DEF Census
<1> HIDE DEF M, N, R, T
<1>6. /\ Cardinality(M) \in Nat /\ Cardinality(N) \in Nat /\ Cardinality(R) \in Nat
      /\ Cardinality(T) \in Nat /\ Cardinality(N) <= Cardinality(M)
      /\ ~census'[t].grown => Cardinality(T) <= Cardinality(R)
  BY <1>2, <1>3, GuardSets
<1>7. census'[t].through \subseteq
        {g \in Guard : home'[g] # NoShard /\ census'[t].node \in Ancestors(NodeOf[home'[g]])}
  BY <1>4 DEF GuardsUnder
<1> QED
  BY <1>4, <1>5, <1>6, <1>7

(* A step that adds nothing to the report.                                 *)
LEMMA ListedKept ==
  ASSUME NEW t \in Thread, census[t] \in Census, Listed(t),
         census'[t].node = census[t].node, census'[t].infos = census[t].infos,
         census'[t].through \subseteq census[t].through,
         \A g \in census'[t].through :
           /\ home'[g] = home[g] /\ (home[g] \in Due(t) => home[g] \in Due(t)')
           /\ g \in Late' => g \in Late
  PROVE  Listed(t)'
<1>1. SUFFICES
        /\ census'[t].through \subseteq
             {g \in Guard : home'[g] # NoShard /\ census'[t].node \in Ancestors(NodeOf[home'[g]])}
        /\ \A g \in census'[t].through :
             g \notin Late' /\ (g \in census'[t].infos \/ home'[g] \in Due(t)')
  BY DEF Listed, GuardsUnder
<1>2. /\ census[t].through \subseteq
           {g \in Guard : home[g] # NoShard /\ census[t].node \in Ancestors(NodeOf[home[g]])}
      /\ \A g \in census[t].through :
           g \notin Late /\ (g \in census[t].infos \/ home[g] \in Due(t))
  BY DEF Listed, GuardsUnder
<1> QED
  BY <1>2

(* A registry is read.  When it was the last one of the node, the visits   *)
(* of the children that were found take the place of the gather.           *)
LEMMA CensusGather ==
  ASSUME TreeInv, census \in [Thread -> Census], NEW t \in Thread, CensusOK(t), Gather(t)
  PROVE  CensusOK(t)'
<1> DEFINE h == agenda[t][1]
           n == h.node
<1>1. /\ h \in Task /\ h.do = "gather" /\ JobOK(h) /\ agenda[t] # <<>> /\ n \in Node
      /\ agenda \in [Thread -> Seq(Task)] /\ 1 \in 1 .. Len(agenda[t])
  BY DoingJob DEF TreeInv, Gather
<1>2. PICK s \in h.shards, kids \in SUBSET Child, q \in Seq(Task) :
        /\ Then(t, q) /\ kids = h.kids \cup LiveChildren(s)
        /\ \A m \in kids : Parent[m] = n
        /\ \/ /\ h.shards # {s} /\ Len(q) = 1
              /\ q[1] = [h EXCEPT !.shards = @ \ {s}, !.kids = kids]
           \/ h.shards = {s} /\ VisitsOf(q, kids)
  BY GatherHas
<1>3. UNCHANGED <<home, registered, late>> /\ census' = census
  BY DEF Gather, owners
<1> DEFINE y == [h EXCEPT !.shards = @ \ {s}, !.kids = kids]
<1> HIDE DEF h
<1>4. y.do = "gather" /\ y.node = n /\ y.shards = h.shards \ {s} /\ y.kids = kids
  BY <1>1 DEF Task
<1>5. CASE ~census[t].busy
  BY <1>3, <1>5 DEF CensusOK
<1> SUFFICES ASSUME census[t].busy
             PROVE  /\ ReturnsLast(t)' /\ VisitsUnder(t)' /\ VisitsApart(t)'
                    /\ census[t].report => Listed(t)'
                    /\ ~census[t].report => SumBounded(t)'
  BY <1>3, <1>5 DEF CensusOK
<1>6. /\ ReturnsLast(t) /\ VisitsUnder(t) /\ VisitsApart(t)
      /\ census[t].report => Listed(t)
      /\ ~census[t].report => SumBounded(t)
  BY DEF CensusOK
<1>7. /\ Visiting(h) /\ Region(h) = Strictly(n)
      /\ Visiting(y) /\ Region(y) = Strictly(n) /\ census[t].node \in Ancestors(n)
  BY <1>1, <1>4, <1>6 DEF Visiting, CountTask, Region, VisitsUnder, h
<1> HIDE DEF y, n
<1>8. ASSUME NEW g \in Guard, home[g] # NoShard, Covers(h, home[g])
      PROVE  \E c \in Child :
               /\ Parent[c] = n /\ c \in Ancestors(NodeOf[home[g]])
               /\ (c \in kids \/ registered[c] \in h.shards \ {s})
  <2>1. PICK c \in Child :
          /\ Parent[c] = n /\ c \in Ancestors(NodeOf[home[g]])
          /\ (c \in h.kids \/ registered[c] \in h.shards)
    BY <1>1, <1>8 DEF Covers, n
  <2>2. life[c] = "live"
    BY <1>8, <2>1, NoneBelow DEF TreeInv
  <2>3. registered[c] = s => c \in kids
    BY <1>2, <2>2 DEF LiveChildren
  <2> QED
    BY <1>2, <2>1, <2>3
<1> DEFINE Parts == \A i \in 1 .. Len(q) :
                      /\ q[i].do # "return"
                      /\ Visiting(q[i]) => /\ Region(q[i]) \subseteq Region(agenda[t][1])
                                           /\ n \in Ancestors(q[i].node)
           Apart == \A i, j \in 1 .. Len(q) : Visiting(q[i]) /\ Visiting(q[j]) /\ i # j =>
                      Region(q[i]) \cap Region(q[j]) = {}
           Covered(r) == \E k \in 1 .. Len(q) : Visiting(q[k]) /\ Covers(q[k], r)
           All == \A g \in Guard : home[g] # NoShard /\ Covers(h, home[g]) => Covered(home[g])
<1>9. ASSUME h.shards # {s}
      PROVE  Parts /\ Apart /\ All
  <2>1. Len(q) = 1 /\ q[1] = y
    BY <1>2, <1>9 DEF y
  <2>2. \A i \in 1 .. Len(q) : q[i] = y /\ i = 1
    BY <2>1
  <2>3. Parts
    <3>1. n \in Ancestors(n)
      BY <1>1, AncestorsClosed DEF n
    <3> QED
      BY <1>4, <1>7, <2>2, <3>1 DEF h
  <2>4. Apart
    BY <2>2
  <2>5. ASSUME NEW g \in Guard, home[g] # NoShard, Covers(h, home[g])
        PROVE  Covered(home[g])
    <3>1. Covers(y, home[g])
      BY <1>4, <1>8, <2>5 DEF Covers
    <3>2. 1 \in 1 .. Len(q)
      BY <2>1
    <3> QED
      BY <1>7, <2>1, <3>1, <3>2
  <2> QED
    BY <2>3, <2>4, <2>5
<1>10. ASSUME h.shards = {s}
       PROVE  Parts /\ Apart /\ All
  <2>1. VisitsOf(q, kids)
    BY <1>2, <1>10
  <2>2. ASSUME NEW i \in 1 .. Len(q)
        PROVE  \E m \in kids : q[i] \in KidTask(m) /\ q[i].node = m /\ Parent[m] = n /\ m \in Child
                               /\ q[i].do \in {"tally", "gather", "release"}
    <3>1. PICK m \in kids : q[i] \in KidTask(m)
      BY <2>1 DEF VisitsOf
    <3>2. m \in Node
      BY DEF Child
    <3>3. PICK do \in {"tally", "gather", "release"} : q[i] = TaskOn(do, m)
      BY <3>1 DEF KidTask
    <3>4. TaskOn(do, m).do = do /\ TaskOn(do, m).node = m
      BY <3>2, FreshJob DEF TaskName
    <3> QED
      BY <1>2, <3>1, <3>3, <3>4
  <2>3. ASSUME NEW i \in 1 .. Len(q)
        PROVE  /\ q[i].do # "return"
               /\ Visiting(q[i]) => /\ Region(q[i]) \subseteq Region(agenda[t][1])
                                    /\ n \in Ancestors(q[i].node)
    <3>1. PICK m \in kids : /\ q[i] \in KidTask(m) /\ q[i].node = m /\ Parent[m] = n /\ m \in Child
                            /\ q[i].do \in {"tally", "gather", "release"}
      BY <2>2
    <3>2. n \in Ancestors(m)
      BY <3>1, AncestorsClosed DEF Child
    <3>3. Visiting(q[i]) => Region(q[i]) \subseteq Strictly(n)
      BY <3>1, KidRegion
    <3> QED
      BY <1>7, <3>1, <3>2, <3>3 DEF h
  <2>4. ASSUME NEW i \in 1 .. Len(q), NEW j \in 1 .. Len(q),
               Visiting(q[i]), Visiting(q[j]), i # j,
               NEW r, r \in Region(q[i]), r \in Region(q[j])
        PROVE  FALSE
    <3>1. PICK m \in kids : /\ q[i] \in KidTask(m) /\ q[i].node = m /\ Parent[m] = n /\ m \in Child
                            /\ q[i].do \in {"tally", "gather", "release"}
      BY <2>2
    <3>2. PICK k \in kids : /\ q[j] \in KidTask(k) /\ q[j].node = k /\ Parent[k] = n /\ k \in Child
                            /\ q[j].do \in {"tally", "gather", "release"}
      BY <2>2
    <3>3. /\ r \in Shard /\ m \in Ancestors(NodeOf[r]) /\ (q[i].do = "tally" <=> NodeOf[r] = m)
      BY <2>4, <3>1, KidRegion
    <3>4. /\ k \in Ancestors(NodeOf[r]) /\ (q[j].do = "tally" <=> NodeOf[r] = k)
      BY <2>4, <3>2, KidRegion
    <3>5. m = k
      BY <3>1, <3>2, <3>3, <3>4, KidsApart, ShardAssumption
    <3>6. q[i].do = q[j].do /\ q[i].do # "release"
      BY <2>4, <3>1, <3>2, <3>3, <3>4, <3>5 DEF Visiting, CountTask
    <3> QED
      BY <2>1, <2>4, <3>1, <3>2, <3>5, <3>6 DEF VisitsOf
  <2>5. ASSUME NEW g \in Guard, home[g] # NoShard, Covers(h, home[g])
        PROVE  Covered(home[g])
    <3>1. PICK c \in kids : c \in Ancestors(NodeOf[home[g]])
      BY <1>8, <1>10, <2>5
    <3>2. Covers(TaskOn("tally", c), home[g]) \/ Covers(TaskOn("gather", c), home[g])
      BY <2>5, <3>1, VisitsCover
    <3>3. PICK x \in {TaskOn("tally", c), TaskOn("gather", c)} : Covers(x, home[g])
      BY <3>2
    <3>4. PICK k \in 1 .. Len(q) : q[k] = x
      BY <2>1, <3>1, <3>3 DEF VisitsOf
    <3>5. Visiting(x)
      BY <3>3 DEF Visiting, CountTask, Covers
    <3> QED
      BY <3>3, <3>4, <3>5
  <2>6. Apart
    <3> SUFFICES ASSUME NEW i \in 1 .. Len(q), NEW j \in 1 .. Len(q),
                        Visiting(q[i]), Visiting(q[j]), i # j
                 PROVE  Region(q[i]) \cap Region(q[j]) = {}
      OBVIOUS
    <3> QED
      BY <2>4
  <2> QED
    BY <2>3, <2>5, <2>6
<1>11. Parts /\ Apart /\ All
  BY <1>9, <1>10
<1>12. ReturnsLast(t)'
  <2>1. agenda[t][1].do # "return" /\ \A i \in 1 .. Len(q) : q[i].do # "return"
    BY <1>1, <1>11 DEF h
  <2> QED
    BY <1>1, <1>2, <1>6, <2>1, ThenReturnsLast
<1>13. VisitsUnder(t)'
  <2> SUFFICES ASSUME NEW j \in 1 .. Len(agenda'[t]), Visiting(agenda'[t][j])
               PROVE  census[t].node \in Ancestors(agenda'[t][j].node)
    BY <1>3 DEF VisitsUnder, Visiting
  <2>1. CASE j \in 1 .. Len(q) /\ agenda'[t][j] = q[j]
    <3>1. n \in Ancestors(q[j].node) /\ q[j] \in Task
      BY <1>11, <2>1
    <3>2. q[j].node \in Node
      BY <3>1 DEF Task
    <3> QED
      BY <1>7, <2>1, <3>1, <3>2, AncestorsTransitive
  <2>2. CASE \E i \in 2 .. Len(agenda[t]) : agenda'[t][j] = agenda[t][i]
    BY <1>6, <2>2 DEF VisitsUnder
  <2> QED
    BY <1>1, <1>2, <2>1, <2>2, ThenPositions
<1>14. VisitsApart(t)' /\ Remaining(t)' \subseteq Remaining(t)
  <2>1. Visiting(agenda[t][1])
    BY <1>7 DEF h
  <2> QED
    BY <1>1, <1>2, <1>6, <1>11, <2>1, ThenApart
<1>15. ASSUME NEW g \in Guard, home[g] # NoShard, home[g] \in Due(t)
       PROVE  home[g] \in Due(t)'
  <2>1. ~Covers(agenda[t][1], home[g]) \/ Covered(home[g])
    BY <1>11, <1>15 DEF h
  <2> QED
    BY <1>1, <1>2, <1>3, <1>15, <2>1, ThenDue
<1>16. census[t] \in Census /\ census[t].through \subseteq Guard
  BY DEF Census
<1>17. ASSUME ~census[t].report
       PROVE  SumBounded(t)'
  <2>1. \A g \in census[t].through : home[g] # NoShard
    BY <1>6, <1>17 DEF SumBounded, GuardsUnder
  <2> QED
    BY <1>3, <1>6, <1>14, <1>15, <1>16, <1>17, <2>1, SumKept
<1>18. ASSUME census[t].report
       PROVE  Listed(t)'
  <2>1. \A g \in census[t].through : home[g] # NoShard
    BY <1>6, <1>18 DEF Listed, GuardsUnder
  <2>2. Late' = Late
    BY <1>3 DEF Late
  <2> QED
    BY <1>3, <1>6, <1>15, <1>16, <1>18, <2>1, <2>2, ListedKept
<1> QED
  BY <1>12, <1>13, <1>14, <1>17, <1>18

(* A step outside of the walk leaves its visits and its return where they  *)
(* are: what it puts on the agenda are tasks of other kinds.               *)
LEMMA VisitsStay ==
  ASSUME IInv, OwnInv, [Next]_vars, NEW t \in Thread, ReturnsLast(t),
         ~(Doing(t, "return") /\ Proceed(t))
  PROVE  /\ ReturnsLast(t)' /\ (VisitsApart(t) => VisitsApart(t)')
         /\ \A j \in 1 .. Len(agenda'[t]) : Visiting(agenda'[t][j]) =>
              \E i \in 1 .. Len(agenda[t]) : agenda[t][i] = agenda'[t][j]
         /\ \A i \in 1 .. Len(agenda[t]) : Visiting(agenda[t][i]) =>
              \E j \in 1 .. Len(agenda'[t]) : agenda'[t][j] = agenda[t][i]
<1>0. agenda \in [Thread -> Seq(Task)] /\ agenda[t] # <<>>
  BY DEF IInv, OwnerTypes, ReturnsLast
<1>1. \A x : Visiting(x)' = Visiting(x) /\ Region(x)' = Region(x)
  BY DEF Visiting, Region, Strictly
<1>2. CASE agenda'[t] = agenda[t]
  <2>1. VisitsApart(t) => VisitsApart(t)'
    BY <1>1, <1>2 DEF VisitsApart
  <2> QED
    BY <1>2, <2>1 DEF ReturnsLast
<1>3. CASE Proceed(t)
  <2>1. pc[t] = "idle" /\ \E q : FreshTasks(t, q)
    BY <1>3, ProceedThen
  <2>2. PICK q : FreshTasks(t, q)
    BY <2>1
  <2>3. q \in Seq(Task) /\ Then(t, q)
    BY <2>2 DEF FreshTasks
  <2>4. ASSUME NEW i \in 1 .. Len(q)
        PROVE  q[i].do # "return" /\ ~Visiting(q[i])
    <3>1. q[i] \in Task /\ FreshTask(t, q[i])
      BY <2>2, <2>3, <2>4 DEF FreshTasks
    <3> QED
      BY <3>1 DEF FreshTask, Visiting, CountTask
  <2>5. Head(agenda[t]) = agenda[t][1] /\ 1 \in 1 .. Len(agenda[t])
    BY <1>0
  <2>6. agenda[t][1].do # "return" /\ ~Visiting(agenda[t][1])
    <3>1. Head(agenda[t]).do \notin CountTask
      BY <1>3, ZenonT(60) DEF Proceed, Stop, Latch, Snapshot, StopKids, StopNotify, Release, Deregister,
         Register, Check, Adopt, Watch, GuardReturned, Upgrade, Unblock, CountTask, Doing
    <3> QED
      BY <1>0, <1>3, <2>1, <2>5, <3>1 DEF Doing, Visiting
  <2>7. ReturnsLast(t)'
    BY <1>0, <2>3, <2>4, <2>6, ThenReturnsLast
  <2>8. /\ Len(agenda[t]) \in Nat \ {0} /\ Len(q) \in Nat
        /\ Len(agenda'[t]) = Len(q) + Len(agenda[t]) - 1
        /\ \A i \in 2 .. Len(agenda[t]) : agenda'[t][i - 1 + Len(q)] = agenda[t][i]
    BY <1>0, <2>3, ThenJobs
  <2>9. ASSUME NEW j \in 1 .. Len(agenda'[t]), Visiting(agenda'[t][j])
        PROVE  \E i \in 1 .. Len(agenda[t]) :
                 j = i - 1 + Len(q) /\ agenda[t][i] = agenda'[t][j]
    <3>1. ~(j \in 1 .. Len(q) /\ agenda'[t][j] = q[j])
      BY <2>4, <2>9
    <3>2. \E i \in 2 .. Len(agenda[t]) : j = i - 1 + Len(q) /\ agenda'[t][j] = agenda[t][i]
      BY <1>0, <2>3, <3>1, ThenPositions
    <3> QED
      BY <3>2
  <2>10. ASSUME NEW i \in 1 .. Len(agenda[t]), Visiting(agenda[t][i])
         PROVE  \E j \in 1 .. Len(agenda'[t]) : agenda'[t][j] = agenda[t][i]
    <3>1. i \in 2 .. Len(agenda[t]) /\ i - 1 + Len(q) \in 1 .. Len(agenda'[t])
      BY <2>6, <2>8, <2>10
    <3> QED
      BY <2>8, <3>1
  <2>11. ASSUME VisitsApart(t)
         PROVE  VisitsApart(t)'
    <3> SUFFICES ASSUME NEW j \in 1 .. Len(agenda'[t]), NEW k \in 1 .. Len(agenda'[t]),
                        Visiting(agenda'[t][j]), Visiting(agenda'[t][k]), j # k
                 PROVE  Region(agenda'[t][j]) \cap Region(agenda'[t][k]) = {}
      BY <1>1 DEF VisitsApart
    <3>1. PICK i \in 1 .. Len(agenda[t]) :
                 j = i - 1 + Len(q) /\ agenda[t][i] = agenda'[t][j]
      BY <2>9
    <3>2. PICK l \in 1 .. Len(agenda[t]) :
                 k = l - 1 + Len(q) /\ agenda[t][l] = agenda'[t][k]
      BY <2>9
    <3>3. i # l
      BY <3>1, <3>2
    <3> QED
      BY <2>11, <3>1, <3>2, <3>3 DEF VisitsApart
  <2>12. \A j \in 1 .. Len(agenda'[t]) : Visiting(agenda'[t][j]) =>
           \E i \in 1 .. Len(agenda[t]) : agenda[t][i] = agenda'[t][j]
    BY <2>9
  <2> QED
    BY <2>7, <2>10, <2>11, <2>12
<1> QED
  BY <1>0, <1>2, <1>3, StepRows

(* A registry entry above a guard stays: its child is neither being        *)
(* created nor collected.                                                  *)
LEMMA RegisteredStays ==
  ASSUME TreeInv, [Next]_vars, NEW g \in Guard, home[g] # NoShard,
         NEW c \in Child, c \in Ancestors(NodeOf[home[g]])
  PROVE  registered'[c] = registered[c]
<1> SUFFICES ASSUME registered'[c] # registered[c] PROVE FALSE
  OBVIOUS
<1>0. IInv /\ OwnInv /\ ChildInv
  BY DEF TreeInv
<1>1. PICK t \in Thread : Head(agenda[t]).node = c /\ (Register(t) \/ Deregister(t))
  BY <1>0, RegistryMoves
<1>2. ~Constructing(c) /\ life[c] = "live"
  BY <1>0, NoneBelow
<1>3. CASE Register(t)
  <2>1. Doing(t, "register")
    BY <1>3 DEF Register
  <2>2. /\ 1 \in 1 .. Len(agenda[t]) /\ agenda[t][1].do = "register" /\ agenda[t][1].node = c
    BY <1>0, <1>1, <2>1, DoingJob
  <2>3. Constructing(agenda[t][1].node)
    BY <1>0, <2>2, RegisterAdopts
  <2> QED
    BY <1>2, <2>2, <2>3
<1>4. CASE Deregister(t)
  <2>1. Doing(t, "deregister")
    BY <1>4 DEF Deregister
  <2>2. agenda[t][1].do = "deregister" /\ agenda[t][1].node = c /\ JobOK(agenda[t][1])
    BY <1>0, <1>1, <2>1, DoingJob
  <2> QED
    BY <1>2, <2>2 DEF JobOK
<1> QED
  BY <1>1, <1>3, <1>4

(* A step outside of the walk.                                             *)
LEMMA CensusOther ==
  ASSUME TreeInv, census \in [Thread -> Census], NEW t \in Thread, CensusOK(t), [Next]_vars,
         ~(Returning(t) /\ Proceed(t)), census'[t] = Witness(t),
         \A g \in Guard : g \in Late' /\ g \notin Late => home[g] = NoShard
  PROVE  CensusOK(t)'
<1> DEFINE c == census[t]
<1>0. IInv /\ OwnInv /\ ChildInv /\ c \in Census
  BY DEF TreeInv
<1>1. CASE ~c.busy
  BY <1>1 DEF CensusOK, Witness
<1> SUFFICES ASSUME c.busy
             PROVE  /\ ReturnsLast(t)' /\ VisitsUnder(t)' /\ VisitsApart(t)'
                    /\ c.report => Listed(t)'
                    /\ ~c.report => SumBounded(t)'
  BY <1>1 DEF CensusOK, Witness
<1>2. /\ ReturnsLast(t) /\ VisitsUnder(t) /\ VisitsApart(t)
      /\ c.report => Listed(t)
      /\ ~c.report => SumBounded(t)
      /\ c.through \subseteq GuardsUnder(c.node)
  BY DEF CensusOK, Listed, SumBounded
<1>3. PICK n \in Node : n = c.node
  BY <1>0 DEF Census
<1>4. GuardsUnder(n)' = Subsets'[n] /\ GuardsUnder(n) = Subsets[n]
  BY DEF Subsets
<1>5. /\ census'[t].node = c.node /\ census'[t].sum = c.sum /\ census'[t].begun = c.begun
      /\ census'[t].infos = c.infos
      /\ census'[t].through = c.through \cap GuardsUnder(n)'
      /\ ~census'[t].grown => ~c.grown /\ GuardsUnder(n)' \subseteq GuardsUnder(n)
  BY <1>0, <1>3, <1>4 DEF Witness, Census
<1>6. /\ ReturnsLast(t)' /\ VisitsApart(t)'
      /\ \A j \in 1 .. Len(agenda'[t]) : Visiting(agenda'[t][j]) =>
           \E i \in 1 .. Len(agenda[t]) : agenda[t][i] = agenda'[t][j]
      /\ \A i \in 1 .. Len(agenda[t]) : Visiting(agenda[t][i]) =>
           \E j \in 1 .. Len(agenda'[t]) : agenda'[t][j] = agenda[t][i]
  BY <1>0, <1>2, VisitsStay DEF Returning
<1>7. \A x : Visiting(x)' = Visiting(x) /\ Region(x)' = Region(x)
  BY DEF Visiting, Region, Strictly
<1>8. VisitsUnder(t)'
  BY <1>2, <1>5, <1>6, <1>7 DEF VisitsUnder
<1>9. Remaining(t)' = Remaining(t)
  BY <1>6, <1>7 DEF Remaining
<1>10. ASSUME NEW s \in Remaining(t)
      PROVE  s \in Shard /\ c.node \in Ancestors(NodeOf[s])
  <2>1. PICK i \in 1 .. Len(agenda[t]) :
          s \in Shard /\ Visiting(agenda[t][i]) /\ s \in Region(agenda[t][i])
    BY DEF Remaining
  <2>2. c.node \in Ancestors(agenda[t][i].node)
    BY <1>2, <2>1 DEF VisitsUnder
  <2>3. JobOK(agenda[t][i])
    BY <1>0 DEF OwnInv, AgendaInv, JobsOK
  <2>4. NodeOf[s] \in Node
    BY <2>1, ShardAssumption
  <2>5. agenda[t][i].node \in Ancestors(NodeOf[s])
    BY <2>1, <2>3, <2>4, AncestorsClosed DEF Region, Strictly, JobOK, Shards
  <2> QED
    BY <2>1, <2>2, <2>4, <2>5, AncestorsTransitive
<1>11. ASSUME NEW g \in Guard, home[g] # NoShard, home'[g] # NoShard
       PROVE  home'[g] = home[g]
  BY <1>0, <1>11, HomeMoves
<1>12. ASSUME NEW g \in census'[t].through
       PROVE  home'[g] = home[g] /\ (home[g] \in Due(t) => home[g] \in Due(t)')
  <2>1. g \in Guard /\ home[g] # NoShard /\ home'[g] # NoShard
    BY <1>2, <1>3, <1>5, <1>12 DEF GuardsUnder
  <2>2. \A m \in Child : m \in Ancestors(NodeOf[home[g]]) => registered'[m] = registered[m]
    BY <2>1, RegisteredStays
  <2>3. \A x : Covers(x, home[g]) => Covers(x, home[g])'
    BY <1>11, <2>1, <2>2 DEF Covers
  <2>4. home'[g] = home[g]
    BY <1>11, <2>1
  <2>5. ASSUME home[g] \in Due(t)
        PROVE  home[g] \in Due(t)'
    <3>1. PICK i \in 1 .. Len(agenda[t]) :
            home[g] \in Shard /\ Visiting(agenda[t][i]) /\ Covers(agenda[t][i], home[g])
      BY <2>5 DEF Due
    <3>2. PICK j \in 1 .. Len(agenda'[t]) : agenda'[t][j] = agenda[t][i]
      BY <1>6, <3>1
    <3> QED
      BY <1>7, <2>3, <2>4, <3>1, <3>2 DEF Due
  <2> QED
    BY <2>4, <2>5
<1>13. ASSUME ~census'[t].grown, NEW g \in Guard, home'[g] \in Remaining(t)'
       PROVE  home[g] \in Remaining(t)
  <2>1. home'[g] \in Shard /\ c.node \in Ancestors(NodeOf[home'[g]]) /\ home'[g] # NoShard
    BY <1>9, <1>10, <1>13, ShardAssumption
  <2>2. g \in GuardsUnder(n)'
    BY <1>3, <2>1 DEF GuardsUnder
  <2>3. home[g] # NoShard
    BY <1>5, <1>13, <2>2 DEF GuardsUnder
  <2> QED
    BY <1>9, <1>11, <1>13, <2>1, <2>3
<1>14. ASSUME ~c.report
       PROVE  SumBounded(t)'
  BY <1>0, <1>2, <1>5, <1>12, <1>13, <1>14, SumKept
<1>15. ASSUME c.report
       PROVE  Listed(t)'
  <2>1. ASSUME NEW g \in census'[t].through
        PROVE  g \in Late' => g \in Late
    BY <1>2, <1>5, <2>1 DEF GuardsUnder
  <2> QED
    BY <1>0, <1>2, <1>5, <1>12, <1>15, <2>1, ListedKept
<1> QED
  BY <1>6, <1>8, <1>14, <1>15

(* Where the count of a thread is about to return, no step of the tree but *)
(* EndCount is a step of its agenda.                                       *)
LEMMA ReturningKept ==
  ASSUME IInv, OwnInv, NEW t \in Thread, Returning(t), ReturnsLast(t),
         \/ \E u \in Thread : Walk(u) \/ Call(u) \/ (~Returning(u) /\ Proceed(u))
         \/ \E n \in Node : Poll(n)
  PROVE  ~Proceed(t)
<1>1. agenda \in [Thread -> Seq(Task)] /\ pc[t] = "idle" /\ agenda[t] # <<>>
      /\ Head(agenda[t]).do = "return"
  BY DEF IInv, OwnerTypes, Returning, Doing
<1>2. agenda'[t] = agenda[t]
  <2>1. ASSUME NEW u \in Thread, Walk(u) \/ Call(u) \/ (~Returning(u) /\ Proceed(u))
        PROVE  agenda'[t] = agenda[t]
    <3>1. u # t
      BY <1>1, <2>1, WalkAction, CallRows
    <3> QED
      BY <2>1, <3>1, WalkRows, CallRows, ProceedRows DEF Rest
  <2>2. ASSUME NEW n \in Node, Poll(n)
        PROVE  agenda'[t] = agenda[t]
    BY <2>2 DEF Poll
  <2> QED
    BY <2>1, <2>2
<1>3. ASSUME Proceed(t) PROVE GuardReturned(t)
  BY <1>1, <1>3, ZenonT(60) DEF Proceed, Stop, Latch, Snapshot, StopKids, StopNotify, Release, Deregister,
       Register, Check, Adopt, Watch, GuardReturned, Upgrade, Unblock, Doing
<1>4. ASSUME GuardReturned(t) PROVE FALSE
  <2>1. <<>> \in Seq(Task) /\ Len(<<>>) = 0 /\ Then(t, <<>>)
    BY <1>4 DEF GuardReturned
  <2>2. Len(agenda[t]) \in Nat /\ Len(agenda'[t]) = 0 + Len(agenda[t]) - 1
    BY <1>1, <2>1, ThenJobs
  <2> QED
    BY <1>2, <2>2
<1> QED
  BY <1>3, <1>4

(* The fields of a census.                                                 *)
LEMMA CensusTypes ==
  ASSUME TreeInv, CensusInv, CountNext
  PROVE  /\ census' \in [Thread -> Census]
         /\ late' \in [Thread -> Guard \cup {NoGuard}]
<1>0. /\ census \in [Thread -> Census] /\ late \in [Thread -> Guard \cup {NoGuard}]
      /\ UNCHANGED late => late' \in [Thread -> Guard \cup {NoGuard}]
  BY DEF CensusInv
<1>1. NoCensus \in Census
  BY TreeAssumption DEF NoCensus, Census
<1>2. ASSUME NEW t \in Thread, NEW n \in Node, BeginCount(t, n) \/ BeginReport(t, n)
      PROVE  census' \in [Thread -> Census] /\ UNCHANGED late
  <2> DEFINE A == GuardsUnder(n)
             a == [NoCensus EXCEPT !.busy = TRUE, !.node = n, !.through = A,
                                   !.begun = Cardinality(A)]
             b == [NoCensus EXCEPT !.busy = TRUE, !.node = n, !.report = TRUE,
                                   !.through = A \ Late]
  <2>1. A \in SUBSET Guard
    BY DEF GuardsUnder
  <2>2. PICK c \in {a, b} : BeginWalk(t, n, c)
    BY <1>2 DEF BeginCount, BeginReport
  <2> HIDE DEF A
  <2>3. Cardinality(A) \in Nat /\ A \ Late \in SUBSET Guard
    BY <2>1, GuardSets
  <2>4. a \in Census
    BY <2>1, <2>3, TreeAssumption DEF NoCensus, Census
  <2>5. b \in Census
    BY <2>1, <2>3, TreeAssumption DEF NoCensus, Census
  <2> HIDE DEF a, b
  <2> QED
    BY <1>0, <2>2, <2>4, <2>5 DEF BeginWalk
<1>3. ASSUME NEW t \in Thread, Tally(t)
      PROVE  census' \in [Thread -> Census]
  <2>1. PICK s \in agenda[t][1].shards : census' = [census EXCEPT ![t] = Seen(census[t], s)]
    BY <1>3, TallyHas
  <2>2. s \in Shard
    BY <1>3, DoingJob DEF TreeInv, Tally
  <2>3. shardState[s].local \in Nat
    BY <2>2 DEF TreeInv, IInv, CoreInv, WordTypes, ShardWord
  <2>4. Seen(census[t], s) \in Census
    <3>1. census[t] \in Census
      BY <1>0
    <3>2. Recorded(s) \in SUBSET Guard
      BY DEF Recorded
    <3>3. [census[t] EXCEPT !.sum = @ + shardState[s].local] \in Census
      BY <2>3, <3>1 DEF Census
    <3>4. [census[t] EXCEPT !.infos = @ \cup Recorded(s)] \in Census
      BY <3>1, <3>2, SMTT(60) DEF Census
    <3> QED
      BY <3>3, <3>4 DEF Seen
  <2> QED
    BY <1>0, <2>1, <2>4
<1>4. ASSUME NEW t \in Thread
      PROVE  Witness(t) \in Census
  <2>1. census[t] \in Census
    BY <1>0
  <2> QED
    BY <2>1 DEF Witness, Census
<1>5. ASSUME NEW t \in Thread, Gather(t) \/ EndCount(t)
      PROVE  census' \in [Thread -> Census] /\ UNCHANGED late
  <2>1. census' = census \/ census' = [census EXCEPT ![t] = NoCensus]
    BY <1>5 DEF Gather, EndCount
  <2> QED
    BY <1>0, <1>1, <1>5, <2>1 DEF Gather, EndCount
<1>6. ASSUME NEW t \in Thread, RecordLate(t)
      PROVE  /\ census' \in [Thread -> Census]
             /\ late' \in [Thread -> Guard \cup {NoGuard}]
  BY <1>0, <1>6 DEF RecordLate
<1>7. CASE TreeStep /\ census' = [t \in Thread |-> Witness(t)]
  BY <1>0, <1>4, <1>7, TreeSteps
<1>8. ASSUME NEW t \in Thread, Counting(t)
      PROVE  /\ census' \in [Thread -> Census]
             /\ late' \in [Thread -> Guard \cup {NoGuard}]
  BY <1>0, <1>2, <1>3, <1>5, <1>6, <1>8 DEF Counting, Tally
<1> QED
  BY <1>7, <1>8 DEF CountNext

(* Every step of the tree and of the walks.                                *)
LEMMA CensusNext ==
  ASSUME TreeInv, CensusInv, CountNext
  PROVE  CensusInv'
<1>0. /\ IInv /\ OwnInv /\ census \in [Thread -> Census] /\ agenda \in [Thread -> Seq(Task)]
      /\ late \in [Thread -> Guard \cup {NoGuard}]
      /\ UNCHANGED late => Late' = Late
  BY DEF TreeInv, CensusInv, IInv, OwnerTypes, Late
<1> SUFFICES ASSUME NEW t \in Thread
             PROVE  CensusOK(t)'
  BY <1>0, CensusTypes DEF CensusInv
<1>1. CensusOK(t) /\ census[t] \in Census
  BY DEF CensusInv
<1>2. ASSUME NEW u \in Thread, NEW n \in Node, BeginCount(u, n) \/ BeginReport(u, n)
      PROVE  CensusOK(t)'
  <2>1. CASE u = t
    BY <1>0, <1>2, <2>1, CensusBegin
  <2>2. CASE u # t
    <3>1. PICK c : BeginWalk(u, n, c)
      BY <1>2 DEF BeginCount, BeginReport
    <3>2. agenda'[t] = agenda[t]
      BY <2>2, <3>1, BeginHas
    <3>3. census'[t] = census[t] /\ UNCHANGED <<home, registered, late>>
      BY <1>0, <2>2, <3>1 DEF BeginWalk, owners
    <3> QED
      BY <1>0, <1>1, <3>2, <3>3, CensusFrame
  <2> QED
    BY <2>1, <2>2
<1>3. ASSUME NEW u \in Thread, NEW do, Doing(u, do), NEW q \in Seq(Task), Then(u, q), u # t
      PROVE  agenda'[t] = agenda[t]
  BY <1>0, <1>3, ThenJobs DEF Doing
<1>4. ASSUME NEW u \in Thread, Tally(u)
      PROVE  CensusOK(t)'
  <2>1. CASE u = t
    BY <1>0, <1>1, <1>4, <2>1, CensusTally
  <2>2. CASE u # t
    <3>1. agenda'[t] = agenda[t] /\ census'[t] = census[t]
      BY <1>0, <1>3, <1>4, <2>2, TallyHas, ZenonT(60)
    <3>2. UNCHANGED <<home, registered, late>>
      BY <1>4 DEF Tally, owners
    <3> QED
      BY <1>0, <1>1, <3>1, <3>2, CensusFrame
  <2> QED
    BY <2>1, <2>2
<1>5. ASSUME NEW u \in Thread, Gather(u)
      PROVE  CensusOK(t)'
  <2>1. CASE u = t
    BY <1>0, <1>1, <1>5, <2>1, CensusGather
  <2>2. CASE u # t
    <3>1. agenda'[t] = agenda[t] /\ census'[t] = census[t]
      BY <1>0, <1>3, <1>5, <2>2, GatherHas
    <3>2. UNCHANGED <<home, registered, late>>
      BY <1>5 DEF Gather, owners
    <3> QED
      BY <1>0, <1>1, <3>1, <3>2, CensusFrame
  <2> QED
    BY <2>1, <2>2
<1>6. ASSUME NEW u \in Thread, EndCount(u)
      PROVE  CensusOK(t)'
  <2>1. CASE u = t
    <3>1. ~census'[t].busy
      BY <1>0, <1>6, <2>1 DEF EndCount, NoCensus
    <3> QED
      BY <3>1 DEF CensusOK
  <2>2. CASE u # t
    <3>1. Doing(u, "return") /\ <<>> \in Seq(Task) /\ Then(u, <<>>)
      BY <1>6 DEF EndCount, GuardReturned
    <3>2. agenda'[t] = agenda[t]
      BY <1>3, <2>2, <3>1
    <3>3. census'[t] = census[t] /\ UNCHANGED <<home, registered, late>>
      BY <1>0, <1>6, <2>2 DEF EndCount, GuardReturned, owners
    <3> QED
      BY <1>0, <1>1, <3>2, <3>3, CensusFrame
  <2> QED
    BY <2>1, <2>2
<1>7. ASSUME NEW u \in Thread, RecordLate(u)
      PROVE  CensusOK(t)'
  <2>1. \A g \in Guard : g \in Late' => g \in Late
    <3>1. late' = [late EXCEPT ![u] = NoGuard]
      BY <1>7 DEF RecordLate
    <3> QED
      BY <1>0, <3>1, ThreadAssumption DEF Late
  <2>2. UNCHANGED <<agenda, census, home, registered>>
    BY <1>7 DEF RecordLate, vars, owners
  <2> QED
    BY <1>1, <2>1, <2>2, CensusFrame
<1>8. ASSUME TreeStep, census' = [u \in Thread |-> Witness(u)]
      PROVE  CensusOK(t)'
  <2>1. /\ \/ \E u \in Thread : Walk(u) \/ Call(u) \/ (~Returning(u) /\ Proceed(u))
           \/ \E n \in Node : Poll(n)
        /\ \A g \in Guard : g \in Late' /\ g \notin Late => home[g] = NoShard
        /\ census'[t] = Witness(t)
    BY <1>0, <1>8, TreeSteps
  <2>2. [Next]_vars
    BY <2>1 DEF Next
  <2>3. ~census[t].busy => CensusOK(t)'
    BY <2>1 DEF CensusOK, Witness
  <2>4. census[t].busy => ~(Returning(t) /\ Proceed(t))
    BY <1>0, <1>1, <2>1, ReturningKept DEF CensusOK
  <2> QED
    BY <1>0, <1>1, <2>1, <2>2, <2>3, <2>4, CensusOther
<1> QED
  BY <1>2, <1>4, <1>5, <1>6, <1>7, <1>8 DEF CountNext, Counting

LEMMA CountStutters ==
  ASSUME TreeInv, CensusInv, UNCHANGED countVars
  PROVE  TreeInv' /\ CensusInv'
<1>1. [Next]_vars /\ UNCHANGED <<agenda, census, late, home, registered>>
  BY DEF countVars, vars, owners
<1>2. TreeInv'
  BY <1>1, CoreNext, OwnersNext, OwnNext, LatchDueNext, RegisterFirstNext, RegisterDueNext,
     ChildStopDueNext, ChildInvNext DEF TreeInv, IInv, StopInv
<1>3. \A t \in Thread : CensusOK(t)'
  <2>1. Late' = Late
    BY <1>1 DEF Late
  <2> QED
    BY <1>1, <2>1, CensusFrame DEF CensusInv
<1> QED
  BY <1>1, <1>2, <1>3 DEF CensusInv

-----------------------------------------------------------------------------
(* The theorems.                                                           *)

(* The tree's invariant and what is known of every walk in progress hold   *)
(* of every reachable state.                                               *)
THEOREM CountInvariance == CountSpec => [](TreeInv /\ CensusInv)
<1>1. CountInit => TreeInv /\ CensusInv
  <2> SUFFICES ASSUME CountInit PROVE TreeInv /\ CensusInv
    OBVIOUS
  <2>1. TreeInv
    BY InitIInv, InitOwn, InitStop, InitChild DEF CountInit, TreeInv
  <2>2. NoCensus \in Census /\ ~NoCensus.busy
    BY TreeAssumption DEF NoCensus, Census
  <2>3. census = [t \in Thread |-> NoCensus] /\ late = [t \in Thread |-> NoGuard]
    BY DEF CountInit
  <2>4. CensusInv
    BY <2>2, <2>3 DEF CensusInv, CensusOK
  <2> QED
    BY <2>1, <2>4
<1>2. TreeInv /\ CensusInv /\ [CountNext]_countVars => (TreeInv /\ CensusInv)'
  <2>1. TreeInv /\ CensusInv /\ CountNext => TreeInv' /\ CensusInv'
    BY TreeNext, CensusNext DEF CensusInv
  <2> QED
    BY <2>1, CountStutters
<1> QED
  BY <1>1, <1>2, PTL DEF CountSpec

(* A walk that returns has no visit left, so that nothing is due, and      *)
(* nothing remains.                                                        *)
LEMMA NothingDue ==
  ASSUME TreeInv, CensusInv, NEW t \in Thread, Returning(t)
  PROVE  Due(t) = {} /\ Remaining(t) = {}
<1>1. ReturnsLast(t)
  BY DEF CensusInv, CensusOK, Returning
<1>2. agenda[t] \in Seq(Task) /\ agenda[t] # <<>> /\ agenda[t][1].do = "return"
  BY DEF TreeInv, IInv, OwnerTypes, Returning, Doing
<1>3. \A i \in 1 .. Len(agenda[t]) : ~Visiting(agenda[t][i])
  <2>1. 1 \in 1 .. Len(agenda[t])
    BY <1>2
  <2>2. Len(agenda[t]) = 1
    BY <1>1, <1>2, <2>1 DEF ReturnsLast
  <2> QED
    BY <1>2, <2>2 DEF Visiting, CountTask
<1> QED
  BY <1>3 DEF Due, Remaining

LEMMA CountBracketedNow ==
  ASSUME TreeInv, CensusInv
  PROVE  CountBracketed
<1> SUFFICES ASSUME NEW t \in Thread, Returning(t), ~census[t].report
             PROVE  /\ census[t].sum >= Cardinality(census[t].through)
                    /\ ~census[t].grown => census[t].sum <= census[t].begun
  BY DEF CountBracketed
<1>1. census[t] \in Census /\ SumBounded(t)
  BY DEF CensusInv, CensusOK, Returning
<1> DEFINE A == {g \in census[t].through : home[g] \notin Due(t)}
           B == {g \in Guard : home[g] \in Remaining(t)}
<1>2. A = census[t].through /\ B = {}
  BY NothingDue
<1>3. census[t].sum \in Nat /\ census[t].begun \in Nat
  BY <1>1 DEF Census
<1>4. /\ census[t].sum >= Cardinality(A)
      /\ ~census[t].grown => census[t].sum + Cardinality(B) <= census[t].begun
  BY <1>1 DEF SumBounded
<1> HIDE DEF A, B
<1>5. Cardinality(B) = 0
  BY <1>2, FS_EmptySet
<1> QED
  BY <1>2, <1>3, <1>4, <1>5

(* S5 for every tree, any number of threads and any number of calls: a     *)
(* guard_count that races with guards, child creations and collections     *)
(* misses no guard that was there throughout, and reports no more than     *)
(* there were at its start if none has come since.                         *)
THEOREM CountsBracketed == CountSpec => []CountBracketed
<1>1. TreeInv /\ CensusInv => CountBracketed
  BY CountBracketedNow
<1> QED
  BY <1>1, CountInvariance, PTL

(* S5 for guard_report(): for every tree, however its children come and go *)
(* meanwhile, a report has the record of every guard that was there        *)
(* throughout and that had been handed out when it began.                  *)
THEOREM ReportsMissNone == CountSpec => []ReportMissesNone
<1>1. TreeInv /\ CensusInv => ReportMissesNone
  <2> SUFFICES ASSUME TreeInv, CensusInv, NEW t \in Thread, Returning(t), census[t].report
               PROVE  census[t].through \subseteq census[t].infos
    BY DEF ReportMissesNone
  <2>1. Listed(t)
    BY DEF CensusInv, CensusOK, Returning
  <2> QED
    BY <2>1, NothingDue DEF Listed
<1> QED
  BY <1>1, CountInvariance, PTL

(* The registries lead from every ancestor of a guard down to it.          *)
THEOREM GuardsAreRegistered == CountSpec => []GuardsRegistered
<1>1. TreeInv => GuardsRegistered
  BY GuardsRegisteredNow DEF TreeInv, StopInv
<1> QED
  BY <1>1, CountInvariance, PTL

(* A walk does no harm to the tree, even where its thread turns out to be  *)
(* the last owner of a child that it visits and collects it: guards stay   *)
(* counted, what has an owner stays alive, and stops reach the children.   *)
THEOREM CountsHarmless == CountSpec => [](GuardCounted /\ ChainAlive /\ NoChildLeftRunning)
<1>1. TreeInv => GuardCounted /\ ChainAlive /\ NoChildLeftRunning
  BY GuardCountedNow, ChainAliveNow, ChildrenStopped DEF TreeInv, OwnInv
<1> QED
  BY <1>1, CountInvariance, PTL

=============================================================================
