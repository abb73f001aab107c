---------------------- MODULE GuardTreeRefinementProofs ----------------------
(***************************************************************************)
(* That stops of GuardTree reach what they must and nothing else: no child *)
(* is left running under a stopped parent, and every step of every thread  *)
(* is one that Shutdown, the specification of what clients see, allows.    *)
(*                                                                         *)
(* StopInv follows a stop down the tree.  With the other layers (AllInv)   *)
(* it makes guard_count() and state() exact when no operation is running.  *)
(* CauseInv gives the cause of each stop, and a lemma for each group of    *)
(* actions the step of Shutdown that it simulates.                         *)
(***************************************************************************)
EXTENDS GuardTreeOwnership, GuardTreeRefinement, WellFoundedInduction

-----------------------------------------------------------------------------
(* Stops on their way.                                                     *)

(* A shard of a stopped node is latched, or some stop has yet to latch it. *)
LatchDue ==
  \A n \in Node : Stopped(n) => \A s \in Shards(n) :
    \/ STOPPED \in shardState[s].flags
    \/ \E t \in Thread : \E i \in 1 .. Len(agenda[t]) :
         agenda[t][i].do = "latch" /\ agenda[t][i].node = n /\ s \in agenda[t][i].shards

(* new_child registers the child before it looks at the parent's stop bit. *)
Registering(t, m) ==
  /\ 2 <= Len(agenda[t])
  /\ agenda[t][1].do = "register" /\ agenda[t][1].node = m
  /\ agenda[t][2].do = "check" /\ agenda[t][2].node = m
RegisterFirst ==
  \A t \in Thread : \A i \in 1 .. Len(agenda[t]) : agenda[t][i].do = "register" =>
    i = 1 /\ Registering(t, agenda[t][1].node)

(* A child that is in no registry is about to be put in one.               *)
RegisterDue ==
  \A m \in Child : life[m] \in {"live", "dropping"} /\ registered[m] = NoShard =>
    \E t \in Thread : Registering(t, m)

(* Task x leads to a stop of m: it is that stop or the check of new_child, *)
(* it has m in its snapshot of the children, or it is about to find m.     *)
StopsKid(x, m) ==
  \/ x.do \in {"stop", "check"} /\ x.node = m
  \/ x.do \in {"snapshot", "stopKids"} /\ m \in x.kids
  \/ x.do = "snapshot" /\ x.node = Parent[m] /\ registered[m] \in x.shards
StopDue(m) ==
  \E t \in Thread : \E i \in 1 .. Len(agenda[t]) : StopsKid(agenda[t][i], m)

(* A live child of a stopped parent is stopped, or will be.                *)
ChildStopDue ==
  \A m \in Child : life[m] = "live" /\ Stopped(Parent[m]) => Stopped(m) \/ StopDue(m)

StopInv == LatchDue /\ RegisterFirst /\ RegisterDue /\ ChildStopDue

(* What a step puts at the front of an agenda is there.                    *)
LEMMA ThenHas ==
  ASSUME IInv, NEW t \in Thread, agenda[t] # <<>>, NEW q \in Seq(Task), Then(t, q),
         NEW k \in 1 .. Len(q)
  PROVE  k \in 1 .. Len(agenda'[t]) /\ agenda'[t][k] = q[k]
<1>1. /\ Len(agenda[t]) \in Nat \ {0} /\ Len(q) \in Nat
      /\ Len(agenda'[t]) = Len(q) + Len(agenda[t]) - 1
      /\ \A i \in 1 .. Len(q) : agenda'[t][i] = q[i]
  BY ThenJobs DEF IInv, OwnerTypes
<1> QED
  BY <1>1

(* The rest of a task that is not done.                                    *)
LEMMA RestHas ==
  ASSUME IInv, NEW t \in Thread, agenda[t] # <<>>, NEW y \in Task, Then(t, RestOf(y)),
         y.shards # {} \/ y.kids # {}
  PROVE  1 \in 1 .. Len(agenda'[t]) /\ agenda'[t][1] = y
<1> DEFINE q == <<y>>
<1>1. q \in Seq(Task) /\ 1 \in 1 .. Len(q) /\ q[1] = y
  OBVIOUS
<1>2. Then(t, q)
  BY DEF RestOf
<1> HIDE DEF q
<1> QED
  BY <1>1, <1>2, ThenHas

(* A stop that sets the bit latches the shards, then takes the snapshot.   *)
LEMMA StopHas ==
  ASSUME IInv, OwnInv, NEW n \in Node, NodeStop(n), ~Stopped(n)
  PROVE  \E t \in Thread :
           /\ 1 \in 1 .. Len(agenda'[t]) /\ 2 \in 1 .. Len(agenda'[t])
           /\ agenda'[t][1].do = "latch" /\ agenda'[t][1].node = n
           /\ agenda'[t][1].shards = Shards(n)
           /\ agenda'[t][2].do = "snapshot" /\ agenda'[t][2].node = n
           /\ agenda'[t][2].shards = Shards(n)
           /\ UNCHANGED registered
<1>1. PICK t \in Thread : Stop(t) /\ Head(agenda[t]).node = n
  BY DEF NodeStop
<1>2. agenda[t] # <<>> /\ UNCHANGED registered
  BY <1>1 DEF Stop, Doing, owners
<1> DEFINE x == TaskOn("latch", n)
           y == TaskOn("snapshot", n)
           z == TaskOn("notify", n)
           q == StopTasks(n)
<1>3. /\ x \in Task /\ x.do = "latch" /\ x.node = n /\ x.shards = Shards(n)
      /\ y \in Task /\ y.do = "snapshot" /\ y.node = n /\ y.shards = Shards(n)
      /\ z \in Task
  BY FreshJob DEF TaskName
<1>4. Then(t, q)
  BY <1>1 DEF Stop
<1>5. q = <<x, y>> \o <<z>> \/ q = <<x, y>> \o <<>>
  BY DEF StopTasks
<1> HIDE DEF x, y, z, q
<1>6. q \in Seq(Task) /\ Len(q) >= 2 /\ q[1] = x /\ q[2] = y
  <2>1. CASE q = <<x, y>> \o <<z>>
    <3> DEFINE r == <<x, y>> \o <<z>>
    <3>1. r \in Seq(Task) /\ Len(r) = 3 /\ r[1] = x /\ r[2] = y
      BY <1>3
    <3> HIDE DEF r
    <3> QED
      BY <2>1, <3>1 DEF r
  <2>2. CASE q = <<x, y>> \o <<>>
    <3> DEFINE r == <<x, y>> \o <<>>
    <3>1. r \in Seq(Task) /\ Len(r) = 2 /\ r[1] = x /\ r[2] = y
      BY <1>3
    <3> HIDE DEF r
    <3> QED
      BY <2>2, <3>1 DEF r
  <2> QED
    BY <1>5, <2>1, <2>2
<1>7. 1 \in 1 .. Len(q) /\ 2 \in 1 .. Len(q)
  BY <1>6
<1>8. /\ 1 \in 1 .. Len(agenda'[t]) /\ 2 \in 1 .. Len(agenda'[t])
      /\ agenda'[t][1] = x /\ agenda'[t][2] = y
  BY <1>2, <1>4, <1>6, <1>7, ThenHas
<1> QED
  BY <1>2, <1>3, <1>8

(* A node is stopped by Inner::stop, and stays so.                         *)
LEMMA StopMoves ==
  ASSUME IInv, [Next]_vars, NEW n \in Node
  PROVE  /\ Stopped(n) => STOPPED \in nodeState'[n].flags
         /\ STOPPED \in nodeState'[n].flags => Stopped(n) \/ NodeStop(n)
<1>0. nodeState[n] \in NodeWord
  BY DEF IInv, CoreInv, WordTypes
<1>1. CASE nodeState'[n] = nodeState[n]
  BY <1>1 DEF Stopped
<1>2. CASE NodeUp(n)
  BY <1>2 DEF NodeUp, Stopped, ARRIVED, STOPPED
<1>3. CASE NodeDown(n)
  BY <1>0, <1>3 DEF NodeDown, Stopped, NodeWord
<1>4. CASE NodeOut(n)
  BY <1>4 DEF NodeOut, Stopped, EmptyNode
<1>5. CASE NodeStop(n)
  <2>1. nodeState'[n].flags = nodeState[n].flags \cup {STOPPED}
    BY <1>0, <1>5 DEF NodeStop, NodeWord
  <2> QED
    BY <1>5, <2>1 DEF Stopped
<1> QED
  BY <1>1, <1>2, <1>3, <1>4, <1>5, NodeMoves

(* LatchDue is kept.                                                       *)
LEMMA LatchDueNext ==
  ASSUME IInv, OwnInv, LatchDue, [Next]_vars
  PROVE  LatchDue'
<1> DEFINE Due(n, s) ==
             \E t \in Thread : \E i \in 1 .. Len(agenda'[t]) :
               /\ agenda'[t][i].do = "latch" /\ agenda'[t][i].node = n
               /\ s \in agenda'[t][i].shards
<1> SUFFICES ASSUME NEW n \in Node, STOPPED \in nodeState'[n].flags, NEW s \in Shards(n),
                    STOPPED \notin shardState'[s].flags
             PROVE  Due(n, s)
  BY DEF LatchDue, Stopped, Shards
<1>0. s \in Shard
  BY DEF Shards
<1>1. CASE ~Stopped(n)
  BY <1>1, StopMoves, StopHas
<1>2. CASE Stopped(n)
  <2>1. STOPPED \notin shardState[s].flags
    BY <1>0, FlagsStay
  <2>2. PICK t \in Thread : \E i \in 1 .. Len(agenda[t]) :
          agenda[t][i].do = "latch" /\ agenda[t][i].node = n /\ s \in agenda[t][i].shards
    BY <1>2, <2>1 DEF LatchDue
  <2>3. PICK i \in 1 .. Len(agenda[t]) :
          agenda[t][i].do = "latch" /\ agenda[t][i].node = n /\ s \in agenda[t][i].shards
    BY <2>2
  <2>4. CASE i # 1 \/ ~Proceed(t)
    <3>1. PICK j \in 1 .. Len(agenda'[t]) : agenda'[t][j] = agenda[t][i]
      BY <2>4, TaskStays
    <3> QED
      BY <2>3, <3>1
  <2>5. CASE i = 1 /\ Proceed(t)
    <3>0. /\ agenda[t] # <<>> /\ Head(agenda[t]) = agenda[t][1]
          /\ agenda[t][1] \in Task /\ agenda[t][1].do = "latch"
      <4>1. agenda[t] \in Seq(Task)
        BY DEF IInv, OwnerTypes
      <4> QED
        BY <2>3, <2>5, <4>1, JobType
    <3>1. Latch(t)
      BY <2>5, <3>0, HeadAction
    <3> DEFINE x(r) == [agenda[t][1] EXCEPT !.shards = @ \ {r}]
    <3>2. PICK r \in agenda[t][1].shards :
            /\ shardState' = [shardState EXCEPT ![r].flags = @ \cup {STOPPED}]
            /\ Then(t, RestOf(x(r)))
      BY <3>0, <3>1 DEF Latch
    <3>3. r # s
      BY <1>0, <3>2 DEF IInv, CoreInv, WordTypes, ShardWord
    <3> DEFINE y == x(r)
    <3>4. y \in Task /\ y.do = "latch" /\ y.node = n /\ s \in y.shards
      BY <2>3, <2>5, <3>0, <3>3 DEF Task
    <3>5. Then(t, RestOf(y))
      BY <3>2
    <3> HIDE DEF y
    <3>6. 1 \in 1 .. Len(agenda'[t]) /\ agenda'[t][1] = y
      BY <3>0, <3>4, <3>5, RestHas
    <3> QED
      BY <3>4, <3>6
  <2> QED
    BY <2>4, <2>5
<1> QED
  BY <1>1, <1>2

(* What new_child leaves to do.                                            *)
LEMMA NewChildHas ==
  ASSUME IInv, NEW t \in Thread, NEW m \in Child, NewChild(t, m)
  PROVE  /\ Len(agenda'[t]) = 3
         /\ agenda'[t][1].do = "register" /\ agenda'[t][1].node = m
         /\ agenda'[t][2].do = "check" /\ agenda'[t][2].node = m
         /\ agenda'[t][3].do = "adopt" /\ agenda'[t][3].node = m
<1> DEFINE x == TaskOn("register", m)
           y == TaskOn("check", m)
           z == TaskOn("adopt", m)
           q == <<x, y, z>>
<1>1. m \in Node /\ m # Root /\ Begin(t, q) /\ agenda \in [Thread -> Seq(Task)]
  BY DEF NewChild, Child, IInv, OwnerTypes
<1>2. /\ x \in Task /\ x.do = "register" /\ x.node = m
      /\ y \in Task /\ y.do = "check" /\ y.node = m
      /\ z \in Task /\ z.do = "adopt" /\ z.node = m
  BY <1>1, FreshJob DEF TaskName
<1> HIDE DEF x, y, z
<1>3. q \in Seq(Task) /\ Len(q) = 3 /\ q[1] = x /\ q[2] = y /\ q[3] = z
  BY <1>2
<1> HIDE DEF q
<1>4. agenda'[t] = q
  BY <1>1, <1>3, BeginJobs
<1> QED
  BY <1>2, <1>3, <1>4

(* The registries change by new_child and by Drop for Inner.               *)
LEMMA RegistryMoves ==
  ASSUME IInv, OwnInv, [Next]_vars, NEW m \in Child, registered'[m] # registered[m]
  PROVE  \E t \in Thread :
           /\ Head(agenda[t]).node = m
           /\ \/ Register(t) /\ registered'[m] \in Shards(Parent[m])
              \/ Deregister(t) /\ life'[m] = "gone"
<1>0. m \in Node /\ registered \in [Node -> Shard \cup {NoShard}]
      /\ life \in [Node -> {"unborn", "live", "dropping", "gone"}]
  BY DEF Child, IInv, OwnerTypes
<1>1. PICK t \in Thread : Register(t) \/ Deregister(t)
  <2>1. ASSUME NEW t \in Thread, Walk(t) PROVE registered' = registered
    BY <2>1 DEF Walk, Guarded, ArriveShard, ArriveNode, CasShard, CasNode, DepartShard,
                Flush, DepartNode, DepartNotify, Unarrive, owners
  <2>2. ASSUME NEW t \in Thread, Call(t) PROVE registered' = registered
    BY <2>2 DEF Call, NewGuard, ForShard, CloneGuard, DropGuard, CloneSwansong,
                DropSwansong, AwaitSwansong, ShutDown, NewChild, DropFuture,
                BlockOnShutdown, owners
  <2>3. ASSUME NEW t \in Thread, Proceed(t), ~Register(t), ~Deregister(t)
        PROVE  registered' = registered
    BY <2>3 DEF Proceed, Stop, Latch, Snapshot, StopKids, StopNotify, Release,
                Check, Adopt, Watch, GuardReturned, Upgrade, Unblock, owners
  <2>4. ASSUME NEW k \in Node, Poll(k) PROVE registered' = registered
    BY <2>4 DEF Poll
  <2> QED
    BY <2>1, <2>2, <2>3, <2>4, SMTT(60) DEF Next, vars, owners
<1>2. CASE Deregister(t)
  BY <1>0, <1>2 DEF Deregister
<1>3. CASE Register(t)
  <2>1. Head(agenda[t]).node = m
    BY <1>0, <1>3 DEF Register
  <2>2. registered'[m] = MyShard[t][Parent[m]]
    BY <1>0, <1>3, <2>1 DEF Register
  <2>3. MyShard[t][Parent[m]] \in Shards(Parent[m])
    BY TreeAssumption, ShardAssumption DEF Shards
  <2> QED
    BY <1>3, <2>1, <2>2, <2>3
<1> QED
  BY <1>1, <1>2, <1>3

(* RegisterFirst.                                                          *)
LEMMA RegisterFirstNext ==
  ASSUME IInv, OwnInv, RegisterFirst, [Next]_vars
  PROVE  RegisterFirst'
<1> SUFFICES ASSUME NEW t \in Thread, NEW j \in 1 .. Len(agenda'[t]),
                    agenda'[t][j].do = "register"
             PROVE  j = 1 /\ Registering(t, agenda[t][1].node)'
  BY DEF RegisterFirst
<1>1. CASE \E i \in 1 .. Len(agenda[t]) :
             agenda[t][i] = agenda'[t][j] /\ (i # 1 \/ ~Proceed(t))
  <2>1. PICK i \in 1 .. Len(agenda[t]) :
             agenda[t][i] = agenda'[t][j] /\ (i # 1 \/ ~Proceed(t))
    BY <1>1
  <2>2. i = 1 /\ ~Proceed(t) /\ agenda[t] # <<>>
    <3>1. agenda[t] \in Seq(Task)
      BY DEF IInv, OwnerTypes
    <3> QED
      BY <2>1, <3>1 DEF RegisterFirst
  <2>3. agenda'[t] = agenda[t]
    BY <2>2, StepRows
  <2> QED
    BY <2>3 DEF RegisterFirst, Registering
<1>2. CASE FreshTask(t, agenda'[t][j])
  BY <1>2 DEF FreshTask
<1>3. CASE BegunTask(t, agenda'[t][j])
  <2> DEFINE m == agenda'[t][j].node
  <2>1. NewChild(t, m)
    BY <1>3 DEF BegunTask
  <2>2. m \in Child
    BY TaskOrigin DEF Task, Child
  <2> HIDE DEF m
  <2>3. /\ Len(agenda'[t]) = 3
        /\ agenda'[t][1].do = "register" /\ agenda'[t][1].node = m
        /\ agenda'[t][2].do = "check" /\ agenda'[t][2].node = m
        /\ agenda'[t][3].do = "adopt"
    BY <2>1, <2>2, NewChildHas
  <2>4. j = 1
    BY <2>3
  <2> QED
    BY <2>3, <2>4 DEF Registering
<1> QED
  BY <1>1, <1>2, <1>3, TaskOrigin

(* RegisterDue.                                                            *)
LEMMA RegisterDueNext ==
  ASSUME IInv, OwnInv, RegisterDue, [Next]_vars
  PROVE  RegisterDue'
<1> SUFFICES ASSUME NEW m \in Child, life'[m] \in {"live", "dropping"},
                    registered'[m] = NoShard
             PROVE  \E t \in Thread : Registering(t, m)'
  BY DEF RegisterDue
<1>0. m \in Node
  BY DEF Child
<1>1. CASE life[m] \in {"live", "dropping"}
  <2>1. registered[m] = NoShard
    BY RegistryMoves, ShardAssumption DEF Shards
  <2>2. PICK t \in Thread : Registering(t, m)
    BY <1>1, <2>1 DEF RegisterDue
  <2>3. agenda[t] \in Seq(Task) /\ agenda[t] # <<>> /\ Head(agenda[t]) = agenda[t][1]
    <3>1. agenda[t] \in Seq(Task)
      BY DEF IInv, OwnerTypes
    <3> QED
      BY <2>2, <3>1 DEF Registering
  <2>4. ~Proceed(t)
    <3> SUFFICES ASSUME Register(t) PROVE FALSE
      BY <2>2, <2>3, HeadAction DEF Registering
    <3>1. registered'[m] = MyShard[t][Parent[m]]
      BY <1>0, <2>2, <2>3 DEF Register, Registering, IInv, OwnerTypes
    <3> QED
      BY <3>1, TreeAssumption, ShardAssumption
  <2>5. agenda'[t] = agenda[t]
    BY <2>3, <2>4, StepRows
  <2> QED
    BY <2>2, <2>5 DEF Registering
<1>2. CASE life[m] \notin {"live", "dropping"}
  <2>1. PICK t \in Thread : NewChild(t, m)
    BY <1>0, <1>2, LifeMoves
  <2> QED
    BY <2>1, NewChildHas DEF Registering
<1> QED
  BY <1>1, <1>2

(* Doing a task that leads to the stop of a child stops it, or leaves a    *)
(* task that does.                                                         *)
LEMMA HeadStopsKid ==
  ASSUME IInv, OwnInv, NEW m \in Child, life[m] = "live", Stopped(Parent[m]),
         NEW t \in Thread, Proceed(t), agenda[t] # <<>>, StopsKid(agenda[t][1], m)
  PROVE  \/ STOPPED \in nodeState'[m].flags
         \/ \E j \in 1 .. Len(agenda'[t]) : StopsKid(agenda[t][j], m)'
<1> DEFINE h == agenda[t][1]
<1>0. /\ m \in Node /\ m # Root /\ agenda[t] \in Seq(Task) /\ Head(agenda[t]) = h
      /\ h \in Task /\ h.shards \subseteq Shard /\ h.kids \subseteq Child
  <2>1. agenda[t] \in Seq(Task)
    BY DEF IInv, OwnerTypes
  <2>2. 1 \in 1 .. Len(agenda[t])
    BY <2>1
  <2> QED
    BY <2>1, <2>2, JobType DEF Child
<1>1. CASE h.do = "stop" /\ h.node = m
  <2>1. Stop(t)
    BY <1>0, <1>1, HeadAction
  <2> QED
    BY <1>0, <1>1, <2>1 DEF Stop, IInv, CoreInv, WordTypes, NodeWord
<1>2. CASE h.do = "check" /\ h.node = m
  <2>1. Check(t)
    BY <1>0, <1>2, HeadAction
  <2> DEFINE x == TaskOn("stop", m)
             q == <<x>>
  <2>2. x \in Task /\ x.do = "stop" /\ x.node = m
    BY <1>0, FreshJob DEF TaskName
  <2>3. Then(t, q)
    BY <1>0, <1>2, <2>1 DEF Check, StopIfParentDid
  <2> HIDE DEF x
  <2>4. q \in Seq(Task) /\ 1 \in 1 .. Len(q) /\ q[1] = x
    BY <2>2
  <2> HIDE DEF q
  <2>5. 1 \in 1 .. Len(agenda'[t]) /\ agenda'[t][1] = x
    BY <2>3, <2>4, ThenHas
  <2>6. StopsKid(agenda[t][1], m)'
    BY <2>2, <2>5 DEF StopsKid
  <2> QED
    BY <2>5, <2>6
<1>3. CASE \/ h.do = "snapshot" /\ m \in h.kids
           \/ h.do = "snapshot" /\ h.node = Parent[m] /\ registered[m] \in h.shards
  <2>1. Snapshot(t)
    BY <1>0, <1>3, HeadAction, SMTT(60)
  <2> DEFINE x(s) == [h EXCEPT
                        !.do = IF h.shards \ {s} = {} THEN "stopKids" ELSE "snapshot",
                        !.shards = h.shards \ {s}, !.kids = @ \cup LiveChildren(s)]
  <2>2. PICK s \in h.shards : Then(t, RestOf(x(s)))
    BY <1>0, <2>1, ZenonT(60) DEF Snapshot
  <2> DEFINE y == x(s)
  <2>3. /\ y \in Task /\ y.node = h.node /\ y.do \in {"stopKids", "snapshot"}
        /\ y.shards # {} => y.do = "snapshot"
        /\ y.shards = h.shards \ {s} /\ y.kids = h.kids \cup LiveChildren(s)
    BY <1>0 DEF Task, TaskName, LiveChildren
  <2>4. Then(t, RestOf(y)) /\ registered' = registered
    BY <2>1, <2>2 DEF Snapshot, owners
  <2> HIDE DEF y
  <2>5. m \in y.kids \/ (h.node = Parent[m] /\ registered[m] \in y.shards)
    BY <1>3, <2>3 DEF LiveChildren
  <2>6. 1 \in 1 .. Len(agenda'[t]) /\ agenda'[t][1] = y
    BY <2>3, <2>4, <2>5, RestHas
  <2>7. StopsKid(agenda[t][1], m)'
    BY <2>3, <2>4, <2>5, <2>6 DEF StopsKid
  <2> QED
    BY <2>6, <2>7
<1>4. CASE h.do = "stopKids" /\ m \in h.kids
  <2>1. StopKids(t)
    BY <1>0, <1>4, HeadAction
  <2>2. PICK k \in h.kids :
          Then(t, <<TaskOn("stop", k), TaskOn("release", k)>>
                    \o RestOf([h EXCEPT !.kids = @ \ {k}]))
    BY <1>0, <2>1 DEF StopKids
  <2>3. k \in Node
    BY <1>0 DEF Child
  <2> DEFINE a == TaskOn("stop", k)
             b == TaskOn("release", k)
             c == [h EXCEPT !.kids = @ \ {k}]
             q == <<a, b>> \o RestOf(c)
  <2>4. /\ a \in Task /\ a.do = "stop" /\ a.node = k
        /\ b \in Task /\ c \in Task /\ c.do = "stopKids" /\ c.kids = h.kids \ {k}
    BY <1>0, <1>4, <2>3, FreshJob DEF Task, TaskName
  <2>5. Then(t, q)
    BY <2>2
  <2> HIDE DEF a, b, c
  <2>6. CASE m = k
    <3>1. q \in Seq(Task) /\ 1 \in 1 .. Len(q) /\ q[1] = a
      <4>1. RestOf(c) \in Seq(Task)
        <5>1. RestOf(c) = <<>> \/ RestOf(c) = <<c>>
          BY DEF RestOf
        <5>2. CASE RestOf(c) = <<>>
          BY <5>2
        <5>3. CASE RestOf(c) = <<c>>
          BY <2>4, <5>3
        <5> QED
          BY <5>1, <5>2, <5>3
      <4> DEFINE r == RestOf(c)
      <4> HIDE DEF r
      <4>2. <<a, b>> \o r \in Seq(Task) /\ 1 \in 1 .. Len(<<a, b>> \o r)
            /\ (<<a, b>> \o r)[1] = a
        BY <2>4, <4>1 DEF r
      <4> QED
        BY <4>2 DEF r
    <3> HIDE DEF q
    <3>2. 1 \in 1 .. Len(agenda'[t]) /\ agenda'[t][1] = a
      BY <2>5, <3>1, ThenHas
    <3>3. StopsKid(agenda[t][1], m)'
      BY <2>4, <2>6, <3>2 DEF StopsKid
    <3> QED
      BY <3>2, <3>3
  <2>7. CASE m # k
    <3>1. m \in c.kids
      BY <1>4, <2>4, <2>7
    <3>2. q = <<a, b>> \o <<c>>
      BY <3>1 DEF RestOf
    <3>3. q \in Seq(Task) /\ 3 \in 1 .. Len(q) /\ q[3] = c
      <4> DEFINE r == <<a, b>> \o <<c>>
      <4>1. r \in Seq(Task) /\ 3 \in 1 .. Len(r) /\ r[3] = c
        BY <2>4
      <4> HIDE DEF r, q
      <4>2. q = r
        BY <3>2 DEF r
      <4> QED
        BY <4>1, <4>2
    <3> HIDE DEF q
    <3>4. 3 \in 1 .. Len(agenda'[t]) /\ agenda'[t][3] = c
      BY <2>5, <3>3, ThenHas
    <3>5. StopsKid(agenda[t][3], m)'
      BY <2>4, <3>1, <3>4 DEF StopsKid
    <3> QED
      BY <3>4, <3>5
  <2> QED
    BY <2>6, <2>7
<1> QED
  BY <1>1, <1>2, <1>3, <1>4 DEF StopsKid

(* ChildStopDue.                                                           *)
LEMMA ChildStopDueNext ==
  ASSUME IInv, OwnInv, RegisterFirst, RegisterDue, ChildStopDue, [Next]_vars
  PROVE  ChildStopDue'
<1> SUFFICES ASSUME NEW m \in Child, life'[m] = "live",
                    STOPPED \in nodeState'[Parent[m]].flags,
                    STOPPED \notin nodeState'[m].flags
             PROVE  \E t \in Thread : \E j \in 1 .. Len(agenda'[t]) :
                      StopsKid(agenda[t][j], m)'
  BY DEF ChildStopDue, Stopped, StopDue
<1>0. m \in Node /\ Parent[m] \in Node
  BY TreeAssumption DEF Child
<1>1. CASE life[m] # "live"
  <2>1. PICK t \in Thread : NewChild(t, m)
    BY <1>0, <1>1, LifeMoves
  <2>2. 2 \in 1 .. Len(agenda'[t]) /\ agenda'[t][2].do = "check" /\ agenda'[t][2].node = m
    BY <2>1, NewChildHas
  <2>3. StopsKid(agenda[t][2], m)'
    BY <2>2 DEF StopsKid
  <2> QED
    BY <2>2, <2>3
<1>2. ASSUME NEW t \in Thread, Registering(t, m)
      PROVE  \E j \in 1 .. Len(agenda'[t]) : StopsKid(agenda[t][j], m)'
  <2>1. 2 \in 1 .. Len(agenda[t]) /\ agenda[t][2].do = "check" /\ agenda[t][2].node = m
    <3>1. agenda[t] \in Seq(Task)
      BY DEF IInv, OwnerTypes
    <3> QED
      BY <1>2, <3>1 DEF Registering
  <2>2. PICK j \in 1 .. Len(agenda'[t]) : agenda'[t][j] = agenda[t][2]
    BY <2>1, TaskStays
  <2>3. StopsKid(agenda[t][j], m)'
    BY <2>1, <2>2 DEF StopsKid
  <2> QED
    BY <2>2, <2>3
<1>3. CASE life[m] = "live" /\ Stopped(Parent[m])
  <2>1. ~Stopped(m)
    BY <1>0, StopMoves
  <2>2. PICK t \in Thread : \E i \in 1 .. Len(agenda[t]) : StopsKid(agenda[t][i], m)
    BY <1>3, <2>1 DEF ChildStopDue, StopDue
  <2>3. PICK i \in 1 .. Len(agenda[t]) : StopsKid(agenda[t][i], m)
    BY <2>2
  <2>4. agenda[t] # <<>>
    <3>1. agenda[t] \in Seq(Task)
      BY DEF IInv, OwnerTypes
    <3> QED
      BY <3>1
  <2>5. CASE i = 1 /\ Proceed(t)
    BY <1>3, <2>3, <2>4, <2>5, HeadStopsKid
  <2>6. CASE i # 1 \/ ~Proceed(t)
    <3>1. CASE registered'[m] = registered[m]
      <4>1. PICK j \in 1 .. Len(agenda'[t]) : agenda'[t][j] = agenda[t][i]
        BY <2>6, TaskStays
      <4>2. StopsKid(agenda[t][j], m)'
        BY <2>3, <3>1, <4>1 DEF StopsKid
      <4> QED
        BY <4>1, <4>2
    <3>2. CASE registered'[m] # registered[m]
      <4>1. PICK u \in Thread : Register(u) /\ Head(agenda[u]).node = m
        BY <3>2, RegistryMoves
      <4>2. /\ 1 \in 1 .. Len(agenda[u]) /\ Head(agenda[u]) = agenda[u][1]
            /\ agenda[u][1].do = "register"
        BY <4>1, DoingJob DEF Register
      <4>3. Registering(u, m)
        BY <4>1, <4>2 DEF RegisterFirst
      <4> QED
        BY <1>2, <4>3
    <3> QED
      BY <3>1, <3>2
  <2> QED
    BY <2>5, <2>6
<1>4. CASE life[m] = "live" /\ ~Stopped(Parent[m])
  <2>1. PICK t \in Thread :
          /\ 2 \in 1 .. Len(agenda'[t])
          /\ agenda'[t][2].do = "snapshot" /\ agenda'[t][2].node = Parent[m]
          /\ agenda'[t][2].shards = Shards(Parent[m])
          /\ UNCHANGED registered
    BY <1>0, <1>4, StopMoves, StopHas
  <2>2. CASE registered[m] = NoShard
    BY <1>2, <1>4, <2>2 DEF RegisterDue
  <2>3. CASE registered[m] # NoShard
    <3>1. registered[m] \in Shards(Parent[m])
      BY <1>0, <2>3 DEF IInv, OwnerTypes, OwnInv, KeptAlive, Shards
    <3>2. StopsKid(agenda[t][2], m)'
      BY <2>1, <3>1 DEF StopsKid
    <3> QED
      BY <2>1, <3>2
  <2> QED
    BY <2>2, <2>3
<1> QED
  BY <1>1, <1>3, <1>4

(* The initial states.                                                     *)
LEMMA InitStop ==
  ASSUME Init
  PROVE  StopInv
<1>1. \A t \in Thread : Len(agenda[t]) = 0
  BY DEF Init
<1>2. LatchDue
  BY DEF Init, LatchDue, Stopped, EmptyNode
<1>3. RegisterFirst
  BY <1>1 DEF RegisterFirst
<1>4. RegisterDue
  BY DEF Init, RegisterDue, Child
<1>5. ChildStopDue
  BY DEF Init, ChildStopDue, Child
<1> QED
  BY <1>2, <1>3, <1>4, <1>5 DEF StopInv

(* The stops layer of the invariant, and what it means when no operation   *)
(* is running.                                                             *)
THEOREM Stops == Spec => [](IInv /\ OwnInv /\ StopInv)
<1>1. Init => StopInv
  BY InitStop
<1>2. IInv /\ OwnInv /\ StopInv /\ [Next]_vars => StopInv'
  BY LatchDueNext, RegisterFirstNext, RegisterDueNext, ChildStopDueNext DEF StopInv
<1> QED
  BY <1>1, <1>2, Ownership, PTL DEF Spec

(* What the two layers say when no operation is running.                   *)
LEMMA ChildrenStopped ==
  ASSUME IInv, StopInv
  PROVE  NoChildLeftRunning
<1> SUFFICES ASSUME Quiet, NEW n \in Node, life[n] = "live", Stopped(n)
             PROVE  /\ \A s \in Shards(n) : STOPPED \in shardState[s].flags
                    /\ \A m \in Child : Parent[m] = n /\ life[m] = "live" => Stopped(m)
  BY DEF NoChildLeftRunning
<1>1. \A t \in Thread : agenda[t] = <<>> /\ Len(agenda[t]) = 0
  BY DEF Quiet, Idle
<1>2. \A s \in Shards(n) : STOPPED \in shardState[s].flags
  BY <1>1 DEF StopInv, LatchDue
<1>3. \A m \in Child : Parent[m] = n /\ life[m] = "live" => Stopped(m)
  BY <1>1 DEF StopInv, ChildStopDue, StopDue
<1> QED
  BY <1>2, <1>3

(* spec.md 5.6 for every tree and any number of threads: when no operation *)
(* is running, every shard of a stopped node is latched and every live     *)
(* child of it is stopped, however Inner::stop, new_child and Drop for     *)
(* Inner interleaved.                                                      *)
THEOREM StopsReachChildren == Spec => []NoChildLeftRunning
<1>1. IInv /\ StopInv => NoChildLeftRunning
  BY ChildrenStopped
<1> QED
  BY <1>1, Stops, PTL

-----------------------------------------------------------------------------
(* Flushes of the root.                                                    *)

(* While the root lives, a latched shard of it that counts nothing is      *)
(* about to be flushed, by a thread that has the root or is about to look  *)
(* for it.                                                                 *)
RootFlushDue ==
  \A s \in Shard :
    NodeOf[s] = Root /\ shardState[s] = StillArrived /\ life[Root] = "live" =>
      FlushAt(s) \/ UpgradeAt(s)

(* The upgrade of a root's guard goes on to the flush.                     *)
LEMMA UpgradeFlushes ==
  ASSUME IInv, OwnInv, [Next]_vars, NEW s \in Shard, UpgradeAt(s), life[Root] = "live"
  PROVE  FlushAt(s)' \/ UpgradeAt(s)'
<1>1. PICK t \in Thread : /\ pc[t] = "idle" /\ agenda[t] # <<>>
                          /\ agenda[t][1].do = "upgrade" /\ agenda[t][1].shards = {s}
  BY DEF UpgradeAt
<1>2. agenda \in [Thread -> Seq(Task)] /\ agenda[t] \in Seq(Task)
  BY DEF IInv, OwnerTypes
<1>3. Head(agenda[t]) = agenda[t][1]
  BY <1>1, <1>2
<1>4. CASE Proceed(t)
  <2>1. Upgrade(t)
    BY <1>1, <1>3, <1>4 DEF Proceed, Stop, Latch, Snapshot, StopKids, StopNotify, Release,
      Deregister, Register, Check, Adopt, Watch, GuardReturned, Unblock, Doing
  <2>2. Go(t, "flush", s)
    BY <1>1, <1>3, <2>1 DEF Upgrade
  <2>3. pc'[t] = "flush" /\ cell'[t] = s
    BY <2>2 DEF Go, IInv, CoreInv, WalkTypes
  <2> QED
    BY <2>3, SMTT(60) DEF FlushAt
<1>5. CASE ~Proceed(t)
  <2>1. agenda'[t] = agenda[t]
    BY <1>1, <1>5, StepRows
  <2>2. pc'[t] = "idle"
    <3>1. ~Walk(t)
      BY <1>1 DEF Walk, Guarded, ArriveShard, ArriveNode, CasShard, CasNode, DepartShard,
        Flush, DepartNode, DepartNotify, Unarrive, At
    <3>2. ~Call(t)
      BY <1>1, CallRows
    <3>3. \/ \E u \in Thread \ {t} : Walk(u) \/ Call(u) \/ Proceed(u)
          \/ \E n \in Node : Poll(n)
          \/ UNCHANGED vars
      BY <1>5, <3>1, <3>2 DEF Next
    <3>4. SameRow(t)
      <4>1. ASSUME NEW u \in Thread \ {t}, Walk(u) PROVE SameRow(t)
        BY <4>1, WalkRows DEF Rest
      <4>2. ASSUME NEW u \in Thread \ {t}, Proceed(u) PROVE SameRow(t)
        BY <4>2, ProceedRows DEF Rest
      <4>3. ASSUME NEW u \in Thread \ {t}, Call(u) PROVE SameRow(t)
        BY <4>3, CallRows DEF Rest
      <4>4. ASSUME NEW n \in Node, Poll(n) PROVE SameRow(t)
        BY <4>4 DEF Poll, walk, SameRow
      <4>5. CASE UNCHANGED vars
        BY <4>5 DEF vars, walk, SameRow
      <4> QED
        BY <3>3, <4>1, <4>2, <4>3, <4>4, <4>5
    <3> QED
      BY <1>1, <3>4 DEF SameRow
  <2> QED
    BY <1>1, <2>1, <2>2 DEF UpgradeAt
<1> QED
  BY <1>4, <1>5

(* RootFlushDue, as FlushDue.                                              *)
LEMMA RootFlushNext ==
  ASSUME IInv, OwnInv, RootFlushDue, [Next]_vars
  PROVE  RootFlushDue'
<1> SUFFICES ASSUME NEW s \in Shard, NodeOf[s] = Root, shardState'[s] = StillArrived,
                    life'[Root] = "live"
             PROVE  FlushAt(s)' \/ UpgradeAt(s)'
  BY DEF RootFlushDue, StillArrived, EmptyShard
<1>1. /\ StillArrived # Flushed
      /\ StillArrived.local = 0 /\ StillArrived.kids = 0
  <2>1. StillArrived.flags = {ARRIVED, STOPPED} /\ Flushed.flags = {STOPPED}
    BY DEF StillArrived, Flushed, EmptyShard
  <2>2. {ARRIVED, STOPPED} # {STOPPED}
    BY DEF ARRIVED, STOPPED
  <2> QED
    BY <2>1, <2>2 DEF StillArrived, EmptyShard
<1>2. life[Root] = "live"
  BY LifeMoves, TreeAssumption DEF Child
<1>3. CASE shardState'[s] = shardState[s] /\ FlushAt(s)
  <2>1. PICK t \in Thread : pc[t] = "flush" /\ cell[t] = s
    BY <1>3 DEF FlushAt
  <2>2. ~Walk(t)
    <3>1. SUFFICES ASSUME Flush(t) PROVE FALSE
      BY <2>1, WalkAction
    <3>2. shardState' = [shardState EXCEPT ![s] = Flushed]
      BY <1>3, <2>1, <3>1 DEF Flush, StillArrived
    <3> QED
      BY <1>1, <3>2 DEF IInv, CoreInv, WordTypes
  <2>3. ~Starts(t)
    BY <2>1 DEF Starts
  <2>4. SameRow(t)
    BY <2>2, <2>3, StepRows
  <2> QED
    BY <2>1, <2>4 DEF SameRow, FlushAt
<1>4. CASE shardState'[s] = shardState[s] /\ UpgradeAt(s)
  BY <1>2, <1>4, UpgradeFlushes
<1>5. CASE shardState'[s] = shardState[s]
  BY <1>2, <1>3, <1>4, <1>5 DEF RootFlushDue
<1>6. CASE shardState'[s] # shardState[s]
  <2>1. ~ShardUp(s) /\ ~ShardOut(s)
    BY <1>1 DEF ShardUp, ShardOut
  <2>2. CASE ShardDown(s)
    BY <2>2 DEF ShardDown
  <2>3. CASE ShardLatch(s)
    BY <2>3 DEF ShardLatch
  <2> QED
    BY <1>6, <2>1, <2>2, <2>3, ShardMoves
<1> QED
  BY <1>5, <1>6

(* Every layer of the invariant together.                                  *)
AllInv == IInv /\ OwnInv /\ DepartInv /\ StopInv /\ RootFlushDue
THEOREM AllLayers == Spec => []AllInv
<1>1. Init => RootFlushDue
  <2> SUFFICES ASSUME Init PROVE RootFlushDue
    OBVIOUS
  <2>1. EmptyShard({}) # StillArrived
    <3>1. EmptyShard({}).flags = {} /\ StillArrived.flags = {ARRIVED, STOPPED}
      BY DEF EmptyShard, StillArrived
    <3> QED
      BY <3>1
  <2>2. \A s \in Shard : shardState[s] = EmptyShard({})
    BY DEF Init
  <2> QED
    BY <2>1, <2>2 DEF RootFlushDue
<1>2. IInv /\ OwnInv /\ RootFlushDue /\ [Next]_vars => RootFlushDue'
  BY RootFlushNext
<1> QED
  BY <1>1, <1>2, Departures, Stops, PTL DEF Spec, AllInv

-----------------------------------------------------------------------------
(* When no operation is running: guards and counts.                        *)

(* A set of naturals has a least element.                                  *)
LEMMA LeastNumber ==
  ASSUME NEW T \in SUBSET Nat, T # {}
  PROVE  \E m \in T : \A n \in T : m <= n
<1>1. \A U \in SUBSET Nat : U # {} =>
        \E x \in U : \A y \in U : ~(<<y, x>> \in OpToRel(<, Nat))
  BY NatLessThanWellFounded, WFMin, Zenon
<1>2. \E x \in T : \A y \in T : ~(<<y, x>> \in OpToRel(<, Nat))
  BY <1>1, Zenon
<1>3. \E x \in T : \A y \in T : ~(y < x)
  BY <1>2, Zenon DEF OpToRel
<1>4. PICK x \in T : \A y \in T : ~(y < x)
  BY <1>3
<1>5. \A y \in T : x <= y
  BY <1>4
<1> QED BY <1>5

(* A quiet thread has nothing in flight.                                   *)
LEMMA QuietIdle ==
  ASSUME Quiet
  PROVE  /\ \A t \in Thread : pc[t] = "idle" /\ agenda[t] = <<>> /\ Len(agenda[t]) = 0
         /\ \A s \in Shard : ~FlushAt(s) /\ ~UpgradeAt(s)
         /\ \A s \in Shard : {t \in Thread : KidInFlight(t, s)} = {}
         /\ \A n \in Node : {t \in Thread : ShardInFlight(t, n)} = {}
<1>1. \A t \in Thread : pc[t] = "idle" /\ agenda[t] = <<>> /\ Len(agenda[t]) = 0
  BY DEF Quiet, Idle
<1>2. \A s \in Shard : ~FlushAt(s) /\ ~UpgradeAt(s)
  BY <1>1 DEF FlushAt, UpgradeAt
<1>3. \A t \in Thread : \A c : ~KidInFlight(t, c) /\ ~ShardInFlight(t, c)
  BY <1>1 DEF KidInFlight, ShardInFlight
<1> QED
  BY <1>1, <1>2, <1>3

(* A stopped node that counts something while nobody moves has a guard or  *)
(* a child that does.                                                      *)
LEMMA QuietCounts ==
  ASSUME AllInv, Quiet, NEW n \in Node, life[n] = "live", Stopped(n), ~IsZero(n)
  PROVE  \/ \E g \in Guard : home[g] # NoShard /\ NodeOf[home[g]] = n
         \/ \E m \in Child : /\ Parent[m] = n /\ life[m] = "live" /\ Stopped(m)
                             /\ ~IsZero(m)
<1>0. IInv /\ OwnInv /\ DepartInv /\ StopInv /\ RootFlushDue
  BY DEF AllInv
<1>1. PICK s \in Shards(n) : ARRIVED \in shardState[s].flags
  <2>1. nodeState[n].count = Cardinality(ShardTokens(n))
    BY <1>0 DEF IInv, CoreInv, CountsExact, ShardsExact
  <2>2. ShardTokens(n) # {}
    BY <2>1, FS_EmptySet DEF IsZero
  <2> QED
    BY <2>2, QuietIdle DEF ShardTokens
<1>2. s \in Shard /\ NodeOf[s] = n /\ shardState[s] \in ShardWord
  BY <1>0 DEF Shards, IInv, CoreInv, WordTypes
<1>3. STOPPED \in shardState[s].flags
  BY <1>0, QuietIdle DEF StopInv, LatchDue
<1>4. shardState[s] # StillArrived
  <2>1. CASE n = Root
    BY <1>0, <1>2, <2>1, QuietIdle DEF RootFlushDue
  <2>2. CASE n # Root
    BY <1>0, <1>2, <2>2, QuietIdle DEF DepartInv, FlushDue
  <2> QED
    BY <2>1, <2>2
<1>5. shardState[s].local # 0 \/ shardState[s].kids # 0
  <2> SUFFICES ASSUME shardState[s].local = 0, shardState[s].kids = 0 PROVE FALSE
    OBVIOUS
  <2>1. shardState[s].flags = {ARRIVED, STOPPED}
    BY <1>1, <1>2, <1>3 DEF ShardWord, Flags
  <2> DEFINE w == shardState[s]
  <2>2. w \in [flags : SUBSET Flags, local : Nat, kids : Nat]
        /\ w.flags = {ARRIVED, STOPPED} /\ w.local = 0 /\ w.kids = 0
    BY <1>2, <2>1 DEF ShardWord
  <2> HIDE DEF w
  <2>3. w = [flags |-> {ARRIVED, STOPPED}, local |-> 0, kids |-> 0]
    BY <2>2
  <2> QED
    BY <1>4, <2>3 DEF w, StillArrived, EmptyShard
<1>6. CASE shardState[s].local # 0
  <2>1. shardState[s].local = Cardinality(LocalTokens(s))
    BY <1>0, <1>2 DEF IInv, CoreInv, CountsExact, LocalExact
  <2>2. LocalTokens(s) # {}
    BY <1>6, <2>1, FS_EmptySet
  <2>3. PICK g \in Guard : home[g] = s
    BY <2>2 DEF LocalTokens
  <2>4. s # NoShard
    BY <1>2, ShardAssumption
  <2> QED
    BY <1>2, <2>3, <2>4
<1>7. CASE shardState[s].kids # 0
  <2>1. shardState[s].kids = Cardinality(KidTokens(s))
    BY <1>0, <1>2 DEF IInv, CoreInv, CountsExact, KidsExact
  <2>2. KidTokens(s) # {}
    BY <1>7, <2>1, FS_EmptySet
  <2>3. PICK m \in Child : ARRIVED \in nodeState[m].flags /\ nodeState[m].at = s
    BY <1>2, <2>2, QuietIdle DEF KidTokens
  <2>4. Parent[m] = n
    BY <1>0, <1>2, <2>3 DEF IInv, CoreInv, ControlOK, WordsLinked
  <2>5. ~IsZero(m)
    BY <1>0, <2>3, QuietIdle DEF DepartInv, EmptyDue
  <2>6. life[m] = "live"
    <3>1. life[m] # "unborn"
      <4>1. EmptyNode({}).flags = {}
        BY DEF EmptyNode
      <4> QED
        BY <1>0, <2>3, <4>1 DEF DepartInv, Absent
    <3>2. life[m] # "gone"
      BY <1>0, <2>3 DEF DepartInv, CollectedDeparted
    <3>3. life[m] # "dropping"
      <4>1. m \in Node
        BY DEF Child
      <4>2. \A t \in Thread : ~Collecting(t, m)
        BY QuietIdle DEF Collecting
      <4> QED
        BY <1>0, <4>1, <4>2 DEF DepartInv, DropProgress
    <3>4. life[m] \in {"unborn", "live", "dropping", "gone"}
      BY <1>0 DEF IInv, OwnerTypes, Child
    <3> QED
      BY <3>1, <3>2, <3>3, <3>4
  <2>7. Stopped(m)
    BY <1>0, <2>4, <2>6, QuietIdle DEF StopInv, ChildStopDue, StopDue
  <2> QED
    BY <2>4, <2>5, <2>6, <2>7
<1> QED
  BY <1>5, <1>6, <1>7

(* The nodes from n down.                                                  *)
Below(n) == {m \in Node : n \in Ancestors(m)}

(* A child has fewer nodes below it than its parent.                       *)
LEMMA BelowSmaller ==
  ASSUME NEW m \in Child
  PROVE  /\ IsFiniteSet(Below(Parent[m])) /\ Below(m) \subseteq Below(Parent[m])
         /\ Cardinality(Below(m)) \in Nat /\ Cardinality(Below(Parent[m])) \in Nat
         /\ Cardinality(Below(m)) < Cardinality(Below(Parent[m]))
<1>1. m \in Node /\ Parent[m] \in Node /\ m \notin Ancestors(Parent[m])
  BY ParentBelowNone
<1>2. Below(m) \subseteq Below(Parent[m])
  <2> SUFFICES ASSUME NEW x \in Node, m \in Ancestors(x) PROVE Parent[m] \in Ancestors(x)
    BY DEF Below
  <2> QED
    BY AncestorsClosed DEF Child
<1>3. Parent[m] \in Below(Parent[m]) /\ Parent[m] \notin Below(m)
  BY <1>1, AncestorsClosed DEF Below
<1>4. IsFiniteSet(Below(Parent[m]))
  BY TreeAssumption, FS_Subset DEF Below
<1>5. /\ Cardinality(Below(m)) <= Cardinality(Below(Parent[m]))
      /\ Cardinality(Below(Parent[m])) = Cardinality(Below(m)) => Below(Parent[m]) = Below(m)
      /\ IsFiniteSet(Below(m))
  BY <1>2, <1>4, FS_Subset
<1>6. Cardinality(Below(m)) \in Nat /\ Cardinality(Below(Parent[m])) \in Nat
  BY <1>4, <1>5, FS_CardinalityType
<1>7. Cardinality(Below(m)) # Cardinality(Below(Parent[m]))
  BY <1>3, <1>5
<1> QED
  BY <1>2, <1>4, <1>5, <1>6, <1>7

(* state() is exact: a stopped node without guards in its subset counts    *)
(* nothing, for otherwise there would be a lowest node below it that does. *)
LEMMA QuietZero ==
  ASSUME AllInv, Quiet, NEW n \in Node, life[n] = "live", Stopped(n), GuardsUnder(n) = {}
  PROVE  IsZero(n)
<1> SUFFICES ASSUME ~IsZero(n) PROVE FALSE
  OBVIOUS
<1> DEFINE D == {m \in Node : /\ n \in Ancestors(m) /\ life[m] = "live" /\ Stopped(m)
                              /\ ~IsZero(m)}
           Sizes == {k \in Nat : \E m \in D : k = Cardinality(Below(m))}
<1>1. n \in D
  BY AncestorsClosed
<1>2. \A m \in D : Cardinality(Below(m)) \in Nat
  <2> SUFFICES ASSUME NEW m \in Node PROVE Cardinality(Below(m)) \in Nat
    OBVIOUS
  <2>1. IsFiniteSet(Below(m))
    BY TreeAssumption, FS_Subset DEF Below
  <2> QED
    BY <2>1, FS_CardinalityType
<1>3. Sizes \in SUBSET Nat /\ Sizes # {}
  <2> HIDE DEF D
  <2> QED
    BY <1>1, <1>2
<1>4. PICK k \in Sizes : \A j \in Sizes : k <= j
  <2> HIDE DEF Sizes
  <2> QED
    BY <1>3, LeastNumber
<1>5. PICK m \in D : k = Cardinality(Below(m))
  <2> HIDE DEF D
  <2> QED
    BY <1>4
<1>6. m \in Node /\ n \in Ancestors(m) /\ life[m] = "live" /\ Stopped(m) /\ ~IsZero(m)
  BY <1>5
<1>7. ~\E g \in Guard : home[g] # NoShard /\ NodeOf[home[g]] = m
  BY <1>6 DEF GuardsUnder
<1>8. PICK x \in Child : Parent[x] = m /\ life[x] = "live" /\ Stopped(x) /\ ~IsZero(x)
  BY <1>6, <1>7, QuietCounts
<1>9. x \in Node /\ n \in Ancestors(x)
  <2>1. x \in Node /\ x # Root
    BY DEF Child
  <2>2. m \in Ancestors(x)
    BY <1>8, <2>1, AncestorsClosed
  <2> QED
    BY <1>6, <2>1, <2>2, AncestorsTransitive
<1>10. x \in D
  BY <1>8, <1>9
<1>11. /\ Cardinality(Below(x)) \in Nat /\ Cardinality(Below(m)) \in Nat
       /\ Cardinality(Below(x)) < Cardinality(Below(m))
  BY <1>8, BelowSmaller
<1> HIDE DEF D
<1>12. Cardinality(Below(x)) \in Sizes
  BY <1>10, <1>11
<1> HIDE DEF Sizes
<1> QED
  BY <1>4, <1>5, <1>11, <1>12

-----------------------------------------------------------------------------
(* guard_count() when no operation is running.                             *)

(* The partial sums of a weight w over the subsets of S.                   *)
First(T) == CHOOSE x \in T : TRUE
IsSum(f, w, S) ==
  f = [T \in SUBSET S |-> IF T = {} THEN 0 ELSE w[First(T)] + f[T \ {First(T)}]]

(* What the members of T stand for in a family of sets.                    *)
Joined(family, T) == UNION {family[x] : x \in T}

(* Taking one set out of a disjoint family takes its cardinality out.      *)
LEMMA JoinedSplit ==
  ASSUME NEW T, NEW x \in T, NEW family, IsFiniteSet(Joined(family, T)),
         \A y, z \in T : y # z => family[y] \cap family[z] = {}
  PROVE  /\ IsFiniteSet(Joined(family, T \ {x})) /\ IsFiniteSet(family[x])
         /\ Cardinality(Joined(family, T)) =
              Cardinality(family[x]) + Cardinality(Joined(family, T \ {x}))
<1> DEFINE all == Joined(family, T)
           rest == Joined(family, T \ {x})
           one == family[x]
<1>1. all = one \cup rest
  BY DEF Joined
<1>2. one \cap rest = {}
  BY DEF Joined
<1> HIDE DEF all, rest, one
<1>3. one \in SUBSET all /\ rest \in SUBSET all /\ IsFiniteSet(all)
  BY <1>1 DEF all
<1>4. IsFiniteSet(one) /\ IsFiniteSet(rest)
  BY <1>3, FS_Subset
<1>5. /\ Cardinality(one) \in Nat /\ Cardinality(rest) \in Nat
      /\ Cardinality(one \cup rest) =
           Cardinality(one) + Cardinality(rest) - Cardinality(one \cap rest)
      /\ Cardinality({}) = 0
  BY <1>4, FS_Union, FS_CardinalityType, FS_EmptySet
<1>6. Cardinality(all) = Cardinality(one) + Cardinality(rest)
  <2>1. Cardinality(all) = Cardinality(one) + Cardinality(rest) - Cardinality({})
    BY <1>1, <1>2, <1>5, Zenon
  <2> QED BY <1>5, <2>1
<1> QED BY <1>4, <1>6 DEF all, rest, one

(* The recursion has one solution: the cardinalities of what is joined.    *)
LEMMA SumIs ==
  ASSUME NEW S, IsFiniteSet(S), NEW family, NEW w,
         \A x \in S : w[x] = Cardinality(family[x]),
         IsFiniteSet(Joined(family, S)),
         \A y, z \in S : y # z => family[y] \cap family[z] = {}
  PROVE  /\ \E f : IsSum(f, w, S)
         /\ \A f : IsSum(f, w, S) => f[S] = Cardinality(Joined(family, S))
<1> DEFINE c == [T \in SUBSET S |-> Cardinality(Joined(family, T))]
<1>1. \A T \in SUBSET S : c[T] = Cardinality(Joined(family, T))
  OBVIOUS
<1>2. \A T \in SUBSET S : T # {} => First(T) \in T
  BY DEF First
<1>3. ASSUME NEW T \in SUBSET S, T # {}
      PROVE  c[T] = w[First(T)] + c[T \ {First(T)}]
  <2> DEFINE x == First(T)
  <2>1. x \in T /\ T \ {x} \in SUBSET S
    BY <1>2, <1>3
  <2>2. Joined(family, T) \in SUBSET Joined(family, S)
    BY DEF Joined
  <2>3. IsFiniteSet(Joined(family, T))
    BY <2>2, FS_Subset
  <2> HIDE DEF x
  <2>4. \A y, z \in T : y # z => family[y] \cap family[z] = {}
    BY <2>1
  <2>5. Cardinality(Joined(family, T)) =
          Cardinality(family[x]) + Cardinality(Joined(family, T \ {x}))
    BY <2>1, <2>3, <2>4, JoinedSplit
  <2>6. c[T] = w[x] + c[T \ {x}]
    BY <1>1, <2>1, <2>5
  <2> QED BY <2>6 DEF x
<1>4. {} \in SUBSET S /\ c[{}] = 0
  <2>1. Joined(family, {}) = {}
    BY DEF Joined
  <2> QED BY <1>1, <2>1, FS_EmptySet
<1>5. c = [T \in SUBSET S |-> c[T]]
  OBVIOUS
<1> HIDE DEF c
<1>6. IsSum(c, w, S)
  <2>1. \A T \in SUBSET S : c[T] = IF T = {} THEN 0 ELSE w[First(T)] + c[T \ {First(T)}]
    BY <1>3, <1>4
  <2> QED BY <1>5, <2>1 DEF IsSum
<1>7. ASSUME NEW f, IsSum(f, w, S) PROVE f[S] = c[S]
  <2>1. /\ f[{}] = 0
        /\ \A T \in SUBSET S : T # {} => f[T] = w[First(T)] + f[T \ {First(T)}]
    BY <1>7, <1>4 DEF IsSum
  <2> SUFFICES ASSUME f[S] # c[S] PROVE FALSE
    OBVIOUS
  <2> DEFINE Wrong == {T \in SUBSET S : f[T] # c[T]}
             Sizes == {n \in Nat : \E T \in Wrong : n = Cardinality(T)}
  <2>2. \A T \in SUBSET S : IsFiniteSet(T) /\ Cardinality(T) \in Nat
    BY FS_Subset, FS_CardinalityType
  <2>3. Sizes \in SUBSET Nat /\ Sizes # {}
    BY <2>2
  <2>4. PICK m \in Sizes : \A n \in Sizes : m <= n
    <3> HIDE DEF Sizes
    <3> QED BY <2>3, LeastNumber
  <2>5. PICK T \in Wrong : m = Cardinality(T)
    BY <2>4
  <2>6. T \in SUBSET S /\ f[T] # c[T]
    BY <2>5
  <2>7. T # {}
    BY <2>1, <2>6, <1>4
  <2> DEFINE x == First(T)
             U == T \ {x}
  <2>8. x \in T /\ U \in SUBSET S
    BY <1>2, <2>6, <2>7
  <2>9. f[T] = w[x] + f[U] /\ c[T] = w[x] + c[U]
    BY <1>3, <2>1, <2>6, <2>7
  <2> HIDE DEF x
  <2>10. Cardinality(U) = m - 1 /\ Cardinality(U) \in Nat /\ m \in Nat
    BY <2>2, <2>5, <2>6, <2>8, FS_RemoveElement
  <2>11. Cardinality(U) \notin Sizes
    <3> HIDE DEF U, Sizes
    <3> QED BY <2>4, <2>10
  <2>12. U \notin Wrong
    <3> HIDE DEF U, Wrong
    <3> QED BY <2>10, <2>11
  <2>13. f[U] = c[U]
    <3> HIDE DEF U
    <3> QED BY <2>8, <2>12
  <2> HIDE DEF U, Wrong, Sizes
  <2> QED BY <2>6, <2>9, <2>13
<1>8. c[S] = Cardinality(Joined(family, S))
  BY <1>1
<1> QED BY <1>6, <1>7, <1>8


(* guard_count() visits the node and the live children registered at the   *)
(* shards of what it visits, and nothing else.                             *)
VisitClosed(S) == \A k \in S : \A s \in Shards(k) : LiveChildren(s) \subseteq S
LEMMA VisitedClosed ==
  ASSUME NEW n \in Node
  PROVE  /\ Visited(n) \subseteq Node /\ n \in Visited(n) /\ VisitClosed(Visited(n))
         /\ \A S \in SUBSET Node : n \in S /\ VisitClosed(S) => Visited(n) \subseteq S
<1>1. Visited(n) = {m \in Node : \A S \in SUBSET Node : n \in S /\ VisitClosed(S) => m \in S}
  BY DEF Visited, VisitClosed
<1>2. Visited(n) \subseteq Node /\ n \in Visited(n)
  BY <1>1
<1>3. \A S \in SUBSET Node : n \in S /\ VisitClosed(S) => Visited(n) \subseteq S
  BY <1>1
<1>4. ASSUME NEW k \in Visited(n), NEW s \in Shards(k), NEW m \in LiveChildren(s)
      PROVE  m \in Visited(n)
  <2>1. m \in Node
    BY DEF LiveChildren, Child
  <2>2. ASSUME NEW S \in SUBSET Node, n \in S, VisitClosed(S) PROVE m \in S
    <3>1. k \in S
      BY <1>3, <2>2
    <3> QED
      BY <2>2, <3>1 DEF VisitClosed
  <2> QED
    BY <1>1, <2>1, <2>2
<1>5. VisitClosed(Visited(n))
  BY <1>4 DEF VisitClosed
<1> QED
  BY <1>2, <1>3, <1>5

(* A registry holds children of its own node, so the count stays below.    *)
LEMMA VisitedBelow ==
  ASSUME AllInv, NEW n \in Node
  PROVE  Visited(n) \subseteq Below(n)
<1>1. n \in Below(n) /\ Below(n) \in SUBSET Node
  BY AncestorsClosed DEF Below
<1>2. VisitClosed(Below(n))
  <2> SUFFICES ASSUME NEW k \in Below(n), NEW s \in Shards(k), NEW m \in LiveChildren(s)
               PROVE  m \in Below(n)
    BY DEF VisitClosed
  <2>1. m \in Child /\ m \in Node /\ m # Root /\ registered[m] = s
    BY DEF LiveChildren, Child
  <2>2. s \in Shard /\ NodeOf[s] = k /\ s # NoShard
    BY ShardAssumption DEF Shards
  <2>3. Parent[m] = k
    BY <2>1, <2>2 DEF AllInv, OwnInv, KeptAlive
  <2>4. k \in Ancestors(m)
    BY <2>1, <2>3, AncestorsClosed
  <2>5. k \in Node /\ n \in Ancestors(k)
    BY DEF Below
  <2> QED
    BY <2>1, <2>4, <2>5, AncestorsTransitive DEF Below
<1> QED
  BY <1>1, <1>2, VisitedClosed

(* The live nodes below a node are all visited: each is registered at a    *)
(* shard of its parent, which is live.                                     *)
LEMMA VisitedAll ==
  ASSUME AllInv, Quiet, NEW n \in Node, NEW m \in Node, n \in Ancestors(m),
         life[m] = "live"
  PROVE  m \in Visited(n)
<1> SUFFICES ASSUME m \notin Visited(n) PROVE FALSE
  OBVIOUS
<1> DEFINE Missed == {k \in Node : k \notin Visited(n) /\ n \in Ancestors(k) /\ life[k] = "live"}
           S == Missed \cup {k \in Node : n \notin Ancestors(k)}
<1>1. n \in Visited(n) /\ VisitClosed(Visited(n)) /\ n \notin S
  <2>1. n \in Visited(n) /\ VisitClosed(Visited(n)) /\ n \in Ancestors(n)
    BY VisitedClosed, AncestorsClosed
  <2> QED
    BY <2>1
<1>2. ASSUME NEW k \in Missed, k # Root PROVE Parent[k] \in S
  <2>1. /\ k \in Node /\ k \notin Visited(n) /\ n \in Ancestors(k) /\ life[k] = "live"
        /\ k \in Child
    BY <1>2 DEF Child
  <2>2. Parent[k] \in Node /\ life[Parent[k]] = "live"
    BY <2>1, TreeAssumption DEF AllInv, OwnInv, KeptAlive
  <2>3. k # n
    BY <1>1, <2>1
  <2>4. n \in Ancestors(Parent[k])
    BY <2>1, <2>3, AncestorsUnfold
  <2>5. registered[k] # NoShard
    <3>1. \A t \in Thread : ~Registering(t, k)
      BY QuietIdle DEF Registering
    <3> QED
      BY <2>1, <3>1 DEF AllInv, StopInv, RegisterDue
  <2>6. NodeOf[registered[k]] = Parent[k] /\ registered[k] \in Shard
    <3>1. registered[k] \in Shard \cup {NoShard}
      BY <2>1 DEF AllInv, IInv, OwnerTypes
    <3> QED
      BY <2>1, <2>5, <3>1 DEF AllInv, OwnInv, KeptAlive
  <2>7. k \in LiveChildren(registered[k]) /\ registered[k] \in Shards(Parent[k])
    BY <2>1, <2>6 DEF LiveChildren, Shards
  <2>8. Parent[k] \notin Visited(n)
    BY <1>1, <2>1, <2>7 DEF VisitClosed
  <2> QED
    BY <2>2, <2>4, <2>8
<1>3. ASSUME NEW k \in Node, n \notin Ancestors(k), k # Root PROVE Parent[k] \in S
  <2>1. k \in Child /\ Parent[k] \in Node /\ Parent[k] \in Ancestors(k)
    BY <1>3, AncestorsClosed, TreeAssumption DEF Child
  <2>2. n \notin Ancestors(Parent[k])
    BY <1>3, <2>1, AncestorsTransitive
  <2> QED
    BY <2>1, <2>2
<1>4. m \in S /\ S \in SUBSET Node
  OBVIOUS
<1>5. \A k \in S \ {Root} : Parent[k] \in S
  <2>1. \A k \in S : k \in Missed \/ (k \in Node /\ n \notin Ancestors(k))
    OBVIOUS
  <2> HIDE DEF S, Missed
  <2> QED
    BY <1>2, <1>3, <2>1
<1> HIDE DEF S
<1>6. \A k \in Child : k \in S => Parent[k] \in S
  BY <1>5 DEF Child
<1>7. Ancestors(m) \subseteq S
  BY <1>4, <1>6, AncestorsLeast
<1> QED
  BY <1>1, <1>7

(* guard_count() adds the local counts of the shards it visits, and those  *)
(* count the guards of the subset.                                         *)
LEMMA QuietGuardCount ==
  ASSUME AllInv, Quiet, NEW n \in Node, life[n] = "live"
  PROVE  GuardCountSubtree(n) = Cardinality(GuardsUnder(n))
<1> DEFINE T == {s \in Shard : NodeOf[s] \in Visited(n)}
           w == [s \in Shard |-> shardState[s].local]
           family == [s \in Shard |-> LocalTokens(s)]
           f == CHOOSE h : IsSum(h, w, T)
<1>1. IsFiniteSet(T) /\ T \subseteq Shard
  BY ShardAssumption, FS_Subset
<1>2. Joined(family, T) = GuardsUnder(n)
  <2>1. \A s \in Shard : family[s] = {g \in Guard : home[g] = s}
    BY DEF LocalTokens
  <2>2. ASSUME NEW s \in T, NEW g \in family[s] PROVE g \in GuardsUnder(n)
    <3>1. g \in Guard /\ home[g] = s /\ s \in Shard /\ NodeOf[s] \in Visited(n)
      BY <2>1
    <3>2. n \in Ancestors(NodeOf[s])
      BY <3>1, VisitedBelow DEF Below
    <3> QED
      BY <3>1, <3>2, ShardAssumption DEF GuardsUnder
  <2>3. ASSUME NEW g \in GuardsUnder(n) PROVE \E s \in T : g \in family[s]
    <3>1. g \in Guard /\ home[g] # NoShard /\ n \in Ancestors(NodeOf[home[g]])
      BY DEF GuardsUnder
    <3>2. home[g] \in Shard /\ NodeOf[home[g]] \in Node
      BY <3>1, ShardAssumption DEF AllInv, IInv, CoreInv, WordTypes
    <3>3. NodeOf[home[g]] \in Visited(n)
      <4>1. CASE NodeOf[home[g]] = Root
        <5>1. n = Root
          <6>1. n \in Ancestors(Root)
            BY <3>1, <4>1
          <6> QED
            BY <6>1, AncestorsUnfold, TreeAssumption DEF Child
        <5> QED
          BY <4>1, <5>1, VisitedClosed
      <4>2. CASE NodeOf[home[g]] # Root
        <5>1. life[NodeOf[home[g]]] = "live"
          BY <3>1, <4>2 DEF AllInv, OwnInv, KeptAlive
        <5> QED
          BY <3>1, <3>2, <5>1, VisitedAll
      <4> QED
        BY <4>1, <4>2
    <3>4. home[g] \in T
      BY <3>2, <3>3
    <3>5. g \in family[home[g]]
      BY <2>1, <3>1, <3>2
    <3> QED
      BY <3>4, <3>5
  <2> HIDE DEF T, family
  <2> QED
    BY <2>2, <2>3 DEF Joined
<1>3. IsFiniteSet(GuardsUnder(n))
  BY ThreadAssumption, FS_Subset DEF GuardsUnder
<1>4. \A s \in T : w[s] = Cardinality(family[s])
  <2>1. \A s \in Shard : shardState[s].local = Cardinality(LocalTokens(s))
    BY DEF AllInv, IInv, CoreInv, CountsExact, LocalExact
  <2> QED
    BY <2>1
<1>5. \A y, z \in T : y # z => family[y] \cap family[z] = {}
  BY DEF LocalTokens
<1>6. GuardCountSubtree(n) = f[T]
  <2>1. ASSUME NEW h
        PROVE  (h = [U \in SUBSET T |-> IF U = {} THEN 0
                       ELSE shardState[First(U)].local + h[U \ {First(U)}]])
               <=> IsSum(h, w, T)
    <3>1. \A U \in SUBSET T : U # {} => First(U) \in U /\ First(U) \in Shard
      BY <1>1 DEF First
    <3>2. \A U \in SUBSET T : U # {} => w[First(U)] = shardState[First(U)].local
      BY <3>1
    <3> HIDE DEF w, T
    <3>3. [U \in SUBSET T |-> IF U = {} THEN 0 ELSE shardState[First(U)].local + h[U \ {First(U)}]]
            = [U \in SUBSET T |-> IF U = {} THEN 0 ELSE w[First(U)] + h[U \ {First(U)}]]
      BY <3>2
    <3> QED
      BY <3>3 DEF IsSum
  <2> DEFINE p == CHOOSE h : h = [U \in SUBSET T |-> IF U = {} THEN 0
                                    ELSE shardState[First(U)].local + h[U \ {First(U)}]]
  <2>2. GuardCountSubtree(n) = p[T]
    BY DEF GuardCountSubtree, MapThenSumSet, MapThenFoldSet, First
  <2>3. p = f
    <3> HIDE DEF w, T
    <3> QED
      BY <2>1
  <2> QED
    BY <2>2, <2>3
<1> HIDE DEF T, w, family
<1>7. /\ \E h : IsSum(h, w, T)
      /\ \A h : IsSum(h, w, T) => h[T] = Cardinality(Joined(family, T))
  BY <1>1, <1>2, <1>3, <1>4, <1>5, SumIs
<1>8. IsSum(f, w, T)
  BY <1>7
<1> HIDE DEF f
<1> QED
  BY <1>2, <1>6, <1>7, <1>8

(* S5: with no operation in flight guard_count() and state() are exact, at *)
(* every node of the tree and whatever raced before.                       *)
THEOREM QuietExact == Spec => []ExactWhenQuiet
<1>1. AllInv => ExactWhenQuiet
  <2> SUFFICES ASSUME AllInv, Quiet, NEW n \in Node, life[n] = "live"
               PROVE  /\ GuardCountSubtree(n) = Cardinality(GuardsUnder(n))
                      /\ Stopped(n) => (IsZero(n) <=> GuardsUnder(n) = {})
    BY DEF ExactWhenQuiet
  <2>1. GuardCountSubtree(n) = Cardinality(GuardsUnder(n))
    BY QuietGuardCount
  <2>2. ASSUME IsZero(n) PROVE GuardsUnder(n) = {}
    <3>1. GuardCounted
      BY GuardCountedNow DEF AllInv
    <3> QED
      BY <2>2, <3>1 DEF GuardsUnder, GuardCounted, IsZero
  <2>3. ASSUME Stopped(n), GuardsUnder(n) = {} PROVE IsZero(n)
    BY <2>3, QuietZero
  <2> QED
    BY <2>1, <2>2, <2>3
<1> QED
  BY <1>1, AllLayers, PTL

-----------------------------------------------------------------------------
(* What the refinement needs of the agendas.                               *)

(* block_on_shutdown_completion holds its completion, and no two calls the *)
(* same one.                                                               *)
BlockAlone ==
  \A t \in Thread : \A i \in 1 .. Len(agenda[t]) : agenda[t][i].do = "block" =>
    Len(agenda[t]) = 1 /\ future[agenda[t][i].node] # "none"
BlockOnce ==
  \A t, u \in Thread :
    /\ Len(agenda[t]) = 1 /\ agenda[t][1].do = "block"
    /\ Len(agenda[u]) = 1 /\ agenda[u][1].do = "block"
    /\ agenda[t][1].node = agenda[u][1].node
    => t = u

(* shut_down stops its node before it makes the completion.                *)
WatchLast ==
  \A t \in Thread : \A i \in 1 .. Len(agenda[t]) : agenda[t][i].do = "watch" =>
    /\ i = Len(agenda[t])
    /\ \/ Stopped(agenda[t][i].node)
       \/ i = 2 /\ agenda[t][1].do = "stop" /\ agenda[t][1].node = agenda[t][i].node

(* The children of a node are stopped once the node is.                    *)
KidsAfter ==
  \A t \in Thread : \A i \in 1 .. Len(agenda[t]) :
    agenda[t][i].do \in {"snapshot", "stopKids"} => Stopped(agenda[t][i].node)

(* The causes of a stop.                                                   *)
Caused(t, n) ==
  \/ Asking(t) = n
  \/ n = Root /\ ~Governed(Root)
  \/ n # Root /\ Stopped(Parent[n])
StopCaused ==
  \A t \in Thread : \A i \in 1 .. Len(agenda[t]) :
    agenda[t][i].do = "stop" => Caused(t, agenda[t][i].node)

CauseInv == BlockAlone /\ BlockOnce /\ WatchLast /\ KidsAfter /\ StopCaused

(* Agendas of one and of two tasks.                                        *)
LEMMA BegunOneHas ==
  ASSUME IInv, NEW t \in Thread, NEW x \in Task, Begin(t, <<x>>)
  PROVE  Len(agenda'[t]) = 1 /\ agenda'[t][1] = x
<1> DEFINE q == <<x>>
<1>1. q \in Seq(Task) /\ Len(q) = 1 /\ q[1] = x /\ Begin(t, q)
  OBVIOUS
<1> HIDE DEF q
<1>2. agenda'[t] = q
  BY <1>1, BeginJobs DEF IInv, OwnerTypes
<1> QED
  BY <1>1, <1>2

(* What an operation of two tasks has on its agenda.                       *)
LEMMA BegunTwoHas ==
  ASSUME IInv, NEW t \in Thread, NEW x \in Task, NEW y \in Task, Begin(t, <<x, y>>)
  PROVE  Len(agenda'[t]) = 2 /\ agenda'[t][1] = x /\ agenda'[t][2] = y
<1> DEFINE q == <<x, y>>
<1>1. q \in Seq(Task) /\ Len(q) = 2 /\ q[1] = x /\ q[2] = y /\ Begin(t, q)
  OBVIOUS
<1> HIDE DEF q
<1>2. agenda'[t] = q
  BY <1>1, BeginJobs DEF IInv, OwnerTypes
<1> QED
  BY <1>1, <1>2

(* block_on_shutdown_completion and shut_down.                             *)
LEMMA BlockHas ==
  ASSUME IInv, NEW t \in Thread, NEW n \in Node, BlockOnShutdown(t, n)
  PROVE  Len(agenda'[t]) = 1 /\ agenda'[t][1].do = "block" /\ agenda'[t][1].node = n
<1> DEFINE x == TaskOn("block", n)
<1>1. x \in Task /\ x.do = "block" /\ x.node = n
  BY FreshJob DEF TaskName
<1>2. Begin(t, <<x>>)
  BY DEF BlockOnShutdown
<1> HIDE DEF x
<1> QED
  BY <1>1, <1>2, BegunOneHas

(* shut_down() is a stop, then a completion to return.                     *)
LEMMA ShutDownHas ==
  ASSUME IInv, NEW t \in Thread, NEW n \in Node, ShutDown(t, n)
  PROVE  /\ Len(agenda'[t]) = 2
         /\ agenda'[t][1].do = "stop" /\ agenda'[t][1].node = n
         /\ agenda'[t][2].do = "watch" /\ agenda'[t][2].node = n
<1> DEFINE x == TaskOn("stop", n)
           y == TaskOn("watch", n)
<1>1. /\ x \in Task /\ x.do = "stop" /\ x.node = n
      /\ y \in Task /\ y.do = "watch" /\ y.node = n
  BY FreshJob DEF TaskName
<1>2. Begin(t, <<x, y>>)
  BY DEF ShutDown
<1> HIDE DEF x, y
<1> QED
  BY <1>1, <1>2, BegunTwoHas

(* A completion goes when it is dropped.                                   *)
LEMMA FutureGone ==
  ASSUME IInv, [Next]_vars, NEW n \in Node, future[n] # "none", future'[n] = "none"
  PROVE  \E u \in Thread : DropFuture(u, n) \/ (Unblock(u) /\ Head(agenda[u]).node = n)
<1>0. future \in [Node -> {"none", "resolved"} \cup Unresolved]
  BY DEF IInv, OwnerTypes
<1>1. ASSUME NEW k, NotifyZero(k) PROVE FALSE
  BY <1>0, <1>1, SMTT(60) DEF NotifyZero
<1>2. ASSUME NEW t \in Thread, Walk(t) PROVE FALSE
  BY <1>1, <1>2, SMTT(60) DEF Walk, Guarded, ArriveShard, ArriveNode, CasShard, CasNode,
              DepartShard, Flush, DepartNode, DepartNotify, Unarrive, owners
<1>3. ASSUME NEW t \in Thread, Proceed(t) PROVE Unblock(t) /\ Head(agenda[t]).node = n
  <2>1. CASE Watch(t)
    BY <1>0, <2>1 DEF Watch
  <2>2. CASE Unblock(t)
    BY <1>0, <2>2 DEF Unblock
  <2> QED
    BY <1>1, <1>3, <2>1, <2>2
       DEF Proceed, Stop, Latch, Snapshot, StopKids, StopNotify, Release, Deregister,
           Register, Check, Adopt, GuardReturned, Upgrade, owners
<1>4. ASSUME NEW t \in Thread, Call(t) PROVE DropFuture(t, n)
  <2>1. \/ \E k \in Node : AwaitSwansong(t, k) \/ BlockOnShutdown(t, k)
        \/ \E k \in Node : DropFuture(t, k)
    BY <1>4 DEF Call, NewGuard, ForShard, CloneGuard, DropGuard, CloneSwansong,
                DropSwansong, ShutDown, NewChild, owners
  <2>2. CASE \E k \in Node : AwaitSwansong(t, k) \/ BlockOnShutdown(t, k)
    BY <1>0, <2>2 DEF AwaitSwansong, BlockOnShutdown
  <2>3. CASE \E k \in Node : DropFuture(t, k)
    <3>1. PICK k \in Node : DropFuture(t, k)
      BY <2>3
    <3>2. k = n
      BY <1>0, <3>1 DEF DropFuture
    <3> QED
      BY <3>1, <3>2
  <2> QED
    BY <2>1, <2>2, <2>3
<1>5. ASSUME NEW k \in Node, Poll(k) PROVE FALSE
  BY <1>0, <1>5 DEF Poll, StillWaiting, Keep
<1> QED
  BY <1>2, <1>3, <1>4, <1>5 DEF Next, vars, owners

(* A block task is old and its agenda has not changed, or just begun.      *)
LEMMA BlockOrigin ==
  ASSUME IInv, OwnInv, BlockAlone, [Next]_vars, NEW t \in Thread,
         NEW j \in 1 .. Len(agenda'[t]), agenda'[t][j].do = "block"
  PROVE  /\ j = 1 /\ Len(agenda'[t]) = 1 /\ agenda'[t][j].node \in Node
         /\ \/ /\ agenda'[t] = agenda[t] /\ ~Proceed(t)
               /\ 1 \in 1 .. Len(agenda[t]) /\ Len(agenda[t]) = 1
            \/ agenda[t] = <<>> /\ BlockOnShutdown(t, agenda'[t][j].node)
<1>0. agenda'[t][j].node \in Node
  BY TaskOrigin DEF Task
<1>1. CASE \E i \in 1 .. Len(agenda[t]) :
             agenda[t][i] = agenda'[t][j] /\ (i # 1 \/ ~Proceed(t))
  <2>1. PICK i \in 1 .. Len(agenda[t]) :
             agenda[t][i] = agenda'[t][j] /\ (i # 1 \/ ~Proceed(t))
    BY <1>1
  <2>2. Len(agenda[t]) = 1 /\ i = 1 /\ ~Proceed(t) /\ agenda[t] # <<>>
    <3>1. agenda[t] \in Seq(Task)
      BY DEF IInv, OwnerTypes
    <3>2. Len(agenda[t]) = 1
      BY <2>1 DEF BlockAlone
    <3> QED
      BY <2>1, <3>1, <3>2
  <2>3. agenda'[t] = agenda[t]
    BY <2>2, StepRows
  <2> QED
    BY <1>0, <2>2, <2>3
<1>2. CASE FreshTask(t, agenda'[t][j])
  BY <1>2 DEF FreshTask
<1>3. CASE agenda[t] = <<>> /\ BegunTask(t, agenda'[t][j])
  <2> DEFINE n == agenda'[t][j].node
  <2>1. BlockOnShutdown(t, n)
    BY <1>3 DEF BegunTask
  <2> HIDE DEF n
  <2>2. Len(agenda'[t]) = 1
    BY <1>0, <2>1, BlockHas DEF n
  <2> QED
    BY <1>0, <1>3, <2>1, <2>2 DEF n
<1> QED
  BY <1>1, <1>2, <1>3, TaskOrigin

(* BlockAlone and BlockOnce.                                               *)
LEMMA BlockNext ==
  ASSUME IInv, OwnInv, BlockAlone, BlockOnce, [Next]_vars
  PROVE  BlockAlone' /\ BlockOnce'
<1>1. ASSUME NEW t \in Thread, NEW j \in 1 .. Len(agenda'[t]), agenda'[t][j].do = "block"
      PROVE  Len(agenda'[t]) = 1 /\ future'[agenda'[t][j].node] # "none"
  <2> DEFINE n == agenda'[t][j].node
  <2>1. j = 1 /\ Len(agenda'[t]) = 1 /\ n \in Node
    BY <1>1, BlockOrigin
  <2>2. CASE BlockOnShutdown(t, n)
    BY <2>1, <2>2 DEF BlockOnShutdown, IInv, OwnerTypes
  <2>3. CASE /\ agenda'[t] = agenda[t] /\ ~Proceed(t)
             /\ 1 \in 1 .. Len(agenda[t]) /\ Len(agenda[t]) = 1
    <3>0. agenda[t][1].do = "block" /\ agenda[t][1].node = n
      BY <1>1, <2>1, <2>3
    <3>1. future[n] # "none"
      BY <2>3, <3>0 DEF BlockAlone
    <3> SUFFICES ASSUME future'[n] = "none" PROVE FALSE
      BY <2>1
    <3>2. PICK u \in Thread : DropFuture(u, n) \/ (Unblock(u) /\ Head(agenda[u]).node = n)
      BY <2>1, <3>1, FutureGone
    <3>3. ~DropFuture(u, n)
      <4>1. Blocked(n)
        <5>1. agenda[t] \in Seq(Task)
          BY DEF IInv, OwnerTypes
        <5>2. 1 \in DOMAIN agenda[t]
          BY <2>3, <5>1
        <5> QED
          BY <3>0, <5>2 DEF Blocked
      <4> QED
        BY <4>1 DEF DropFuture
    <3>4. ~Unblock(u)
      <4> SUFFICES ASSUME Unblock(u) PROVE FALSE
        OBVIOUS
      <4>1. /\ 1 \in 1 .. Len(agenda[u]) /\ Head(agenda[u]) = agenda[u][1]
            /\ agenda[u][1].do = "block"
        BY DoingJob DEF Unblock
      <4>2. Len(agenda[u]) = 1 /\ agenda[u][1].node = n
        BY <3>2, <3>3, <4>1 DEF BlockAlone
      <4>3. u = t
        BY <2>3, <3>0, <4>1, <4>2 DEF BlockOnce
      <4> QED
        BY <2>3, <4>3 DEF Proceed
    <3> QED
      BY <3>2, <3>3, <3>4
  <2> QED
    BY <1>1, <2>1, <2>2, <2>3, BlockOrigin
<1>2. BlockAlone'
  BY <1>1 DEF BlockAlone
<1>3. ASSUME NEW t \in Thread, NEW u \in Thread,
             Len(agenda'[t]) = 1, agenda'[t][1].do = "block",
             Len(agenda'[u]) = 1, agenda'[u][1].do = "block",
             agenda'[t][1].node = agenda'[u][1].node, t # u
      PROVE  FALSE
  <2> DEFINE n == agenda'[t][1].node
  <2>0. 1 \in 1 .. Len(agenda'[t]) /\ 1 \in 1 .. Len(agenda'[u])
    BY <1>3
  <2>1. /\ n \in Node
        /\ \/ agenda'[t] = agenda[t] /\ 1 \in 1 .. Len(agenda[t]) /\ Len(agenda[t]) = 1
           \/ agenda[t] = <<>> /\ BlockOnShutdown(t, n)
    BY <1>3, <2>0, BlockOrigin
  <2>2. \/ agenda'[u] = agenda[u] /\ 1 \in 1 .. Len(agenda[u]) /\ Len(agenda[u]) = 1
        \/ agenda[u] = <<>> /\ BlockOnShutdown(u, n)
    BY <1>3, <2>0, BlockOrigin
  <2>3. ASSUME NEW k \in Thread, BlockOnShutdown(k, n)
        PROVE  Rest(k) /\ future[n] = "none"
    <3>1. Rest(k)
      <4>1. Begin(k, <<TaskOn("block", n)>>)
        BY <2>3 DEF BlockOnShutdown
      <4>2. \A v \in Thread \ {k} : agenda'[v] = agenda[v]
        BY <4>1 DEF Begin, IInv, OwnerTypes
      <4>3. UNCHANGED <<pc, cell, from, saved, seen, resume>>
        BY <2>3 DEF BlockOnShutdown, walk
      <4> QED
        BY <4>2, <4>3 DEF Rest, SameRow
    <3> QED
      BY <2>3, <3>1 DEF BlockOnShutdown, Untracked
  <2>4. ASSUME NEW k \in Thread, 1 \in 1 .. Len(agenda[k]), agenda'[k] = agenda[k],
               agenda'[k][1].do = "block", agenda'[k][1].node = n
        PROVE  future[n] # "none"
    BY <2>4 DEF BlockAlone
  <2>5. CASE /\ agenda'[t] = agenda[t] /\ Len(agenda[t]) = 1 /\ 1 \in 1 .. Len(agenda[t])
             /\ agenda'[u] = agenda[u] /\ Len(agenda[u]) = 1
    BY <1>3, <2>5 DEF BlockOnce
  <2>6. CASE BlockOnShutdown(t, n)
    <3>1. agenda'[u] = agenda[u] /\ future[n] = "none"
      BY <1>3, <2>3, <2>6 DEF Rest
    <3>2. 1 \in 1 .. Len(agenda[u])
      BY <2>0, <3>1
    <3> QED
      BY <1>3, <2>4, <3>1, <3>2
  <2>7. CASE BlockOnShutdown(u, n)
    <3>1. agenda'[t] = agenda[t] /\ future[n] = "none"
      BY <1>3, <2>3, <2>7 DEF Rest
    <3>2. 1 \in 1 .. Len(agenda[t])
      BY <2>0, <3>1
    <3> QED
      BY <1>3, <2>4, <3>1, <3>2
  <2> QED
    BY <2>1, <2>2, <2>5, <2>6, <2>7
<1>4. BlockOnce'
  BY <1>3 DEF BlockOnce
<1> QED
  BY <1>2, <1>4

(* Where a watch task stands after a step.                                 *)
LEMMA WatchOrigin ==
  ASSUME IInv, OwnInv, [Next]_vars, NEW t \in Thread,
         NEW j \in 1 .. Len(agenda'[t]), agenda'[t][j].do = "watch"
  PROVE  \/ agenda'[t] = agenda[t] /\ ~Proceed(t)
         \/ /\ Proceed(t) /\ agenda[t] # <<>>
            /\ \E i \in 2 .. Len(agenda[t]) :
                 /\ agenda'[t][j] = agenda[t][i]
                 /\ i = Len(agenda[t]) => j = Len(agenda'[t])
         \/ agenda[t] = <<>> /\ ShutDown(t, agenda'[t][j].node)
<1>0. agenda \in [Thread -> Seq(Task)]
  BY DEF IInv, OwnerTypes
<1>1. CASE Proceed(t)
  <2>1. agenda[t] # <<>> /\ \E q : FreshTasks(t, q)
    BY <1>1, ProceedThen
  <2>2. PICK q : FreshTasks(t, q)
    BY <2>1
  <2>3. q \in Seq(Task) /\ Then(t, q)
    BY <2>2 DEF FreshTasks
  <2>4. ASSUME j \in 1 .. Len(q), agenda'[t][j] = q[j] PROVE FALSE
    <3>1. q[j] \in Task /\ FreshTask(t, q[j])
      BY <2>2, <2>3, <2>4 DEF FreshTasks
    <3> QED
      BY <2>4, <3>1 DEF FreshTask
  <2>5. \E i \in 2 .. Len(agenda[t]) :
          j = i - 1 + Len(q) /\ agenda'[t][j] = agenda[t][i]
    BY <1>0, <2>1, <2>3, <2>4, ThenPositions
  <2>6. /\ Len(agenda[t]) \in Nat \ {0} /\ Len(q) \in Nat
        /\ Len(agenda'[t]) = Len(q) + Len(agenda[t]) - 1
    BY <1>0, <2>1, <2>3, ThenJobs
  <2> QED
    BY <1>1, <2>1, <2>5, <2>6
<1>2. CASE ~Proceed(t) /\ agenda'[t] # agenda[t]
  <2>1. agenda[t] = <<>>
    BY <1>2, StepRows
  <2>2. BegunTask(t, agenda'[t][j])
    BY <1>2, <2>1, TaskOrigin
  <2> QED
    BY <2>1, <2>2 DEF BegunTask
<1> QED
  BY <1>1, <1>2

(* WatchLast.                                                              *)
LEMMA WatchLastNext ==
  ASSUME IInv, OwnInv, WatchLast, [Next]_vars
  PROVE  WatchLast'
<1> SUFFICES ASSUME NEW t \in Thread, NEW j \in 1 .. Len(agenda'[t]),
                    agenda'[t][j].do = "watch"
             PROVE  /\ j = Len(agenda'[t])
                    /\ \/ STOPPED \in nodeState'[agenda'[t][j].node].flags
                       \/ /\ j = 2 /\ agenda'[t][1].do = "stop"
                          /\ agenda'[t][1].node = agenda'[t][j].node
  BY DEF WatchLast, Stopped
<1> DEFINE n == agenda'[t][j].node
<1>0. n \in Node
  BY TaskOrigin DEF Task
<1>1. CASE agenda'[t] = agenda[t] /\ ~Proceed(t)
  <2>1. /\ j = Len(agenda[t])
        /\ \/ Stopped(n)
           \/ j = 2 /\ agenda[t][1].do = "stop" /\ agenda[t][1].node = n
    BY <1>1 DEF WatchLast
  <2>2. Stopped(n) => STOPPED \in nodeState'[n].flags
    BY <1>0, StopMoves
  <2> QED
    BY <1>1, <2>1, <2>2
<1>2. CASE /\ Proceed(t) /\ agenda[t] # <<>>
           /\ \E i \in 2 .. Len(agenda[t]) :
                 /\ agenda'[t][j] = agenda[t][i]
                 /\ i = Len(agenda[t]) => j = Len(agenda'[t])
  <2>1. PICK i \in 2 .. Len(agenda[t]) :
                 /\ agenda'[t][j] = agenda[t][i]
                 /\ i = Len(agenda[t]) => j = Len(agenda'[t])
    BY <1>2
  <2>2. i \in 1 .. Len(agenda[t]) /\ agenda[t][i].do = "watch" /\ agenda[t][i].node = n
    BY <2>1
  <2>3. /\ i = Len(agenda[t])
        /\ \/ Stopped(n)
           \/ i = 2 /\ agenda[t][1].do = "stop" /\ agenda[t][1].node = n
    BY <2>2 DEF WatchLast
  <2>4. CASE Stopped(n)
    BY <1>0, <2>1, <2>3, <2>4, StopMoves
  <2>5. CASE i = 2 /\ agenda[t][1].do = "stop" /\ agenda[t][1].node = n
    <3>1. Head(agenda[t]) = agenda[t][1]
      BY <1>2, AgendaHead DEF IInv
    <3>2. Stop(t)
      BY <1>2, <2>5, <3>1, HeadAction
    <3>3. STOPPED \in nodeState'[n].flags
      BY <1>0, <2>5, <3>1, <3>2 DEF Stop, IInv, CoreInv, WordTypes, NodeWord
    <3> QED
      BY <2>1, <2>3, <3>3
  <2> QED
    BY <2>3, <2>4, <2>5
<1>3. CASE agenda[t] = <<>> /\ ShutDown(t, n)
  <2> HIDE DEF n
  <2>1. /\ Len(agenda'[t]) = 2
        /\ agenda'[t][1].do = "stop" /\ agenda'[t][1].node = n
        /\ agenda'[t][2].do = "watch" /\ agenda'[t][2].node = n
    BY <1>0, <1>3, ShutDownHas
  <2>2. j = 2
    BY <2>1
  <2> QED
    BY <2>1, <2>2 DEF n
<1> QED
  BY <1>1, <1>2, <1>3, WatchOrigin

(* KidsAfter.                                                              *)
LEMMA KidsAfterNext ==
  ASSUME IInv, OwnInv, KidsAfter, [Next]_vars
  PROVE  KidsAfter'
<1> SUFFICES ASSUME NEW t \in Thread, NEW j \in 1 .. Len(agenda'[t]),
                    agenda'[t][j].do \in {"snapshot", "stopKids"}
             PROVE  STOPPED \in nodeState'[agenda'[t][j].node].flags
  BY DEF KidsAfter, Stopped
<1> DEFINE n == agenda'[t][j].node
<1>0. n \in Node
  BY TaskOrigin DEF Task
<1>1. CASE \E i \in 1 .. Len(agenda[t]) : agenda[t][i] = agenda'[t][j]
  <2>1. Stopped(n)
    BY <1>1 DEF KidsAfter
  <2> QED
    BY <1>0, <2>1, StopMoves
<1>2. CASE agenda[t] # <<>> /\ FreshTask(t, agenda'[t][j])
  <2>1. /\ 1 \in 1 .. Len(agenda[t]) /\ Head(agenda[t]) = agenda[t][1]
    BY <1>2, AgendaHead DEF IInv
  <2>2. n = agenda[t][1].node /\ (Stop(t) \/ Snapshot(t) \/ StopKids(t))
    BY <1>2, <2>1 DEF FreshTask
  <2>3. CASE Stop(t)
    BY <1>0, <2>1, <2>2, <2>3, SMTT(60) DEF Stop, IInv, CoreInv, WordTypes, NodeWord
  <2>4. CASE Snapshot(t) \/ StopKids(t)
    <3>1. agenda[t][1].do \in {"snapshot", "stopKids"}
      BY <2>1, <2>4 DEF Snapshot, StopKids, Doing
    <3>2. Stopped(n)
      BY <2>1, <2>2, <3>1 DEF KidsAfter
    <3> QED
      BY <1>0, <3>2, StopMoves
  <2> QED
    BY <2>2, <2>3, <2>4
<1>3. CASE BegunTask(t, agenda'[t][j])
  BY <1>3 DEF BegunTask
<1> QED
  BY <1>1, <1>2, <1>3, TaskOrigin

(* A node comes to be governed only when child() makes it.                 *)
KeyTask(t, n) ==
  \E i \in 1 .. Len(agenda[t]) :
    agenda[t][i].do \in {"adopt", "block"} /\ agenda[t][i].node = n

(* A node is governed by a handle or by a task that has one.               *)
LEMMA GovernedBy ==
  ASSUME agenda \in [Thread -> Seq(Task)], NEW n
  PROVE  Governed(n) <=> handles[n] > 0 \/ \E t \in Thread : KeyTask(t, n)
<1>1. \A t \in Thread : DOMAIN agenda[t] = 1 .. Len(agenda[t])
  <2> TAKE t \in Thread
  <2>1. agenda[t] \in Seq(Task)
    OBVIOUS
  <2> QED
    BY <2>1
<1> QED
  BY <1>1 DEF Governed, KeyTask

(* The same after a step.                                                  *)
LEMMA GovernedByNext ==
  ASSUME IInv, [Next]_vars, NEW n
  PROVE  Governed(n)' <=> handles'[n] > 0 \/ \E t \in Thread : KeyTask(t, n)'
<1>0. agenda' \in [Thread -> Seq(Task)]
  BY OwnersNext DEF OwnerTypes
<1>1. \A t \in Thread : DOMAIN agenda'[t] = 1 .. Len(agenda'[t])
  <2> TAKE t \in Thread
  <2>1. agenda'[t] \in Seq(Task)
    BY <1>0
  <2> QED
    BY <2>1
<1> QED
  BY <1>1 DEF Governed, KeyTask

(* A call that counts a handle.                                            *)
LEMMA HandleRises ==
  ASSUME IInv, [Next]_vars, NEW n \in Node, handles[n] = 0, handles'[n] > 0
  PROVE  \E t \in Thread : Adopt(t) /\ Head(agenda[t]).node = n
<1>0. handles \in [Node -> Nat]
  BY SMTT(60) DEF IInv, OwnerTypes
<1>1. ASSUME NEW t \in Thread, Walk(t) PROVE FALSE
  BY <1>1 DEF Walk, Guarded, ArriveShard, ArriveNode, CasShard, CasNode,
              DepartShard, Flush, DepartNode, DepartNotify, Unarrive, owners
<1>2. ASSUME NEW t \in Thread, Proceed(t) PROVE Adopt(t) /\ Head(agenda[t]).node = n
  <2>0. handles' # handles
    BY <1>0, SMTT(60)
  <2>1. Adopt(t)
    BY <1>2, <2>0 DEF Proceed, Stop, Latch, Snapshot, StopKids, StopNotify, Release, Deregister,
           Register, Check, GuardReturned, Upgrade, Watch, Unblock, owners
  <2> DEFINE k == Head(agenda[t]).node
  <2>2. handles' = [handles EXCEPT ![k] = 1]
    BY <2>1 DEF Adopt
  <2> HIDE DEF k
  <2>3. k = n
    BY <1>0, <2>2
  <2> QED
    BY <2>1, <2>3 DEF k
<1>3. ASSUME NEW t \in Thread, Call(t) PROVE FALSE
  <2>1. ASSUME NEW k \in Node, handles[k] > 0, handles' = [handles EXCEPT ![k] = @ - 1]
        PROVE  FALSE
    BY <1>0, <2>1
  <2>2. ASSUME NEW k \in Node, CloneSwansong(t, k) PROVE FALSE
    BY <1>0, <2>2 DEF CloneSwansong
  <2>3. handles' # handles
    BY <1>0
  <2>4. \E k \in Node : DropSwansong(t, k) \/ AwaitSwansong(t, k) \/ BlockOnShutdown(t, k)
    BY <1>3, <2>2, <2>3 DEF Call, NewGuard, ForShard, CloneGuard, DropGuard, ShutDown,
       NewChild, DropFuture, owners
  <2> QED
    BY <2>1, <2>4 DEF DropSwansong, AwaitSwansong, BlockOnShutdown, DropHandle
<1>4. ASSUME NEW k \in Node, Poll(k) PROVE FALSE
  BY <1>4 DEF Poll
<1> QED
  BY <1>1, <1>2, <1>3, <1>4 DEF Next, vars, owners

(* Nothing but its creation puts an ungoverned node under a handle.        *)
LEMMA GovernedRises ==
  ASSUME IInv, OwnInv, [Next]_vars, NEW n \in Node, ~Governed(n), Governed(n)'
  PROVE  n \in Child /\ \E t \in Thread : NewChild(t, n)
<1>0. agenda \in [Thread -> Seq(Task)] /\ handles \in [Node -> Nat]
  BY DEF IInv, OwnerTypes
<1>1. handles[n] = 0 /\ \A t \in Thread : ~KeyTask(t, n)
  BY <1>0, GovernedBy
<1>2. handles'[n] > 0 \/ \E t \in Thread : KeyTask(t, n)'
  BY GovernedByNext
<1>3. ASSUME handles'[n] > 0 PROVE FALSE
  <2>1. PICK t \in Thread : Adopt(t) /\ Head(agenda[t]).node = n
    BY <1>1, <1>3, HandleRises
  <2>2. /\ 1 \in 1 .. Len(agenda[t]) /\ Head(agenda[t]) = agenda[t][1]
        /\ agenda[t][1].do = "adopt"
    BY <2>1, DoingJob DEF Adopt
  <2> QED
    BY <1>1, <2>1, <2>2 DEF KeyTask
<1>t. PICK t \in Thread : KeyTask(t, n)'
  BY <1>2, <1>3
<1>4. PICK j \in 1 .. Len(agenda'[t]) :
        agenda'[t][j].do \in {"adopt", "block"} /\ agenda'[t][j].node = n
  BY <1>t DEF KeyTask
<1>5. CASE \E i \in 1 .. Len(agenda[t]) : agenda[t][i] = agenda'[t][j]
  BY <1>1, <1>4, <1>5 DEF KeyTask
<1>6. CASE FreshTask(t, agenda'[t][j])
  BY <1>4, <1>6 DEF FreshTask
<1>7. CASE BegunTask(t, agenda'[t][j])
  <2>1. CASE agenda'[t][j].do = "block"
    <3>1. BlockOnShutdown(t, n)
      BY <1>4, <1>7, <2>1 DEF BegunTask
    <3> QED
      BY <1>1, <3>1 DEF BlockOnShutdown
  <2>2. CASE agenda'[t][j].do = "adopt"
    <3>1. NewChild(t, n)
      BY <1>4, <1>7, <2>2 DEF BegunTask
    <3>2. agenda'[t][j] \in Task
      BY TaskOrigin
    <3>3. n # Root
      BY <1>4, <2>2, <3>2 DEF Task
    <3> QED
      BY <3>1, <3>3 DEF Child
  <2> QED
    BY <1>4, <2>1, <2>2
<1> QED
  BY <1>5, <1>6, <1>7, TaskOrigin

(* The root is not governed after a step that leaves it no handle and no   *)
(* call of block_on_shutdown_completion.                                   *)
LEMMA RootUngoverned ==
  ASSUME IInv, OwnInv, BlockAlone, [Next]_vars, handles'[Root] = 0,
         \A u \in Thread : KeyTask(u, Root) => Proceed(u),
         \A u \in Thread : ~BlockOnShutdown(u, Root)
  PROVE  ~Governed(Root)'
<1> SUFFICES ASSUME Governed(Root)' PROVE FALSE
  OBVIOUS
<1>1. PICK u \in Thread : KeyTask(u, Root)'
  BY GovernedByNext
<1>2. PICK j \in 1 .. Len(agenda'[u]) :
        agenda'[u][j].do \in {"adopt", "block"} /\ agenda'[u][j].node = Root
  BY <1>1 DEF KeyTask
<1>3. agenda'[u][j].do = "block"
  <2>1. agenda'[u][j] \in Task
    BY TaskOrigin
  <2> QED
    BY <1>2, <2>1 DEF Task
<1>4. agenda'[u] = agenda[u] /\ ~Proceed(u) /\ j \in 1 .. Len(agenda[u])
  BY <1>2, <1>3, BlockOrigin
<1>5. KeyTask(u, Root)
  BY <1>2, <1>4 DEF KeyTask
<1> QED
  BY <1>4, <1>5

(* StopCaused.                                                             *)
LEMMA StopCausedOld ==
  ASSUME IInv, OwnInv, CauseInv, WatchLast', [Next]_vars, NEW t \in Thread,
         NEW i \in 1 .. Len(agenda[t]), agenda[t][i].do = "stop", i # 1 \/ ~Proceed(t),
         NEW n \in Node, agenda[t][i].node = n
  PROVE  Caused(t, n)'
<1>0. Caused(t, n)
  BY DEF CauseInv, StopCaused
<1>1. CASE Asking(t) = n
  <2> DEFINE e == Len(agenda[t])
  <2>1. e > 0 /\ agenda[t][e].do = "watch" /\ agenda[t][e].node = n
    BY <1>1, TreeAssumption DEF Asking
  <2>2. e \in 1 .. Len(agenda[t]) /\ e # i
    BY <2>1
  <2>3. e # 1
    BY <2>1, <2>2
  <2>4. PICK j \in 1 .. Len(agenda'[t]) : agenda'[t][j] = agenda[t][e]
    BY <2>2, <2>3, TaskStays
  <2>5. agenda'[t][j].do = "watch" /\ agenda'[t][j].node = n
    BY <2>1, <2>4
  <2>6. j = Len(agenda'[t]) /\ Len(agenda'[t]) > 0
    BY <2>5 DEF WatchLast
  <2> QED
    BY <2>5, <2>6 DEF Caused, Asking
<1>2. CASE n = Root /\ ~Governed(Root)
  <2>1. ~Governed(Root)'
    BY <1>2, GovernedRises, TreeAssumption DEF Child
  <2> QED
    BY <1>2, <2>1 DEF Caused
<1>3. CASE n # Root /\ Stopped(Parent[n])
  <2>1. Parent[n] \in Node
    BY <1>3, TreeAssumption DEF Child
  <2>2. Stopped(Parent[n])'
    BY <1>3, <2>1, StopMoves DEF Stopped
  <2> QED
    BY <1>3, <2>2 DEF Caused
<1> QED
  BY <1>0, <1>1, <1>2, <1>3 DEF Caused

(* A stop that a step puts on an agenda has a cause: the handle that was   *)
(* the last of the root, or a parent that is stopped.                      *)
LEMMA StopCausedFresh ==
  ASSUME IInv, OwnInv, CauseInv, [Next]_vars, NEW t \in Thread, Proceed(t), agenda[t] # <<>>,
         NEW x \in Task, x.do = "stop", FreshTask(t, x), NEW n \in Node, x.node = n
  PROVE  Caused(t, n)'
<1>0. /\ 1 \in 1 .. Len(agenda[t]) /\ Head(agenda[t]) = agenda[t][1]
      /\ agenda[t] \in Seq(Task)
  BY AgendaHead DEF IInv, OwnerTypes
<1> DEFINE h == agenda[t][1]
<1>1. /\ h \in Task /\ h.node \in Node /\ h.kids \subseteq Child /\ JobOK(h)
      /\ h.do \in {"register", "check", "adopt"} => h.node \in Child
  BY <1>0, JobType DEF OwnInv, AgendaInv, JobsOK
<1>2. \/ StopKids(t) /\ n \in h.kids
      \/ Check(t) /\ n = h.node /\ Stopped(Parent[h.node])
      \/ Unblock(t) /\ n = h.node /\ h.node = Root /\ SwansongCount(Root) = 1
  BY <1>0 DEF FreshTask
<1>3. CASE StopKids(t) /\ n \in h.kids
  <2>1. h.do = "stopKids"
    BY <1>0, <1>3 DEF StopKids, Doing
  <2>2. Stopped(h.node)
    BY <1>0, <2>1 DEF CauseInv, KidsAfter
  <2>3. n # Root /\ Parent[n] = h.node
    BY <1>1, <1>3 DEF JobOK, Child
  <2>4. Stopped(Parent[n])'
    BY <1>1, <2>2, <2>3, StopMoves DEF Stopped
  <2> QED
    BY <2>3, <2>4 DEF Caused
<1>4. CASE Check(t) /\ n = h.node /\ Stopped(Parent[h.node])
  <2>1. h.do = "check"
    BY <1>0, <1>4 DEF Check, Doing
  <2>2. n # Root /\ Parent[n] \in Node
    BY <1>1, <1>4, <2>1, TreeAssumption DEF Child
  <2>3. Stopped(Parent[n])'
    BY <1>4, <2>2, StopMoves DEF Stopped
  <2> QED
    BY <2>2, <2>3 DEF Caused
<1>5. CASE Unblock(t) /\ n = h.node /\ h.node = Root /\ SwansongCount(Root) = 1
  <2>1. h.do = "block" /\ h.node = Root /\ UNCHANGED handles
    BY <1>0, <1>5 DEF Unblock, Doing
  <2>2. Blocked(Root)
    <3>1. 1 \in DOMAIN agenda[t]
      BY <1>0
    <3> QED
      BY <2>1, <3>1 DEF Blocked
  <2>3. handles[Root] = 0 /\ handles'[Root] = 0
    BY <1>5, <2>1, <2>2, TreeAssumption DEF SwansongCount, IInv, OwnerTypes
  <2>4. \A u \in Thread : ~BlockOnShutdown(u, Root)
    BY <2>3 DEF BlockOnShutdown
  <2>5. ASSUME NEW u \in Thread, KeyTask(u, Root) PROVE Proceed(u)
    <3>1. PICK i \in 1 .. Len(agenda[u]) :
            agenda[u][i].do \in {"adopt", "block"} /\ agenda[u][i].node = Root
      BY <2>5 DEF KeyTask
    <3>2. agenda[u][i].do = "block"
      BY <3>1, JobType DEF Child
    <3>3. Len(agenda[u]) = 1 /\ i = 1
      BY <3>2 DEF CauseInv, BlockAlone
    <3>4. Len(agenda[t]) = 1
      BY <1>0, <2>1 DEF CauseInv, BlockAlone
    <3>5. u = t
      BY <2>1, <3>1, <3>2, <3>3, <3>4 DEF CauseInv, BlockOnce
    <3> QED
      BY <3>5
  <2>6. ~Governed(Root)'
    BY <2>3, <2>4, <2>5, RootUngoverned DEF CauseInv
  <2> QED
    BY <1>5, <2>6 DEF Caused
<1> QED
  BY <1>2, <1>3, <1>4, <1>5

(* A stop that a call begins with has a cause: the call is shut_down, or   *)
(* it drops the last handle of the root.                                   *)
LEMMA StopCausedBegun ==
  ASSUME IInv, OwnInv, CauseInv, [Next]_vars, NEW t \in Thread,
         agenda[t] = <<>>, NEW j \in 1 .. Len(agenda'[t]), NEW x \in Task,
         x = agenda'[t][j], x.do = "stop", BegunTask(t, x), NEW n \in Node, x.node = n
  PROVE  Caused(t, n)'
<1>1. CASE ShutDown(t, n)
  <2>1. Len(agenda'[t]) = 2 /\ agenda'[t][2].do = "watch" /\ agenda'[t][2].node = n
    BY <1>1, ShutDownHas
  <2> QED
    BY <2>1 DEF Caused, Asking
<1>2. CASE n = Root /\ SwansongCount(Root) = 1 /\ DropHandle(t, Root)
  <2>0. agenda \in [Thread -> Seq(Task)] /\ handles \in [Node -> Nat]
    BY DEF IInv, OwnerTypes
  <2>1. handles[Root] = 1 /\ ~Blocked(Root) /\ handles'[Root] = 0
    BY <1>2, <2>0, TreeAssumption DEF DropHandle, SwansongCount
  <2>2. ASSUME NEW u \in Thread, BlockOnShutdown(u, Root) PROVE FALSE
    <3>1. Len(agenda'[u]) = 1 /\ agenda'[u][1].do = "block"
      BY <2>2, BlockHas, TreeAssumption
    <3>2. u # t
      BY <3>1
    <3>3. agenda'[t] = agenda[t]
      BY <2>0, <2>2, <3>2 DEF BlockOnShutdown, Begin
    <3> QED
      BY <3>3
  <2>3. ASSUME NEW u \in Thread, KeyTask(u, Root) PROVE FALSE
    <3>1. PICK i \in 1 .. Len(agenda[u]) :
            agenda[u][i].do \in {"adopt", "block"} /\ agenda[u][i].node = Root
      BY <2>3 DEF KeyTask
    <3>2. agenda[u][i].do = "block"
      BY <3>1, JobType DEF Child
    <3>3. agenda[u] \in Seq(Task)
      BY <2>0
    <3>4. i \in DOMAIN agenda[u]
      BY <3>3
    <3> QED
      BY <2>1, <3>1, <3>2, <3>4 DEF Blocked
  <2>4. ~Governed(Root)'
    BY <2>1, <2>2, <2>3, RootUngoverned DEF CauseInv
  <2> QED
    BY <1>2, <2>4 DEF Caused
<1> QED
  BY <1>1, <1>2 DEF BegunTask

(* Causes last as long as the stops they are for.                          *)
LEMMA StopCausedNext ==
  ASSUME IInv, OwnInv, CauseInv, [Next]_vars
  PROVE  StopCaused'
<1>1. WatchLast'
  BY WatchLastNext DEF CauseInv
<1> SUFFICES ASSUME NEW t \in Thread, NEW j \in 1 .. Len(agenda'[t]),
                    agenda'[t][j].do = "stop"
             PROVE  \A n \in Node : n = agenda'[t][j].node => Caused(t, n)'
  <2>1. ASSUME NEW t \in Thread, NEW j \in 1 .. Len(agenda'[t])
        PROVE  agenda'[t][j].node \in Node
    BY TaskOrigin DEF Task
  <2> QED
    BY <2>1 DEF StopCaused, Caused, Asking, Stopped
<1> SUFFICES ASSUME NEW n \in Node, n = agenda'[t][j].node
             PROVE  Caused(t, n)'
  OBVIOUS
<1>2. CASE \E i \in 1 .. Len(agenda[t]) :
             agenda[t][i] = agenda'[t][j] /\ (i # 1 \/ ~Proceed(t))
  BY <1>1, <1>2, StopCausedOld
<1>3. CASE Proceed(t) /\ agenda[t] # <<>> /\ FreshTask(t, agenda'[t][j])
  BY <1>3, TaskOrigin, StopCausedFresh
<1>4. CASE agenda[t] = <<>> /\ BegunTask(t, agenda'[t][j])
  BY <1>4, TaskOrigin, StopCausedBegun
<1> QED
  BY <1>2, <1>3, <1>4, TaskOrigin

(* The causes layer of the invariant.                                      *)
LEMMA InitCause ==
  ASSUME Init
  PROVE  CauseInv
<1>1. \A t \in Thread : Len(agenda[t]) = 0
  BY DEF Init
<1> QED
  BY <1>1 DEF CauseInv, BlockAlone, BlockOnce, WatchLast, KidsAfter, StopCaused

(* The invariant about causes is inductive.                                *)
LEMMA CauseNext ==
  ASSUME IInv, OwnInv, CauseInv, [Next]_vars
  PROVE  CauseInv'
BY BlockNext, WatchLastNext, KidsAfterNext, StopCausedNext DEF CauseInv

-----------------------------------------------------------------------------
(* What a step changes of the client's view.                               *)

(* The walk of a thread stops no node.                                     *)
LEMMA WalkStops ==
  ASSUME IInv, NEW t \in Thread, Walk(t), NEW n \in Node
  PROVE  Stopped(n)' <=> Stopped(n)
<1> USE DEF IInv, CoreInv
<1>0. nodeState \in [Node -> NodeWord]
  BY DEF WordTypes
<1>1. CASE UNCHANGED nodeState
  BY <1>1 DEF Stopped
<1>2. CASE ArriveNode(t)
  BY <1>0, <1>2 DEF ArriveNode, Stopped, NodeWord
<1>3. CASE CasNode(t)
  <2>1. PICK k \in Node : k = cell[t]
    BY <1>3 DEF CasNode, At, ControlOK, WalkOK, OnTrack, NodeLabel
  <2> DEFINE w == [flags |-> saved[t][k] \cup {ARRIVED}, count |-> 1,
                   at |-> MyShard[t][Parent[k]]]
  <2>2. \/ UNCHANGED nodeState
        \/ /\ nodeState[k] = EmptyNode(saved[t][k])
           /\ nodeState' = [nodeState EXCEPT ![k] = w]
    BY <1>3, <2>1 DEF CasNode
  <2>3. EmptyNode(saved[t][k]).flags = saved[t][k] /\ w.flags = saved[t][k] \cup {ARRIVED}
    BY DEF EmptyNode
  <2> HIDE DEF w
  <2> QED
    BY <1>0, <1>1, <2>2, <2>3 DEF Stopped, ARRIVED, STOPPED
<1>4. CASE DepartNode(t)
  <2>1. PICK k \in Node : k = cell[t]
    BY <1>4 DEF DepartNode, At, ControlOK, WalkOK, OnTrack, NodeLabel
  <2> DEFINE w == [nodeState[k] EXCEPT !.count = @ - 1]
  <2>2. nodeState' = [nodeState EXCEPT ![k] = w]
    BY <1>4, <2>1 DEF DepartNode
  <2>3. w.flags = nodeState[k].flags
    BY <1>0 DEF NodeWord
  <2> HIDE DEF w
  <2> QED
    BY <1>0, <2>2, <2>3 DEF Stopped
<1>5. CASE Unarrive(t)
  <2>1. PICK k \in Node : k = cell[t]
    BY <1>5 DEF Unarrive, At, ControlOK, WalkOK, OnTrack, NodeLabel
  <2>2. \/ UNCHANGED nodeState
        \/ /\ nodeState[k] = seen[t]
           /\ nodeState' = [nodeState EXCEPT ![k] = Unarrived(seen[t])]
    BY <1>5, <2>1 DEF Unarrive, StillEmpty
  <2>3. Unarrived(seen[t]).flags = seen[t].flags \cap {STOPPED}
    BY DEF Unarrived, EmptyNode
  <2> QED
    BY <1>0, <1>1, <2>2, <2>3 DEF Stopped
<1> QED
  BY <1>1, <1>2, <1>3, <1>4, <1>5
     DEF Walk, Guarded, ArriveShard, CasShard, DepartShard, Flush, DepartNotify, words

(* Keys and requests of a thread that goes on with its agenda.             *)
LEMMA KeysStay ==
  ASSUME IInv, NEW t \in Thread, Proceed(t), NEW n,
         Head(agenda[t]).do \notin {"adopt", "block"} \/ Head(agenda[t]).node # n
  PROVE  KeyTask(t, n)' <=> KeyTask(t, n)
<1>0. agenda \in [Thread -> Seq(Task)]
  BY DEF IInv, OwnerTypes
<1>1. agenda[t] # <<>> /\ \E q : FreshTasks(t, q)
  BY ProceedThen
<1>2. PICK q : FreshTasks(t, q)
  BY <1>1
<1>3. q \in Seq(Task) /\ Then(t, q) /\ Head(agenda[t]) = agenda[t][1]
  BY <1>1, <1>2, AgendaHead DEF FreshTasks, IInv
<1>4. /\ Len(agenda[t]) \in Nat \ {0} /\ Len(q) \in Nat
      /\ Len(agenda'[t]) = Len(q) + Len(agenda[t]) - 1
      /\ \A i \in 2 .. Len(agenda[t]) : agenda'[t][i - 1 + Len(q)] = agenda[t][i]
  BY <1>0, <1>1, <1>3, ThenJobs
<1>5. ASSUME KeyTask(t, n) PROVE KeyTask(t, n)'
  <2>1. PICK i \in 1 .. Len(agenda[t]) :
          agenda[t][i].do \in {"adopt", "block"} /\ agenda[t][i].node = n
    BY <1>5 DEF KeyTask
  <2>2. i # 1
    BY <1>3, <2>1
  <2>3. i - 1 + Len(q) \in 1 .. Len(agenda'[t]) /\ agenda'[t][i - 1 + Len(q)] = agenda[t][i]
    BY <1>4, <2>2
  <2> QED
    BY <2>1, <2>3 DEF KeyTask
<1>6. ASSUME KeyTask(t, n)' PROVE KeyTask(t, n)
  <2>1. PICK j \in 1 .. Len(agenda'[t]) :
          agenda'[t][j].do \in {"adopt", "block"} /\ agenda'[t][j].node = n
    BY <1>6 DEF KeyTask
  <2>2. ASSUME j \in 1 .. Len(q), agenda'[t][j] = q[j] PROVE FALSE
    <3>1. q[j] \in Task /\ FreshTask(t, q[j])
      BY <1>2, <1>3, <2>2 DEF FreshTasks
    <3> QED
      BY <2>1, <2>2, <3>1 DEF FreshTask
  <2>3. PICK i \in 2 .. Len(agenda[t]) : agenda'[t][j] = agenda[t][i]
    BY <1>0, <1>1, <1>3, <2>2, ThenPositions
  <2>4. i \in 1 .. Len(agenda[t])
    OBVIOUS
  <2> QED
    BY <2>1, <2>3, <2>4 DEF KeyTask
<1> QED
  BY <1>5, <1>6

(* A thread asks until the last task of its shut_down.                     *)
LEMMA AskStays ==
  ASSUME IInv, NEW t \in Thread, Proceed(t), Head(agenda[t]).do # "watch"
  PROVE  Asking(t)' = Asking(t)
<1>0. agenda \in [Thread -> Seq(Task)]
  BY DEF IInv, OwnerTypes
<1>1. agenda[t] # <<>> /\ \E q : FreshTasks(t, q)
  BY ProceedThen
<1>2. PICK q : FreshTasks(t, q)
  BY <1>1
<1>3. q \in Seq(Task) /\ Then(t, q) /\ Head(agenda[t]) = agenda[t][1]
  BY <1>1, <1>2, AgendaHead DEF FreshTasks, IInv
<1>4. /\ Len(agenda[t]) \in Nat \ {0} /\ Len(q) \in Nat
      /\ Len(agenda'[t]) = Len(q) + Len(agenda[t]) - 1
      /\ \A i \in 1 .. Len(q) : agenda'[t][i] = q[i]
      /\ \A i \in 2 .. Len(agenda[t]) : agenda'[t][i - 1 + Len(q)] = agenda[t][i]
  BY <1>0, <1>1, <1>3, ThenJobs
<1> DEFINE e == Len(agenda[t])
           f == Len(agenda'[t])
<1>5. CASE e > 1
  <2>1. e \in 2 .. Len(agenda[t]) /\ e - 1 + Len(q) = f /\ e > 0 /\ f > 0
    BY <1>4, <1>5
  <2>2. agenda'[t][f] = agenda[t][e]
    BY <1>4, <2>1
  <2> QED
    BY <2>1, <2>2 DEF Asking
<1>6. CASE e = 1
  <2>1. Asking(t) = NoNode
    BY <1>3, <1>6 DEF Asking
  <2>2. f = Len(q)
    BY <1>4, <1>6
  <2>3. ASSUME f > 0, agenda'[t][f].do = "watch" PROVE FALSE
    <3>1. f \in 1 .. Len(q) /\ agenda'[t][f] = q[f]
      BY <1>4, <2>2, <2>3
    <3>2. q[f] \in Task /\ FreshTask(t, q[f])
      BY <1>2, <1>3, <3>1 DEF FreshTasks
    <3> QED
      BY <2>3, <3>1, <3>2 DEF FreshTask
  <2> QED
    BY <2>1, <2>3 DEF Asking
<1>7. e > 1 \/ e = 1
  <2>1. e \in Nat \ {0}
    BY <1>4
  <2> HIDE DEF e
  <2> QED
    BY <2>1
<1> HIDE DEF e, f
<1> QED
  BY <1>5, <1>6, <1>7

(* An operation begins with no key and no request, and the plain ones      *)
(* bring none.                                                             *)
Plain(t) ==
  \A i \in 1 .. Len(agenda'[t]) : agenda'[t][i].do \notin {"adopt", "block", "watch"}

(* An idle thread has no handle on its agenda and asks for nothing.        *)
LEMMA IdleKeys ==
  ASSUME NEW t \in Thread, agenda[t] = <<>>
  PROVE  (\A n : ~KeyTask(t, n)) /\ Asking(t) = NoNode
BY DEF KeyTask, Asking

(* An operation without such tasks neither governs nor asks.               *)
LEMMA PlainKeys ==
  ASSUME IInv, [Next]_vars, NEW t \in Thread, agenda[t] = <<>>, Plain(t)
  PROVE  /\ \A n : KeyTask(t, n)' <=> KeyTask(t, n)
         /\ Asking(t)' = Asking(t)
<1>1. (\A n : ~KeyTask(t, n)) /\ Asking(t) = NoNode
  BY IdleKeys
<1>2. \A n : ~KeyTask(t, n)'
  BY DEF KeyTask, Plain
<1>3. agenda'[t] \in Seq(Task)
  BY OwnersNext DEF OwnerTypes
<1>4. Asking(t)' = NoNode
  <2>1. Len(agenda'[t]) > 0 => Len(agenda'[t]) \in 1 .. Len(agenda'[t])
    BY <1>3
  <2> QED
    BY <2>1 DEF Asking, Plain
<1> QED
  BY <1>1, <1>2, <1>4

(* A single task of another kind is such an operation.                     *)
LEMMA PlainOne ==
  ASSUME IInv, NEW t \in Thread, NEW do \in TaskName, NEW n \in Node,
         do \notin {"adopt", "block", "watch", "register", "check"},
         Begin(t, <<TaskOn(do, n)>>)
  PROVE  Plain(t)
<1> DEFINE x == TaskOn(do, n)
<1>1. x \in Task /\ x.do = do /\ Begin(t, <<x>>)
  BY FreshJob
<1> HIDE DEF x
<1>2. Len(agenda'[t]) = 1 /\ agenda'[t][1] = x
  BY <1>1, BegunOneHas
<1> QED
  BY <1>1, <1>2 DEF Plain

(* So is dropping a handle.                                                *)
LEMMA PlainDrop ==
  ASSUME IInv, NEW t \in Thread, NEW n \in Node, Begin(t, DropTasks(n))
  PROVE  Plain(t)
<1> DEFINE x == TaskOn("stop", n)
           y == TaskOn("release", n)
<1>1. /\ DropTasks(n) = <<y>> \/ DropTasks(n) = <<x, y>>
      /\ x \in Task /\ x.do = "stop"
      /\ y \in Task /\ y.do = "release"
  BY DropJobs
<1> HIDE DEF x, y
<1>2. CASE DropTasks(n) = <<y>>
  <2>1. Len(agenda'[t]) = 1 /\ agenda'[t][1] = y
    BY <1>1, <1>2, BegunOneHas
  <2> QED
    BY <1>1, <2>1 DEF Plain
<1>3. CASE DropTasks(n) = <<x, y>>
  <2>1. Len(agenda'[t]) = 2 /\ agenda'[t][1] = x /\ agenda'[t][2] = y
    BY <1>1, <1>3, BegunTwoHas
  <2> QED
    BY <1>1, <2>1 DEF Plain
<1> QED
  BY <1>1, <1>2, <1>3

-----------------------------------------------------------------------------
(* Every step is a step of Shutdown, or one that a client cannot see.      *)

Simulates == [Abstract!Next]_(Abstract!vars)

(* The frames of the six parts of the view.                                *)
SameLive == LiveNodes' = LiveNodes
SameGoverned == GovernedNodes' = GovernedNodes
SameMember == MemberOf' = MemberOf
SameAsking == AskingFor' = AskingFor
SameStopped == StoppedNodes' = StoppedNodes
SameCompletion == CompletionOf' = CompletionOf

(* Variables that do not change map to variables that do not.              *)
LEMMA ViewFrame ==
  /\ UNCHANGED life => SameLive
  /\ UNCHANGED home => SameMember
  /\ UNCHANGED nodeState => SameStopped
  /\ UNCHANGED future => SameCompletion
<1>1. UNCHANGED life => SameLive
  BY DEF SameLive, LiveNodes
<1>2. UNCHANGED home => SameMember
  BY DEF SameMember, MemberOf
<1>3. UNCHANGED nodeState => SameStopped
  BY DEF SameStopped, StoppedNodes, Stopped
<1>4. UNCHANGED future => SameCompletion
  BY DEF SameCompletion, CompletionOf
<1> QED
  BY <1>1, <1>2, <1>3, <1>4

(* A step that changes none of the abstract variables is a stutter.        *)
LEMMA Unseen ==
  ASSUME SameLive, SameGoverned, SameMember, SameAsking, SameStopped, SameCompletion
  PROVE  Simulates
BY DEF SameLive, SameGoverned, SameMember, SameAsking, SameStopped, SameCompletion,
       Simulates, Abstract!vars

(* A step of t that leaves its keys, its request and the handles alone.    *)
LEMMA GovernedStays ==
  ASSUME IInv, [Next]_vars, NEW t \in Thread,
         \A u \in Thread \ {t} : agenda'[u] = agenda[u], NEW n,
         (handles'[n] > 0) <=> (handles[n] > 0), KeyTask(t, n)' <=> KeyTask(t, n)
  PROVE  Governed(n)' <=> Governed(n)
<1>1. \A u \in Thread : KeyTask(u, n)' <=> KeyTask(u, n)
  BY DEF KeyTask
<1>2. Governed(n) <=> handles[n] > 0 \/ \E u \in Thread : KeyTask(u, n)
  BY GovernedBy DEF IInv, OwnerTypes
<1>3. Governed(n)' <=> handles'[n] > 0 \/ \E u \in Thread : KeyTask(u, n)'
  BY GovernedByNext
<1> QED
  BY <1>1, <1>2, <1>3

(* A step of one thread that moves no handle leaves nodes governed as they *)
(* were.                                                                   *)
LEMMA KeysFrame ==
  ASSUME IInv, [Next]_vars, NEW t \in Thread,
         \A u \in Thread \ {t} : agenda'[u] = agenda[u],
         \A n \in Node : (handles'[n] > 0) <=> (handles[n] > 0),
         \A n \in Node : KeyTask(t, n)' <=> KeyTask(t, n)
  PROVE  SameGoverned
<1>1. \A n \in Node : Governed(n)' <=> Governed(n)
  BY GovernedStays
<1> QED
  BY <1>1 DEF SameGoverned, GovernedNodes

(* A step of one thread that asks as before leaves all askers alone.       *)
LEMMA AskFrame ==
  ASSUME NEW t \in Thread, \A u \in Thread \ {t} : agenda'[u] = agenda[u],
         Asking(t)' = Asking(t)
  PROVE  SameAsking
<1>1. ASSUME NEW u \in Thread PROVE Asking(u)' = Asking(u)
  BY DEF Asking
<1> QED
  BY <1>1 DEF SameAsking, AskingFor

(* A step that moves no agenda and no handle changes neither.              *)
LEMMA AgendasFrame ==
  ASSUME UNCHANGED <<agenda, handles>>
  PROVE  SameGoverned /\ SameAsking
<1>1. SameGoverned
  BY DEF SameGoverned, GovernedNodes, Governed
<1>2. SameAsking
  BY DEF SameAsking, AskingFor, Asking
<1> QED
  BY <1>1, <1>2

(* A guard that comes, and one that goes.                                  *)
LEMMA Enters ==
  ASSUME IInv, OwnInv, [Next]_vars, NEW g \in Guard, NEW s \in Shard, home[g] = NoShard,
         home' = [home EXCEPT ![g] = s], UNCHANGED life,
         SameGoverned, SameAsking, SameStopped, SameCompletion
  PROVE  Simulates
<1> DEFINE n == NodeOf[s]
<1>1. n \in Node
  BY ShardAssumption
<1>2. home'[g] = s /\ s # NoShard
  BY ShardAssumption DEF IInv, CoreInv, WordTypes
<1>3. n # Root => n \in LiveNodes
  <2>1. OwnInv'
    BY OwnNext
  <2>2. n # Root => life'[n] = "live"
    BY <1>2, <2>1 DEF OwnInv, KeptAlive
  <2> QED
    BY <1>1, <2>2 DEF LiveNodes
<1>4. MemberOf[g] = NoNode /\ MemberOf' = [MemberOf EXCEPT ![g] = n]
  BY <1>2 DEF MemberOf, IInv, CoreInv, WordTypes
<1>5. SameLive
  BY ViewFrame
<1> HIDE DEF n
<1>6. Abstract!Enter(g, n)
  BY <1>3, <1>4, <1>5 DEF Abstract!Enter, SameLive, SameGoverned, SameAsking, SameStopped,
     SameCompletion
<1> QED
  BY <1>1, <1>6 DEF Simulates, Abstract!Next, Abstract!GuardStep

(* Uncounting a guard is Leave.                                            *)
LEMMA Leaves ==
  ASSUME IInv, NEW g \in Guard, home[g] # NoShard,
         home' = [home EXCEPT ![g] = NoShard],
         SameLive, SameGoverned, SameAsking, SameStopped, SameCompletion
  PROVE  Simulates
<1>1. home[g] \in Shard /\ NodeOf[home[g]] \in Node
  BY ShardAssumption DEF IInv, CoreInv, WordTypes
<1>2. MemberOf[g] # NoNode /\ MemberOf' = [MemberOf EXCEPT ![g] = NoNode]
  BY <1>1, TreeAssumption DEF MemberOf, IInv, CoreInv, WordTypes
<1>3. Abstract!Leave(g)
  BY <1>2 DEF Abstract!Leave, SameLive, SameGoverned, SameAsking, SameStopped,
     SameCompletion
<1> QED
  BY <1>3 DEF Simulates, Abstract!Next, Abstract!GuardStep

(* A notification does not change what a client sees of a completion.      *)
LEMMA NotifyUnseen ==
  ASSUME IInv, NEW n, NotifyZero(n)
  PROVE  SameCompletion
<1>0. future \in [Node -> {"none", "resolved"} \cup Unresolved]
  BY DEF IInv, OwnerTypes
<1>1. ASSUME NEW k \in Node
      PROVE  /\ future'[k] \in Unresolved <=> future[k] \in Unresolved
             /\ future[k] \notin Unresolved => future'[k] = future[k]
  BY <1>0 DEF NotifyZero, Unresolved
<1> QED
  BY <1>1 DEF SameCompletion, CompletionOf

(* A completion n that moves to another state.                             *)
LEMMA CompletionMoves ==
  ASSUME IInv, NEW n \in Node, NEW v, future' = [future EXCEPT ![n] = v]
  PROVE  CompletionOf' =
           [CompletionOf EXCEPT ![n] = IF v \in Unresolved THEN "pending" ELSE v]
BY DEF CompletionOf, IInv, OwnerTypes

(* A step of the walk.                                                     *)
LEMMA WalkSimulates ==
  ASSUME IInv, OwnInv, [Next]_vars, NEW t \in Thread, Walk(t)
  PROVE  Simulates
<1>1. SameStopped
  BY WalkStops DEF SameStopped, StoppedNodes
<1>2. UNCHANGED <<handles, life>> /\ SameLive
  <2>1. UNCHANGED <<handles, life>>
    BY SMTT(60) DEF Walk, Guarded, ArriveShard, ArriveNode, CasShard, CasNode, DepartShard, Flush,
           DepartNode, DepartNotify, Unarrive, owners
  <2> QED
    BY <2>1, ViewFrame
<1>3. SameCompletion
  <2>1. CASE DepartNotify(t)
    BY <2>1, NotifyUnseen DEF DepartNotify
  <2>2. CASE UNCHANGED future
    BY <2>2, ViewFrame
  <2> QED
    BY <2>1, <2>2 DEF Walk, Guarded, ArriveShard, ArriveNode, CasShard, CasNode, DepartShard,
           Flush, DepartNode, Unarrive, owners
<1>4. SameGoverned /\ SameAsking
  <2>1. CASE UNCHANGED agenda
    BY <1>2, <2>1, AgendasFrame
  <2>2. CASE agenda' # agenda
    <3>1. Guarded(t)
      BY <2>2 DEF Walk, ArriveShard, ArriveNode, CasShard, CasNode, DepartShard, Flush,
         DepartNode, DepartNotify, Unarrive
    <3>2. cell[t] \in Node
      BY <3>1 DEF Guarded, At, IInv, CoreInv, ControlOK, WalkOK, OnTrack, NodeLabel
    <3>3. agenda[t] = <<>> /\ Begin(t, <<TaskOn("release", cell[t])>>)
      BY <2>2, <3>1 DEF Guarded, At, OwnInv, WalksInv, ChainOK
    <3>4. Plain(t)
      BY <3>2, <3>3, PlainOne DEF TaskName
    <3>5. \A u \in Thread \ {t} : agenda'[u] = agenda[u]
      BY WalkRows
    <3>6. (\A n : KeyTask(t, n)' <=> KeyTask(t, n)) /\ Asking(t)' = Asking(t)
      BY <3>3, <3>4, PlainKeys
    <3> QED
      BY <1>2, <3>5, <3>6, KeysFrame, AskFrame, SMTT(60)
  <2> QED
    BY <2>1, <2>2
<1>5. CASE UNCHANGED home
  BY <1>1, <1>2, <1>3, <1>4, <1>5, ViewFrame, Unseen
<1>6. CASE home' # home
  <2>1. PICK s \in Shard : s = cell[t] /\ Counted(t, s)
    <3>1. CASE ArriveShard(t)
      <4>1. cell[t] \in Shard
        BY <3>1 DEF ArriveShard, At, IInv, CoreInv, ControlOK, WalkOK, OnTrack, ShardLabel
      <4> QED
        BY <1>6, <3>1, <4>1 DEF ArriveShard
    <3>2. CASE CasShard(t)
      <4>1. cell[t] \in Shard
        BY <3>2 DEF CasShard, At, IInv, CoreInv, ControlOK, WalkOK, OnTrack, ShardLabel
      <4> QED
        BY <1>6, <3>2, <4>1 DEF CasShard
    <3> QED
      BY <1>6, <3>1, <3>2 DEF Walk, Guarded, ArriveNode, CasNode, DepartShard, Flush,
         DepartNode, DepartNotify, Unarrive, owners
  <2>2. home' = [home EXCEPT ![making[t]] = s]
    BY <1>6, <2>1 DEF Counted
  <2>3. making[t] \in Guard /\ home[making[t]] = NoShard
    <3>1. making[t] \in Guard \cup {NoGuard}
      BY DEF IInv, CoreInv, WalkTypes
    <3>2. home \in [Guard -> Shard \cup {NoShard}]
      BY DEF IInv, CoreInv, WordTypes
    <3>3. making[t] \in Guard
      BY <1>6, <2>2, <3>1, <3>2
    <3> QED
      BY <3>3, ThreadAssumption DEF IInv, CoreInv, ControlOK, MakingOK
  <2> QED
    BY <1>1, <1>2, <1>3, <1>4, <2>2, <2>3, Enters
<1> QED
  BY <1>5, <1>6

(* A thread that goes on with its agenda, when its task is neither a key   *)
(* nor a request.                                                          *)
LEMMA ProceedFrame ==
  ASSUME IInv, OwnInv, [Next]_vars, NEW t \in Thread, Proceed(t), UNCHANGED handles,
         Head(agenda[t]).do \notin {"adopt", "block", "watch"}
  PROVE  SameGoverned /\ SameAsking
<1>1. \A u \in Thread \ {t} : agenda'[u] = agenda[u]
  BY ProceedRows DEF Rest
<1>2. \A n \in Node : KeyTask(t, n)' <=> KeyTask(t, n)
  BY KeysStay
<1>3. Asking(t)' = Asking(t)
  BY AskStays
<1> QED
  BY <1>1, <1>2, <1>3, KeysFrame, AskFrame

(* Inner::stop sets the bit: only for one of the three causes.             *)
LEMMA StopSimulates ==
  ASSUME IInv, OwnInv, DropProgress, CauseInv, [Next]_vars, NEW t \in Thread, Stop(t)
  PROVE  Simulates
<1>0. /\ 1 \in 1 .. Len(agenda[t]) /\ Head(agenda[t]) = agenda[t][1]
      /\ agenda[t][1].do = "stop" /\ agenda[t][1].node \in Node
  BY DoingJob DEF Stop
<1> DEFINE n == agenda[t][1].node
<1>1. SameGoverned /\ SameAsking /\ SameLive /\ SameMember /\ SameCompletion
  <2>1. UNCHANGED handles /\ UNCHANGED life /\ UNCHANGED home /\ UNCHANGED future
    BY DEF Stop, owners
  <2>2. Proceed(t)
    BY DEF Proceed
  <2> QED
    BY <1>0, <2>1, <2>2, ProceedFrame, ViewFrame
<1>2. nodeState' = [nodeState EXCEPT ![n].flags = @ \cup {STOPPED}]
  BY <1>0 DEF Stop
<1>3. life[n] = "live"
  <2>1. life[n] \in {"live", "dropping"}
    BY <1>0, UnusedNow DEF NoUseAfterCollection, Using
  <2> QED
    BY <1>0, <2>1, StopNotDropping
<1>4. Caused(t, n)
  BY <1>0 DEF CauseInv, StopCaused
<1>5. n \in Node
  BY <1>0
<1> HIDE DEF n
<1>6. StoppedNodes' = StoppedNodes \cup {n}
  <2>1. nodeState \in [Node -> NodeWord]
    BY DEF IInv, CoreInv, WordTypes
  <2>2. \A k \in Node : Stopped(k)' <=> Stopped(k) \/ k = n
    BY <1>2, <1>5, <2>1 DEF Stopped, NodeWord
  <2> QED
    BY <1>5, <2>2 DEF StoppedNodes
<1>7. CASE n \in StoppedNodes
  <2>1. SameStopped
    BY <1>6, <1>7 DEF SameStopped
  <2> QED
    BY <1>1, <2>1, Unseen
<1>8. CASE n \notin StoppedNodes
  <2>1. n \in LiveNodes \ StoppedNodes
    BY <1>3, <1>5, <1>8 DEF LiveNodes
  <2>2. \/ \E c \in Thread : AskingFor[c] = n
        \/ n = Root /\ n \notin GovernedNodes
        \/ n # Root /\ Parent[n] \in StoppedNodes
    <3>1. CASE Asking(t) = n
      BY <3>1 DEF AskingFor
    <3>2. CASE n = Root /\ ~Governed(Root)
      BY <3>2 DEF GovernedNodes
    <3>3. CASE n # Root /\ Stopped(Parent[n])
      BY <1>5, <3>3, TreeAssumption DEF StoppedNodes, Child
    <3> QED
      BY <1>4, <3>1, <3>2, <3>3 DEF Caused
  <2>3. Abstract!MustStop(n)
    BY <2>1, <2>2 DEF Abstract!MustStop
  <2>4. Abstract!Stop(n)
    BY <1>1, <1>6, <2>3 DEF Abstract!Stop, SameLive, SameGoverned, SameMember, SameAsking,
       SameCompletion
  <2> QED
    BY <1>5, <2>4 DEF Simulates, Abstract!Next, Abstract!NodeStep
<1> QED
  BY <1>7, <1>8

(* The end of shut_down.                                                   *)
LEMMA WatchSimulates ==
  ASSUME IInv, OwnInv, CauseInv, [Next]_vars, NEW t \in Thread, Watch(t)
  PROVE  Simulates
<1>0. /\ 1 \in 1 .. Len(agenda[t]) /\ Head(agenda[t]) = agenda[t][1] /\ agenda[t] # <<>>
      /\ agenda[t][1].do = "watch" /\ agenda[t][1].node \in Node
      /\ agenda \in [Thread -> Seq(Task)]
  BY DoingJob DEF Watch
<1> DEFINE n == agenda[t][1].node
<1>1. n \in Node /\ Len(agenda[t]) = 1 /\ Stopped(n)
  BY <1>0 DEF CauseInv, WatchLast
<1>2. /\ Then(t, <<>>) /\ UNCHANGED handles /\ UNCHANGED life /\ UNCHANGED home
      /\ UNCHANGED nodeState
      /\ \/ future[n] = "none" /\ future' = [future EXCEPT ![n] = "new"]
         \/ UNCHANGED future
  BY <1>0 DEF Watch, words, Untracked
<1>3. Asking(t) = n
  BY <1>0, <1>1 DEF Asking
<1> HIDE DEF n
<1>4. SameLive /\ SameMember /\ SameStopped
  BY <1>2, ViewFrame
<1>5. \A u \in Thread \ {t} : agenda'[u] = agenda[u]
  <2>1. Proceed(t)
    BY DEF Proceed
  <2> QED
    BY <2>1, ProceedRows DEF Rest
<1>6. SameGoverned
  <2>1. Proceed(t)
    BY DEF Proceed
  <2>2. \A k \in Node : KeyTask(t, k)' <=> KeyTask(t, k)
    BY <1>0, <2>1, KeysStay
  <2> QED
    BY <1>2, <1>5, <2>2, KeysFrame
<1>7. AskingFor' = [AskingFor EXCEPT ![t] = NoNode]
  <2> DEFINE q == <<>>
  <2>1. q \in Seq(Task) /\ Len(q) = 0 /\ Then(t, q)
    BY <1>2
  <2> HIDE DEF q
  <2>2. Len(agenda'[t]) = Len(q) + Len(agenda[t]) - 1
    BY <1>0, <2>1, ThenJobs
  <2>3. Asking(t)' = NoNode
    BY <1>1, <2>1, <2>2 DEF Asking
  <2>4. \A u \in Thread \ {t} : Asking(u)' = Asking(u)
    BY <1>5 DEF Asking
  <2> QED
    BY <2>3, <2>4 DEF AskingFor
<1>8. AskingFor[t] = n /\ n \in StoppedNodes
  BY <1>1, <1>3 DEF AskingFor, StoppedNodes
<1>9. \/ CompletionOf[n] = "none" /\ CompletionOf' = [CompletionOf EXCEPT ![n] = "pending"]
      \/ SameCompletion
  <2>1. CASE future[n] = "none" /\ future' = [future EXCEPT ![n] = "new"]
    <3>1. CompletionOf[n] = "none"
      BY <1>1, <2>1 DEF CompletionOf, Unresolved
    <3>2. CompletionOf' = [CompletionOf EXCEPT ![n] = "pending"]
      BY <1>1, <2>1, CompletionMoves DEF Unresolved
    <3> QED
      BY <3>1, <3>2
  <2> QED
    BY <1>2, <2>1, ViewFrame
<1>10. Abstract!Answer(t)
  BY <1>4, <1>6, <1>7, <1>8, <1>9
     DEF Abstract!Answer, SameLive, SameMember, SameStopped, SameGoverned, SameCompletion
<1> QED
  BY <1>10 DEF Simulates, Abstract!Next, Abstract!NodeStep

(* Dropping an Arc: a node that nothing keeps goes.                        *)
LEMMA ReleaseSimulates ==
  ASSUME IInv, OwnInv, CauseInv, [Next]_vars, NEW t \in Thread, Release(t)
  PROVE  Simulates
<1>0. /\ 1 \in 1 .. Len(agenda[t]) /\ Head(agenda[t]) = agenda[t][1] /\ agenda[t] # <<>>
      /\ agenda[t][1].do = "release" /\ agenda[t][1].node \in Node
      /\ agenda \in [Thread -> Seq(Task)] /\ JobOK(agenda[t][1])
  BY DoingJob DEF Release
<1> DEFINE n == agenda[t][1].node
           rest == [agenda EXCEPT ![t] = Tail(@)]
<1>1. /\ UNCHANGED handles /\ UNCHANGED home /\ UNCHANGED nodeState /\ UNCHANGED future
      /\ UNCHANGED life \/ (~Pinned(n, rest) /\ life' = [life EXCEPT ![n] = "dropping"])
  BY <1>0 DEF Release, words
<1>2. SameGoverned /\ SameAsking /\ SameMember /\ SameStopped /\ SameCompletion
  <2>1. Proceed(t)
    BY DEF Proceed
  <2> QED
    BY <1>0, <1>1, <2>1, ProceedFrame, ViewFrame
<1>3. CASE UNCHANGED life
  BY <1>2, <1>3, ViewFrame, Unseen
<1>4. CASE ~Pinned(n, rest) /\ life' = [life EXCEPT ![n] = "dropping"]
  <2>0. n \in Node /\ life[n] = "live"
    BY <1>0 DEF JobOK
  <2>1. n \in LiveNodes /\ LiveNodes' = LiveNodes \ {n}
    BY <1>4, <2>0 DEF LiveNodes, IInv, OwnerTypes
  <2>2. ~(handles[n] > 0) /\ future[n] = "none"
    BY <1>4 DEF Pinned
  <2>3. n \notin GovernedNodes
    <3> SUFFICES ASSUME Governed(n) PROVE FALSE
      BY DEF GovernedNodes
    <3>1. PICK u \in Thread : KeyTask(u, n)
      BY <1>0, <2>2, GovernedBy
    <3>2. PICK i \in 1 .. Len(agenda[u]) :
            agenda[u][i].do \in {"adopt", "block"} /\ agenda[u][i].node = n
      BY <3>1 DEF KeyTask
    <3>3. agenda[u][i].do = "adopt"
      BY <2>2, <3>2 DEF CauseInv, BlockAlone
    <3> DEFINE x == agenda[u][i]
    <3>4. Pending(t, x)
      <4>1. u = t => i # 1
        BY <1>0, <3>3
      <4> QED
        BY <4>1 DEF Pending
    <3> HIDE DEF x
    <3>5. PICK v \in Thread : \E j \in DOMAIN rest[v] : rest[v][j] = x
      BY <1>0, <3>4, PendingRest DEF Left
    <3> QED
      BY <1>4, <3>2, <3>3, <3>5 DEF Pinned, x
  <2>4. CompletionOf[n] = "none"
    BY <2>0, <2>2 DEF CompletionOf, Unresolved
  <2>5. \A m \in LiveNodes \ {Root} : Parent[m] # n
    BY <1>4 DEF LiveNodes, Pinned, Child
  <2>6. n # Root => \A g \in Guard : MemberOf[g] # n
    BY <1>4, <2>0, TreeAssumption DEF Pinned, MemberOf
  <2> HIDE DEF n, rest
  <2>7. Abstract!Collect(n)
    BY <1>2, <2>1, <2>3, <2>4, <2>5, <2>6
       DEF Abstract!Collect, SameGoverned, SameAsking, SameMember, SameStopped, SameCompletion
  <2> QED
    BY <2>0, <2>7 DEF Simulates, Abstract!Next, Abstract!NodeStep
<1> QED
  BY <1>1, <1>3, <1>4

(* child() hands out the handle that it counted from the start.            *)
LEMMA AdoptSimulates ==
  ASSUME IInv, OwnInv, [Next]_vars, NEW t \in Thread, Adopt(t)
  PROVE  Simulates
<1>0. /\ 1 \in 1 .. Len(agenda[t]) /\ Head(agenda[t]) = agenda[t][1]
      /\ agenda[t][1].do = "adopt" /\ agenda[t][1].node \in Node
      /\ agenda \in [Thread -> Seq(Task)]
  BY DoingJob DEF Adopt
<1>m. PICK m \in Node : m = agenda[t][1].node
  BY <1>0
<1>1. /\ UNCHANGED home /\ UNCHANGED nodeState /\ UNCHANGED future /\ UNCHANGED life
      /\ handles' = [handles EXCEPT ![m] = 1]
  BY <1>0, <1>m DEF Adopt, words
<1>2. Proceed(t) /\ \A u \in Thread \ {t} : agenda'[u] = agenda[u]
  <2>1. Proceed(t)
    BY DEF Proceed
  <2> QED
    BY <2>1, ProceedRows DEF Rest
<1>3. SameAsking
  BY <1>0, <1>2, AskStays, AskFrame
<1>4. Governed(m) /\ Governed(m)'
  <2>1. KeyTask(t, m)
    BY <1>0, <1>m DEF KeyTask
  <2>2. handles'[m] > 0
    BY <1>1 DEF IInv, OwnerTypes
  <2> QED
    BY <1>0, <2>1, <2>2, GovernedBy, GovernedByNext
<1>5. ASSUME NEW n \in Node, n # m PROVE Governed(n)' <=> Governed(n)
  <2>1. handles'[n] = handles[n]
    BY <1>1, <1>5 DEF IInv, OwnerTypes
  <2>2. KeyTask(t, n)' <=> KeyTask(t, n)
    BY <1>0, <1>m, <1>2, <1>5, KeysStay
  <2> QED
    BY <1>2, <2>1, <2>2, GovernedStays
<1>6. SameGoverned
  <2>1. \A n \in Node : Governed(n)' <=> Governed(n)
    BY <1>4, <1>5
  <2> QED
    BY <2>1 DEF SameGoverned, GovernedNodes
<1> QED
  BY <1>1, <1>3, <1>6, ViewFrame, Unseen

(* A step that can take away the last handle of n and no other.            *)
LEMMA GovernedFalls ==
  ASSUME NEW n \in Node, \A k \in Node \ {n} : Governed(k)' <=> Governed(k), Governed(n)
  PROVE  SameGoverned \/ GovernedNodes' = GovernedNodes \ {n}
<1>1. CASE Governed(n)'
  BY <1>1 DEF SameGoverned, GovernedNodes
<1>2. CASE ~Governed(n)'
  BY <1>2 DEF GovernedNodes
<1> QED
  BY <1>1, <1>2

(* block_on_shutdown_completion returns: completion and handle go.         *)
LEMMA UnblockSimulates ==
  ASSUME IInv, OwnInv, [Next]_vars, NEW t \in Thread, Unblock(t)
  PROVE  Simulates
<1>0. /\ 1 \in 1 .. Len(agenda[t]) /\ Head(agenda[t]) = agenda[t][1]
      /\ agenda[t][1].do = "block" /\ agenda[t][1].node \in Node
      /\ agenda \in [Thread -> Seq(Task)]
  BY DoingJob DEF Unblock
<1> DEFINE n == agenda[t][1].node
<1>1. /\ UNCHANGED home /\ UNCHANGED nodeState /\ UNCHANGED life /\ UNCHANGED handles
      /\ future[n] = "resolved" /\ future' = [future EXCEPT ![n] = "none"]
  BY <1>0 DEF Unblock, words
<1>2. Proceed(t) /\ \A u \in Thread \ {t} : agenda'[u] = agenda[u]
  <2>1. Proceed(t)
    BY DEF Proceed
  <2> QED
    BY <2>1, ProceedRows DEF Rest
<1>3. SameAsking /\ SameLive /\ SameMember /\ SameStopped
  BY <1>0, <1>1, <1>2, AskStays, AskFrame, ViewFrame
<1>4. n \in Node /\ Governed(n)
  <2>1. KeyTask(t, n)
    BY <1>0 DEF KeyTask
  <2> HIDE DEF n
  <2>2. Governed(n)
    BY <1>0, <2>1, GovernedBy
  <2> QED
    BY <1>0, <2>2 DEF n
<1>5. ASSUME NEW k \in Node \ {n} PROVE Governed(k)' <=> Governed(k)
  <2>1. KeyTask(t, k)' <=> KeyTask(t, k)
    BY <1>0, <1>2, <1>5, KeysStay
  <2> QED
    BY <1>1, <1>2, <2>1, GovernedStays
<1> HIDE DEF n
<1>6. SameGoverned \/ GovernedNodes' = GovernedNodes \ {n}
  BY <1>4, <1>5, GovernedFalls
<1>7. CompletionOf[n] = "resolved" /\ CompletionOf' = [CompletionOf EXCEPT ![n] = "none"]
  <2>1. CompletionOf[n] = "resolved"
    BY <1>1, <1>4 DEF CompletionOf, Unresolved
  <2>2. CompletionOf' = [CompletionOf EXCEPT ![n] = "none"]
    BY <1>1, <1>4, CompletionMoves DEF Unresolved
  <2> QED
    BY <2>1, <2>2
<1>8. Abstract!Forget(n)
  BY <1>3, <1>6, <1>7
     DEF Abstract!Forget, SameAsking, SameLive, SameMember, SameStopped, SameGoverned
<1> QED
  BY <1>4, <1>8 DEF Simulates, Abstract!Next, Abstract!NodeStep

(* The other tasks.                                                        *)
LEMMA ProceedSimulates ==
  ASSUME IInv, OwnInv, DropProgress, CauseInv, [Next]_vars, NEW t \in Thread, Proceed(t)
  PROVE  Simulates
<1>1. CASE Deregister(t)
  <2>1. /\ Head(agenda[t]) = agenda[t][1] /\ agenda[t][1].do = "deregister"
        /\ agenda[t][1].node \in Node /\ JobOK(agenda[t][1])
    BY <1>1, DoingJob DEF Deregister
  <2> DEFINE n == agenda[t][1].node
  <2>2. /\ UNCHANGED handles /\ UNCHANGED home /\ UNCHANGED nodeState /\ UNCHANGED future
        /\ life' = [life EXCEPT ![n] = "gone"]
    BY <1>1, <2>1 DEF Deregister, words
  <2>3. SameLive
    BY <2>1, <2>2 DEF SameLive, LiveNodes, JobOK, IInv, OwnerTypes
  <2> QED
    BY <2>1, <2>2, <2>3, ProceedFrame, ViewFrame, Unseen
<1>2. CASE StopNotify(t)
  <2>1. Head(agenda[t]).do = "notify"
    BY <1>2 DEF StopNotify, Doing
  <2>2. UNCHANGED handles /\ UNCHANGED home /\ UNCHANGED nodeState /\ UNCHANGED life
    BY <1>2 DEF StopNotify, words
  <2>3. SameCompletion
    BY <1>2, NotifyUnseen DEF StopNotify
  <2> QED
    BY <2>1, <2>2, <2>3, ProceedFrame, ViewFrame, Unseen
<1>3. CASE \/ Latch(t) \/ Snapshot(t) \/ StopKids(t) \/ Register(t) \/ Check(t)
           \/ GuardReturned(t) \/ Upgrade(t)
  <2>1. Head(agenda[t]).do \notin {"adopt", "block", "watch"}
    BY <1>3, ZenonT(60) DEF Latch, Snapshot, StopKids, Register, Check, GuardReturned, Upgrade, Doing
  <2>2. /\ UNCHANGED handles /\ UNCHANGED home /\ UNCHANGED nodeState /\ UNCHANGED future
        /\ UNCHANGED life
    BY <1>3 DEF Latch, Snapshot, StopKids, Register, Check, GuardReturned, Upgrade, words,
       owners
  <2> QED
    BY <2>1, <2>2, ProceedFrame, ViewFrame, Unseen, SMTT(60)
<1> QED
  BY <1>1, <1>2, <1>3, StopSimulates, WatchSimulates, ReleaseSimulates, AdoptSimulates,
     UnblockSimulates DEF Proceed

(* A call that begins no key and no request and takes no handle.           *)
LEMMA CallFrame ==
  ASSUME IInv, [Next]_vars, NEW t \in Thread, agenda[t] = <<>>, UNCHANGED handles,
         \A u \in Thread \ {t} : agenda'[u] = agenda[u], Plain(t)
  PROVE  SameGoverned /\ SameAsking
<1>1. (\A n : KeyTask(t, n)' <=> KeyTask(t, n)) /\ Asking(t)' = Asking(t)
  BY PlainKeys
<1> QED
  BY <1>1, KeysFrame, AskFrame

(* Guards.                                                                 *)
LEMMA GuardCallSimulates ==
  ASSUME IInv, OwnInv, [Next]_vars, NEW t \in Thread, Call(t), NEW g \in Guard,
         \/ \E n \in Node : NewGuard(t, n, g)
         \/ \E s \in Shard : ForShard(t, s, g)
         \/ \E h \in Guard : CloneGuard(t, h, g)
         \/ DropGuard(t, g)
  PROVE  Simulates
<1>0. agenda[t] = <<>> /\ \A u \in Thread \ {t} : agenda'[u] = agenda[u]
  BY CallRows DEF Rest
<1>1. /\ UNCHANGED handles /\ UNCHANGED nodeState /\ UNCHANGED future /\ UNCHANGED life
  BY DEF NewGuard, ForShard, CloneGuard, DropGuard, owners, words
<1>2. SameLive /\ SameStopped /\ SameCompletion
  BY <1>1, ViewFrame
<1>3. CASE \E n \in Node : NewGuard(t, n, g)
  <2>1. PICK n \in Node : NewGuard(t, n, g)
    BY <1>3
  <2>2. Plain(t)
    BY <2>1, PlainOne DEF NewGuard, TaskName
  <2>3. UNCHANGED home
    BY <2>1 DEF NewGuard, owners
  <2> QED
    BY <1>0, <1>1, <1>2, <2>2, <2>3, CallFrame, ViewFrame, Unseen
<1>4. CASE \E s \in Shard : ForShard(t, s, g)
  <2>1. PICK s \in Shard : ForShard(t, s, g)
    BY <1>4
  <2>2. UNCHANGED agenda /\ home[g] = NoShard
    BY <2>1 DEF ForShard, FreeGuard
  <2>3. UNCHANGED home \/ home' = [home EXCEPT ![g] = s]
    BY <2>1 DEF ForShard
  <2> QED
    BY <1>1, <1>2, <2>2, <2>3, AgendasFrame, ViewFrame, Unseen, Enters
<1>5. CASE \E h \in Guard : CloneGuard(t, h, g)
  <2>1. PICK h \in Guard : CloneGuard(t, h, g)
    BY <1>5
  <2>2. PICK s \in Shard : s = home[h]
    BY <2>1 DEF CloneGuard, IInv, CoreInv, WordTypes
  <2>3. UNCHANGED agenda /\ home[g] = NoShard /\ home' = [home EXCEPT ![g] = s]
    BY <2>1, <2>2 DEF CloneGuard, FreeGuard
  <2> QED
    BY <1>1, <1>2, <2>3, AgendasFrame, Enters
<1>6. CASE DropGuard(t, g)
  <2>1. home[g] # NoShard /\ home' = [home EXCEPT ![g] = NoShard]
    BY <1>6 DEF DropGuard
  <2>2. Plain(t)
    <3> DEFINE s == home[g]
               x == [TaskOn("upgrade", Root) EXCEPT !.shards = {s}]
               w == [shardState[s] EXCEPT !.local = @ - 1]
    <3>1. s \in Shard /\ NodeOf[s] \in Node
      BY <2>1, ShardAssumption DEF IInv, CoreInv, WordTypes
    <3>2. \/ Begin(t, <<TaskOn("release", NodeOf[s])>>)
          \/ Begin(t, IF MustFlush(w) THEN <<x>> ELSE <<>>)
      BY <1>6 DEF DropGuard
    <3>3. CASE Begin(t, <<TaskOn("release", NodeOf[s])>>)
      BY <3>1, <3>3, PlainOne DEF TaskName
    <3>4. CASE Begin(t, <<x>>)
      <4>1. x \in Task /\ x.do = "upgrade"
        <5>1. Root \in Node
          BY TreeAssumption
        <5> QED
          BY <3>1, <5>1 DEF TaskOn, Task, TaskName
      <4> HIDE DEF x
      <4>2. Len(agenda'[t]) = 1 /\ agenda'[t][1] = x
        BY <3>4, <4>1, BegunOneHas
      <4> QED
        BY <4>1, <4>2 DEF Plain
    <3>5. CASE Begin(t, <<>>)
      <4>1. agenda'[t] = <<>>
        BY <3>5 DEF Begin, IInv, OwnerTypes
      <4> QED
        BY <4>1 DEF Plain
    <3> HIDE DEF x, w, s
    <3> QED
      BY <3>2, <3>3, <3>4, <3>5
  <2> QED
    BY <1>0, <1>1, <1>2, <2>1, <2>2, CallFrame, Leaves
<1> QED
  BY <1>3, <1>4, <1>5, <1>6

(* Swansong::child.                                                        *)
LEMMA NewChildSimulates ==
  ASSUME IInv, OwnInv, [Next]_vars, NEW t \in Thread, Call(t), NEW m \in Child,
         NewChild(t, m)
  PROVE  Simulates
<1>0. /\ agenda[t] = <<>> /\ \A u \in Thread \ {t} : agenda'[u] = agenda[u]
      /\ agenda \in [Thread -> Seq(Task)] /\ m \in Node /\ Parent[m] \in Node
  BY CallRows, ParentBelowNone DEF Rest, IInv, OwnerTypes
<1>1. /\ UNCHANGED handles /\ UNCHANGED nodeState /\ UNCHANGED future /\ UNCHANGED home
      /\ life[m] = "unborn" /\ handles[Parent[m]] > 0
      /\ life' = [life EXCEPT ![m] = "live"]
  BY DEF NewChild, words
<1>2. SameMember /\ SameStopped /\ SameCompletion
  BY <1>1, ViewFrame
<1>3. /\ Len(agenda'[t]) = 3
      /\ agenda'[t][1].do = "register" /\ agenda'[t][1].node = m
      /\ agenda'[t][2].do = "check" /\ agenda'[t][2].node = m
      /\ agenda'[t][3].do = "adopt" /\ agenda'[t][3].node = m
  BY NewChildHas
<1>4. SameAsking
  <2>1. Asking(t) = NoNode
    BY <1>0, IdleKeys
  <2>2. Asking(t)' = NoNode
    BY <1>3 DEF Asking
  <2> QED
    BY <1>0, <2>1, <2>2, AskFrame
<1>5. GovernedNodes' = GovernedNodes \cup {m}
  <2>1. \A n \in Node : ~KeyTask(t, n)
    BY <1>0, IdleKeys
  <2>2. \A n \in Node : KeyTask(t, n)' => n = m
    BY <1>3 DEF KeyTask
  <2>3. KeyTask(t, m)'
    BY <1>3 DEF KeyTask
  <2>4. \A n \in Node \ {m} : Governed(n)' <=> Governed(n)
    BY <1>0, <1>1, <2>1, <2>2, GovernedStays
  <2>5. Governed(m)'
    BY <2>3, GovernedByNext
  <2> QED
    BY <1>0, <2>4, <2>5 DEF GovernedNodes
<1>6. m \notin LiveNodes /\ LiveNodes' = LiveNodes \cup {m}
  BY <1>0, <1>1 DEF LiveNodes, IInv, OwnerTypes
<1>7. Parent[m] \in GovernedNodes
  BY <1>0, <1>1 DEF GovernedNodes, Governed
<1>8. Abstract!Create(m)
  BY <1>2, <1>4, <1>5, <1>6, <1>7
     DEF Abstract!Create, SameMember, SameStopped, SameCompletion, SameAsking
<1> QED
  BY <1>8 DEF Simulates, Abstract!Next, Abstract!NodeStep, Child

(* Swansong::shut_down.                                                    *)
LEMMA ShutDownSimulates ==
  ASSUME IInv, OwnInv, [Next]_vars, NEW t \in Thread, Call(t), NEW n \in Node,
         ShutDown(t, n)
  PROVE  Simulates
<1>0. /\ agenda[t] = <<>> /\ \A u \in Thread \ {t} : agenda'[u] = agenda[u]
      /\ agenda \in [Thread -> Seq(Task)]
  BY CallRows DEF Rest, IInv, OwnerTypes
<1>1. /\ UNCHANGED handles /\ UNCHANGED nodeState /\ UNCHANGED future /\ UNCHANGED home
      /\ UNCHANGED life /\ handles[n] > 0
  BY DEF ShutDown, words, owners
<1>2. SameMember /\ SameStopped /\ SameCompletion /\ SameLive
  BY <1>1, ViewFrame
<1>3. /\ Len(agenda'[t]) = 2
      /\ agenda'[t][1].do = "stop" /\ agenda'[t][1].node = n
      /\ agenda'[t][2].do = "watch" /\ agenda'[t][2].node = n
  BY ShutDownHas
<1>4. (\A k \in Node : ~KeyTask(t, k)) /\ Asking(t) = NoNode
  BY <1>0, IdleKeys
<1>5. \A k \in Node : ~KeyTask(t, k)'
  BY <1>3 DEF KeyTask
<1>6. SameGoverned
  BY <1>0, <1>1, <1>4, <1>5, KeysFrame
<1>7. AskingFor[t] = NoNode /\ AskingFor' = [AskingFor EXCEPT ![t] = n]
  <2>1. Asking(t)' = n
    BY <1>3 DEF Asking
  <2>2. \A u \in Thread \ {t} : Asking(u)' = Asking(u)
    BY <1>0 DEF Asking
  <2> QED
    BY <1>4, <2>1, <2>2 DEF AskingFor
<1>8. n \in GovernedNodes
  BY <1>1 DEF GovernedNodes, Governed
<1>9. Abstract!Ask(t, n)
  BY <1>2, <1>6, <1>7, <1>8
     DEF Abstract!Ask, SameMember, SameStopped, SameCompletion, SameLive, SameGoverned
<1> QED
  BY <1>9 DEF Simulates, Abstract!Next, Abstract!NodeStep

(* A handle of n that a call takes.                                        *)
LEMMA HandleTaken ==
  ASSUME IInv, [Next]_vars, NEW t \in Thread, NEW n \in Node,
         agenda[t] = <<>>, \A u \in Thread \ {t} : agenda'[u] = agenda[u],
         handles[n] > 0, handles' = [handles EXCEPT ![n] = @ - 1],
         \A k \in Node \ {n} : ~KeyTask(t, k)'
  PROVE  /\ n \in GovernedNodes
         /\ SameGoverned \/ GovernedNodes' = GovernedNodes \ {n}
<1>1. Governed(n)
  BY DEF Governed
<1>2. ASSUME NEW k \in Node \ {n} PROVE Governed(k)' <=> Governed(k)
  <2>1. handles'[k] = handles[k]
    BY DEF IInv, OwnerTypes
  <2>2. ~KeyTask(t, k) /\ ~KeyTask(t, k)'
    BY IdleKeys
  <2> QED
    BY <2>1, <2>2, GovernedStays
<1> QED
  BY <1>1, <1>2, GovernedFalls DEF GovernedNodes

(* A completion that a call makes.                                         *)
LEMMA CompletionMade ==
  ASSUME IInv, NEW n \in Node, Untracked(n), future' = [future EXCEPT ![n] = "new"]
  PROVE  CompletionOf[n] = "none" /\ CompletionOf' = [CompletionOf EXCEPT ![n] = "pending"]
<1>1. CompletionOf[n] = "none"
  BY DEF CompletionOf, Untracked, Unresolved
<1>2. CompletionOf' = [CompletionOf EXCEPT ![n] = "pending"]
  BY CompletionMoves DEF Unresolved
<1> QED
  BY <1>1, <1>2

(* Dropping or awaiting a handle.                                          *)
LEMMA DropSimulates ==
  ASSUME IInv, OwnInv, [Next]_vars, NEW t \in Thread, Call(t), NEW n \in Node,
         DropSwansong(t, n) \/ AwaitSwansong(t, n)
  PROVE  Simulates
<1>0. agenda[t] = <<>> /\ \A u \in Thread \ {t} : agenda'[u] = agenda[u]
  BY CallRows DEF Rest
<1>1. /\ UNCHANGED nodeState /\ UNCHANGED home /\ UNCHANGED life
      /\ handles[n] > 0 /\ handles' = [handles EXCEPT ![n] = @ - 1]
      /\ Begin(t, DropTasks(n))
  BY DEF DropSwansong, AwaitSwansong, DropHandle, words
<1>2. SameMember /\ SameStopped /\ SameLive
  BY <1>1, ViewFrame
<1>3. (\A k : ~KeyTask(t, k)') /\ Asking(t)' = Asking(t)
  <2>1. Plain(t)
    BY <1>1, PlainDrop
  <2> QED
    BY <1>0, <2>1, PlainKeys, IdleKeys
<1>4. SameAsking
  BY <1>0, <1>3, AskFrame
<1>5. n \in GovernedNodes /\ (SameGoverned \/ GovernedNodes' = GovernedNodes \ {n})
  BY <1>0, <1>1, <1>3, HandleTaken
<1>6. CASE DropSwansong(t, n)
  <2>1. SameCompletion
    BY <1>6, ViewFrame DEF DropSwansong
  <2>2. CASE SameGoverned
    BY <1>2, <1>4, <2>1, <2>2, Unseen
  <2>3. CASE GovernedNodes' = GovernedNodes \ {n}
    <3>1. Abstract!Abandon(n)
      BY <1>2, <1>4, <1>5, <2>1, <2>3
         DEF Abstract!Abandon, SameMember, SameStopped, SameLive, SameAsking, SameCompletion
    <3> QED
      BY <3>1 DEF Simulates, Abstract!Next, Abstract!NodeStep
  <2> QED
    BY <1>5, <2>2, <2>3
<1>7. CASE AwaitSwansong(t, n)
  <2>1. CompletionOf[n] = "none" /\ CompletionOf' = [CompletionOf EXCEPT ![n] = "pending"]
    BY <1>7, CompletionMade DEF AwaitSwansong
  <2>2. Abstract!Await(n)
    BY <1>2, <1>4, <1>5, <2>1
       DEF Abstract!Await, SameMember, SameStopped, SameLive, SameAsking, SameGoverned
  <2> QED
    BY <2>2 DEF Simulates, Abstract!Next, Abstract!NodeStep
<1> QED
  BY <1>6, <1>7

(* block_on_shutdown_completion keeps its handle.                          *)
LEMMA BlockSimulates ==
  ASSUME IInv, OwnInv, [Next]_vars, NEW t \in Thread, Call(t), NEW n \in Node,
         BlockOnShutdown(t, n)
  PROVE  Simulates
<1>0. agenda[t] = <<>> /\ \A u \in Thread \ {t} : agenda'[u] = agenda[u]
  BY CallRows DEF Rest
<1>1. /\ UNCHANGED nodeState /\ UNCHANGED home /\ UNCHANGED life
      /\ handles[n] > 0 /\ handles' = [handles EXCEPT ![n] = @ - 1]
      /\ Untracked(n) /\ future' = [future EXCEPT ![n] = "new"]
  BY DEF BlockOnShutdown, words
<1>2. SameMember /\ SameStopped /\ SameLive
  BY <1>1, ViewFrame
<1>3. Len(agenda'[t]) = 1 /\ agenda'[t][1].do = "block" /\ agenda'[t][1].node = n
  BY BlockHas
<1>4. SameAsking
  <2>1. Asking(t) = NoNode
    BY <1>0, IdleKeys
  <2>2. Asking(t)' = NoNode
    BY <1>3 DEF Asking
  <2> QED
    BY <1>0, <2>1, <2>2, AskFrame
<1>5. \A k \in Node \ {n} : ~KeyTask(t, k)'
  BY <1>3 DEF KeyTask
<1>6. n \in GovernedNodes /\ (SameGoverned \/ GovernedNodes' = GovernedNodes \ {n})
  BY <1>0, <1>1, <1>5, HandleTaken
<1>7. CompletionOf[n] = "none" /\ CompletionOf' = [CompletionOf EXCEPT ![n] = "pending"]
  BY <1>1, CompletionMade
<1>8. Abstract!Await(n)
  BY <1>2, <1>4, <1>6, <1>7
     DEF Abstract!Await, SameMember, SameStopped, SameLive, SameAsking, SameGoverned
<1> QED
  BY <1>8 DEF Simulates, Abstract!Next, Abstract!NodeStep

(* Cloning a handle, and dropping a completion.                            *)
LEMMA OtherCallSimulates ==
  ASSUME IInv, OwnInv, [Next]_vars, NEW t \in Thread, Call(t), NEW n \in Node,
         CloneSwansong(t, n) \/ DropFuture(t, n)
  PROVE  Simulates
<1>0. agenda[t] = <<>> /\ \A u \in Thread \ {t} : agenda'[u] = agenda[u]
  BY CallRows DEF Rest
<1>1. UNCHANGED nodeState /\ UNCHANGED home /\ UNCHANGED life
  BY DEF CloneSwansong, DropFuture, words
<1>2. SameMember /\ SameStopped /\ SameLive
  BY <1>1, ViewFrame
<1>3. CASE CloneSwansong(t, n)
  <2>1. UNCHANGED agenda /\ UNCHANGED future
    BY <1>3 DEF CloneSwansong
  <2>2. handles[n] > 0 /\ handles' = [handles EXCEPT ![n] = @ + 1]
    BY <1>3 DEF CloneSwansong, IInv, OwnerTypes
  <2>3. \A k \in Node : (handles'[k] > 0) <=> (handles[k] > 0)
    BY <2>2 DEF IInv, OwnerTypes
  <2>4. (\A k \in Node : KeyTask(t, k)' <=> KeyTask(t, k)) /\ Asking(t)' = Asking(t)
    BY <2>1 DEF KeyTask, Asking
  <2> QED
    BY <1>0, <1>2, <2>1, <2>3, <2>4, KeysFrame, AskFrame, ViewFrame, Unseen
<1>4. CASE DropFuture(t, n)
  <2>1. /\ UNCHANGED handles /\ future[n] # "none"
        /\ future' = [future EXCEPT ![n] = "none"]
    BY <1>4 DEF DropFuture
  <2>2. Plain(t)
    BY <1>4, PlainOne DEF DropFuture, TaskName
  <2>3. SameGoverned /\ SameAsking
    BY <1>0, <2>1, <2>2, CallFrame
  <2>4. CompletionOf[n] # "none"
    BY <2>1 DEF CompletionOf, Unresolved
  <2>5. CompletionOf' = [CompletionOf EXCEPT ![n] = "none"]
    BY <2>1, CompletionMoves DEF Unresolved
  <2>6. Abstract!Forget(n)
    BY <1>2, <2>3, <2>4, <2>5
       DEF Abstract!Forget, SameMember, SameStopped, SameLive, SameGoverned, SameAsking
  <2> QED
    BY <2>6 DEF Simulates, Abstract!Next, Abstract!NodeStep
<1> QED
  BY <1>3, <1>4

(* What a client calls is an abstract step or none.                        *)
LEMMA CallSimulates ==
  ASSUME IInv, OwnInv, [Next]_vars, NEW t \in Thread, Call(t)
  PROVE  Simulates
<1>1. ASSUME NEW g \in Guard,
             \/ \E n \in Node : NewGuard(t, n, g)
             \/ \E s \in Shard : ForShard(t, s, g)
             \/ \E h \in Guard : CloneGuard(t, h, g)
             \/ DropGuard(t, g)
      PROVE  Simulates
  BY <1>1, GuardCallSimulates
<1>2. ASSUME NEW m \in Child, NewChild(t, m) PROVE Simulates
  BY <1>2, NewChildSimulates
<1>3. ASSUME NEW n \in Node, ShutDown(t, n) PROVE Simulates
  BY <1>3, ShutDownSimulates
<1>4. ASSUME NEW n \in Node, DropSwansong(t, n) \/ AwaitSwansong(t, n) PROVE Simulates
  BY <1>4, DropSimulates
<1>5. ASSUME NEW n \in Node, BlockOnShutdown(t, n) PROVE Simulates
  BY <1>5, BlockSimulates
<1>6. ASSUME NEW n \in Node, CloneSwansong(t, n) \/ DropFuture(t, n) PROVE Simulates
  BY <1>6, OtherCallSimulates
<1> QED
  BY <1>1, <1>2, <1>3, <1>4, <1>5, <1>6 DEF Call

(* A completion resolves on a stopped node, when no guard is below it.     *)
LEMMA PollSimulates ==
  ASSUME IInv, OwnInv, [Next]_vars, NEW n \in Node, Poll(n)
  PROVE  Simulates
<1>0. /\ UNCHANGED nodeState /\ UNCHANGED home /\ UNCHANGED life
      /\ UNCHANGED <<agenda, handles>> /\ future[n] \in Unresolved
  BY DEF Poll, words
<1>1. /\ SameMember /\ SameStopped /\ SameLive /\ SameGoverned /\ SameAsking
      /\ CompletionOf[n] = "pending"
  BY <1>0, ViewFrame, AgendasFrame DEF CompletionOf
<1>2. PICK v : /\ future' = [future EXCEPT ![n] = v]
               /\ v \in Unresolved \/ (v = "resolved" /\ Complete(n))
  <2>1. Keep(n) \in Unresolved
    BY <1>0 DEF Keep, Unresolved
  <2>2. CASE Complete(n) /\ future' = [future EXCEPT ![n] = "resolved"]
    BY <2>2
  <2>3. CASE future' = [future EXCEPT ![n] = StillWaiting(n)]
    <3>1. StillWaiting(n) \in Unresolved \/ (StillWaiting(n) = "resolved" /\ Complete(n))
      BY <2>1 DEF StillWaiting
    <3> QED
      BY <2>3, <3>1
  <2> QED
    BY <2>2, <2>3 DEF Poll
<1>3. CASE v \in Unresolved
  <2>1. CompletionOf' = [CompletionOf EXCEPT ![n] = "pending"]
    BY <1>2, <1>3, CompletionMoves
  <2>2. SameCompletion
    BY <1>1, <2>1 DEF SameCompletion, CompletionOf
  <2> QED
    BY <1>1, <2>2, Unseen
<1>4. CASE v = "resolved" /\ Complete(n)
  <2>1. CompletionOf' = [CompletionOf EXCEPT ![n] = "resolved"]
    BY <1>2, <1>4, CompletionMoves DEF Unresolved
  <2>2. n \in StoppedNodes
    BY <1>4 DEF StoppedNodes, Complete
  <2>3. Abstract!Subset(n) = {}
    <3> SUFFICES ASSUME NEW g \in Guard, MemberOf[g] # NoNode,
                        n \in Abstract!Upwards(MemberOf[g])
                 PROVE  FALSE
      BY DEF Abstract!Subset
    <3>1. home[g] # NoShard /\ MemberOf[g] = NodeOf[home[g]]
      BY DEF MemberOf
    <3>2. n \in Ancestors(NodeOf[home[g]])
      BY <3>1 DEF Abstract!Upwards, Ancestors
    <3>3. nodeState[n].count > 0
      BY <3>1, <3>2, GuardCountedNow DEF GuardCounted
    <3> QED
      BY <1>4, <3>3 DEF Complete, IsZero
  <2>4. Abstract!Resolve(n)
    BY <1>1, <2>1, <2>2, <2>3
       DEF Abstract!Resolve, Abstract!CanResolve, SameMember, SameStopped, SameLive,
           SameGoverned, SameAsking
  <2> QED
    BY <2>4 DEF Simulates, Abstract!Next, Abstract!NodeStep
<1> QED
  BY <1>2, <1>3, <1>4

(* The first state.                                                        *)
LEMMA InitSimulates ==
  ASSUME Init
  PROVE  Abstract!Init
<1>1. agenda = [t \in Thread |-> <<>>] /\ \A t \in Thread : agenda[t] = <<>>
  BY DEF Init
<1>2. LiveNodes = {Root}
  BY TreeAssumption DEF Init, LiveNodes
<1>3. GovernedNodes = {Root}
  <2>1. agenda \in [Thread -> Seq(Task)]
    BY <1>1
  <2>2. \A n \in Node : Governed(n) <=> handles[n] > 0
    BY <1>1, <2>1, GovernedBy, IdleKeys
  <2>3. \A n \in Node : handles[n] > 0 <=> n = Root
    BY DEF Init
  <2> QED
    BY <2>2, <2>3, TreeAssumption DEF GovernedNodes
<1>4. StoppedNodes = {}
  BY DEF Init, StoppedNodes, Stopped, EmptyNode
<1>5. MemberOf = [g \in Guard |-> NoNode]
  BY DEF Init, MemberOf
<1>6. AskingFor = [t \in Thread |-> NoNode]
  BY <1>1, IdleKeys DEF AskingFor
<1>7. CompletionOf = [n \in Node |-> "none"]
  BY DEF Init, CompletionOf, Unresolved
<1> QED
  BY <1>2, <1>3, <1>4, <1>5, <1>6, <1>7 DEF Abstract!Init

(* However any number of threads interleave on any tree, what a client     *)
(* sees of GuardTree is a behaviour of Shutdown: nodes stop only when they *)
(* are asked to, are a root that nobody governs, or have a stopped parent; *)
(* shut_down returns only after the stop; completions resolve only on a    *)
(* stopped node with no guard left below it; and no node is collected      *)
(* under a handle, a completion, a child or a guard.                       *)
THEOREM Refinement == Spec => Implements
<1>1. Init => CauseInv /\ Abstract!Init
  BY InitCause, InitSimulates
<1>2. IInv /\ OwnInv /\ CauseInv /\ [Next]_vars => CauseInv'
  BY CauseNext
<1>3. IInv /\ OwnInv /\ DepartInv /\ CauseInv /\ [Next]_vars => [Abstract!Next]_(Abstract!vars)
  <2> SUFFICES ASSUME IInv, OwnInv, DepartInv, CauseInv, [Next]_vars PROVE Simulates
    BY DEF Simulates
  <2>1. DropProgress
    BY DEF DepartInv
  <2>2. CASE \E t \in Thread : Walk(t) \/ Proceed(t) \/ Call(t)
    BY <2>1, <2>2, WalkSimulates, ProceedSimulates, CallSimulates
  <2>3. CASE \E n \in Node : Poll(n)
    BY <2>3, PollSimulates
  <2>4. CASE UNCHANGED vars
    BY <2>4, ViewFrame, AgendasFrame, Unseen DEF vars, words, owners
  <2> QED
    BY <2>2, <2>3, <2>4 DEF Next
<1> QED
  BY <1>1, <1>2, <1>3, Departures, PTL DEF Spec, Implements, Abstract!Spec

=============================================================================
