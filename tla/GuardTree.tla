----------------------------- MODULE GuardTree -----------------------------
(***************************************************************************)
(* The guard-counting and stop protocol of swansong: the tree of `Inner`   *)
(* nodes (inner.rs), the shards of each node (shard.rs), guards (guard.rs) *)
(* and Swansong handles (lib.rs), stepped by concurrent threads, one       *)
(* atomic operation on a shared word, or one critical section, per step.   *)
(*                                                                         *)
(* Counts form a chain.  A shard counts the guards homed on it (`local`)   *)
(* and the child nodes that arrived at it (`kids`); a node counts its      *)
(* arrived shards; a nonempty child arrives at a shard of its parent.      *)
(*                                                                         *)
(* A thread's control state has two parts.  The walk (pc, cell, from,      *)
(* saved, seen, resume) is the innermost chain of arrive / depart / flush  *)
(* calls.  The agenda is the work the thread does once the walk returns:   *)
(* the rest of a stop, of a child's construction, of dropping an Arc.      *)
(***************************************************************************)
EXTENDS Integers, FiniteSets, Sequences, FiniteSetsExt

CONSTANTS
  Node,        \* every node that may come to exist
  Root,        \* the node without a parent, alive from the start
  Parent,      \* the parent of each child node
  Shard,       \* the shards of all nodes
  NodeOf,      \* the node each shard belongs to
  MyShard,     \* MyShard[t][n]: the shard that thread t uses on node n
  Thread,
  Guard,       \* identities for guards; bounds how many are alive at once
  MaxHandles,  \* bounds the clones of the Swansong handles of each node
  MaxFutures,  \* bounds the completions that exist at a time
  Calls,       \* the operations that clients use
  NoNode, NoShard, NoGuard

Child == Node \ {Root}

ASSUME TreeAssumption ==
  /\ IsFiniteSet(Node) /\ Root \in Node /\ NoNode \notin Node
  /\ Parent \in [Child -> Node]

ASSUME ShardAssumption ==
  /\ IsFiniteSet(Shard) /\ NoShard \notin Shard
  /\ NodeOf \in [Shard -> Node]
  /\ MyShard \in [Thread -> [Node -> Shard]]
  /\ \A t \in Thread, n \in Node : NodeOf[MyShard[t][n]] = n

ASSUME ThreadAssumption ==
  /\ IsFiniteSet(Thread) /\ IsFiniteSet(Guard) /\ NoGuard \notin Guard
  /\ Thread \cap Shard = {} /\ Thread \cap Node = {} /\ Shard \cap Node = {}
  /\ MaxHandles \in [Node -> Nat] /\ MaxFutures \in Nat

-----------------------------------------------------------------------------
(* The packed words.  Both have the same two flag bits, kept as a set.     *)

ARRIVED == "ARRIVED"
STOPPED == "STOPPED"
Flags == {ARRIVED, STOPPED}

ShardWord == [flags : SUBSET Flags, local : Nat, kids : Nat]
NodeWord == [flags : SUBSET Flags, count : Nat, at : Shard \cup {NoShard}]

EmptyShard(flags) == [flags |-> flags, local |-> 0, kids |-> 0]
EmptyNode(flags) == [flags |-> flags, count |-> 0, at |-> NoShard]

Cell == Shard \cup Node

VARIABLES
  shardState,  \* Shard::state
  nodeState,   \* Inner::state
  home,        \* the shard that counts a live guard, else NoShard
  handles,     \* the Swansong handles that clients hold; see SwansongCount
  future,      \* a ShutdownCompletion of the node, at most one at a time
  life,        \* whether the node's Inner exists
  registered,  \* the parent shard whose registry holds the child
  pc, cell,    \* the atomic step a thread takes next, and the cell it is on
  from,        \* from[t][n]: the child for which t arrives at its shard of n
  saved,       \* the stop bit each suspended arrive loaded before going up
  seen,        \* the node word a departure saw, for its compare_exchange
  resume,      \* where the walk continues after taking an arrival back
  making,      \* the guard a thread is creating
  agenda       \* what a thread does once the walk has returned

words == <<shardState, nodeState>>
walk == <<pc, cell, from, saved, seen, resume>>
owners == <<home, handles, future, life, registered>>
vars == <<words, walk, owners, making, agenda>>

-----------------------------------------------------------------------------
(* Control of a thread.                                                    *)

ShardLabel == {"arriveShard", "casShard", "departShard", "flush"}
NodeLabel == {"guarded", "arriveNode", "casNode", "departNode", "notify",
              "unarrive"}
Label == {"idle"} \cup ShardLabel \cup NodeLabel

Idling == [pc |-> "idle", cell |-> Root]

TaskName == {"stop", "latch", "snapshot", "stopKids", "notify", "release",
             "deregister", "register", "check", "adopt", "watch", "return",
             "upgrade", "block", "tally", "gather"}
Task == {task \in [do : TaskName, node : Node, shards : SUBSET Shard,
                   kids : SUBSET Child] :
           task.do \in {"register", "check", "adopt"} => task.node # Root}

Shards(n) == {s \in Shard : NodeOf[s] = n}
TaskOn(do, n) == [do |-> do, node |-> n, shards |-> Shards(n), kids |-> {}]

Idle(t) == pc[t] = "idle" /\ agenda[t] = <<>>
Doing(t, do) == pc[t] = "idle" /\ agenda[t] # <<>> /\ Head(agenda[t]).do = do

At(t, label) == pc[t] = label
Go(t, label, c) == /\ pc' = [pc EXCEPT ![t] = label]
                   /\ cell' = [cell EXCEPT ![t] = c]
Stay == UNCHANGED <<pc, cell>>

(* The depart / flush call chain returns to the arrive loop that took its  *)
(* arrival back, or to the agenda.                                         *)
Return(t) == /\ Go(t, resume[t].pc, resume[t].cell)
             /\ resume' = [resume EXCEPT ![t] = Idling]

Then(t, tasks) == agenda' = [agenda EXCEPT ![t] = tasks \o Tail(@)]
Begin(t, tasks) == agenda' = [agenda EXCEPT ![t] = tasks]

Stopped(n) == STOPPED \in nodeState[n].flags
IsZero(n) == nodeState[n].count = 0

CompleteOnStop(n) == Stopped(n)
Complete(n) == Stopped(n) /\ IsZero(n)

(* Reachability along Parent, as least sets: no recursion is needed.       *)
Ancestors(n) ==
  {a \in Node : \A S \in SUBSET Node :
     (n \in S /\ \A m \in S \ {Root} : Parent[m] \in S) => a \in S}
ASSUME RootAssumption == \A n \in Node : Root \in Ancestors(n)

GuardsUnder(n) ==
  {g \in Guard : home[g] # NoShard /\ n \in Ancestors(NodeOf[home[g]])}

-----------------------------------------------------------------------------
(* Arrivals: Shard::arrive and Inner::arrive, which call each other up the *)
(* tree.  Each reaches the level above before its own first count shows.   *)

(* The unit that t adds to its shard of n: LOCAL_ONE for the guard it is   *)
(* creating, KIDS_ONE for the child it came from.                          *)
PlusUnit(w, t, n) ==
  IF from[t][n] = NoNode THEN [w EXCEPT !.local = @ + 1]
                         ELSE [w EXCEPT !.kids = @ + 1]

(* The arrival at shard s is counted: the guard exists, or the child goes  *)
(* on to its own compare_exchange.                                         *)
Counted(t, s) ==
  LET n == NodeOf[s] IN
  \/ /\ from[t][n] = NoNode
     /\ home' = [home EXCEPT ![making[t]] = s]
     /\ making' = [making EXCEPT ![t] = NoGuard]
     /\ Go(t, "idle", Root)
     /\ UNCHANGED from
  \/ /\ from[t][n] # NoNode
     /\ Go(t, "casNode", from[t][n])
     /\ from' = [from EXCEPT ![t][n] = NoNode]
     /\ UNCHANGED <<home, making>>

(* Guard::for_shard through the node: no guard if it has been collected.   *)
Guarded(t) ==
  LET n == cell[t] IN
  /\ At(t, "guarded")
  /\ \/ /\ life[n] = "live"
        /\ Go(t, "arriveShard", MyShard[t][n])
        /\ Begin(t, <<TaskOn("release", n)>>)
        /\ UNCHANGED making
     \/ /\ life[n] # "live"
        /\ Go(t, "idle", Root)
        /\ making' = [making EXCEPT ![t] = NoGuard]
        /\ UNCHANGED agenda
  /\ UNCHANGED <<words, from, saved, seen, resume, owners>>

ArriveShard(t) ==
  LET s == cell[t]  w == shardState[s] IN
  /\ At(t, "arriveShard")
  /\ \/ /\ ARRIVED \in w.flags
        /\ shardState' = [shardState EXCEPT ![s] = PlusUnit(w, t, NodeOf[s])]
        /\ Counted(t, s)
        /\ UNCHANGED saved
     \/ /\ ARRIVED \notin w.flags
        /\ saved' = [saved EXCEPT ![t][s] = w.flags]
        /\ Go(t, "arriveNode", NodeOf[s])
        /\ UNCHANGED <<shardState, from, home, making>>
  /\ UNCHANGED <<nodeState, seen, resume, handles, future, life, registered,
                 agenda>>

(* A root, or a child that has already arrived, only counts the shard.     *)
CountsDetached(n) == TRUE
CountsHere(n) == n = Root \/ ARRIVED \in nodeState[n].flags

ArriveNode(t) ==
  LET n == cell[t]  w == nodeState[n] IN
  /\ At(t, "arriveNode")
  /\ \/ /\ CountsHere(n)
        /\ nodeState' = [nodeState EXCEPT ![n].count = @ + 1]
        /\ Go(t, "casShard", MyShard[t][n])
        /\ UNCHANGED <<from, saved>>
     \/ /\ ~CountsHere(n)
        /\ saved' = [saved EXCEPT ![t][n] = w.flags]
        /\ from' = [from EXCEPT ![t][Parent[n]] = n]
        /\ Go(t, "arriveShard", MyShard[t][Parent[n]])
        /\ UNCHANGED nodeState
  /\ UNCHANGED <<shardState, seen, resume, owners, making, agenda>>

(* A lost compare_exchange takes the arrival above back, then goes round   *)
(* the loop with the word it found: straight up again if that is unarrived.*)
KeepBoth(t, label, c, again) ==
  Go(t, again.pc, again.cell) /\ UNCHANGED resume
TakeBack(t, label, c, again) ==
  Go(t, label, c) /\ resume' = [resume EXCEPT ![t] = again]

CasShard(t) ==
  LET s == cell[t]  w == shardState[s] IN
  /\ At(t, "casShard")
  /\ \/ /\ w = EmptyShard(saved[t][s])
        /\ shardState' = [shardState EXCEPT ![s] =
             PlusUnit(EmptyShard(saved[t][s] \cup {ARRIVED}), t, NodeOf[s])]
        /\ saved' = [saved EXCEPT ![t][s] = {}]
        /\ Counted(t, s)
        /\ UNCHANGED resume
     \/ /\ w # EmptyShard(saved[t][s])
        /\ \/ /\ ARRIVED \in w.flags
              /\ TakeBack(t, "departNode", NodeOf[s],
                          [pc |-> "arriveShard", cell |-> s])
              /\ saved' = [saved EXCEPT ![t][s] = {}]
           \/ /\ ARRIVED \notin w.flags
              /\ TakeBack(t, "departNode", NodeOf[s],
                          [pc |-> "arriveNode", cell |-> NodeOf[s]])
              /\ saved' = [saved EXCEPT ![t][s] = w.flags]
        /\ UNCHANGED <<shardState, from, home, making>>
  /\ UNCHANGED <<nodeState, seen, handles, future, life, registered, agenda>>

CasNode(t) ==
  LET n == cell[t]  w == nodeState[n]  p == MyShard[t][Parent[n]] IN
  /\ At(t, "casNode")
  /\ \/ /\ w = EmptyNode(saved[t][n])
        /\ nodeState' = [nodeState EXCEPT ![n] =
             [flags |-> saved[t][n] \cup {ARRIVED}, count |-> 1, at |-> p]]
        /\ saved' = [saved EXCEPT ![t][n] = {}]
        /\ Go(t, "casShard", MyShard[t][n])
        /\ UNCHANGED <<from, resume>>
     \/ /\ w # EmptyNode(saved[t][n])
        /\ \/ /\ ARRIVED \in w.flags
              /\ TakeBack(t, "departShard", p,
                          [pc |-> "arriveNode", cell |-> n])
              /\ saved' = [saved EXCEPT ![t][n] = {}]
              /\ UNCHANGED from
           \/ /\ ARRIVED \notin w.flags
              /\ TakeBack(t, "departShard", p,
                          [pc |-> "arriveShard", cell |-> p])
              /\ saved' = [saved EXCEPT ![t][n] = w.flags]
              /\ from' = [from EXCEPT ![t][Parent[n]] = n]
        /\ UNCHANGED nodeState
  /\ UNCHANGED <<shardState, seen, owners, making, agenda>>

-----------------------------------------------------------------------------
(* Departures: Shard::depart, Shard::flush and Inner::depart.              *)

(* A departure that leaves the word exactly ARRIVED | STOPPED must flush,  *)
(* and a flush leaves exactly STOPPED.                                     *)
NeverFlush(w) == FALSE
MustFlush(w) == w = EmptyShard({ARRIVED, STOPPED})

StillArrived == EmptyShard({ARRIVED, STOPPED})
Flushed == EmptyShard({STOPPED})

DepartShard(t) ==
  LET s == cell[t]  w == [shardState[s] EXCEPT !.kids = @ - 1] IN
  /\ At(t, "departShard")
  /\ shardState' = [shardState EXCEPT ![s] = w]
  /\ IF MustFlush(w)
     THEN Go(t, "flush", s) /\ UNCHANGED resume
     ELSE Return(t)
  /\ UNCHANGED <<nodeState, from, saved, seen, owners, making, agenda>>

Flush(t) ==
  LET s == cell[t] IN
  /\ At(t, "flush")
  /\ \/ /\ shardState[s] = EmptyShard({ARRIVED, STOPPED})
        /\ shardState' = [shardState EXCEPT ![s] = Flushed]
        /\ Go(t, "departNode", NodeOf[s])
        /\ UNCHANGED resume
     \/ /\ shardState[s] # EmptyShard({ARRIVED, STOPPED})
        /\ Return(t)
        /\ UNCHANGED shardState
  /\ UNCHANGED <<nodeState, from, saved, seen, owners, making, agenda>>

(* What a departure leaving word w at n does next: notify completions once *)
(* stopped, give up the arrival at the parent, or nothing.                 *)
LeavesIfStopped(n, w) ==
  IF w.count = 0 /\ STOPPED \in w.flags THEN "notify" ELSE "return"
AfterDeparture(n, w) ==
  IF w.count # 0 THEN "return"
  ELSE IF STOPPED \in w.flags THEN "notify"
  ELSE IF n # Root THEN "unarrive" ELSE "return"

DepartNode(t) ==
  LET n == cell[t]  w == [nodeState[n] EXCEPT !.count = @ - 1]
      next == AfterDeparture(n, w) IN
  /\ At(t, "departNode")
  /\ nodeState' = [nodeState EXCEPT ![n] = w]
  /\ \/ /\ next = "return"
        /\ Return(t)
        /\ UNCHANGED seen
     \/ /\ next # "return"
        /\ Go(t, next, n)
        /\ seen' = [seen EXCEPT ![t] = w]
        /\ UNCHANGED resume
  /\ UNCHANGED <<shardState, from, saved, owners, making, agenda>>

(* zero_event.notify(usize::MAX) reaches every completion with a listener. *)
ForgetNotify(n) == UNCHANGED future
NotifyZero(n) ==
  future' = [future EXCEPT ![n] =
               IF @ \in {"listening", "waiting"} THEN "woken" ELSE @]

DepartNotify(t) ==
  LET n == cell[t] IN
  /\ At(t, "notify")
  /\ NotifyZero(n)
  /\ \/ /\ n = Root
        /\ Return(t)
        /\ seen' = [seen EXCEPT ![t] = EmptyNode({})]
     \/ /\ n # Root
        /\ Go(t, "unarrive", n)
        /\ UNCHANGED <<seen, resume>>
  /\ UNCHANGED <<words, from, saved, home, handles, life, registered, making,
                 agenda>>

(* The compare_exchange of Inner::depart that gives up the arrival at the  *)
(* parent shard, unless the word has changed since the departure.          *)
ForgetStop(w) == EmptyNode({})
Unarrived(w) == EmptyNode(w.flags \cap {STOPPED})

AssumeEmpty(t) == TRUE
StillEmpty(t) == nodeState[cell[t]] = seen[t]

Unarrive(t) ==
  LET n == cell[t] IN
  /\ At(t, "unarrive")
  /\ \/ /\ StillEmpty(t)
        /\ nodeState' = [nodeState EXCEPT ![n] = Unarrived(seen[t])]
        /\ Go(t, "departShard", seen[t].at)
        /\ UNCHANGED resume
     \/ /\ ~StillEmpty(t)
        /\ Return(t)
        /\ UNCHANGED nodeState
  /\ seen' = [seen EXCEPT ![t] = EmptyNode({})]
  /\ UNCHANGED <<shardState, from, saved, owners, making, agenda>>

Walk(t) ==
  \/ Guarded(t) \/ ArriveShard(t) \/ ArriveNode(t) \/ CasShard(t)
  \/ CasNode(t) \/ DepartShard(t) \/ Flush(t) \/ DepartNode(t) \/ DepartNotify(t)
  \/ Unarrive(t)

-----------------------------------------------------------------------------
(* The agenda: Inner::stop, Drop for Inner, and the tails of operations.   *)

(* A stop that sets the bit latches the shards and stops the children; if  *)
(* it found the node empty, no departure will notify, so it does.          *)
StopSilently(n) == <<TaskOn("latch", n), TaskOn("snapshot", n)>>
StopTasks(n) ==
  <<TaskOn("latch", n), TaskOn("snapshot", n)>>
    \o (IF IsZero(n) THEN <<TaskOn("notify", n)>> ELSE <<>>)

Stop(t) ==
  LET n == Head(agenda[t]).node IN
  /\ Doing(t, "stop")
  /\ nodeState' = [nodeState EXCEPT ![n].flags = @ \cup {STOPPED}]
  /\ Then(t, IF Stopped(n) THEN <<>> ELSE StopTasks(n))
  /\ UNCHANGED <<shardState, walk, owners, making>>

(* The rest of the head task once one of its shards, or kids, is done.     *)
RestOf(task) ==
  IF task.shards = {} /\ task.kids = {} THEN <<>> ELSE <<task>>

(* Shard::stop, from Inner::stop and from Drop for Inner.                  *)
Latch(t) ==
  /\ Doing(t, "latch")
  /\ \E s \in Head(agenda[t]).shards :
       /\ shardState' = [shardState EXCEPT ![s].flags = @ \cup {STOPPED}]
       /\ IF [shardState[s] EXCEPT !.flags = @ \ {STOPPED}]
               = EmptyShard({ARRIVED})
          THEN Go(t, "flush", s)
          ELSE Stay
       /\ Then(t, RestOf([Head(agenda[t]) EXCEPT !.shards = @ \ {s}]))
  /\ UNCHANGED <<nodeState, from, saved, seen, resume, owners, making>>

(* live_children(): upgrade the registered children, shard by shard.       *)
NoChildren(s) == {}
LiveChildren(s) == {m \in Child : registered[m] = s /\ life[m] = "live"}

Snapshot(t) ==
  /\ Doing(t, "snapshot")
  /\ \E s \in Head(agenda[t]).shards :
       LET task == Head(agenda[t])
           left == task.shards \ {s}
       IN Then(t, RestOf([task EXCEPT
                    !.do = IF left = {} THEN "stopKids" ELSE "snapshot",
                    !.shards = left, !.kids = @ \cup LiveChildren(s)]))
  /\ UNCHANGED <<words, walk, owners, making>>

(* for child in live_children { child.stop() }, dropping each Arc after.   *)
StopKids(t) ==
  /\ Doing(t, "stopKids")
  /\ \E m \in Head(agenda[t]).kids :
       Then(t, <<TaskOn("stop", m), TaskOn("release", m)>>
               \o RestOf([Head(agenda[t]) EXCEPT !.kids = @ \ {m}]))
  /\ UNCHANGED <<words, walk, owners, making>>

StopNotify(t) ==
  /\ Doing(t, "notify")
  /\ NotifyZero(Head(agenda[t]).node)
  /\ Then(t, <<>>)
  /\ UNCHANGED <<words, walk, home, handles, life, registered, making>>

(* What holds an Arc<Inner> of n: handles, completions, the guards of a    *)
(* child, its children, and the local Arcs of running operations.          *)
PinnedByHandles(n, todo) == handles[n] > 0 \/ future[n] # "none"
Pinned(n, todo) ==
  \/ handles[n] > 0
  \/ future[n] # "none"
  \/ n # Root /\ \E g \in Guard : home[g] # NoShard /\ NodeOf[home[g]] = n
  \/ \E m \in Child : Parent[m] = n /\ life[m] \in {"live", "dropping"}
  \/ \E t \in Thread : \E i \in DOMAIN todo[t] :
       \/ todo[t][i].do \in {"release", "adopt"} /\ todo[t][i].node = n
       \/ n \in todo[t][i].kids

(* Drop for Inner: latch and flush the shards, then leave the registry.    *)
CollectUnlatched(n) == <<TaskOn("deregister", n)>>
Collect(n) == <<TaskOn("latch", n), TaskOn("deregister", n)>>

(* Drop an Arc<Inner>; the last one runs Drop for Inner.                   *)
Release(t) ==
  LET n == Head(agenda[t]).node
      rest == [agenda EXCEPT ![t] = Tail(@)] IN
  /\ Doing(t, "release")
  /\ \/ /\ Pinned(n, rest)
        /\ agenda' = rest
        /\ UNCHANGED life
     \/ /\ ~Pinned(n, rest)
        /\ life' = [life EXCEPT ![n] = "dropping"]
        /\ Then(t, Collect(n))
  /\ UNCHANGED <<words, walk, home, handles, future, registered, making>>

(* deregister_child, then the fields drop, the Arc of the parent with them.*)
Deregister(t) ==
  LET n == Head(agenda[t]).node IN
  /\ Doing(t, "deregister")
  /\ registered' = [registered EXCEPT ![n] = NoShard]
  /\ life' = [life EXCEPT ![n] = "gone"]
  /\ Then(t, IF n = Root THEN <<>> ELSE <<TaskOn("release", Parent[n])>>)
  /\ UNCHANGED <<words, walk, home, handles, future, making>>

(* The rest of Inner::new_child once the child is constructed.             *)
Register(t) ==
  LET m == Head(agenda[t]).node IN
  /\ Doing(t, "register")
  /\ registered' = [registered EXCEPT ![m] = MyShard[t][Parent[m]]]
  /\ Then(t, <<>>)
  /\ UNCHANGED <<words, walk, home, handles, future, life, making>>

(* `if parent.is_stopped() { inner.stop() }`                               *)
TrustSnapshot(m) == <<>>
StopIfParentDid(m) ==
  IF Stopped(Parent[m]) THEN <<TaskOn("stop", m)>> ELSE <<>>

Check(t) ==
  /\ Doing(t, "check")
  /\ Then(t, StopIfParentDid(Head(agenda[t]).node))
  /\ UNCHANGED <<words, walk, owners, making>>

Adopt(t) ==
  /\ Doing(t, "adopt")
  /\ handles' = [handles EXCEPT ![Head(agenda[t]).node] = 1]
  /\ Then(t, <<>>)
  /\ UNCHANGED <<words, walk, home, future, life, registered, making>>

(* The model tracks one completion of a node at a time.                    *)
Untracked(n) ==
  /\ future[n] = "none"
  /\ Cardinality({m \in Node : future[m] # "none"}) < MaxFutures

(* ShutdownCompletion::new at the end of shut_down.  The caller may drop   *)
(* it at once, and the model does if it cannot track another one.          *)
Watch(t) ==
  LET n == Head(agenda[t]).node IN
  /\ Doing(t, "watch")
  /\ \/ "await" \in Calls /\ Untracked(n)
        /\ future' = [future EXCEPT ![n] = "new"]
     \/ UNCHANGED future
  /\ Then(t, <<>>)
  /\ UNCHANGED <<words, walk, home, handles, life, registered, making>>

(* The handle borrowed by Swansong::guard is free again.                   *)
GuardReturned(t) ==
  /\ Doing(t, "return")
  /\ Then(t, <<>>)
  /\ UNCHANGED <<words, walk, owners, making>>

(* A root's guard has no pin: it flushes through the shard's Weak.         *)
Upgrade(t) ==
  /\ Doing(t, "upgrade")
  /\ \E s \in Head(agenda[t]).shards :
       \/ /\ life[Root] = "live"
          /\ Go(t, "flush", s)
          /\ Then(t, <<TaskOn("release", Root)>>)
       \/ /\ life[Root] # "live"
          /\ Then(t, <<>>)
          /\ Stay
  /\ UNCHANGED <<words, from, saved, seen, resume, owners, making>>

(* Inner::swansong_count also counts a handle that was moved into a call   *)
(* of block_on_shutdown_completion, and that nobody can use.               *)
Blocked(n) ==
  \E t \in Thread : \E i \in DOMAIN agenda[t] :
    agenda[t][i].do = "block" /\ agenda[t][i].node = n
SwansongCount(n) == handles[n] + (IF Blocked(n) THEN 1 ELSE 0)

(* Drop for Swansong: the last handle of a root stops it.                  *)
DropTasks(n) ==
  (IF n = Root /\ SwansongCount(n) = 1 THEN <<TaskOn("stop", n)>> ELSE <<>>)
    \o <<TaskOn("release", n)>>

(* The completion has resolved: block_on_shutdown_completion returns, and  *)
(* only now drops the handle that it consumed.                             *)
Unblock(t) ==
  LET n == Head(agenda[t]).node IN
  /\ Doing(t, "block") /\ future[n] = "resolved"
  /\ future' = [future EXCEPT ![n] = "none"]
  /\ Then(t, DropTasks(n))
  /\ UNCHANGED <<words, walk, home, handles, life, registered, making>>

Proceed(t) ==
  \/ Stop(t) \/ Latch(t) \/ Snapshot(t) \/ StopKids(t) \/ StopNotify(t)
  \/ Release(t) \/ Deregister(t) \/ Register(t) \/ Check(t) \/ Adopt(t)
  \/ Watch(t) \/ GuardReturned(t) \/ Upgrade(t) \/ Unblock(t)

-----------------------------------------------------------------------------
(* Operations of the public API.  Each starts on an idle thread; what it   *)
(* does beyond its first atomic step is left to the walk and the agenda.   *)

FreeGuard(g) == home[g] = NoShard /\ \A t \in Thread : making[t] # g

(* Some running operation borrows a handle of n (`&self`), so that not all *)
(* of the handles of n can be dropped.                                     *)
Borrowed(n) ==
  \E t \in Thread : \E i \in DOMAIN agenda[t] :
    LET task == agenda[t][i] IN
    \/ task.do \in {"return", "watch"} /\ task.node = n
    \/ task.do = "adopt" /\ Parent[task.node] = n

(* Swansong::guard and Swansong::guarded.                                  *)
NewGuard(t, n, g) ==
  /\ Idle(t) /\ handles[n] > 0 /\ FreeGuard(g)
  /\ making' = [making EXCEPT ![t] = g]
  /\ Go(t, "arriveShard", MyShard[t][n])
  /\ Begin(t, <<TaskOn("return", n)>>)
  /\ UNCHANGED <<words, from, saved, seen, resume, owners>>

(* Interrupt::guarded, on an interrupt that holds shard s and came from a  *)
(* handle: there is none before child() has returned the first.  Only the  *)
(* first case needs no access to the node.                                 *)
Constructing(n) ==
  \E t \in Thread : \E i \in DOMAIN agenda[t] :
    agenda[t][i].do = "adopt" /\ agenda[t][i].node = n

ForShard(t, s, g) ==
  LET n == NodeOf[s] IN
  /\ Idle(t) /\ life[n] # "unborn" /\ ~Constructing(n) /\ FreeGuard(g)
  /\ \/ /\ n = Root /\ ARRIVED \in shardState[s].flags
        /\ shardState' = [shardState EXCEPT ![s].local = @ + 1]
        /\ home' = [home EXCEPT ![g] = s]
        /\ Stay /\ UNCHANGED making
     \/ /\ n # Root \/ ARRIVED \notin shardState[s].flags
        /\ making' = [making EXCEPT ![t] = g]
        /\ Go(t, "guarded", n)
        /\ UNCHANGED <<shardState, home>>
  /\ UNCHANGED <<nodeState, from, saved, seen, resume, handles, future, life,
                 registered, agenda>>

CloneGuard(t, g, g2) ==
  /\ Idle(t) /\ home[g] # NoShard /\ FreeGuard(g2)
  /\ shardState' = [shardState EXCEPT ![home[g]].local = @ + 1]
  /\ home' = [home EXCEPT ![g2] = home[g]]
  /\ UNCHANGED <<nodeState, walk, handles, future, life, registered, making,
                 agenda>>

DropGuard(t, g) ==
  LET s == home[g]  n == NodeOf[s]
      w == [shardState[s] EXCEPT !.local = @ - 1] IN
  /\ Idle(t) /\ s # NoShard
  /\ shardState' = [shardState EXCEPT ![s] = w]
  /\ home' = [home EXCEPT ![g] = NoShard]
  /\ \/ /\ n # Root
        /\ IF MustFlush(w) THEN Go(t, "flush", s) ELSE Stay
        /\ Begin(t, <<TaskOn("release", n)>>)
     \/ /\ n = Root
        /\ Begin(t, IF MustFlush(w)
                    THEN <<[TaskOn("upgrade", Root) EXCEPT !.shards = {s}]>>
                    ELSE <<>>)
        /\ Stay
  /\ UNCHANGED <<nodeState, from, saved, seen, resume, handles, future, life,
                 registered, making>>

CloneSwansong(t, n) ==
  /\ Idle(t) /\ handles[n] \in 1 .. MaxHandles[n] - 1
  /\ handles' = [handles EXCEPT ![n] = @ + 1]
  /\ UNCHANGED <<words, walk, home, future, life, registered, making, agenda>>

DropHandle(t, n) ==
  /\ Idle(t) /\ handles[n] > 0
  /\ handles[n] = 1 => ~Borrowed(n)
  /\ handles' = [handles EXCEPT ![n] = @ - 1]
  /\ Begin(t, DropTasks(n))

DropSwansong(t, n) ==
  /\ DropHandle(t, n)
  /\ UNCHANGED <<words, walk, home, future, life, registered, making>>

(* IntoFuture for Swansong makes a completion and drops the handle.        *)
AwaitSwansong(t, n) ==
  /\ DropHandle(t, n)
  /\ Untracked(n)
  /\ future' = [future EXCEPT ![n] = "new"]
  /\ UNCHANGED <<words, walk, home, life, registered, making>>

(* block_on_shutdown_completion consumes a handle and blocks the thread.   *)
BlockOnShutdown(t, n) ==
  /\ Idle(t) /\ handles[n] > 0 /\ Untracked(n)
  /\ handles[n] = 1 => ~Borrowed(n)
  /\ handles' = [handles EXCEPT ![n] = @ - 1]
  /\ future' = [future EXCEPT ![n] = "new"]
  /\ Begin(t, <<TaskOn("block", n)>>)
  /\ UNCHANGED <<words, walk, home, life, registered, making>>

ShutDown(t, n) ==
  /\ Idle(t) /\ handles[n] > 0
  /\ Begin(t, <<TaskOn("stop", n), TaskOn("watch", n)>>)
  /\ UNCHANGED <<words, walk, owners, making>>

(* Swansong::child: construct the Inner, the rest of new_child follows.    *)
NewChild(t, m) ==
  /\ Idle(t) /\ life[m] = "unborn" /\ handles[Parent[m]] > 0
  /\ life' = [life EXCEPT ![m] = "live"]
  /\ Begin(t, <<TaskOn("register", m), TaskOn("check", m),
                TaskOn("adopt", m)>>)
  /\ UNCHANGED <<words, walk, home, handles, future, registered, making>>

(* ShutdownCompletion: poll and block go through the same steps.  "new": at *)
(* the head of the loop without a listener; "checked": did not find the    *)
(* node complete; "listening": holds a listener; "waiting": suspended on   *)
(* it; "woken": notified, in either place.  The check at the head of the   *)
(* loop is relaxed and may miss a completion, the one after listening does *)
(* not; a waiting one may be polled without a wake.                        *)
Unresolved == {"new", "checked", "listening", "waiting", "woken"}

Keep(n) ==
  CASE future[n] = "new" -> "checked"
    [] future[n] = "checked" -> "listening"
    [] future[n] = "listening" -> "waiting"
    [] OTHER -> "new"

SleepUnchecked(n) == Keep(n)
StillWaiting(n) ==
  IF future[n] = "listening" /\ Complete(n) THEN "resolved" ELSE Keep(n)

Poll(n) ==
  /\ future[n] \in Unresolved
  /\ \/ /\ Complete(n) /\ future[n] # "checked"
        /\ future' = [future EXCEPT ![n] = "resolved"]
     \/ /\ future[n] # "waiting"
        /\ future' = [future EXCEPT ![n] = StillWaiting(n)]
  /\ UNCHANGED <<words, walk, home, handles, life, registered, making, agenda>>

DropFuture(t, n) ==
  /\ Idle(t) /\ future[n] \in {"new", "waiting", "woken", "resolved"}
  /\ ~Blocked(n)
  /\ future' = [future EXCEPT ![n] = "none"]
  /\ Begin(t, <<TaskOn("release", n)>>)
  /\ UNCHANGED <<words, walk, home, handles, life, registered, making>>

Call(t) ==
  \/ "guard" \in Calls /\ \E n \in Node, g \in Guard : NewGuard(t, n, g)
  \/ "for_shard" \in Calls /\ \E s \in Shard, g \in Guard : ForShard(t, s, g)
  \/ "clone_guard" \in Calls /\ \E g, g2 \in Guard : CloneGuard(t, g, g2)
  \/ "drop_guard" \in Calls /\ \E g \in Guard : DropGuard(t, g)
  \/ "clone" \in Calls /\ \E n \in Node : CloneSwansong(t, n)
  \/ "drop" \in Calls /\ \E n \in Node : DropSwansong(t, n)
  \/ "into_future" \in Calls /\ \E n \in Node : AwaitSwansong(t, n)
  \/ "block" \in Calls /\ \E n \in Node : BlockOnShutdown(t, n)
  \/ "shut_down" \in Calls /\ \E n \in Node : ShutDown(t, n)
  \/ "child" \in Calls /\ \E m \in Child : NewChild(t, m)
  \/ "drop_future" \in Calls /\ \E n \in Node : DropFuture(t, n)

-----------------------------------------------------------------------------
(* Inner::new_root, and children that are yet to be constructed.           *)

Init ==
  /\ shardState = [s \in Shard |-> EmptyShard({})]
  /\ nodeState = [n \in Node |-> EmptyNode({})]
  /\ home = [g \in Guard |-> NoShard]
  /\ handles = [n \in Node |-> IF n = Root THEN 1 ELSE 0]
  /\ future = [n \in Node |-> "none"]
  /\ life = [n \in Node |-> IF n = Root THEN "live" ELSE "unborn"]
  /\ registered = [n \in Node |-> NoShard]
  /\ pc = [t \in Thread |-> "idle"]
  /\ cell = [t \in Thread |-> Root]
  /\ from = [t \in Thread |-> [n \in Node |-> NoNode]]
  /\ saved = [t \in Thread |-> [c \in Cell |-> {}]]
  /\ seen = [t \in Thread |-> EmptyNode({})]
  /\ resume = [t \in Thread |-> Idling]
  /\ making = [t \in Thread |-> NoGuard]
  /\ agenda = [t \in Thread |-> <<>>]

Next ==
  \/ \E t \in Thread : Walk(t) \/ Proceed(t) \/ Call(t)
  \/ \E n \in Node : Poll(n)

Spec == Init /\ [][Next]_vars

(* A thread inside an operation keeps running, and an executor polls a     *)
(* completion that is new or woken.  Nothing obliges a client to call.     *)
PollDue(n) == future[n] # "waiting" /\ Poll(n)

Fairness ==
  /\ \A t \in Thread : WF_vars(Walk(t) \/ Proceed(t))
  /\ \A n \in Node : WF_vars(PollDue(n))

FairSpec == Spec /\ Fairness

-----------------------------------------------------------------------------
(* Types.                                                                  *)

WordTypes ==
  /\ shardState \in [Shard -> ShardWord]
  /\ nodeState \in [Node -> NodeWord]
  /\ home \in [Guard -> Shard \cup {NoShard}]

WalkTypes ==
  /\ pc \in [Thread -> Label]
  /\ cell \in [Thread -> Cell]
  /\ from \in [Thread -> [Node -> Node \cup {NoNode}]]
  /\ saved \in [Thread -> [Cell -> SUBSET Flags]]
  /\ seen \in [Thread -> NodeWord]
  /\ resume \in [Thread -> [pc : Label, cell : Cell]]
  /\ making \in [Thread -> Guard \cup {NoGuard}]

OwnerTypes ==
  /\ handles \in [Node -> Nat]
  /\ future \in [Node -> {"none", "resolved"} \cup Unresolved]
  /\ life \in [Node -> {"unborn", "live", "dropping", "gone"}]
  /\ registered \in [Node -> Shard \cup {NoShard}]
  /\ agenda \in [Thread -> Seq(Task)]

(* The type invariant: in particular no count of a shard or a node ever    *)
(* wraps below zero, however departures and lost arrivals interleave.      *)
TypeOK == WordTypes /\ WalkTypes /\ OwnerTypes

-----------------------------------------------------------------------------
(* Safety.                                                                 *)

(* S3 of docs/invariants.md, as the words see it: while a guard is alive,  *)
(* its node and every ancestor count a nonempty subset.  A guard may have  *)
(* piggy-backed on an arrival that another thread made.                    *)
GuardCounted ==
  \A g \in Guard : home[g] # NoShard =>
    \A a \in Ancestors(NodeOf[home[g]]) : nodeState[a].count > 0

(* S3 as clients see it: a completion never resolves in a step that finds  *)
(* a guard alive in the subset of its node.                                *)
ResolvesEmpty ==
  [][\A n \in Node : future[n] # "resolved" /\ future'[n] = "resolved"
       => GuardsUnder(n) = {}]_vars

(* What a count stands for: guards homed on a shard; children arrived at   *)
(* it, with arrivals and departures in flight; and shards of a node.       *)
KidInFlight(t, s) ==
  \/ pc[t] = "casNode" /\ MyShard[t][Parent[cell[t]]] = s
  \/ pc[t] = "departShard" /\ cell[t] = s
ShardInFlight(t, n) ==
  \/ pc[t] = "casShard" /\ NodeOf[cell[t]] = n
  \/ pc[t] = "departNode" /\ cell[t] = n

LocalTokens(s) == {g \in Guard : home[g] = s}
KidTokens(s) ==
  {m \in Child : ARRIVED \in nodeState[m].flags /\ nodeState[m].at = s}
  \cup {t \in Thread : KidInFlight(t, s)}
ShardTokens(n) ==
  {s \in Shards(n) : ARRIVED \in shardState[s].flags}
  \cup {t \in Thread : ShardInFlight(t, n)}

LocalExact ==
  \A s \in Shard : shardState[s].local = Cardinality(LocalTokens(s))
KidsExact ==
  \A s \in Shard : shardState[s].kids = Cardinality(KidTokens(s))
ShardsExact ==
  \A n \in Node : nodeState[n].count = Cardinality(ShardTokens(n))

(* A word that has not arrived is empty: the debug_asserts of              *)
(* Shard::arrive, Inner::arrive and Inner::depart.                         *)
UnarrivedEmpty ==
  /\ \A s \in Shard : ARRIVED \notin shardState[s].flags =>
       shardState[s].local = 0 /\ shardState[s].kids = 0
  /\ \A n \in Child : ARRIVED \notin nodeState[n].flags =>
       nodeState[n].count = 0

(* Every count is exactly the number of things it stands for at every      *)
(* step, so that no interleaving of lost compare_exchanges leaks or loses  *)
(* a unit; and the debug_asserts on the words hold.                        *)
CountsExact == LocalExact /\ KidsExact /\ ShardsExact /\ UnarrivedEmpty

(* The control state behind CountsExact: a thread's walk is on cells of    *)
(* the right kind, and one that will count a guard has a guard to count.   *)
Arriving == {"guarded", "arriveShard", "arriveNode", "casShard", "casNode"}
Departing == {"departShard", "flush", "departNode", "notify", "unarrive"}

WordsLinked ==
  \A n \in Child : ARRIVED \in nodeState[n].flags =>
    nodeState[n].at \in Shard /\ NodeOf[nodeState[n].at] = Parent[n]

OnTrack(t, label, c) ==
  /\ label \in ShardLabel => c \in Shard
  /\ label \in NodeLabel => c \in Node
  /\ label \in {"arriveShard", "casShard"} => c = MyShard[t][NodeOf[c]]
  /\ label \in {"casNode", "unarrive"} => c \in Child

WalkOK(t) ==
  /\ OnTrack(t, pc[t], cell[t])
  /\ OnTrack(t, resume[t].pc, resume[t].cell)
  /\ resume[t].pc \in {"idle", "arriveShard", "arriveNode"}
  /\ resume[t].pc # "idle" => pc[t] \in Departing
  /\ \A c \in Cell : ARRIVED \notin saved[t][c]
  /\ \A n \in Node : from[t][n] # NoNode =>
       from[t][n] \in Child /\ Parent[from[t][n]] = n
  /\ pc[t] \in {"notify", "unarrive"} /\ cell[t] \in Child =>
       seen[t].count = 0 /\ ARRIVED \in seen[t].flags /\ seen[t].at \in Shard

MakingOK(t) ==
  /\ pc[t] \in Arriving \/ resume[t].pc # "idle" => making[t] # NoGuard
  /\ making[t] # NoGuard =>
       /\ home[making[t]] = NoShard
       /\ \A u \in Thread \ {t} : making[u] # making[t]

ControlOK == WordsLinked /\ \A t \in Thread : WalkOK(t) /\ MakingOK(t)

(* A child that counts nothing has given up its arrival at its parent, or  *)
(* a departing thread is about to: a failed compare_exchange in            *)
(* Inner::depart never strands the arrival.                                *)
EmptyChildDeparts ==
  \A n \in Child : IsZero(n) /\ ARRIVED \in nodeState[n].flags =>
    \E t \in Thread : pc[t] \in {"notify", "unarrive"} /\ cell[t] = n

(* A completion that sleeps although its node is complete has a            *)
(* notification coming: from the departure that emptied the node, or from  *)
(* the stop that found it empty.                                           *)
NotifyDue(t, n) ==
  \/ pc[t] = "notify" /\ cell[t] = n
  \/ \E i \in DOMAIN agenda[t] :
       agenda[t][i].do = "notify" /\ agenda[t][i].node = n
NoLostNotification ==
  \A n \in Node : future[n] = "waiting" /\ Complete(n) =>
    \E t \in Thread : NotifyDue(t, n)

(* Guards, handles and completions keep their node and all its ancestors   *)
(* from being collected, so that a departure always finds the chain of     *)
(* parents (spec.md 3.4 and 5.5).  A root's own guards do not.             *)
ChainAlive ==
  \A n \in Node :
    \/ handles[n] > 0
    \/ future[n] # "none"
    \/ n # Root /\ \E g \in Guard : home[g] # NoShard /\ NodeOf[home[g]] = n
    => \A a \in Ancestors(n) : life[a] = "live"

(* Collecting a child leaves nothing behind: no arrival at any level, no   *)
(* entry in the parent's registry, and latched shards (spec.md 5.8).       *)
CollectedDeparted ==
  \A n \in Child : life[n] = "gone" =>
    /\ registered[n] = NoShard
    /\ ARRIVED \notin nodeState[n].flags
    /\ \A s \in Shards(n) : shardState[s] = EmptyShard({STOPPED})

Quiet == \A t \in Thread : Idle(t)

(* guard_count(): the local counts of the shards of a node and of all its  *)
(* registered live descendants.                                            *)
Visited(n) ==
  {m \in Node : \A S \in SUBSET Node :
     n \in S /\ (\A k \in S : \A s \in Shards(k) : LiveChildren(s) \subseteq S)
       => m \in S}
GuardCountSubtree(n) ==
  MapThenSumSet(LAMBDA s : shardState[s].local,
                {s \in Shard : NodeOf[s] \in Visited(n)})

(* S5: with no operation in flight guard_count() and state() are exact, at *)
(* every node of the tree and whatever raced before.                       *)
ExactWhenQuiet ==
  Quiet => \A n \in Node : life[n] = "live" =>
    /\ GuardCountSubtree(n) = Cardinality(GuardsUnder(n))
    /\ Stopped(n) => (IsZero(n) <=> GuardsUnder(n) = {})

(* spec.md 5.6: no interleaving of stops, child creations and collections  *)
(* leaves a live child running under a stopped parent, or a stopped node   *)
(* with a shard that is not latched.                                       *)
NoChildLeftRunning ==
  Quiet => \A n \in Node : life[n] = "live" /\ Stopped(n) =>
    /\ \A s \in Shards(n) : STOPPED \in shardState[s].flags
    /\ \A m \in Child : Parent[m] = n /\ life[m] = "live" => Stopped(m)

(* S1: a stop bit, once set in a node or a shard word, survives every      *)
(* read-modify-write of the counts that share its word.                    *)
StopLatches ==
  [][/\ \A n \in Node : Stopped(n) => Stopped(n)'
     /\ \A s \in Shard : STOPPED \in shardState[s].flags
          => STOPPED \in shardState'[s].flags]_vars

-----------------------------------------------------------------------------
(* What the documentation says and the code does not do.                   *)

(* lib.rs, Swansong::child: the parent is not complete until the child     *)
(* Swansong and its completions are dropped.                               *)
ParentWaitsForHandles ==
  \A m \in Child : Complete(Parent[m]) => handles[m] = 0 /\ future[m] = "none"

(* spec.md 2 and 3.3: no observer waits for ever on a root that nobody     *)
(* governs, since losing the last handle shuts it down.  Under FairSpec.   *)
UngovernedRootStops ==
  (life[Root] = "live" /\ handles[Root] = 0) ~> Stopped(Root)

=============================================================================
