----------------------------- MODULE GuardCount -----------------------------
(***************************************************************************)
(* Swansong::guard_count and Swansong::guard_report on top of GuardTree: a *)
(* thread walks the live subtree, one shard word, one registry of guards   *)
(* or one registry of children per step, while guards, children and        *)
(* handles come and go.  It holds an Arc of every child that it found, so  *)
(* it may turn out to be the last owner and collect it.                    *)
(*                                                                         *)
(* The root keeps a guard report.  Of the registries (GuardRegistry) this  *)
(* module needs the records of the guards that are counted.  Those are     *)
(* made before the guard is counted and dropped after it is uncounted, so  *)
(* that they are registered, except that for_shard, where it needs no      *)
(* access to the node, counts the guard first.                             *)
(***************************************************************************)
EXTENDS GuardTree, SequencesExt

CONSTANT Stoppable  \* the nodes that clients call shut_down on: a bound

VARIABLES
  census,  \* the walk in progress of each thread, see Census
  late     \* the guard that for_shard has counted and is yet to record

countVars == <<vars, census, late>>

(* A walk counts the guards, or reports them: `sum` is the count so far,   *)
(* `infos` are the guards whose records were found.  The rest is history:  *)
(* the guards that were in the subset at every moment of the call, for a   *)
(* report those that were recorded, how many there were when it began, and *)
(* whether one has been counted in since.                                  *)
Census == [busy : BOOLEAN, report : BOOLEAN, node : Node, sum : Nat,
           infos : SUBSET Guard, through : SUBSET Guard, begun : Nat,
           grown : BOOLEAN]
NoCensus == [busy |-> FALSE, report |-> FALSE, node |-> Root, sum |-> 0,
             infos |-> {}, through |-> {}, begun |-> 0, grown |-> FALSE]

(* The guards of a subset change under a walk that is going on.            *)
Subsets == [n \in Node |-> GuardsUnder(n)]
Witness(t) ==
  LET c == census[t]
      after == Subsets'[c.node] IN
  IF c.busy THEN [c EXCEPT !.through = @ \cap after,
                           !.grown = @ \/ ~(after \subseteq Subsets[c.node])]
            ELSE c

(* Guards that are counted and not recorded; nobody has been given them.   *)
Late == {late[t] : t \in Thread}
InTime(t) == late[t] = NoGuard
KeepsLate == \A g \in Guard \cap Late : home'[g] = home[g]

-----------------------------------------------------------------------------

(* One thread walks at a time: a bound.                                    *)
BeginWalk(t, n, c) ==
  /\ Idle(t) /\ InTime(t) /\ handles[n] > 0
  /\ \A u \in Thread : ~census[u].busy
  /\ Begin(t, <<TaskOn("tally", n), TaskOn("gather", n), TaskOn("return", n)>>)
  /\ census' = [census EXCEPT ![t] = c]
  /\ UNCHANGED <<words, walk, owners, making, late>>

(* guard_count(&self) and guard_report(&self).                             *)
BeginCount(t, n) ==
  BeginWalk(t, n, [NoCensus EXCEPT !.busy = TRUE, !.node = n,
                     !.through = GuardsUnder(n),
                     !.begun = Cardinality(GuardsUnder(n))])
BeginReport(t, n) ==
  BeginWalk(t, n, [NoCensus EXCEPT !.busy = TRUE, !.node = n, !.report = TRUE,
                     !.through = GuardsUnder(n) \ Late])

(* Shard::guard_count, or Shard::guard_infos, of one of the node's shards. *)
Recorded(s) == {g \in Guard \ Late : home[g] = s}
Seen(c, s) ==
  IF c.report THEN [c EXCEPT !.infos = @ \cup Recorded(s)]
              ELSE [c EXCEPT !.sum = @ + shardState[s].local]

Tally(t) ==
  /\ Doing(t, "tally")
  /\ \E s \in Head(agenda[t]).shards :
       /\ census' = [census EXCEPT ![t] = Seen(@, s)]
       /\ Then(t, RestOf([Head(agenda[t]) EXCEPT !.shards = @ \ {s}]))
  /\ UNCHANGED <<words, walk, owners, making, late>>

(* What is left once the children of a node are collected in a Vec: count  *)
(* the subtree of each, and drop the Vec when all have been counted.       *)
Visits(kids) ==
  [i \in 1 .. 2 * Len(kids) |->
     TaskOn(IF i % 2 = 1 THEN "tally" ELSE "gather", kids[(i + 1) \div 2])]
Releases(kids) == [i \in DOMAIN kids |-> TaskOn("release", kids[i])]
SkipGrandchildren(kids) ==
  [i \in DOMAIN kids |-> TaskOn("tally", kids[i])] \o Releases(kids)
CountKids(kids) == Visits(kids) \o Releases(kids)

(* guard_infos_subtree consumes the Vec: each child goes once it has been  *)
(* visited.                                                                *)
ReportShardsOnly(kids) ==
  [i \in 1 .. 2 * Len(kids) |->
     TaskOn(IF i % 2 = 1 THEN "tally" ELSE "release", kids[(i + 1) \div 2])]
ReportKids(kids) ==
  [i \in 1 .. 3 * Len(kids) |->
     TaskOn(IF i % 3 = 1 THEN "tally" ELSE IF i % 3 = 2 THEN "gather" ELSE "release",
            kids[(i + 2) \div 3])]

(* live_children, shard by shard.                                          *)
Gather(t) ==
  /\ Doing(t, "gather")
  /\ \E s \in Head(agenda[t]).shards :
       LET task == Head(agenda[t])
           left == task.shards \ {s}
           kids == task.kids \cup LiveChildren(s)
       IN Then(t, IF left # {} THEN <<[task EXCEPT !.shards = left, !.kids = kids]>>
                  ELSE IF census[t].report THEN ReportKids(SetToSeq(kids))
                  ELSE CountKids(SetToSeq(kids)))
  /\ UNCHANGED <<words, walk, owners, making, census, late>>

(* The result is returned and the handle that was borrowed is free again.  *)
Returning(t) == census[t].busy /\ Doing(t, "return")
EndCount(t) ==
  /\ Returning(t)
  /\ GuardReturned(t)
  /\ census' = [census EXCEPT ![t] = NoCensus]
  /\ UNCHANGED late

-----------------------------------------------------------------------------

(* Guard::for_shard on an arrived root shard: counted, and recorded by the *)
(* next step of the thread.                                                *)
CountFirst(t) ==
  /\ "for_shard" \in Calls
  /\ \E s \in Shard, g \in Guard :
       /\ ForShard(t, s, g) /\ home'[g] = s
       /\ late' = [late EXCEPT ![t] = g]

RecordLate(t) ==
  /\ ~InTime(t)
  /\ late' = [late EXCEPT ![t] = NoGuard]
  /\ UNCHANGED <<vars, census>>

CountInit ==
  /\ Init
  /\ census = [t \in Thread |-> NoCensus]
  /\ late = [t \in Thread |-> NoGuard]

Counting(t) ==
  \/ \E n \in Node : BeginCount(t, n) \/ BeginReport(t, n)
  \/ Tally(t) \/ Gather(t) \/ EndCount(t) \/ RecordLate(t)

(* The steps of the tree.  A guard whose record follows at once is in no   *)
(* step late.                                                              *)
TreeStep ==
  /\ \/ /\ \/ \E t \in Thread : /\ InTime(t)
                                 /\ \/ Walk(t) \/ Call(t)
                                    \/ ~Returning(t) /\ Proceed(t)
           \/ \E n \in Node : Poll(n)
        /\ UNCHANGED late
     \/ \E t \in Thread : InTime(t) /\ CountFirst(t)
  /\ KeepsLate
  /\ \A t \in Thread, n \in Node \ Stoppable : ~ShutDown(t, n)

CountNext ==
  \/ \E t \in Thread : Counting(t)
  \/ TreeStep /\ census' = [t \in Thread |-> Witness(t)]

CountSpec == CountInit /\ [][CountNext]_countVars

(* While a guard lives, every child above it is in a registry of its       *)
(* parent, however new_child, Inner::stop, and Drop for Inner (also on the *)
(* thread that counts) put the children in and out: the registries lead    *)
(* guard_count to it from any ancestor.                                    *)
GuardsRegistered ==
  \A g \in Guard : home[g] # NoShard =>
    \A c \in Ancestors(NodeOf[home[g]]) \ {Root} : registered[c] \in Shards(Parent[c])

(* S5: a guard_count that races with guards, child creations and           *)
(* collections misses no guard that was there throughout, and reports no   *)
(* more than there were at its start if none has come since: a child that  *)
(* moves through the registries is neither skipped nor visited twice.      *)
CountBracketed ==
  \A t \in Thread : Returning(t) /\ ~census[t].report =>
    /\ census[t].sum >= Cardinality(census[t].through)
    /\ ~census[t].grown => census[t].sum <= census[t].begun

(* A guard_report that races with all of that has the record of every      *)
(* guard that was there throughout and that had been handed out when it    *)
(* began, although it visits the subtree child by child and releases each, *)
(* perhaps as its last owner, before it visits the next.                   *)
ReportMissesNone ==
  \A t \in Thread : Returning(t) /\ census[t].report =>
    census[t].through \subseteq census[t].infos

=============================================================================
