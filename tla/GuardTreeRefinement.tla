------------------------ MODULE GuardTreeRefinement -------------------------
(***************************************************************************)
(* GuardTree implements Shutdown: however the threads interleave, what     *)
(* clients see of nodes, guards, stops and completions is a behaviour of   *)
(* the abstract specification.                                             *)
(***************************************************************************)
EXTENDS GuardTree

(* A handle of n is held by a client, or by block_on_shutdown_completion,  *)
(* or child() is about to return it: swansong_count starts at 1.           *)
Governed(n) ==
  \/ handles[n] > 0
  \/ \E t \in Thread : \E i \in DOMAIN agenda[t] :
       agenda[t][i].do \in {"adopt", "block"} /\ agenda[t][i].node = n

(* The node that t is inside shut_down for: making the completion is the   *)
(* last thing that shut_down does.                                         *)
Asking(t) ==
  LET end == Len(agenda[t]) IN
  IF end > 0 /\ agenda[t][end].do = "watch" THEN agenda[t][end].node ELSE NoNode

(* What a client can tell of the nodes, the guards and the completions.    *)
LiveNodes == {n \in Node : life[n] = "live"}
GovernedNodes == {n \in Node : Governed(n)}
MemberOf == [g \in Guard |->
               IF home[g] = NoShard THEN NoNode ELSE NodeOf[home[g]]]
AskingFor == [t \in Thread |-> Asking(t)]
StoppedNodes == {n \in Node : Stopped(n)}
CompletionOf == [n \in Node |->
                   IF future[n] \in Unresolved THEN "pending" ELSE future[n]]

Abstract == INSTANCE Shutdown WITH
  Caller <- Thread, live <- LiveNodes, governed <- GovernedNodes,
  member <- MemberOf, asking <- AskingFor, stopped <- StoppedNodes,
  completion <- CompletionOf

(* Every step of every thread is a step of Shutdown or changes nothing a   *)
(* client sees: no node stops without one of the three causes, a stop      *)
(* never goes upwards or sideways, shut_down returns only once its node is *)
(* stopped, a completion resolves only on a stopped, empty subset, and no  *)
(* node is collected under its guards, children, handles or completions.   *)
Implements == Abstract!Spec

(* Under FairSpec: a node that was asked to stop, that nobody governs, or  *)
(* whose parent is stopped does not run on (spec.md 3.3 and 5.6).          *)
StopsHappen == Abstract!Stops

(* L3 under FairSpec: a completion does not stay pending for ever on a     *)
(* stopped node whose subset stays empty.                                  *)
CompletionResolves == Abstract!Resolves

=============================================================================
