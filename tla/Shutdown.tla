------------------------------ MODULE Shutdown ------------------------------
(***************************************************************************)
(* What swansong promises its clients, without shards, counts, registries  *)
(* or notifications.  A node of the tree names the set of the guards that  *)
(* belong to it or to a descendant.  A node is stopped at the request of a *)
(* caller of shut_down, because nobody governs the root any more, or       *)
(* because its parent is stopped; never for another reason.  A completion  *)
(* resolves once the node is stopped and its set of guards is empty.       *)
(***************************************************************************)
EXTENDS FiniteSets

CONSTANTS Node, Root, Parent, Guard, Caller, NoNode

VARIABLES
  live,      \* the nodes that exist
  governed,  \* the nodes with a Swansong handle
  member,    \* the node of each guard, NoNode if there is no such guard
  asking,    \* the node that a caller is shutting down, or NoNode
  stopped,   \* the nodes that are stopped
  completion \* of each node: "none", "pending" or "resolved"

vars == <<live, governed, member, asking, stopped, completion>>

(* The node itself, its parent, and so on up to the root.                  *)
Upwards(n) ==
  {a \in Node : \A S \in SUBSET Node :
     (n \in S /\ \A m \in S \ {Root} : Parent[m] \in S) => a \in S}
Subset(n) == {g \in Guard : member[g] # NoNode /\ n \in Upwards(member[g])}

Init ==
  /\ live = {Root} /\ governed = {Root} /\ stopped = {}
  /\ member = [g \in Guard |-> NoNode]
  /\ asking = [c \in Caller |-> NoNode]
  /\ completion = [n \in Node |-> "none"]

(* Swansong::guard, Swansong::guarded, Interrupt::guarded, Guard::clone.   *)
(* The guards of a root do not keep it, those of a child do.               *)
Enter(g, n) ==
  /\ member[g] = NoNode /\ (n # Root => n \in live)
  /\ member' = [member EXCEPT ![g] = n]
  /\ UNCHANGED <<live, governed, asking, stopped, completion>>

Leave(g) ==
  /\ member[g] # NoNode
  /\ member' = [member EXCEPT ![g] = NoNode]
  /\ UNCHANGED <<live, governed, asking, stopped, completion>>

(* Swansong::child.                                                        *)
Create(m) ==
  /\ m \notin live /\ Parent[m] \in governed
  /\ live' = live \cup {m} /\ governed' = governed \cup {m}
  /\ UNCHANGED <<member, asking, stopped, completion>>

(* The last handle of n is dropped.                                        *)
Abandon(n) ==
  /\ n \in governed
  /\ governed' = governed \ {n}
  /\ UNCHANGED <<live, member, asking, stopped, completion>>

(* A node goes once nothing keeps it: no handle, completion, child, guard. *)
Collect(n) ==
  /\ n \in live /\ n \notin governed /\ completion[n] = "none"
  /\ \A m \in live \ {Root} : Parent[m] # n
  /\ n # Root => \A g \in Guard : member[g] # n
  /\ live' = live \ {n}
  /\ UNCHANGED <<governed, member, asking, stopped, completion>>

(* Swansong::shut_down returns only once the node is stopped, and may hand *)
(* out a completion.                                                       *)
Ask(c, n) ==
  /\ asking[c] = NoNode /\ n \in governed
  /\ asking' = [asking EXCEPT ![c] = n]
  /\ UNCHANGED <<live, governed, member, stopped, completion>>

Answer(c) ==
  /\ asking[c] \in stopped
  /\ asking' = [asking EXCEPT ![c] = NoNode]
  /\ \/ /\ completion[asking[c]] = "none"
        /\ completion' = [completion EXCEPT ![asking[c]] = "pending"]
     \/ UNCHANGED completion
  /\ UNCHANGED <<live, governed, member, stopped>>

(* The only reasons for a stop.                                            *)
MustStop(n) ==
  /\ n \in live \ stopped
  /\ \/ \E c \in Caller : asking[c] = n
     \/ n = Root /\ n \notin governed
     \/ n # Root /\ Parent[n] \in stopped
Stop(n) ==
  /\ MustStop(n)
  /\ stopped' = stopped \cup {n}
  /\ UNCHANGED <<live, governed, member, asking, completion>>

(* Awaiting a handle consumes it; block_on_shutdown_completion keeps it    *)
(* until the completion has resolved.                                      *)
Await(n) ==
  /\ completion[n] = "none" /\ n \in governed
  /\ completion' = [completion EXCEPT ![n] = "pending"]
  /\ governed' \in {governed, governed \ {n}}
  /\ UNCHANGED <<live, member, asking, stopped>>

CanResolve(n) ==
  completion[n] = "pending" /\ n \in stopped /\ Subset(n) = {}
Resolve(n) ==
  /\ CanResolve(n)
  /\ completion' = [completion EXCEPT ![n] = "resolved"]
  /\ UNCHANGED <<live, governed, member, asking, stopped>>

Forget(n) ==
  /\ completion[n] # "none"
  /\ completion' = [completion EXCEPT ![n] = "none"]
  /\ \/ UNCHANGED governed
     \/ completion[n] = "resolved" /\ governed' = governed \ {n}
  /\ UNCHANGED <<live, member, asking, stopped>>

GuardStep == \E g \in Guard : Leave(g) \/ \E n \in Node : Enter(g, n)
NodeStep ==
  \/ \E m \in Node \ {Root} : Create(m)
  \/ \E c \in Caller : Answer(c) \/ \E n \in Node : Ask(c, n)
  \/ \E n \in Node :
       \/ Abandon(n) \/ Collect(n) \/ Stop(n)
       \/ Await(n) \/ Resolve(n) \/ Forget(n)

Next == GuardStep \/ NodeStep

Spec == Init /\ [][Next]_vars

(* Weak fairness of Stop and of Resolve, written with what enables them.   *)
Stops == \A n \in Node : []<>~MustStop(n)
Resolves == \A n \in Node : []<>~CanResolve(n)

=============================================================================
