------------------------- MODULE GuardTreeOwnership -------------------------
(***************************************************************************)
(* Who keeps which node of GuardTree alive: handles, completions, guards,  *)
(* children and the tasks on agendas hold their node, no node that they    *)
(* hold is collected, and no thread works on a node that has been.         *)
(*                                                                         *)
(* OwnInv says which nodes are alive, what each kind of task may rely on   *)
(* and which tasks may follow each other on an agenda.  The tasks and the  *)
(* lives that a step touches are summed up in lemmas about Then, Begin and *)
(* the walk, and the actions are gone through once.                        *)
(*                                                                         *)
(* The second half shows that departures reach the end: what is emptied is *)
(* given up at the level above, who sleeps is notified, and a collected    *)
(* node leaves nothing behind.  Its invariant is DepartInv.                *)
(***************************************************************************)
EXTENDS GuardTreeProofs

-----------------------------------------------------------------------------
(* The tree.                                                               *)

(* A node is its own ancestor, and the ancestors of a node contain the     *)
(* parents of all of them.                                                 *)
LEMMA AncestorsClosed ==
  ASSUME NEW n \in Node
  PROVE  /\ n \in Ancestors(n) /\ Ancestors(n) \subseteq Node
         /\ \A m \in Ancestors(n) \ {Root} :
              m \in Child /\ Parent[m] \in Ancestors(n)
<1>1. n \in Ancestors(n) /\ Ancestors(n) \subseteq Node
  BY DEF Ancestors
<1>2. ASSUME NEW m \in Ancestors(n) \ {Root}
      PROVE  m \in Child /\ Parent[m] \in Ancestors(n)
  <2>1. m \in Child /\ Parent[m] \in Node
    BY <1>1, TreeAssumption DEF Child
  <2> QED
    BY <2>1 DEF Ancestors
<1> QED
  BY <1>1, <1>2

(* They are the least such set.                                            *)
LEMMA AncestorsLeast ==
  ASSUME NEW n \in Node, NEW S, n \in S,
         \A m \in Child : m \in S => Parent[m] \in S
  PROVE  Ancestors(n) \subseteq S
<1>1. /\ S \cap Node \in SUBSET Node /\ n \in S \cap Node
      /\ \A m \in (S \cap Node) \ {Root} : Parent[m] \in S \cap Node
  BY TreeAssumption DEF Child
<1> QED
  BY <1>1 DEF Ancestors

(* The ancestors of an ancestor are ancestors.                             *)
LEMMA AncestorsTransitive ==
  ASSUME NEW n \in Node, NEW k \in Ancestors(n)
  PROVE  Ancestors(k) \subseteq Ancestors(n)
BY AncestorsLeast, AncestorsClosed DEF Child

(* A node's ancestors are the node and its parent's ancestors.             *)
LEMMA AncestorsUnfold ==
  ASSUME NEW n \in Node, NEW k \in Ancestors(n), k # n
  PROVE  n \in Child /\ Parent[n] \in Node /\ k \in Ancestors(Parent[n])
<1>1. n # Root
  <2>1. SUFFICES ASSUME n = Root PROVE FALSE
    OBVIOUS
  <2>2. Ancestors(n) \subseteq {n}
    BY <2>1, AncestorsLeast DEF Child
  <2> QED
    BY <2>2
<1>2. n \in Child /\ Parent[n] \in Node
  BY <1>1, TreeAssumption DEF Child
<1>3. Ancestors(n) \subseteq {n} \cup Ancestors(Parent[n])
  <2> DEFINE S == {n} \cup Ancestors(Parent[n])
  <2>1. n \in S /\ \A m \in Child : m \in S => Parent[m] \in S
    BY <1>2, AncestorsClosed DEF Child
  <2> HIDE DEF S
  <2>2. Ancestors(n) \subseteq S
    BY <2>1, AncestorsLeast
  <2> QED
    BY <2>2 DEF S
<1> QED
  BY <1>2, <1>3

(* There is no cycle: every node leads to the root.                        *)
LEMMA AncestorsAcyclic ==
  ASSUME NEW n \in Node, NEW k \in Ancestors(n), n \in Ancestors(k)
  PROVE  k = n
<1> SUFFICES ASSUME k # n PROVE FALSE
  OBVIOUS
<1>1. k \in Node
  BY AncestorsClosed
<1> DEFINE S == {a \in Node : k \in Ancestors(a)}
<1>2. ASSUME NEW m \in Child, m \in S
      PROVE  Parent[m] \in S
  <2>1. m \in Node /\ Parent[m] \in Node
    BY TreeAssumption DEF Child
  <2>2. CASE k # m
    BY <1>2, <2>1, <2>2, AncestorsUnfold
  <2>3. CASE k = m
    <3>1. n \in Ancestors(Parent[k])
      BY <1>1, AncestorsUnfold
    <3>2. k \in Ancestors(Parent[k])
      BY <2>1, <2>3, <3>1, AncestorsTransitive
    <3> QED
      BY <2>1, <2>3, <3>2
  <2> QED
    BY <2>2, <2>3
<1>3. k \in S
  BY <1>1, AncestorsClosed
<1> HIDE DEF S
<1>4. Ancestors(k) \subseteq S
  BY <1>1, <1>2, <1>3, AncestorsLeast
<1>5. k \in Ancestors(Root)
  BY <1>1, <1>4, RootAssumption DEF S
<1>6. k = Root
  BY <1>5, AncestorsUnfold, TreeAssumption DEF Child
<1> QED
  BY <1>1, <1>6, AncestorsUnfold, TreeAssumption DEF Child

(* Nor is there a node that is its own parent.                             *)
LEMMA ParentBelowNone ==
  ASSUME NEW m \in Child
  PROVE  m \in Node /\ Parent[m] \in Node /\ m \notin Ancestors(Parent[m])
<1>1. m \in Node /\ m # Root /\ Parent[m] \in Node
  BY TreeAssumption DEF Child
<1> SUFFICES ASSUME m \in Ancestors(Parent[m]) PROVE FALSE
  BY <1>1
<1>2. Parent[m] \in Ancestors(m)
  BY <1>1, AncestorsClosed
<1>3. Parent[m] = m
  BY <1>1, <1>2, AncestorsAcyclic
<1>4. Ancestors(m) \subseteq {m}
  BY <1>1, <1>3, AncestorsLeast DEF Child
<1> QED
  BY <1>1, <1>4, RootAssumption

(* The ancestors of a node are a chain.                                    *)
LEMMA AncestorsLinear ==
  ASSUME NEW n \in Node, NEW j \in Ancestors(n), NEW k \in Ancestors(n)
  PROVE  j \in Ancestors(k) \/ k \in Ancestors(j)
<1> DEFINE S == {a \in Node : k \in Ancestors(a) \/ a \in Ancestors(k)}
<1>1. k \in Node
  BY AncestorsClosed
<1>2. ASSUME NEW m \in Child, m \in S
      PROVE  Parent[m] \in S
  <2>1. m \in Node /\ m # Root /\ Parent[m] \in Node
    BY TreeAssumption DEF Child
  <2>2. CASE m \in Ancestors(k)
    BY <1>1, <2>1, <2>2, AncestorsClosed
  <2>3. CASE k \in Ancestors(m) /\ k # m
    BY <2>1, <2>3, AncestorsUnfold
  <2>4. CASE k = m
    BY <1>1, <2>1, <2>4, AncestorsClosed
  <2> QED
    BY <1>2, <2>2, <2>3, <2>4
<1>3. n \in S
  OBVIOUS
<1> HIDE DEF S
<1>4. Ancestors(n) \subseteq S
  BY <1>2, <1>3, AncestorsLeast
<1> QED
  BY <1>4 DEF S

-----------------------------------------------------------------------------
(* The invariant.                                                          *)

(* What a task on an agenda means for the nodes it names.                  *)
JobOK(x) ==
  /\ x.shards \subseteq Shards(x.node)
  /\ \A m \in x.kids : Parent[m] = x.node /\ life[m] = "live"
  /\ x.do = "upgrade" => x.node = Root
  /\ x.do \in {"release", "adopt"} => life[x.node] = "live"
  /\ x.do \in {"return", "watch"} => handles[x.node] > 0
  /\ x.do = "adopt" => handles[Parent[x.node]] > 0
  /\ x.do = "deregister" => life[x.node] = "dropping"
JobsOK == \A t \in Thread : \A i \in 1 .. Len(agenda[t]) : JobOK(agenda[t][i])

(* The tasks that keep the node they name, or are its collection; and the  *)
(* ones that use the node and rely on a later task of that kind.           *)
Keeping == {"release", "adopt", "return", "watch", "deregister"}
Using == {"stop", "latch", "snapshot", "stopKids", "notify", "register", "check"}

Keeps(x, n) == x.do \in Keeping /\ x.node = n
UsesKept ==
  \A t \in Thread : \A i \in 1 .. Len(agenda[t]) :
    agenda[t][i].do \in Using =>
      \E j \in 1 .. Len(agenda[t]) : j > i /\ Keeps(agenda[t][j], agenda[t][i].node)

CollectedOnce ==
  \A t, u \in Thread : \A i \in 1 .. Len(agenda[t]), j \in 1 .. Len(agenda[u]) :
    /\ agenda[t][i].do = "deregister" /\ agenda[u][j].do = "deregister"
    /\ agenda[t][i].node = agenda[u][j].node
    => t = u /\ i = j

KeptAlive ==
  /\ \A n \in Node : handles[n] > 0 \/ future[n] # "none" => life[n] = "live"
  /\ \A g \in Guard : home[g] # NoShard /\ NodeOf[home[g]] # Root =>
       life[NodeOf[home[g]]] = "live"
  /\ \A m \in Child : life[m] \in {"live", "dropping"} => life[Parent[m]] = "live"
  /\ \A m \in Child : registered[m] # NoShard => NodeOf[registered[m]] = Parent[m]

(* The chain of arrivals of a thread that is creating a guard: it leads    *)
(* from the node of the guard, which the agenda keeps, up to the node the  *)
(* thread is at.                                                           *)
Under(c) == IF c \in Shard THEN NodeOf[c] ELSE c
Active(t) == pc[t] \in Arriving \ {"guarded"} \/ resume[t].pc # "idle"
Here(t) == IF resume[t].pc # "idle" THEN Under(resume[t].cell) ELSE Under(cell[t])
Base(t) == agenda[t][1].node
OnChain(t, m) == m = Here(t) \/ (m \in Child /\ from[t][Parent[m]] = m)

ChainOK(t) ==
  /\ pc[t] = "guarded" => agenda[t] = <<>>
  /\ ~Active(t) => \A k \in Node : from[t][k] = NoNode
  /\ Active(t) =>
       /\ Len(agenda[t]) = 1 /\ agenda[t][1].do \in {"return", "release"}
       /\ \A m \in Node : OnChain(t, m) =>
            m \in Ancestors(Base(t)) /\ (from[t][m] = NoNode => m = Base(t))
       /\ \A k \in Node : from[t][k] # NoNode => Here(t) \in Ancestors(k)

(* A thread inside a walk is at an ancestor of a node that it keeps.       *)
WalkKept(t) ==
  pc[t] \notin {"idle", "guarded"} =>
    \E i \in 1 .. Len(agenda[t]) :
      /\ agenda[t][i].do \in Keeping
      /\ Under(cell[t]) \in Ancestors(agenda[t][i].node)

AgendaInv == JobsOK /\ UsesKept /\ CollectedOnce
WalksInv == \A t \in Thread : ChainOK(t) /\ WalkKept(t)
OwnInv == AgendaInv /\ KeptAlive /\ WalksInv

-----------------------------------------------------------------------------
(* Agendas.                                                                *)

(* Every entry of an agenda is a task.                                     *)
LEMMA JobType ==
  ASSUME IInv, NEW t \in Thread, NEW i \in 1 .. Len(agenda[t])
  PROVE  /\ agenda[t] \in Seq(Task) /\ agenda[t][i] \in Task
         /\ agenda[t][i].node \in Node
         /\ agenda[t][i].shards \subseteq Shard /\ agenda[t][i].kids \subseteq Child
         /\ agenda[t][i].do \in {"register", "check", "adopt"} =>
              agenda[t][i].node \in Child
<1>1. agenda[t] \in Seq(Task)
  BY DEF IInv, OwnerTypes
<1>2. agenda[t][i] \in Task
  BY <1>1
<1> QED
  BY <1>1, <1>2 DEF Task, Child

(* The agenda after the head has been replaced by the tasks q.             *)
LEMMA ThenJobs ==
  ASSUME agenda \in [Thread -> Seq(Task)], NEW t \in Thread, agenda[t] # <<>>,
         NEW q \in Seq(Task), Then(t, q)
  PROVE  /\ \A u \in Thread \ {t} : agenda'[u] = agenda[u]
         /\ Len(agenda[t]) \in Nat \ {0} /\ Len(q) \in Nat
         /\ Len(agenda'[t]) = Len(q) + Len(agenda[t]) - 1
         /\ \A i \in 1 .. Len(q) : agenda'[t][i] = q[i]
         /\ \A i \in 2 .. Len(agenda[t]) :
              agenda'[t][i - 1 + Len(q)] = agenda[t][i]
<1>1. agenda[t] \in Seq(Task) /\ agenda'[t] = q \o Tail(agenda[t])
  BY DEF Then
<1>2. /\ Len(agenda[t]) \in Nat \ {0} /\ Len(q) \in Nat
      /\ Tail(agenda[t]) \in Seq(Task)
      /\ Len(Tail(agenda[t])) = Len(agenda[t]) - 1
      /\ \A i \in 1 .. Len(agenda[t]) - 1 : Tail(agenda[t])[i] = agenda[t][i + 1]
  BY <1>1
<1>3. \A u \in Thread \ {t} : agenda'[u] = agenda[u]
  BY DEF Then
<1>4. Len(agenda'[t]) = Len(q) + Len(agenda[t]) - 1
  BY <1>1, <1>2
<1>5. ASSUME NEW i \in 1 .. Len(q)
      PROVE  agenda'[t][i] = q[i]
  BY <1>1, <1>2
<1>6. ASSUME NEW i \in 2 .. Len(agenda[t])
      PROVE  agenda'[t][i - 1 + Len(q)] = agenda[t][i]
  <2>1. i - 1 \in 1 .. Len(agenda[t]) - 1
    BY <1>2
  <2>2. Tail(agenda[t])[i - 1] = agenda[t][i]
    BY <1>2, <2>1
  <2>3. (q \o Tail(agenda[t]))[Len(q) + (i - 1)] = Tail(agenda[t])[i - 1]
    BY <1>1, <1>2, <2>1
  <2> QED
    BY <1>1, <1>2, <2>2, <2>3, SMTT(60)
<1> QED
  BY <1>2, <1>3, <1>4, <1>5, <1>6

(* The tasks that a step of t leaves on the agendas.                       *)
Pending(t, x) ==
  \E u \in Thread : \E i \in 1 .. Len(agenda[u]) :
    agenda[u][i] = x /\ (u = t => i > 1)

(* A position of the new agenda is one of q or a shifted old one.          *)
LEMMA ThenPositions ==
  ASSUME agenda \in [Thread -> Seq(Task)], NEW t \in Thread, agenda[t] # <<>>,
         NEW q \in Seq(Task), Then(t, q), NEW j \in 1 .. Len(agenda'[t])
  PROVE  \/ j \in 1 .. Len(q) /\ agenda'[t][j] = q[j]
         \/ \E i \in 2 .. Len(agenda[t]) :
              j = i - 1 + Len(q) /\ agenda'[t][j] = agenda[t][i]
<1>1. CASE j <= Len(q)
  BY <1>1, ThenJobs
<1>2. CASE j > Len(q)
  <2> DEFINE i == j + 1 - Len(q)
  <2>1. i \in 2 .. Len(agenda[t]) /\ j = i - 1 + Len(q)
    BY <1>2, ThenJobs
  <2>2. agenda'[t][i - 1 + Len(q)] = agenda[t][i]
    BY <2>1, ThenJobs
  <2> QED
    BY <2>1, <2>2
<1> QED
  BY <1>1, <1>2, ThenJobs

(* CollectedOnce in the next state.                                        *)
LEMMA OnceNext ==
  ASSUME \A u, v \in Thread :
           \A i \in 1 .. Len(agenda'[u]), j \in 1 .. Len(agenda'[v]) :
             /\ agenda'[u][i].do = "deregister" /\ agenda'[v][j].do = "deregister"
             /\ agenda'[u][i].node = agenda'[v][j].node
             => u = v /\ i = j
  PROVE  CollectedOnce'
BY DEF CollectedOnce

(* What has to be shown of a step that replaces the head of an agenda.     *)
LEMMA ThenAgenda ==
  ASSUME agenda \in [Thread -> Seq(Task)], AgendaInv,
         NEW t \in Thread, agenda[t] # <<>>, NEW q \in Seq(Task), Then(t, q),
         \A x \in Task : Pending(t, x) /\ JobOK(x) => JobOK(x)',
         \A x \in Task : (\E i \in 1 .. Len(q) : q[i] = x) => JobOK(x)',
         \A i \in 1 .. Len(q) : q[i].do \in Using =>
           \/ \E j \in 1 .. Len(q) : j > i /\ Keeps(q[j], q[i].node)
           \/ \E j \in 2 .. Len(agenda[t]) : Keeps(agenda[t][j], q[i].node),
         \A i, j \in 1 .. Len(q) :
           q[i].do = "deregister" /\ q[j].do = "deregister" => i = j,
         \A i \in 1 .. Len(q) : q[i].do = "deregister" =>
           \A x \in Task : Pending(t, x) => ~(x.do = "deregister" /\ x.node = q[i].node)
  PROVE  AgendaInv'
<1> USE DEF AgendaInv
<1>1. JobsOK'
  <2> SUFFICES ASSUME NEW u \in Thread, NEW j \in 1 .. Len(agenda'[u])
               PROVE  JobOK(agenda[u][j])'
    BY DEF JobsOK
  <2>1. \A x \in Task : Pending(t, x) => JobOK(x)'
    BY DEF JobsOK, Pending
  <2>2. CASE u # t
    <3>1. agenda'[u] = agenda[u]
      BY <2>2, ThenJobs
    <3>2. agenda[u][j] \in Task /\ Pending(t, agenda[u][j])
      BY <2>2, <3>1 DEF Pending
    <3>3. \A x \in Task : x = agenda'[u][j] => JobOK(x)'
      BY <2>1, <3>1, <3>2
    <3> QED
      BY <3>1, <3>2, <3>3 DEF JobOK, Shards
  <2>3. CASE u = t
    <3>1. agenda'[t][j] \in Task
      <4>1. j \in 1 .. Len(agenda'[t])
        BY <2>3
      <4>2. \/ j \in 1 .. Len(q) /\ agenda'[t][j] = q[j]
            \/ \E i \in 2 .. Len(agenda[t]) :
                 j = i - 1 + Len(q) /\ agenda'[t][j] = agenda[t][i]
        BY <4>1, ThenPositions
      <4>3. \A i \in 2 .. Len(agenda[t]) : agenda[t][i] \in Task
        OBVIOUS
      <4> QED
        BY <4>2, <4>3
    <3>2. \A x \in Task : x = agenda'[t][j] => JobOK(x)'
      <4>1. CASE j \in 1 .. Len(q) /\ agenda'[t][j] = q[j]
        BY <4>1
      <4>2. ASSUME NEW i \in 2 .. Len(agenda[t]), agenda'[t][j] = agenda[t][i]
            PROVE  \A x \in Task : x = agenda'[t][j] => JobOK(x)'
        <5>1. i \in 1 .. Len(agenda[t]) /\ i > 1
          BY ThenJobs
        <5> QED
          BY <2>1, <4>2, <5>1 DEF Pending
      <4> QED
        BY <2>3, <4>1, <4>2, ThenPositions
    <3> QED
      BY <2>3, <3>1, <3>2 DEF JobOK, Shards
  <2> QED
    BY <2>2, <2>3
<1>2. UsesKept'
  <2> SUFFICES ASSUME NEW u \in Thread, NEW i \in 1 .. Len(agenda'[u]),
                      agenda'[u][i].do \in Using
               PROVE  \E j \in 1 .. Len(agenda'[u]) :
                        j > i /\ Keeps(agenda'[u][j], agenda'[u][i].node)
    BY DEF UsesKept, Keeps
  <2>1. CASE u # t
    <3>1. agenda'[u] = agenda[u]
      BY <2>1, ThenJobs
    <3> QED
      BY <3>1 DEF UsesKept
  <2>2. CASE u = t
    <3>1. ASSUME NEW j \in 2 .. Len(agenda[t])
          PROVE  /\ j - 1 + Len(q) \in 1 .. Len(agenda'[t])
                 /\ agenda'[t][j - 1 + Len(q)] = agenda[t][j]
                 /\ j - 1 + Len(q) > Len(q)
      BY ThenJobs, SMTT(60)
    <3>2. CASE i \in 1 .. Len(q) /\ agenda'[t][i] = q[i]
      <4>1. CASE \E j \in 1 .. Len(q) : j > i /\ Keeps(q[j], q[i].node)
        BY <2>2, <3>2, <4>1, ThenJobs
      <4>2. CASE \E j \in 2 .. Len(agenda[t]) : Keeps(agenda[t][j], q[i].node)
        <5>1. PICK j \in 2 .. Len(agenda[t]) : Keeps(agenda[t][j], q[i].node)
          BY <4>2
        <5>2. j - 1 + Len(q) > i
          BY <3>1, <3>2
        <5> QED
          BY <2>2, <3>1, <3>2, <5>1, <5>2
      <4> QED
        BY <2>2, <3>2, <4>1, <4>2
    <3>3. ASSUME NEW k \in 2 .. Len(agenda[t]), i = k - 1 + Len(q),
                 agenda'[t][i] = agenda[t][k]
          PROVE  \E j \in 1 .. Len(agenda'[t]) :
                   j > i /\ Keeps(agenda'[t][j], agenda'[t][i].node)
      <4>1. PICK j \in 1 .. Len(agenda[t]) :
              j > k /\ Keeps(agenda[t][j], agenda[t][k].node)
        <5>1. k \in 1 .. Len(agenda[t]) /\ agenda[t][k].do \in Using
          BY <2>2, <3>3, ThenJobs
        <5> QED
          BY <5>1 DEF UsesKept
      <4>2. j \in 2 .. Len(agenda[t]) /\ j - 1 + Len(q) > i
        BY <3>3, <4>1, ThenJobs
      <4> QED
        BY <3>1, <3>3, <4>1, <4>2
    <3> QED
      BY <2>2, <3>2, <3>3, ThenPositions
  <2> QED
    BY <2>1, <2>2
<1>3. ASSUME NEW u \in Thread, NEW v \in Thread,
             NEW i \in 1 .. Len(agenda'[u]), NEW j \in 1 .. Len(agenda'[v]),
             agenda'[u][i].do = "deregister",
             agenda'[v][j].do = "deregister",
             agenda'[u][i].node = agenda'[v][j].node
      PROVE  u = v /\ i = j
  <2> DEFINE New(w, k) == w = t /\ k \in 1 .. Len(q) /\ agenda'[w][k] = q[k]
             Old(w, k, l) == /\ l \in 1 .. Len(agenda[w]) /\ agenda'[w][k] = agenda[w][l]
                             /\ w = t => l > 1 /\ k = l - 1 + Len(q)
                             /\ w # t => k = l
  <2>1. ASSUME NEW w \in Thread, NEW k \in 1 .. Len(agenda'[w])
        PROVE  New(w, k) \/ \E l \in 1 .. Len(agenda[w]) : Old(w, k, l)
    <3>1. CASE w # t
      BY <2>1, <3>1, ThenJobs
    <3>2. CASE w = t
      <4>1. CASE \E l \in 2 .. Len(agenda[t]) :
                   k = l - 1 + Len(q) /\ agenda'[t][k] = agenda[t][l]
        <5>1. PICK l \in 2 .. Len(agenda[t]) :
                   k = l - 1 + Len(q) /\ agenda'[t][k] = agenda[t][l]
          BY <4>1
        <5>2. l \in 1 .. Len(agenda[t]) /\ l > 1
          BY ThenJobs
        <5> QED
          BY <3>2, <5>1, <5>2
      <4> QED
        BY <2>1, <3>2, <4>1, ThenPositions
    <3> QED
      BY <3>1, <3>2
  <2>2. ASSUME NEW w \in Thread, NEW k, NEW l, Old(w, k, l)
        PROVE  agenda[w][l] \in Task /\ Pending(t, agenda[w][l])
    BY <2>2 DEF Pending
  <2>3. CASE New(u, i) /\ New(v, j)
    BY <1>3, <2>3
  <2>4. ASSUME NEW l \in 1 .. Len(agenda[v]), New(u, i), Old(v, j, l)
        PROVE  FALSE
    BY <1>3, <2>2, <2>4, ZenonT(60)
  <2>5. ASSUME NEW k \in 1 .. Len(agenda[u]), Old(u, i, k), New(v, j)
        PROVE  FALSE
    BY <1>3, <2>2, <2>5
  <2>6. ASSUME NEW k \in 1 .. Len(agenda[u]), NEW l \in 1 .. Len(agenda[v]),
               Old(u, i, k), Old(v, j, l)
        PROVE  u = v /\ i = j
    BY <1>3, <2>6 DEF CollectedOnce
  <2>7. /\ New(u, i) \/ \E l \in 1 .. Len(agenda[u]) : Old(u, i, l)
        /\ New(v, j) \/ \E l \in 1 .. Len(agenda[v]) : Old(v, j, l)
    BY <2>1
  <2> HIDE DEF New, Old
  <2> QED
    BY <2>3, <2>4, <2>5, <2>6, <2>7
<1>4. \A u, v \in Thread :
        \A i \in 1 .. Len(agenda'[u]), j \in 1 .. Len(agenda'[v]) :
          /\ agenda'[u][i].do = "deregister" /\ agenda'[v][j].do = "deregister"
          /\ agenda'[u][i].node = agenda'[v][j].node
          => u = v /\ i = j
  <2> TAKE u, v \in Thread
  <2> TAKE i \in 1 .. Len(agenda'[u]), j \in 1 .. Len(agenda'[v])
  <2> HAVE /\ agenda'[u][i].do = "deregister" /\ agenda'[v][j].do = "deregister"
           /\ agenda'[u][i].node = agenda'[v][j].node
  <2> QED
    BY <1>3, SMTT(60)
<1>5. CollectedOnce'
  BY <1>4, OnceNext, Zenon
<1> QED
  BY <1>1, <1>2, <1>5

(* An operation that begins on an idle thread.                             *)
LEMMA BeginJobs ==
  ASSUME agenda \in [Thread -> Seq(Task)], NEW t \in Thread,
         NEW q \in Seq(Task), Begin(t, q)
  PROVE  agenda'[t] = q /\ \A u \in Thread \ {t} : agenda'[u] = agenda[u]
BY DEF Begin

(* What has to be shown of it.                                             *)
LEMMA BeginAgenda ==
  ASSUME agenda \in [Thread -> Seq(Task)], AgendaInv,
         NEW t \in Thread, agenda[t] = <<>>, NEW q \in Seq(Task), Begin(t, q),
         \A x \in Task : Pending(t, x) /\ JobOK(x) => JobOK(x)',
         \A x \in Task : (\E i \in 1 .. Len(q) : q[i] = x) => JobOK(x)',
         \A i \in 1 .. Len(q) : q[i].do \in Using =>
           \E j \in 1 .. Len(q) : j > i /\ Keeps(q[j], q[i].node),
         \A i \in 1 .. Len(q) : q[i].do # "deregister"
  PROVE  AgendaInv'
<1> USE DEF AgendaInv
<1>0. agenda'[t] = q /\ \A u \in Thread \ {t} : agenda'[u] = agenda[u]
  BY BeginJobs
<1>1. JobsOK'
  <2> SUFFICES ASSUME NEW u \in Thread, NEW j \in 1 .. Len(agenda'[u])
               PROVE  JobOK(agenda[u][j])'
    BY DEF JobsOK
  <2>1. \A x \in Task : Pending(t, x) => JobOK(x)'
    BY DEF JobsOK, Pending
  <2>2. CASE u # t
    <3>1. agenda'[u] = agenda[u]
      BY <1>0, <2>2
    <3>2. agenda[u][j] \in Task /\ Pending(t, agenda[u][j])
      BY <2>2, <3>1 DEF Pending
    <3>3. \A x \in Task : x = agenda'[u][j] => JobOK(x)'
      BY <2>1, <3>1, <3>2
    <3> QED
      BY <3>1, <3>2, <3>3 DEF JobOK, Shards
  <2>3. CASE u = t
    <3>1. agenda'[t][j] \in Task /\ j \in 1 .. Len(q) /\ q[j] = agenda'[t][j]
      BY <1>0, <2>3
    <3>2. \A x \in Task : x = agenda'[t][j] => JobOK(x)'
      BY <3>1
    <3> QED
      BY <2>3, <3>1, <3>2 DEF JobOK, Shards
  <2> QED
    BY <2>2, <2>3
<1>2. UsesKept'
  <2> SUFFICES ASSUME NEW u \in Thread, NEW i \in 1 .. Len(agenda'[u]),
                      agenda'[u][i].do \in Using
               PROVE  \E j \in 1 .. Len(agenda'[u]) :
                        j > i /\ Keeps(agenda'[u][j], agenda'[u][i].node)
    BY DEF UsesKept, Keeps
  <2>1. CASE u # t
    BY <1>0, <2>1 DEF UsesKept
  <2>2. CASE u = t
    BY <1>0, <2>2
  <2> QED
    BY <2>1, <2>2
<1>3. CollectedOnce'
  <2> SUFFICES ASSUME NEW u \in Thread, NEW v \in Thread,
                      NEW i \in 1 .. Len(agenda'[u]), NEW j \in 1 .. Len(agenda'[v]),
                      agenda'[u][i].do = "deregister",
                      agenda'[v][j].do = "deregister",
                      agenda'[u][i].node = agenda'[v][j].node
               PROVE  u = v /\ i = j
    BY DEF CollectedOnce
  <2>1. u # t /\ v # t
    BY <1>0
  <2>2. agenda'[u] = agenda[u] /\ agenda'[v] = agenda[v]
    BY <1>0, <2>1
  <2> QED
    BY <2>2 DEF CollectedOnce
<1> QED
  BY <1>1, <1>2, <1>3

(* An operation that leaves one task behind, or none.                      *)
LEMMA BeginOne ==
  ASSUME agenda \in [Thread -> Seq(Task)], AgendaInv,
         NEW t \in Thread, agenda[t] = <<>>, NEW x \in Task, Begin(t, <<x>>),
         \A y \in Task : Pending(t, y) /\ JobOK(y) => JobOK(y)',
         \A y \in Task : y = x => JobOK(y)',
         x.do \notin Using, x.do # "deregister"
  PROVE  AgendaInv' /\ agenda'[t] = <<x>>
<1> DEFINE q == <<x>>
<1>1. q \in Seq(Task) /\ Len(q) = 1 /\ q[1] = x
  OBVIOUS
<1>2. \A i \in 1 .. Len(q) : i = 1
  BY <1>1
<1>3. Begin(t, q)
  OBVIOUS
<1> HIDE DEF q
<1>4. \A y \in Task : (\E i \in 1 .. Len(q) : q[i] = y) => JobOK(y)'
  BY <1>1, <1>2
<1>5. \A i \in 1 .. Len(q) : q[i].do \notin Using /\ q[i].do # "deregister"
  BY <1>1, <1>2
<1>6. AgendaInv'
  BY <1>1, <1>3, <1>4, <1>5, BeginAgenda
<1>7. agenda'[t] = q
  BY <1>1, <1>3, BeginJobs
<1> QED
  BY <1>6, <1>7 DEF q

(* A step that leaves agendas, handles and lives alone.                    *)
LEMMA AgendaFrame ==
  ASSUME AgendaInv, agenda' = agenda, life' = life,
         \A n \in Node : handles[n] > 0 => handles'[n] > 0,
         agenda \in [Thread -> Seq(Task)]
  PROVE  AgendaInv'
<1>1. JobsOK'
  <2> SUFFICES ASSUME NEW u \in Thread, NEW j \in 1 .. Len(agenda[u])
               PROVE  JobOK(agenda[u][j])'
    BY DEF JobsOK
  <2>1. agenda[u][j] \in Task /\ JobOK(agenda[u][j])
    BY DEF AgendaInv, JobsOK
  <2>2. agenda[u][j].node \in Node
        /\ (agenda[u][j].do = "adopt" => Parent[agenda[u][j].node] \in Node)
    BY <2>1, TreeAssumption DEF Task, Child
  <2> QED
    BY <2>1, <2>2 DEF JobOK, Shards
<1>2. UsesKept' /\ CollectedOnce'
  BY DEF AgendaInv, UsesKept, CollectedOnce, Keeps
<1> QED
  BY <1>1, <1>2 DEF AgendaInv

-----------------------------------------------------------------------------
(* Walks.                                                                  *)

(* A step of another thread does not disturb a walk.                       *)
LEMMA OthersChain ==
  ASSUME NEW u \in Thread, SameRow(u), agenda'[u] = agenda[u],
         ChainOK(u), WalkKept(u)
  PROVE  ChainOK(u)' /\ WalkKept(u)'
<1>1. /\ Active(u)' = Active(u) /\ Here(u)' = Here(u) /\ Base(u)' = Base(u)
      /\ \A m : OnChain(u, m)' <=> OnChain(u, m)
  BY DEF SameRow, Active, Here, Base, OnChain, Under
<1>2. ChainOK(u)'
  BY <1>1 DEF ChainOK, SameRow
<1>3. WalkKept(u)'
  BY DEF WalkKept, SameRow, Under
<1> QED
  BY <1>2, <1>3

(* The cell of a walk belongs to a node.                                   *)
LEMMA UnderNode ==
  ASSUME NEW c \in Cell
  PROVE  /\ Under(c) \in Node
         /\ c \in Shard => Under(c) = NodeOf[c]
         /\ c \in Node => Under(c) = c
BY ShardAssumption, ThreadAssumption DEF Under, Cell

(* The node of the guard being created is alive and kept, and so is the    *)
(* chain of arrivals that leads up from it.                                *)
LEMMA BaseKept ==
  ASSUME IInv, OwnInv, NEW t \in Thread, Active(t)
  PROVE  /\ Len(agenda[t]) = 1 /\ agenda[t][1] \in Task
         /\ agenda[t][1].do \in Keeping
         /\ Base(t) \in Node /\ life[Base(t)] = "live"
         /\ Here(t) \in Node /\ Here(t) \in Ancestors(Base(t))
<1>1. /\ Len(agenda[t]) = 1 /\ agenda[t][1].do \in {"return", "release"}
      /\ \A m \in Node : OnChain(t, m) => m \in Ancestors(Base(t))
  BY DEF OwnInv, WalksInv, ChainOK
<1>2. agenda[t][1] \in Task /\ JobOK(agenda[t][1])
  <2>1. 1 \in 1 .. Len(agenda[t])
    BY <1>1
  <2> QED
    BY <2>1, JobType DEF OwnInv, AgendaInv, JobsOK
<1>3. Base(t) \in Node
  BY <1>2 DEF Base, Task
<1>4. life[Base(t)] = "live"
  BY <1>1, <1>2, <1>3 DEF JobOK, OwnInv, KeptAlive, Base
<1>5. cell[t] \in Cell /\ resume[t].cell \in Cell
  BY DEF IInv, CoreInv, WalkTypes
<1>6. Here(t) \in Node
  BY <1>5, UnderNode DEF Here
<1> QED
  BY <1>1, <1>2, <1>3, <1>4, <1>6 DEF Keeping, OnChain

(* A step inside the walk that keeps its chain, and goes no lower.         *)
LEMMA StayChain ==
  ASSUME IInv, OwnInv, NEW t \in Thread,
         from'[t] = from[t], agenda'[t] = agenda[t],
         Active(t)' <=> Active(t), Active(t) => Here(t)' = Here(t),
         pc[t] \notin {"idle", "guarded"}, pc'[t] # "guarded",
         NEW c \in Cell, cell'[t] = c,
         Under(c) \in Ancestors(Under(cell[t]))
  PROVE  ChainOK(t)' /\ WalkKept(t)'
<1>0. ChainOK(t) /\ WalkKept(t)
  BY DEF OwnInv, WalksInv
<1>1. Base(t)' = Base(t)
  BY DEF Base
<1>2. Active(t) => \A m : OnChain(t, m)' <=> OnChain(t, m)
  BY DEF OnChain
<1>3. ChainOK(t)'
  BY <1>0, <1>1, <1>2 DEF ChainOK
<1>4. PICK i \in 1 .. Len(agenda[t]) :
        agenda[t][i].do \in Keeping /\ Under(cell[t]) \in Ancestors(agenda[t][i].node)
  BY <1>0 DEF WalkKept
<1>5. agenda[t][i].node \in Node
  BY JobType
<1>6. Under(c) \in Ancestors(agenda[t][i].node)
  BY <1>4, <1>5, AncestorsTransitive
<1>7. Under(cell[t])' = Under(c)
  BY DEF Under
<1>8. WalkKept(t)'
  BY <1>4, <1>6, <1>7 DEF WalkKept
<1> QED
  BY <1>3, <1>8

(* A walk that ends, or goes on where it took an arrival back.             *)
LEMMA ReturnChain ==
  ASSUME IInv, OwnInv, NEW t \in Thread, pc[t] \in Departing,
         from'[t] = from[t], agenda'[t] = agenda[t], Return(t)
  PROVE  ChainOK(t)' /\ WalkKept(t)'
<1>0. ChainOK(t) /\ WalkKept(t)
  BY DEF OwnInv, WalksInv
<1>1. CoreInv
  BY DEF IInv
<1>2. /\ pc'[t] = resume[t].pc /\ cell'[t] = resume[t].cell
      /\ resume'[t] = Idling
      /\ pc'[t] \in {"idle", "arriveShard", "arriveNode"}
  BY <1>1, ReturnRow
<1>3. Base(t)' = Base(t)
  BY DEF Base
<1>4. Active(t)' <=> Active(t)
  BY <1>2 DEF Active, Arriving, Departing, Idling
<1>5. Active(t) => Here(t)' = Here(t)
  BY <1>2 DEF Active, Here, Under, Arriving, Departing, Idling
<1>6. Active(t) => \A m : OnChain(t, m)' <=> OnChain(t, m)
  BY <1>5 DEF OnChain
<1>7. ChainOK(t)'
  BY <1>0, <1>2, <1>3, <1>4, <1>5, <1>6 DEF ChainOK
<1>8. WalkKept(t)'
  <2>1. SUFFICES ASSUME pc'[t] # "idle"
                 PROVE  /\ Len(agenda[t]) = 1 /\ agenda[t][1].do \in Keeping
                        /\ Under(cell[t])' \in Ancestors(agenda[t][1].node)
    BY DEF WalkKept
  <2>2. Active(t)
    BY <1>2, <2>1 DEF Active
  <2>3. Here(t) = Under(cell[t])'
    BY <1>2, <2>1 DEF Here, Under
  <2> QED
    BY <2>2, <2>3, BaseKept DEF Base
<1> QED
  BY <1>7, <1>8

(* The chain of a thread that is about to arrive one level up, at its      *)
(* parent p, for node n.                                                   *)
LEMMA UpChain ==
  ASSUME IInv, OwnInv, NEW t \in Thread, Active(t),
         NEW n \in Child, Here(t) = n, NEW p \in Node, p = Parent[n],
         from' = [from EXCEPT ![t][p] = n],
         agenda'[t] = agenda[t], Active(t)', Here(t)' = p, pc'[t] # "guarded",
         NEW c \in Cell, cell'[t] = c, Under(c) = p
  PROVE  ChainOK(t)' /\ WalkKept(t)'
<1>0. ChainOK(t)
  BY DEF OwnInv, WalksInv
<1>1. n \in Node /\ n \notin Ancestors(p) /\ n # p /\ n # NoNode
  BY ParentBelowNone, AncestorsClosed, TreeAssumption
<1>2. Base(t)' = Base(t) /\ Base(t) \in Node
  BY BaseKept DEF Base
<1>3. from'[t][p] = n /\ \A k \in Node \ {p} : from'[t][k] = from[t][k]
  BY DEF IInv, CoreInv, WalkTypes
<1>4. n \in Ancestors(Base(t)) /\ p \in Ancestors(Base(t))
  BY <1>1, <1>2, BaseKept, AncestorsClosed DEF Child
<1>5. ASSUME NEW m \in Node, OnChain(t, m)'
      PROVE  m \in Ancestors(Base(t)) /\ (from'[t][m] = NoNode => m = Base(t))
  <2>1. CASE m = p
    BY <1>1, <1>3, <1>4, <2>1
  <2>2. CASE m = n
    <3>1. OnChain(t, n)
      BY DEF OnChain
    <3> QED
      BY <1>0, <1>1, <1>3, <2>2, <3>1 DEF ChainOK
  <2>3. CASE m # p /\ m # n
    <3>1. m \in Child /\ from'[t][Parent[m]] = m
      BY <1>5, <2>3 DEF OnChain
    <3>2. Parent[m] \in Node /\ Parent[m] # p
      BY <1>3, <2>3, <3>1, TreeAssumption
    <3>3. OnChain(t, m)
      BY <1>3, <3>1, <3>2 DEF OnChain
    <3> QED
      BY <1>0, <1>3, <2>3, <3>3 DEF ChainOK
  <2> QED
    BY <2>1, <2>2, <2>3
<1>6. ASSUME NEW k \in Node, from'[t][k] # NoNode
      PROVE  p \in Ancestors(k)
  <2>1. CASE k = p
    BY <2>1, AncestorsClosed
  <2>2. CASE k # p
    <3>1. n \in Ancestors(k)
      BY <1>0, <1>3, <1>6, <2>2 DEF ChainOK
    <3> QED
      BY <3>1, AncestorsClosed DEF Child
  <2> QED
    BY <2>1, <2>2
<1>7. ChainOK(t)'
  BY <1>0, <1>2, <1>5, <1>6 DEF ChainOK
<1>8. WalkKept(t)'
  BY <1>2, <1>4, BaseKept DEF WalkKept, Under, Base
<1> QED
  BY <1>7, <1>8

(* An arrival at shard s is counted: the chain ends, or goes on one level  *)
(* below.                                                                  *)
LEMMA CountedChain ==
  ASSUME IInv, OwnInv, NEW t \in Thread, pc[t] \in {"arriveShard", "casShard"},
         NEW s \in Shard, cell[t] = s, Counted(t, s),
         resume' = resume, agenda'[t] = agenda[t]
  PROVE  /\ ChainOK(t)' /\ WalkKept(t)'
         /\ \A g \in Guard : home'[g] # home[g] =>
              home'[g] = s /\ life[NodeOf[s]] = "live"
<1> DEFINE n == NodeOf[s]
<1>0. ChainOK(t)
  BY DEF OwnInv, WalksInv
<1>1. resume[t].pc = "idle"
  BY DEF IInv, CoreInv, ControlOK, WalkOK, Departing
<1>2. Active(t) /\ n \in Node /\ s \in Cell
  BY ShardAssumption DEF Active, Arriving, Cell
<1>3. Here(t) = n
  BY <1>1, <1>2, UnderNode DEF Here
<1>4. /\ Base(t)' = Base(t) /\ Base(t) \in Node /\ life[Base(t)] = "live"
      /\ n \in Ancestors(Base(t))
  BY <1>2, <1>3, BaseKept DEF Base
<1> HIDE DEF n
<1>5. \A k \in Node : from[t][k] # NoNode =>
        /\ from[t][k] \in Child /\ Parent[from[t][k]] = k
        /\ from[t][k] \in Ancestors(Base(t)) /\ k \in Ancestors(Base(t))
        /\ n \in Ancestors(k)
  <2> SUFFICES ASSUME NEW k \in Node, from[t][k] # NoNode
               PROVE  /\ from[t][k] \in Child /\ Parent[from[t][k]] = k
                      /\ from[t][k] \in Ancestors(Base(t))
                      /\ k \in Ancestors(Base(t)) /\ n \in Ancestors(k)
    OBVIOUS
  <2>1. from[t][k] \in Child /\ Parent[from[t][k]] = k
    BY DEF IInv, CoreInv, ControlOK, WalkOK
  <2>2. from[t][k] \in Node /\ OnChain(t, from[t][k])
    BY <2>1 DEF OnChain, Child
  <2>3. from[t][k] \in Ancestors(Base(t)) /\ n \in Ancestors(k)
    BY <1>0, <1>2, <1>3, <2>2 DEF ChainOK
  <2> QED
    BY <1>4, <2>1, <2>3, AncestorsClosed DEF Child
<1>6. CASE from[t][n] = NoNode
  <2>1. n = Base(t)
    <3>1. OnChain(t, n)
      BY <1>3 DEF OnChain
    <3> QED
      BY <1>0, <1>2, <1>6, <3>1 DEF ChainOK
  <2>2. \A k \in Node : from[t][k] = NoNode
    <3> SUFFICES ASSUME NEW k \in Node, from[t][k] # NoNode PROVE FALSE
      OBVIOUS
    <3>1. n \in Ancestors(k) /\ k \in Ancestors(n)
      BY <1>5, <2>1
    <3>2. k = n
      BY <1>2, <3>1, AncestorsAcyclic
    <3> QED
      BY <1>6, <3>2
  <2>3. pc'[t] = "idle" /\ from' = from /\ home' = [home EXCEPT ![making[t]] = s]
    BY <1>2, <1>6 DEF Counted, Go, n, IInv, CoreInv, WalkTypes
  <2>4. ~Active(t)'
    BY <1>1, <2>3 DEF Active, Arriving
  <2>5. ChainOK(t)' /\ WalkKept(t)'
    BY <2>2, <2>3, <2>4 DEF ChainOK, WalkKept
  <2>6. \A g \in Guard : home'[g] # home[g] => home'[g] = s
    BY <2>3 DEF IInv, CoreInv, WordTypes
  <2> QED
    BY <1>4, <2>1, <2>5, <2>6 DEF n
<1>7. CASE from[t][n] # NoNode
  <2> DEFINE m == from[t][n]
  <2>1. m \in Child /\ m \in Node /\ Parent[m] = n /\ m \in Ancestors(Base(t))
    BY <1>2, <1>5, <1>7 DEF Child
  <2>2. m \notin Ancestors(n) /\ m # n
    BY <1>2, <2>1, ParentBelowNone, AncestorsClosed
  <2>3. /\ pc'[t] = "casNode" /\ cell'[t] = m /\ home' = home
        /\ from' = [from EXCEPT ![t][n] = NoNode]
    BY <1>2, <1>7 DEF Counted, Go, n, IInv, CoreInv, WalkTypes
  <2> HIDE DEF m
  <2>4. from'[t][n] = NoNode /\ \A k \in Node \ {n} : from'[t][k] = from[t][k]
    BY <1>2, <2>3 DEF IInv, CoreInv, WalkTypes
  <2>5. Active(t)'
    BY <2>3 DEF Active, Arriving
  <2>6. Here(t)' = m
    BY <1>1, <2>1, <2>3, ThreadAssumption DEF Here, Under
  <2>7. ASSUME NEW x \in Node, OnChain(t, x)'
        PROVE  x \in Ancestors(Base(t)) /\ (from'[t][x] = NoNode => x = Base(t))
    <3>1. OnChain(t, x)
      <4>1. CASE x = m
        BY <2>1, <4>1 DEF OnChain, m
      <4>2. CASE x # m
        <5>1. x \in Child /\ from'[t][Parent[x]] = x
          BY <2>6, <2>7, <4>2 DEF OnChain
        <5>2. Parent[x] \in Node
          BY <5>1, TreeAssumption
        <5>3. x # NoNode
          BY TreeAssumption
        <5> QED
          BY <2>4, <5>1, <5>2, <5>3 DEF OnChain
      <4> QED
        BY <4>1, <4>2
    <3>2. x # n
      <4> SUFFICES ASSUME x = n PROVE FALSE
        OBVIOUS
      <4>1. n \in Child /\ from'[t][Parent[n]] = n
        BY <2>2, <2>6, <2>7 DEF OnChain
      <4>2. Parent[n] \in Node /\ n \notin Ancestors(Parent[n])
        BY <4>1, ParentBelowNone
      <4>3. from[t][Parent[n]] # NoNode
        BY <1>2, <2>4, <4>1, <4>2, TreeAssumption
      <4> QED
        BY <1>5, <4>2, <4>3
    <3> QED
      BY <1>0, <1>2, <2>4, <3>1, <3>2 DEF ChainOK
  <2>8. ASSUME NEW k \in Node, from'[t][k] # NoNode
        PROVE  m \in Ancestors(k)
    <3>1. k # n /\ from[t][k] # NoNode
      BY <2>4, <2>8
    <3>2. k \in Ancestors(Base(t)) /\ n \in Ancestors(k)
      BY <1>5, <3>1
    <3>3. m \in Ancestors(k) \/ k \in Ancestors(m)
      BY <1>4, <2>1, <3>2, AncestorsLinear
    <3>4. CASE k \in Ancestors(m) /\ k # m
      <4>1. k \in Ancestors(n)
        BY <2>1, <3>4, AncestorsUnfold
      <4>2. k = n
        BY <1>2, <3>2, <4>1, AncestorsAcyclic
      <4> QED
        BY <3>1, <4>2
    <3> QED
      BY <3>3, <3>4
  <2>9. ChainOK(t)'
    BY <1>0, <1>2, <1>4, <2>3, <2>5, <2>6, <2>7, <2>8 DEF ChainOK
  <2>10. Under(m) = m
    BY <2>1, ThreadAssumption DEF Under
  <2>11. WalkKept(t)'
    BY <1>2, <2>1, <2>3, <2>10, BaseKept DEF WalkKept, Under, Base
  <2> QED
    BY <2>3, <2>9, <2>11
<1> QED
  BY <1>6, <1>7

(* A thread that starts to create a guard on a node that its only task     *)
(* keeps.                                                                  *)
LEMMA StartChain ==
  ASSUME IInv, OwnInv, NEW t \in Thread, pc[t] \in {"idle", "guarded"},
         NEW n \in Node, Go(t, "arriveShard", MyShard[t][n]),
         from' = from, resume' = resume,
         NEW x \in Task, agenda'[t] = <<x>>, x.do \in {"return", "release"},
         x.node = n
  PROVE  ChainOK(t)' /\ WalkKept(t)'
<1>1. resume[t].pc = "idle"
  BY DEF IInv, CoreInv, ControlOK, WalkOK, Departing
<1>2. \A k \in Node : from[t][k] = NoNode
  BY <1>1 DEF OwnInv, WalksInv, ChainOK, Active, Arriving
<1>3. /\ MyShard[t][n] \in Cell /\ MyShard[t][n] \in Shard
      /\ NodeOf[MyShard[t][n]] = n
  BY ShardAssumption DEF Cell
<1>4. pc'[t] = "arriveShard" /\ cell'[t] = MyShard[t][n]
  BY DEF Go, IInv, CoreInv, WalkTypes
<1>5. Active(t)' /\ Here(t)' = n /\ Under(cell[t])' = n /\ Base(t)' = n
  BY <1>1, <1>3, <1>4 DEF Active, Arriving, Here, Under, Base
<1>6. n \in Ancestors(n)
  BY AncestorsClosed
<1>7. \A m \in Node : OnChain(t, m)' => m = n
  <2> SUFFICES ASSUME NEW m \in Node, m \in Child, from[t][Parent[m]] = m
               PROVE  FALSE
    BY <1>5 DEF OnChain
  <2> QED
    BY <1>2, TreeAssumption
<1>8. ChainOK(t)'
  BY <1>2, <1>4, <1>5, <1>6, <1>7 DEF ChainOK
<1>9. WalkKept(t)'
  BY <1>5, <1>6 DEF WalkKept, Keeping
<1> QED
  BY <1>8, <1>9

(* A thread that runs its agenda has no chain; it may begin to flush a     *)
(* shard of a node that it keeps.                                          *)
LEMMA IdleChain ==
  ASSUME IInv, OwnInv, NEW t \in Thread, pc[t] \in {"idle", "guarded"},
         from' = from, resume' = resume,
         pc'[t] \in {"idle", "flush"} \/ (pc'[t] = "guarded" /\ agenda'[t] = <<>>),
         pc'[t] = "flush" =>
           \E i \in 1 .. Len(agenda'[t]) :
             /\ agenda'[t][i].do \in Keeping
             /\ cell'[t] \in Shards(agenda'[t][i].node)
             /\ agenda'[t][i].node \in Node
  PROVE  ChainOK(t)' /\ WalkKept(t)'
<1>1. resume[t].pc = "idle"
  BY DEF IInv, CoreInv, ControlOK, WalkOK, Departing
<1>2. \A k \in Node : from[t][k] = NoNode
  BY <1>1 DEF OwnInv, WalksInv, ChainOK, Active, Arriving
<1>3. ~Active(t)'
  BY <1>1 DEF Active, Arriving
<1>4. ChainOK(t)'
  BY <1>2, <1>3 DEF ChainOK
<1>5. WalkKept(t)'
  <2> SUFFICES ASSUME pc'[t] = "flush"
               PROVE  \E i \in 1 .. Len(agenda'[t]) :
                        /\ agenda'[t][i].do \in Keeping
                        /\ Under(cell[t])' \in Ancestors(agenda'[t][i].node)
    BY DEF WalkKept
  <2>1. PICK i \in 1 .. Len(agenda'[t]) :
             /\ agenda'[t][i].do \in Keeping
             /\ cell'[t] \in Shards(agenda'[t][i].node)
             /\ agenda'[t][i].node \in Node
    OBVIOUS
  <2>2. Under(cell[t])' = agenda'[t][i].node
    BY <2>1 DEF Under, Shards
  <2>3. agenda'[t][i].node \in Ancestors(agenda'[t][i].node)
    BY <2>1, AncestorsClosed
  <2> QED
    BY <2>1, <2>2, <2>3
<1> QED
  BY <1>4, <1>5

(* Fresh tasks name only their node and its shards.                        *)
LEMMA FreshJob ==
  ASSUME NEW do \in TaskName, NEW n \in Node,
         do \in {"register", "check", "adopt"} => n # Root
  PROVE  /\ TaskOn(do, n) \in Task /\ TaskOn(do, n).do = do
         /\ TaskOn(do, n).node = n /\ TaskOn(do, n).shards = Shards(n)
         /\ TaskOn(do, n).kids = {}
BY TaskOnType DEF TaskOn

(* A step that does not touch what keeps nodes alive.                      *)
LEMMA AliveFrame ==
  ASSUME KeptAlive, life' = life, registered' = registered, handles' = handles,
         \A n \in Node : future'[n] # "none" => future[n] # "none",
         \A g \in Guard : home'[g] # home[g] /\ home'[g] # NoShard =>
           NodeOf[home'[g]] = Root \/ life[NodeOf[home'[g]]] = "live"
  PROVE  KeptAlive'
<1>1. \A n \in Node : handles'[n] > 0 \/ future'[n] # "none" => life'[n] = "live"
  BY DEF KeptAlive
<1>2. ASSUME NEW g \in Guard, home'[g] # NoShard, NodeOf[home'[g]] # Root
      PROVE  life'[NodeOf[home'[g]]] = "live"
  BY <1>2 DEF KeptAlive
<1> QED
  BY <1>1, <1>2 DEF KeptAlive

-----------------------------------------------------------------------------
(* Steps of a walk.                                                        *)

(* The walk of the thread that steps, and where guards come to be homed.   *)
LEMMA WalkChain ==
  ASSUME IInv, OwnInv, NEW t \in Thread, Walk(t), ~Guarded(t)
  PROVE  /\ ChainOK(t)' /\ WalkKept(t)'
         /\ \A g \in Guard : home'[g] # home[g] =>
              life[NodeOf[home'[g]]] = "live"
<1>0. CoreInv /\ WalkTypes /\ WalkOK(t) /\ WordsLinked
  BY DEF IInv, CoreInv, ControlOK
<1>1. /\ pc[t] \in Label /\ cell[t] \in Cell /\ resume[t].cell \in Cell
      /\ OnTrack(t, pc[t], cell[t])
      /\ resume[t].pc # "idle" => pc[t] \in Departing
  BY <1>0 DEF WalkTypes, WalkOK
<1>2. CASE ArriveShard(t)
  <2> DEFINE s == cell[t]
  <2>1. /\ s \in Shard /\ NodeOf[s] \in Node /\ NodeOf[s] \in Cell
        /\ resume' = resume /\ agenda' = agenda /\ pc[t] = "arriveShard"
        /\ resume[t].pc = "idle"
    BY <1>1, <1>2, ShardAssumption DEF ArriveShard, At, OnTrack, ShardLabel,
         Departing, Cell
  <2>2. CASE Counted(t, s)
    BY <2>1, <2>2, CountedChain
  <2>3. CASE Go(t, "arriveNode", NodeOf[s]) /\ UNCHANGED <<from, home>>
    <3>1. pc'[t] = "arriveNode" /\ cell'[t] = NodeOf[s]
      BY <1>0, <2>3 DEF Go, WalkTypes
    <3>2. Active(t)' /\ Active(t)
      BY <2>1, <3>1 DEF Active, Arriving
    <3>3. Under(NodeOf[s]) = NodeOf[s] /\ Under(s) = NodeOf[s]
      BY <1>1, <2>1, UnderNode
    <3>4. Here(t)' = Here(t)
      BY <2>1, <3>1, <3>3 DEF Here, Under
    <3>5. Under(NodeOf[s]) \in Ancestors(Under(cell[t]))
      BY <2>1, <3>3, AncestorsClosed
    <3> QED
      BY <2>1, <2>3, <3>1, <3>2, <3>4, <3>5, StayChain
  <2> QED
    BY <1>2, <2>2, <2>3 DEF ArriveShard
<1>3. CASE ArriveNode(t)
  <2> DEFINE n == cell[t]
  <2>1. /\ n \in Node /\ home' = home /\ resume' = resume /\ agenda' = agenda
        /\ pc[t] = "arriveNode" /\ resume[t].pc = "idle" /\ Active(t)
    BY <1>1, <1>3 DEF ArriveNode, At, OnTrack, NodeLabel, Departing, owners,
                      Active, Arriving
  <2>2. /\ MyShard[t][n] \in Cell /\ MyShard[t][n] \in Shard
        /\ NodeOf[MyShard[t][n]] = n
    BY <2>1, ShardAssumption DEF Cell
  <2>3. Here(t) = n /\ Under(n) = n
    BY <1>1, <2>1, UnderNode DEF Here
  <2>4. CASE CountsHere(n)
    <3>1. pc'[t] = "casShard" /\ cell'[t] = MyShard[t][n] /\ from' = from
      BY <1>0, <1>3, <2>4 DEF ArriveNode, Go, WalkTypes
    <3>2. Active(t)'
      BY <3>1 DEF Active, Arriving
    <3>3. Under(MyShard[t][n]) = n
      BY <2>2, UnderNode
    <3>4. Here(t)' = Here(t)
      BY <2>1, <2>2, <2>3, <3>1 DEF Here, Under
    <3>5. Under(MyShard[t][n]) \in Ancestors(Under(cell[t]))
      BY <2>1, <2>3, <3>3, AncestorsClosed
    <3> QED
      BY <2>1, <2>2, <3>1, <3>2, <3>4, <3>5, StayChain
  <2>5. CASE ~CountsHere(n)
    <3>1. n \in Child /\ Parent[n] \in Node
      BY <2>1, <2>5, TreeAssumption DEF CountsHere, Child
    <3> DEFINE p == Parent[n]
               c == MyShard[t][p]
    <3>2. c \in Cell /\ c \in Shard /\ NodeOf[c] = p
      BY <3>1, ShardAssumption DEF Cell
    <3>3. /\ pc'[t] = "arriveShard" /\ cell'[t] = c
          /\ from' = [from EXCEPT ![t][p] = n]
      BY <1>0, <1>3, <2>5 DEF ArriveNode, Go, WalkTypes
    <3>4. Active(t)'
      BY <3>3 DEF Active, Arriving
    <3>5. Under(c) = p
      BY <3>2, UnderNode
    <3>6. Here(t)' = p
      BY <2>1, <3>2, <3>3 DEF Here, Under
    <3> HIDE DEF p, c
    <3>7. p \in Node /\ p = Parent[n]
      BY <3>1 DEF p
    <3>8. ChainOK(t)' /\ WalkKept(t)'
      BY <2>1, <2>3, <3>1, <3>2, <3>3, <3>4, <3>5, <3>6, <3>7, UpChain
    <3> QED
      BY <2>1, <3>8
  <2> QED
    BY <2>4, <2>5
<1>4. CASE CasShard(t)
  <2> DEFINE s == cell[t]
  <2>1. /\ s \in Shard /\ NodeOf[s] \in Node /\ NodeOf[s] \in Cell
        /\ agenda' = agenda /\ pc[t] = "casShard"
        /\ resume[t].pc = "idle" /\ Active(t)
    BY <1>1, <1>4, ShardAssumption DEF CasShard, At, OnTrack, ShardLabel,
         Departing, Cell, Active, Arriving
  <2>2. CASE Counted(t, s) /\ UNCHANGED resume
    BY <2>1, <2>2, CountedChain
  <2>3. ASSUME NEW again \in [pc : Label, cell : Cell],
               TakeBack(t, "departNode", NodeOf[s], again),
               again.pc # "idle", Under(again.cell) = NodeOf[s],
               UNCHANGED <<from, home>>
        PROVE  ChainOK(t)' /\ WalkKept(t)'
    <3>1. pc'[t] = "departNode" /\ cell'[t] = NodeOf[s] /\ resume'[t] = again
      BY <1>0, <2>1, <2>3, TakeBackRow DEF Label, NodeLabel
    <3>2. Active(t)'
      BY <2>3, <3>1 DEF Active
    <3>3. Under(NodeOf[s]) = NodeOf[s] /\ Under(s) = NodeOf[s]
      BY <1>1, <2>1, UnderNode
    <3>4. Here(t)' = Here(t)
      BY <2>1, <2>3, <3>1, <3>3 DEF Here, Under
    <3>5. Under(NodeOf[s]) \in Ancestors(Under(cell[t]))
      BY <2>1, <3>3, AncestorsClosed
    <3> QED
      BY <2>1, <2>3, <3>1, <3>2, <3>4, <3>5, StayChain
  <2>4. /\ [pc |-> "arriveShard", cell |-> s] \in [pc : Label, cell : Cell]
        /\ [pc |-> "arriveNode", cell |-> NodeOf[s]] \in [pc : Label, cell : Cell]
        /\ Under(s) = NodeOf[s] /\ Under(NodeOf[s]) = NodeOf[s]
    BY <1>1, <2>1, UnderNode DEF Label, ShardLabel, NodeLabel
  <2>5. CASE TakeBack(t, "departNode", NodeOf[s], [pc |-> "arriveShard", cell |-> s])
             /\ UNCHANGED <<from, home>>
    BY <2>3, <2>4, <2>5
  <2>6. CASE TakeBack(t, "departNode", NodeOf[s],
                      [pc |-> "arriveNode", cell |-> NodeOf[s]])
             /\ UNCHANGED <<from, home>>
    BY <2>3, <2>4, <2>6
  <2> QED
    BY <1>4, <2>2, <2>5, <2>6 DEF CasShard
<1>5. CASE CasNode(t)
  <2> DEFINE n == cell[t]
             q == Parent[n]
             c == MyShard[t][q]
  <2>1. /\ n \in Child /\ n \in Node /\ home' = home /\ agenda' = agenda
        /\ pc[t] = "casNode" /\ resume[t].pc = "idle" /\ Active(t)
    BY <1>1, <1>5 DEF CasNode, At, OnTrack, Child, Departing, owners, Active,
                      Arriving
  <2>2. /\ q \in Node /\ c \in Shard /\ c \in Cell /\ NodeOf[c] = q
        /\ MyShard[t][n] \in Shard /\ MyShard[t][n] \in Cell
        /\ NodeOf[MyShard[t][n]] = n
    BY <2>1, TreeAssumption, ShardAssumption DEF Cell
  <2>3. Here(t) = n /\ Under(n) = n /\ Under(c) = q /\ Under(MyShard[t][n]) = n
    BY <1>1, <2>1, <2>2, UnderNode DEF Here
  <2>4. CASE Go(t, "casShard", MyShard[t][n]) /\ UNCHANGED <<from, resume>>
    <3>1. pc'[t] = "casShard" /\ cell'[t] = MyShard[t][n]
      BY <1>0, <2>4 DEF Go, WalkTypes
    <3>2. Active(t)' /\ Here(t)' = Here(t)
      BY <2>1, <2>2, <2>3, <2>4, <3>1 DEF Active, Arriving, Here, Under
    <3>3. Under(MyShard[t][n]) \in Ancestors(Under(cell[t]))
      BY <2>1, <2>3, AncestorsClosed
    <3> QED
      BY <2>1, <2>2, <2>4, <3>1, <3>2, <3>3, StayChain
  <2>5. CASE /\ TakeBack(t, "departShard", c, [pc |-> "arriveNode", cell |-> n])
             /\ UNCHANGED from
    <3>1. /\ pc'[t] = "departShard" /\ cell'[t] = c
          /\ resume'[t] = [pc |-> "arriveNode", cell |-> n]
      BY <1>0, <2>5 DEF TakeBack, Go, WalkTypes
    <3>2. Active(t)' /\ Here(t)' = Here(t)
      BY <2>1, <2>3, <3>1 DEF Active, Here, Under
    <3>3. Under(c) \in Ancestors(Under(cell[t]))
      BY <2>1, <2>3, AncestorsClosed DEF Child
    <3> QED
      BY <2>1, <2>2, <2>5, <3>1, <3>2, <3>3, StayChain
  <2>6. CASE /\ TakeBack(t, "departShard", c, [pc |-> "arriveShard", cell |-> c])
             /\ from' = [from EXCEPT ![t][q] = n]
    <3>1. /\ pc'[t] = "departShard" /\ cell'[t] = c
          /\ resume'[t] = [pc |-> "arriveShard", cell |-> c]
      BY <1>0, <2>6 DEF TakeBack, Go, WalkTypes
    <3>2. Active(t)' /\ Here(t)' = q
      BY <2>1, <2>2, <3>1 DEF Active, Here, Under
    <3> HIDE DEF q, c
    <3>3. q = Parent[n]
      BY DEF q
    <3>4. ChainOK(t)' /\ WalkKept(t)'
      BY <2>1, <2>2, <2>3, <2>6, <3>1, <3>2, <3>3, UpChain
    <3> QED
      BY <2>1, <3>4
  <2> QED
    BY <1>5, <2>1, <2>4, <2>5, <2>6 DEF CasNode
<1>6. CASE DepartShard(t) \/ Flush(t) \/ DepartNode(t) \/ DepartNotify(t) \/ Unarrive(t)
  <2>1. pc[t] \in Departing /\ from' = from /\ agenda' = agenda /\ home' = home
    BY <1>6 DEF DepartShard, Flush, DepartNode, DepartNotify, Unarrive, At,
                Departing, owners
  <2>2. CASE Return(t)
    BY <2>1, <2>2, ReturnChain
  <2>3. ASSUME NEW label \in Departing, NEW c \in Cell, Go(t, label, c),
               UNCHANGED resume, Under(c) \in Ancestors(Under(cell[t]))
        PROVE  ChainOK(t)' /\ WalkKept(t)'
    <3>1. pc'[t] = label /\ cell'[t] = c
      BY <1>0, <2>3 DEF Go, WalkTypes
    <3>2. (Active(t)' <=> Active(t)) /\ (Active(t) => Here(t)' = Here(t))
      BY <2>1, <2>3, <3>1 DEF Active, Here, Under, Arriving, Departing
    <3>3. pc[t] \notin {"idle", "guarded"} /\ pc'[t] # "guarded"
      BY <2>1, <3>1 DEF Departing
    <3> QED
      BY <2>1, <2>3, <3>1, <3>2, <3>3, StayChain
  <2>4. Under(cell[t]) \in Ancestors(Under(cell[t])) /\ Under(cell[t]) \in Node
    BY <1>1, UnderNode, AncestorsClosed
  <2>5. CASE DepartShard(t)
    BY <1>1, <2>1, <2>2, <2>3, <2>4, <2>5 DEF DepartShard, Departing
  <2>6. CASE Flush(t)
    <3>1. cell[t] \in Shard /\ NodeOf[cell[t]] \in Node /\ NodeOf[cell[t]] \in Cell
      BY <1>1, <2>6, ShardAssumption DEF Flush, At, OnTrack, ShardLabel, Cell
    <3>2. Under(NodeOf[cell[t]]) = Under(cell[t])
      BY <1>1, <3>1, UnderNode
    <3> QED
      BY <2>1, <2>2, <2>3, <2>4, <2>6, <3>1, <3>2 DEF Flush, Departing
  <2>7. CASE DepartNode(t)
    BY <1>1, <2>1, <2>2, <2>3, <2>4, <2>7 DEF DepartNode, Departing, AfterDeparture
  <2>8. CASE DepartNotify(t)
    BY <1>1, <2>1, <2>2, <2>3, <2>4, <2>8 DEF DepartNotify, Departing
  <2>9. CASE Unarrive(t)
    <3>1. CASE StillEmpty(t) /\ Go(t, "departShard", seen[t].at) /\ UNCHANGED resume
      <4>1. cell[t] \in Child /\ cell[t] \in Node
        BY <1>1, <2>9 DEF Unarrive, At, OnTrack, Child
      <4>2. ARRIVED \in seen[t].flags /\ seen[t].at \in Shard
        BY <1>0, <2>9, <4>1 DEF Unarrive, At, WalkOK
      <4>3. seen[t].at \in Shard /\ NodeOf[seen[t].at] = Parent[cell[t]]
        BY <1>0, <3>1, <4>1, <4>2 DEF StillEmpty, WordsLinked
      <4>4. seen[t].at \in Cell /\ Under(seen[t].at) = Parent[cell[t]]
            /\ Under(cell[t]) = cell[t]
        BY <1>1, <4>1, <4>3, UnderNode DEF Cell
      <4>5. Under(seen[t].at) \in Ancestors(Under(cell[t]))
        BY <4>1, <4>4, AncestorsClosed DEF Child
      <4> QED
        BY <2>1, <2>3, <3>1, <4>4, <4>5 DEF Departing
    <3> QED
      BY <2>1, <2>2, <2>9, <3>1 DEF Unarrive
  <2> QED
    BY <1>6, <2>5, <2>6, <2>7, <2>8, <2>9
<1> QED
  BY <1>2, <1>3, <1>4, <1>5, <1>6 DEF Walk

(* A step of a thread leaves the walks of the others alone.                *)
LEMMA WalkRows ==
  ASSUME IInv, NEW t \in Thread, Walk(t)
  PROVE  \A u \in Thread \ {t} : SameRow(u) /\ agenda'[u] = agenda[u]
<1>1. CASE Guarded(t)
  BY <1>1 DEF Guarded, Go, Begin, SameRow, IInv, CoreInv, WalkTypes, OwnerTypes
<1>2. CASE ArriveShard(t)
  BY <1>2 DEF ArriveShard, Counted, Go, SameRow, IInv, CoreInv, WalkTypes
<1>3. CASE ArriveNode(t)
  BY <1>3 DEF ArriveNode, Go, SameRow, IInv, CoreInv, WalkTypes
<1>4. CASE CasShard(t)
  BY <1>4 DEF CasShard, Counted, TakeBack, Go, SameRow, IInv, CoreInv, WalkTypes
<1>5. CASE CasNode(t)
  BY <1>5 DEF CasNode, TakeBack, Go, SameRow, IInv, CoreInv, WalkTypes
<1>6. CASE DepartShard(t) \/ Flush(t) \/ DepartNode(t) \/ DepartNotify(t) \/ Unarrive(t)
  BY <1>6 DEF DepartShard, Flush, DepartNode, DepartNotify, Unarrive, Return, Go,
              SameRow, IInv, CoreInv, WalkTypes
<1> QED
  BY <1>1, <1>2, <1>3, <1>4, <1>5, <1>6 DEF Walk

(* Every step of a walk keeps the invariant.                               *)
LEMMA WalkOwn ==
  ASSUME IInv, OwnInv, NEW t \in Thread, Walk(t)
  PROVE  OwnInv'
<1>0. /\ AgendaInv /\ KeptAlive /\ agenda \in [Thread -> Seq(Task)]
      /\ \A u \in Thread : ChainOK(u) /\ WalkKept(u)
  BY DEF OwnInv, WalksInv, IInv, OwnerTypes
<1>1. ASSUME ChainOK(t)', WalkKept(t)'
      PROVE  WalksInv'
  BY <1>0, <1>1, WalkRows, OthersChain DEF WalksInv
<1>2. CASE Guarded(t)
  <2> DEFINE n == cell[t]
  <2>1. /\ pc[t] = "guarded" /\ from' = from /\ resume' = resume
        /\ UNCHANGED <<home, handles, future, life, registered>>
    BY <1>2 DEF Guarded, At, owners
  <2>2. n \in Node
    BY <2>1 DEF IInv, CoreInv, ControlOK, WalkOK, OnTrack, NodeLabel
  <2>3. agenda[t] = <<>>
    BY <1>0, <2>1 DEF ChainOK
  <2>4. KeptAlive'
    BY <1>0, <2>1, AliveFrame
  <2>5. CASE life[n] = "live"
    <3> DEFINE x == TaskOn("release", n)
    <3>1. Go(t, "arriveShard", MyShard[t][n]) /\ Begin(t, <<x>>)
      BY <1>2, <2>5 DEF Guarded
    <3>2. /\ x \in Task /\ x.do = "release" /\ x.node = n /\ x.shards = Shards(n)
          /\ x.kids = {}
      BY <2>2, FreshJob DEF TaskName
    <3> HIDE DEF x
    <3>3. \A y \in Task : JobOK(y) => JobOK(y)'
      BY <2>1 DEF JobOK, Shards
    <3>4. \A y \in Task : y = x => JobOK(y)'
      BY <2>1, <2>5, <3>2 DEF JobOK, Shards
    <3>5. AgendaInv' /\ agenda'[t] = <<x>>
      BY <1>0, <2>3, <3>1, <3>2, <3>3, <3>4, BeginOne DEF Using
    <3>6. ChainOK(t)' /\ WalkKept(t)'
      BY <2>1, <2>2, <3>1, <3>2, <3>5, StartChain
    <3> QED
      BY <1>1, <2>4, <3>5, <3>6 DEF OwnInv
  <2>6. CASE life[n] # "live"
    <3>1. Go(t, "idle", Root) /\ agenda' = agenda
      BY <1>2, <2>6 DEF Guarded
    <3>2. pc'[t] = "idle"
      BY <3>1 DEF Go, IInv, CoreInv, WalkTypes
    <3>3. ChainOK(t)' /\ WalkKept(t)'
      BY <2>1, <3>2, IdleChain
    <3>4. AgendaInv'
      BY <1>0, <2>1, <3>1, AgendaFrame
    <3> QED
      BY <1>1, <2>4, <3>3, <3>4 DEF OwnInv
  <2> QED
    BY <2>5, <2>6
<1>3. CASE ~Guarded(t)
  <2>1. /\ UNCHANGED <<handles, life, registered, agenda>>
        /\ future' = future \/ (DepartNotify(t) /\ NotifyZero(cell[t]))
    BY <1>3 DEF Walk, ArriveShard, ArriveNode, CasShard, CasNode, DepartShard,
                Flush, DepartNode, DepartNotify, Unarrive, owners
  <2>2. \A n \in Node : future'[n] # "none" => future[n] # "none"
    BY <2>1 DEF NotifyZero, IInv, OwnerTypes
  <2>3. /\ ChainOK(t)' /\ WalkKept(t)'
        /\ \A g \in Guard : home'[g] # home[g] => life[NodeOf[home'[g]]] = "live"
    BY <1>3, WalkChain
  <2>4. KeptAlive'
    BY <1>0, <2>1, <2>2, <2>3, AliveFrame
  <2>5. AgendaInv'
    BY <1>0, <2>1, AgendaFrame
  <2> QED
    BY <1>1, <2>3, <2>4, <2>5 DEF OwnInv
<1> QED
  BY <1>2, <1>3

-----------------------------------------------------------------------------
(* Steps of an agenda.                                                     *)

(* The task a thread is doing.                                             *)
LEMMA DoingJob ==
  ASSUME IInv, OwnInv, NEW t \in Thread, NEW do, Doing(t, do)
  PROVE  /\ pc[t] = "idle" /\ agenda[t] # <<>> /\ agenda \in [Thread -> Seq(Task)]
         /\ 1 \in 1 .. Len(agenda[t]) /\ Head(agenda[t]) = agenda[t][1]
         /\ agenda[t][1] \in Task /\ agenda[t][1].do = do
         /\ agenda[t][1].node \in Node
         /\ agenda[t][1].shards \subseteq Shard /\ agenda[t][1].kids \subseteq Child
         /\ do \in {"register", "check", "adopt"} => agenda[t][1].node \in Child
         /\ JobOK(agenda[t][1])
         /\ AgendaInv /\ KeptAlive
<1>1. agenda \in [Thread -> Seq(Task)] /\ agenda[t] \in Seq(Task) /\ agenda[t] # <<>>
  BY DEF Doing, IInv, OwnerTypes
<1>2. 1 \in 1 .. Len(agenda[t]) /\ Head(agenda[t]) = agenda[t][1]
  BY <1>1
<1>3. JobOK(agenda[t][1])
  BY <1>2 DEF OwnInv, AgendaInv, JobsOK
<1> QED
  BY <1>1, <1>2, <1>3, JobType DEF Doing, OwnInv

(* A task that is done and leaves nothing behind.                          *)
LEMMA ThenNone ==
  ASSUME agenda \in [Thread -> Seq(Task)], AgendaInv, NEW t \in Thread,
         agenda[t] # <<>>, Then(t, <<>>),
         \A x \in Task : Pending(t, x) /\ JobOK(x) => JobOK(x)'
  PROVE  AgendaInv'
<1> DEFINE q == <<>>
<1>1. q \in Seq(Task) /\ Len(q) = 0 /\ Then(t, q)
  OBVIOUS
<1> HIDE DEF q
<1>2. \A i \in 1 .. Len(q) : FALSE
  BY <1>1
<1> QED
  BY <1>1, <1>2, ThenAgenda

(* A task that goes on with tasks that use the same node.                  *)
LEMMA ThenSame ==
  ASSUME agenda \in [Thread -> Seq(Task)], AgendaInv, NEW t \in Thread,
         agenda[t] # <<>>, agenda[t][1].do \in Using,
         NEW q \in Seq(Task), Then(t, q),
         life' = life, handles' = handles,
         \A x \in Task : (\E i \in 1 .. Len(q) : q[i] = x) =>
           x.do \in Using /\ x.node = agenda[t][1].node /\ JobOK(x)'
  PROVE  /\ AgendaInv'
         /\ \E j \in 1 .. Len(agenda'[t]) :
              Keeps(agenda'[t][j], agenda[t][1].node)
<1>1. \A x \in Task : JobOK(x) => JobOK(x)'
  BY DEF JobOK, Shards
<1>2. PICK j \in 2 .. Len(agenda[t]) : Keeps(agenda[t][j], agenda[t][1].node)
  <2>1. agenda[t] \in Seq(Task) /\ 1 \in 1 .. Len(agenda[t])
    OBVIOUS
  <2>2. PICK j \in 1 .. Len(agenda[t]) : j > 1 /\ Keeps(agenda[t][j], agenda[t][1].node)
    BY <2>1 DEF AgendaInv, UsesKept
  <2> QED
    BY <2>1, <2>2
<1>3. \A i \in 1 .. Len(q) : q[i] \in Task /\ q[i].do \in Using
                             /\ q[i].node = agenda[t][1].node
  OBVIOUS
<1>4. "deregister" \notin Using
  BY DEF Using
<1>5. AgendaInv'
  BY <1>1, <1>2, <1>3, <1>4, ThenAgenda
<1>6. /\ j - 1 + Len(q) \in 1 .. Len(agenda'[t])
      /\ agenda'[t][j - 1 + Len(q)] = agenda[t][j]
  BY ThenJobs, SMTT(60)
<1> QED
  BY <1>2, <1>5, <1>6

(* A step of the agenda that moves no thread.                              *)
LEMMA ProceedWalks ==
  ASSUME IInv, OwnInv, NEW t \in Thread, pc[t] = "idle",
         UNCHANGED <<pc, cell, from, saved, seen, resume>>,
         \A u \in Thread \ {t} : agenda'[u] = agenda[u]
  PROVE  WalksInv'
<1>1. ChainOK(t)' /\ WalkKept(t)'
  BY IdleChain
<1>2. \A u \in Thread \ {t} : ChainOK(u)' /\ WalkKept(u)'
  BY OthersChain DEF OwnInv, WalksInv, SameRow
<1> QED
  BY <1>1, <1>2 DEF WalksInv

(* What is left of a task, as a list of tasks.                             *)
LEMMA RestJobs ==
  ASSUME NEW x \in Task
  PROVE  /\ RestOf(x) \in Seq(Task)
         /\ \A i \in 1 .. Len(RestOf(x)) : i = 1 /\ RestOf(x)[i] = x
BY DEF RestOf

(* Inner::stop and its parts.                                              *)
LEMMA StopOwn ==
  ASSUME IInv, OwnInv, NEW t \in Thread, Stop(t)
  PROVE  OwnInv'
<1> DEFINE n == agenda[t][1].node
           q == IF Stopped(n) THEN <<>> ELSE StopTasks(n)
<1>1. Doing(t, "stop")
  BY DEF Stop
<1>2. /\ pc[t] = "idle" /\ agenda[t] # <<>> /\ agenda \in [Thread -> Seq(Task)]
      /\ Head(agenda[t]) = agenda[t][1] /\ agenda[t][1].do = "stop" /\ n \in Node
      /\ AgendaInv /\ KeptAlive
  BY <1>1, DoingJob
<1>3. /\ Then(t, q)
      /\ UNCHANGED <<pc, cell, from, saved, seen, resume, home, handles, future,
                     life, registered>>
  BY <1>2 DEF Stop, walk, owners
<1> DEFINE a == TaskOn("latch", n)  b == TaskOn("snapshot", n)
           c == TaskOn("notify", n)
<1>4. /\ q = <<>> \/ q = <<a, b>> \/ q = <<a, b, c>>
      /\ a \in Task /\ a.do = "latch" /\ a.node = n /\ a.shards = Shards(n) /\ a.kids = {}
      /\ b \in Task /\ b.do = "snapshot" /\ b.node = n /\ b.shards = Shards(n)
      /\ b.kids = {}
      /\ c \in Task /\ c.do = "notify" /\ c.node = n /\ c.shards = Shards(n) /\ c.kids = {}
  <2>1. /\ a \in Task /\ a.do = "latch" /\ a.node = n /\ a.shards = Shards(n)
        /\ a.kids = {}
    BY <1>2, FreshJob DEF TaskName
  <2>2. /\ b \in Task /\ b.do = "snapshot" /\ b.node = n /\ b.shards = Shards(n)
        /\ b.kids = {}
    BY <1>2, FreshJob DEF TaskName
  <2>3. /\ c \in Task /\ c.do = "notify" /\ c.node = n /\ c.shards = Shards(n)
        /\ c.kids = {}
    BY <1>2, FreshJob DEF TaskName
  <2>4. q = <<>> \/ q = <<a, b>> \o <<>> \/ q = <<a, b>> \o <<c>>
    BY DEF StopTasks
  <2> HIDE DEF a, b, c, q
  <2> QED
    BY <2>1, <2>2, <2>3, <2>4
<1> HIDE DEF a, b, c, q
<1>5. q \in Seq(Task) /\ \A i \in 1 .. Len(q) : q[i] \in {a, b, c}
  <2>1. a \in Task /\ b \in Task /\ c \in Task
    BY <1>4
  <2>2. CASE q = <<>>
    BY <2>2
  <2>3. CASE q = <<a, b>>
    BY <2>1, <2>3
  <2>4. CASE q = <<a, b, c>>
    BY <2>1, <2>4
  <2> QED
    BY <1>4, <2>2, <2>3, <2>4
<1>6. ASSUME NEW x \in Task, x \in {a, b, c}
      PROVE  x.do \in Using /\ x.node = agenda[t][1].node /\ JobOK(x)'
  <2>1. /\ x.do \in {"latch", "snapshot", "notify"} /\ x.node = n
        /\ x.shards = Shards(x.node) /\ x.kids = {}
    BY <1>4, <1>6
  <2> QED
    BY <1>3, <2>1 DEF JobOK, Using, Shards
<1>7. AgendaInv'
  BY <1>2, <1>3, <1>5, <1>6, ThenSame DEF Using
<1>8. KeptAlive'
  BY <1>2, <1>3, AliveFrame
<1>9. WalksInv'
  BY <1>2, <1>3, <1>5, ThenJobs, ProceedWalks
<1> QED
  BY <1>7, <1>8, <1>9 DEF OwnInv

(* Shard::stop: the flush it may start is of a shard of the node the task  *)
(* uses.                                                                   *)
LEMMA LatchOwn ==
  ASSUME IInv, OwnInv, NEW t \in Thread, Latch(t)
  PROVE  OwnInv'
<1> DEFINE z == agenda[t][1]
<1>1. Doing(t, "latch")
  BY DEF Latch
<1>2. /\ pc[t] = "idle" /\ agenda[t] # <<>> /\ agenda \in [Thread -> Seq(Task)]
      /\ Head(agenda[t]) = z /\ z.do = "latch" /\ z.node \in Node /\ z \in Task
      /\ JobOK(z) /\ AgendaInv /\ KeptAlive
  BY <1>1, DoingJob
<1>3. PICK s \in z.shards :
        /\ Go(t, "flush", s) \/ Stay
        /\ Then(t, RestOf([z EXCEPT !.shards = @ \ {s}]))
  BY <1>2 DEF Latch
<1>4. UNCHANGED <<from, saved, seen, resume, home, handles, future, life, registered>>
  BY DEF Latch, owners
<1> DEFINE y == [z EXCEPT !.shards = @ \ {s}]
           q == RestOf(y)
<1> HIDE DEF z
<1>5. /\ y \in Task /\ y.do = "latch" /\ y.node = z.node /\ y.kids = z.kids
      /\ y.shards = z.shards \ {s}
  BY <1>2 DEF Task
<1> HIDE DEF y
<1>6. q \in Seq(Task) /\ \A i \in 1 .. Len(q) : q[i] = y
  BY <1>5, RestJobs
<1>7. Then(t, q)
  BY <1>3 DEF y
<1> HIDE DEF q
<1>8. \A x \in Task : x = y =>
        x.do \in Using /\ x.node = agenda[t][1].node /\ JobOK(x)'
  BY <1>2, <1>4, <1>5 DEF JobOK, Using, Shards, z
<1>9. /\ AgendaInv'
      /\ \E j \in 1 .. Len(agenda'[t]) : Keeps(agenda'[t][j], z.node)
  <2>1. z.do \in Using
    BY <1>2 DEF Using
  <2> QED
    BY <1>2, <1>4, <1>6, <1>7, <1>8, <2>1, ThenSame DEF z
<1>10. KeptAlive'
  BY <1>2, <1>4, AliveFrame
<1>11. s \in Shards(z.node)
  BY <1>2 DEF JobOK
<1>12. /\ \A u \in Thread \ {t} : pc'[u] = pc[u] /\ cell'[u] = cell[u]
       /\ pc'[t] = "idle" \/ (pc'[t] = "flush" /\ cell'[t] = s)
  BY <1>2, <1>3 DEF Go, Stay, IInv, CoreInv, WalkTypes
<1>13. ChainOK(t)' /\ WalkKept(t)'
  BY <1>2, <1>4, <1>9, <1>11, <1>12, IdleChain DEF Keeps
<1>14. \A u \in Thread \ {t} : SameRow(u) /\ agenda'[u] = agenda[u]
  BY <1>2, <1>4, <1>6, <1>7, <1>12, ThenJobs DEF SameRow
<1>15. WalksInv'
  BY <1>13, <1>14, OthersChain DEF OwnInv, WalksInv
<1> QED
  BY <1>9, <1>10, <1>15 DEF OwnInv

(* live_children(): the children upgraded are alive and belong to the node.*)
LEMMA SnapshotOwn ==
  ASSUME IInv, OwnInv, NEW t \in Thread, Snapshot(t)
  PROVE  OwnInv'
<1> DEFINE z == Head(agenda[t])
<1>1. Doing(t, "snapshot")
  BY DEF Snapshot
<1>2. /\ pc[t] = "idle" /\ agenda[t] # <<>> /\ agenda \in [Thread -> Seq(Task)]
      /\ agenda[t][1] = z /\ z.do = "snapshot" /\ z.node \in Node /\ z \in Task
      /\ JobOK(z) /\ AgendaInv /\ KeptAlive
  BY <1>1, DoingJob, SMTT(60)
<1>3. PICK s \in z.shards :
        Then(t, RestOf([z EXCEPT
          !.do = IF z.shards \ {s} = {} THEN "stopKids" ELSE "snapshot",
          !.shards = z.shards \ {s}, !.kids = @ \cup LiveChildren(s)]))
  BY DEF Snapshot
<1>4. UNCHANGED <<pc, cell, from, saved, seen, resume, home, handles, future, life,
                  registered>>
  BY DEF Snapshot, walk, owners
<1> DEFINE y == [z EXCEPT
             !.do = IF z.shards \ {s} = {} THEN "stopKids" ELSE "snapshot",
             !.shards = z.shards \ {s}, !.kids = @ \cup LiveChildren(s)]
           q == RestOf(y)
<1> HIDE DEF z
<1>5. /\ y.do \in {"stopKids", "snapshot"} /\ y.node = z.node
      /\ y.kids = z.kids \cup LiveChildren(s) /\ y.shards = z.shards \ {s}
      /\ y \in Task
  <2>1. y \in Task
    BY <1>2 DEF Task, LiveChildren, TaskName
  <2>2. z \in [do : TaskName, node : Node, shards : SUBSET Shard, kids : SUBSET Child]
    BY <1>2 DEF Task
  <2> QED
    BY <2>1, <2>2
<1>6. Then(t, q)
  BY <1>3
<1> HIDE DEF y
<1>7. q \in Seq(Task) /\ \A i \in 1 .. Len(q) : q[i] = y
  BY <1>5, RestJobs
<1> HIDE DEF q
<1>8. \A m \in LiveChildren(s) : Parent[m] = z.node /\ life[m] = "live"
  <2>1. s \in Shard /\ NodeOf[s] = z.node /\ s # NoShard
    BY <1>2, <1>3, ShardAssumption DEF JobOK, Shards
  <2> QED
    BY <1>2, <2>1 DEF LiveChildren, KeptAlive
<1>9. \A x \in Task : x = y =>
        x.do \in Using /\ x.node = agenda[t][1].node /\ JobOK(x)'
  BY <1>2, <1>4, <1>5, <1>8 DEF JobOK, Using, Shards
<1>10. AgendaInv'
  <2>1. z.do \in Using
    BY <1>2 DEF Using
  <2> QED
    BY <1>2, <1>4, <1>6, <1>7, <1>9, <2>1, ThenSame
<1>11. KeptAlive'
  BY <1>2, <1>4, AliveFrame
<1>12. WalksInv'
  BY <1>2, <1>4, <1>6, <1>7, ThenJobs, ProceedWalks
<1> QED
  BY <1>10, <1>11, <1>12 DEF OwnInv

(* Two tasks and what is left of a third.                                  *)
AndRest(a, b, y) == <<a, b>> \o RestOf(y)
ThreeAtMost(q, a, b, y) ==
  /\ q \in Seq(Task) /\ q[1] = a /\ q[2] = b
  /\ Len(q) = 2 \/ (Len(q) = 3 /\ q[3] = y)

(* There are two or three of them.                                         *)
LEMMA TwoAndRest ==
  ASSUME NEW a \in Task, NEW b \in Task, NEW y \in Task
  PROVE  ThreeAtMost(AndRest(a, b, y), a, b, y)
<1>1. CASE RestOf(y) = <<>>
  BY <1>1 DEF AndRest, ThreeAtMost
<1>2. CASE RestOf(y) = <<y>>
  BY <1>2 DEF AndRest, ThreeAtMost
<1> QED
  BY <1>1, <1>2 DEF RestOf

(* The child to stop next is kept by the Arc that the snapshot took.       *)
LEMMA StopKidsOwn ==
  ASSUME IInv, OwnInv, NEW t \in Thread, StopKids(t)
  PROVE  OwnInv'
<1> DEFINE z == Head(agenda[t])
<1>1. Doing(t, "stopKids")
  BY DEF StopKids
<1>2. /\ pc[t] = "idle" /\ agenda[t] # <<>> /\ agenda \in [Thread -> Seq(Task)]
      /\ agenda[t][1] = z /\ z.do = "stopKids" /\ z.node \in Node /\ z \in Task
      /\ z.kids \subseteq Child /\ 1 \in 1 .. Len(agenda[t])
      /\ JobOK(z) /\ AgendaInv /\ KeptAlive
  BY <1>1, DoingJob
<1>3. PICK m \in z.kids :
        Then(t, <<TaskOn("stop", m), TaskOn("release", m)>>
                \o RestOf([z EXCEPT !.kids = @ \ {m}]))
  BY DEF StopKids
<1>4. UNCHANGED <<pc, cell, from, saved, seen, resume, home, handles, future, life,
                  registered>>
  BY DEF StopKids, walk, owners
<1> DEFINE y == [z EXCEPT !.kids = @ \ {m}]
           a == TaskOn("stop", m)
           b == TaskOn("release", m)
           q == <<a, b>> \o RestOf(y)
<1> HIDE DEF z
<1>5. /\ y \in Task /\ y.do = "stopKids" /\ y.node = z.node
      /\ y.kids = z.kids \ {m} /\ y.shards = z.shards
  BY <1>2 DEF Task
<1>6. m \in Child /\ m \in Node /\ life[m] = "live"
  BY <1>2 DEF JobOK, Child
<1>7. a \in Task /\ a.do = "stop" /\ a.node = m /\ a.shards = Shards(m) /\ a.kids = {}
  BY <1>6, FreshJob DEF TaskName
<1>8. /\ b \in Task /\ b.do = "release" /\ b.node = m /\ b.shards = Shards(m)
      /\ b.kids = {}
  BY <1>6, FreshJob DEF TaskName
<1> HIDE DEF y, a, b
<1>9. Then(t, q)
  BY <1>3 DEF y, a, b
<1>10. q = AndRest(a, b, y)
  BY DEF AndRest
<1> HIDE DEF q
<1>11. /\ q \in Seq(Task) /\ q[1] = a /\ q[2] = b
       /\ Len(q) = 2 \/ (Len(q) = 3 /\ q[3] = y)
  <2>1. a \in Task /\ b \in Task /\ y \in Task
    BY <1>5, <1>7, <1>8
  <2>2. ThreeAtMost(q, a, b, y)
    BY <1>10, <2>1, TwoAndRest
  <2> QED
    BY <2>2 DEF ThreeAtMost
<1>12. \A i \in 1 .. Len(q) : i = 1 \/ i = 2 \/ (i = 3 /\ q[i] = y)
  <2>1. CASE Len(q) = 2
    <3>1. 1 .. Len(q) = 1 .. 2
      BY <2>1
    <3> QED
      BY <3>1
  <2>2. CASE Len(q) = 3 /\ q[3] = y
    <3>1. 1 .. Len(q) = 1 .. 3
      BY <2>2
    <3> QED
      BY <2>2, <3>1
  <2> QED
    BY <1>11, <2>1, <2>2
<1>13. \A x \in Task : x \in {a, b, y} => JobOK(x)'
  <2>1. \A x \in Task : x = a => JobOK(x)'
    BY <1>4, <1>7 DEF JobOK, Shards
  <2>2. \A x \in Task : x = b => JobOK(x)'
    BY <1>4, <1>6, <1>8 DEF JobOK, Shards
  <2>3. \A x \in Task : x = y => JobOK(x)'
    BY <1>2, <1>4, <1>5 DEF JobOK, Shards
  <2> QED
    BY <2>1, <2>2, <2>3
<1>14. \A x \in Task : (\E i \in 1 .. Len(q) : q[i] = x) => JobOK(x)'
  BY <1>11, <1>12, <1>13
<1>15. \A x \in Task : JobOK(x) => JobOK(x)'
  BY <1>4 DEF JobOK, Shards
<1>16. \E j \in 2 .. Len(agenda[t]) : Keeps(agenda[t][j], z.node)
  <2>1. PICK j \in 1 .. Len(agenda[t]) : j > 1 /\ Keeps(agenda[t][j], z.node)
    BY <1>2 DEF AgendaInv, UsesKept, Using
  <2> QED
    BY <1>2, <2>1
<1>17. ASSUME NEW i \in 1 .. Len(q), q[i].do \in Using
       PROVE  \/ \E j \in 1 .. Len(q) : j > i /\ Keeps(q[j], q[i].node)
              \/ \E j \in 2 .. Len(agenda[t]) : Keeps(agenda[t][j], q[i].node)
  <2>1. CASE i = 1
    <3>1. 2 \in 1 .. Len(q) /\ 2 > i /\ Keeps(q[2], q[1].node)
      BY <1>7, <1>8, <1>11, <2>1 DEF Keeps, Keeping
    <3> QED
      BY <2>1, <3>1
  <2>2. CASE i = 2
    BY <1>8, <1>11, <1>17, <2>2 DEF Using
  <2>3. CASE q[i] = y
    BY <1>5, <1>16, <2>3
  <2> QED
    BY <1>12, <2>1, <2>2, <2>3
<1>18. \A i \in 1 .. Len(q) : q[i].do # "deregister"
  BY <1>5, <1>7, <1>8, <1>11, <1>12
<1>19. AgendaInv'
  BY <1>2, <1>9, <1>11, <1>14, <1>15, <1>17, <1>18, ThenAgenda
<1>20. KeptAlive'
  BY <1>2, <1>4, AliveFrame
<1>21. WalksInv'
  BY <1>2, <1>4, <1>9, <1>11, ThenJobs, ProceedWalks
<1> QED
  BY <1>19, <1>20, <1>21 DEF OwnInv

(* The tasks that end without leaving anything to do.                      *)
LEMMA LastOwn ==
  ASSUME IInv, OwnInv, NEW t \in Thread,
         \/ StopNotify(t) \/ Register(t) \/ Adopt(t) \/ Watch(t) \/ GuardReturned(t)
  PROVE  OwnInv'
<1> DEFINE z == agenda[t][1]
<1>1. PICK do \in {"notify", "register", "adopt", "watch", "return"} :
        /\ Doing(t, do)
        /\ do # "adopt" => handles' = handles
        /\ do = "adopt" => handles' = [handles EXCEPT ![Head(agenda[t]).node] = 1]
        /\ do # "register" => registered' = registered
        /\ do = "register" => registered' = [registered EXCEPT ![Head(agenda[t]).node] =
                                    MyShard[t][Parent[Head(agenda[t]).node]]]
        /\ \/ future' = future
           \/ do = "notify" /\ NotifyZero(Head(agenda[t]).node)
           \/ do = "watch" /\ future' = [future EXCEPT ![Head(agenda[t]).node] = "new"]
  BY DEF StopNotify, Register, Adopt, Watch, GuardReturned, owners
<1>2. /\ pc[t] = "idle" /\ agenda[t] # <<>> /\ agenda \in [Thread -> Seq(Task)]
      /\ Head(agenda[t]) = z /\ z.do = do /\ z.node \in Node /\ z \in Task
      /\ do \in {"register", "adopt"} => z.node \in Child
      /\ JobOK(z) /\ AgendaInv /\ KeptAlive
  BY <1>1, DoingJob
<1>3. /\ Then(t, <<>>)
      /\ UNCHANGED <<pc, cell, from, saved, seen, resume, home, life>>
  BY DEF StopNotify, Register, Adopt, Watch, GuardReturned, owners, walk
<1> HIDE DEF z
<1>4. \A n \in Node : handles[n] > 0 => handles'[n] > 0
  BY <1>1, <1>2, SMTT(60) DEF IInv, OwnerTypes
<1>5. \A x \in Task : JobOK(x) => JobOK(x)'
  <2> SUFFICES ASSUME NEW x \in Task, JobOK(x) PROVE JobOK(x)'
    OBVIOUS
  <2>1. x.node \in Node /\ (x.do = "adopt" => Parent[x.node] \in Node)
    BY TreeAssumption DEF Task, Child
  <2> QED
    BY <1>3, <1>4, <2>1 DEF JobOK, Shards
<1>6. AgendaInv'
  BY <1>2, <1>3, <1>5, ThenNone
<1>7. ASSUME NEW n \in Node, handles'[n] > 0 \/ future'[n] # "none"
      PROVE  life'[n] = "live"
  <2>1. CASE n # z.node
    BY <1>1, <1>2, <1>3, <1>7, <2>1 DEF KeptAlive, NotifyZero, IInv, OwnerTypes
  <2>2. CASE n = z.node
    <3>1. CASE do = "adopt"
      BY <1>2, <1>3, <2>2, <3>1 DEF JobOK
    <3>2. CASE do = "watch"
      BY <1>2, <1>3, <2>2, <3>2 DEF JobOK, KeptAlive
    <3>3. CASE do \notin {"adopt", "watch"}
      BY <1>1, <1>2, <1>3, <1>7, <2>2, <3>3 DEF KeptAlive, NotifyZero, IInv, OwnerTypes
    <3> QED
      BY <3>1, <3>2, <3>3
  <2> QED
    BY <2>1, <2>2
<1>8. ASSUME NEW m \in Child, registered'[m] # NoShard
      PROVE  NodeOf[registered'[m]] = Parent[m]
  <2>1. m \in Node /\ Parent[m] \in Node
    BY TreeAssumption DEF Child
  <2>2. CASE registered'[m] = registered[m]
    BY <1>2, <1>8, <2>2 DEF KeptAlive
  <2>3. CASE registered'[m] = MyShard[t][Parent[m]]
    BY <2>1, <2>3, ShardAssumption
  <2> QED
    BY <1>1, <1>2, <2>1, <2>2, <2>3 DEF IInv, OwnerTypes
<1>9. KeptAlive'
  BY <1>2, <1>3, <1>7, <1>8 DEF KeptAlive
<1>10. \A u \in Thread \ {t} : agenda'[u] = agenda[u]
  BY <1>2, <1>3 DEF Then
<1>11. WalksInv'
  BY <1>2, <1>3, <1>10, ProceedWalks
<1> QED
  BY <1>6, <1>9, <1>11 DEF OwnInv

(* A task that leaves one task behind which relies on nothing.             *)
LEMMA ThenOne ==
  ASSUME agenda \in [Thread -> Seq(Task)], AgendaInv, NEW t \in Thread,
         agenda[t] # <<>>, NEW x \in Task, Then(t, <<x>>),
         \A y \in Task : Pending(t, y) /\ JobOK(y) => JobOK(y)',
         \A y \in Task : y = x => JobOK(y)',
         x.do \notin Using, x.do # "deregister"
  PROVE  /\ AgendaInv' /\ \A u \in Thread \ {t} : agenda'[u] = agenda[u]
         /\ 1 \in 1 .. Len(agenda'[t]) /\ agenda'[t][1] = x
<1> DEFINE q == <<x>>
<1>1. q \in Seq(Task) /\ Len(q) = 1 /\ q[1] = x
  OBVIOUS
<1>2. \A i \in 1 .. Len(q) : i = 1
  BY <1>1
<1>3. Then(t, q)
  OBVIOUS
<1> HIDE DEF q
<1>4. \A y \in Task : (\E i \in 1 .. Len(q) : q[i] = y) => JobOK(y)'
  BY <1>1, <1>2
<1>5. \A i \in 1 .. Len(q) : q[i].do \notin Using /\ q[i].do # "deregister"
  BY <1>1, <1>2
<1>6. AgendaInv'
  BY <1>1, <1>3, <1>4, <1>5, ThenAgenda
<1>7. /\ \A u \in Thread \ {t} : agenda'[u] = agenda[u]
      /\ 1 \in 1 .. Len(agenda'[t]) /\ agenda'[t][1] = x
  BY <1>1, <1>3, ThenJobs
<1> QED
  BY <1>6, <1>7

(* A task that leaves two behind, the second keeping the node of the first.*)
LEMMA ThenTwo ==
  ASSUME agenda \in [Thread -> Seq(Task)], AgendaInv, NEW t \in Thread,
         agenda[t] # <<>>, NEW x \in Task, NEW z \in Task, Then(t, <<x, z>>),
         \A y \in Task : Pending(t, y) /\ JobOK(y) => JobOK(y)',
         \A y \in Task : y = x \/ y = z => JobOK(y)',
         x.do # "deregister", z.do \notin Using, Keeps(z, x.node),
         z.do = "deregister" =>
           \A y \in Task : Pending(t, y) => ~(y.do = "deregister" /\ y.node = z.node)
  PROVE  /\ AgendaInv' /\ \A u \in Thread \ {t} : agenda'[u] = agenda[u]
<1> DEFINE q == <<x, z>>
<1>1. q \in Seq(Task) /\ Len(q) = 2 /\ q[1] = x /\ q[2] = z
  OBVIOUS
<1>2. \A i \in 1 .. Len(q) : i = 1 \/ i = 2
  BY <1>1
<1>3. Then(t, q)
  OBVIOUS
<1> HIDE DEF q
<1>4. \A y \in Task : (\E i \in 1 .. Len(q) : q[i] = y) => JobOK(y)'
  BY <1>1, <1>2
<1>5. ASSUME NEW i \in 1 .. Len(q), q[i].do \in Using
      PROVE  \E j \in 1 .. Len(q) : j > i /\ Keeps(q[j], q[i].node)
  <2>1. i = 1 /\ 2 \in 1 .. Len(q) /\ 2 > i /\ Keeps(q[2], q[1].node)
    BY <1>1, <1>2, <1>5
  <2> QED
    BY <2>1
<1>6. \A i \in 1 .. Len(q) : q[i].do = "deregister" => i = 2
  BY <1>1, <1>2
<1>7. \A i \in 1 .. Len(q) : q[i].do = "deregister" =>
        \A y \in Task : Pending(t, y) => ~(y.do = "deregister" /\ y.node = q[i].node)
  BY <1>1, <1>6
<1>8. AgendaInv'
  BY <1>1, <1>3, <1>4, <1>5, <1>6, <1>7, ThenAgenda
<1> QED
  BY <1>1, <1>3, <1>8, ThenJobs

(* What the thread that releases an Arc leaves on the agendas.             *)
Left(t) == [agenda EXCEPT ![t] = Tail(@)]

(* It is what is pending.                                                  *)
LEMMA PendingRest ==
  ASSUME agenda \in [Thread -> Seq(Task)], NEW t \in Thread, agenda[t] # <<>>,
         NEW x, Pending(t, x)
  PROVE  \E u \in Thread : \E i \in DOMAIN Left(t)[u] : Left(t)[u][i] = x
<1>0. PICK u \in Thread : \E i \in 1 .. Len(agenda[u]) :
        agenda[u][i] = x /\ (u = t => i > 1)
  BY DEF Pending
<1>1. PICK i \in 1 .. Len(agenda[u]) : agenda[u][i] = x /\ (u = t => i > 1)
  BY <1>0
<1>2. agenda[u] \in Seq(Task)
  OBVIOUS
<1>3. CASE u # t
  BY <1>1, <1>2, <1>3 DEF Left
<1>4. CASE u = t
  <2>1. Left(t)[t] = Tail(agenda[t])
    BY DEF Left
  <2>2. i - 1 \in 1 .. Len(agenda[t]) - 1
    BY <1>1, <1>2, <1>4
  <2>3. /\ Tail(agenda[t]) \in Seq(Task) /\ Len(Tail(agenda[t])) = Len(agenda[t]) - 1
        /\ Tail(agenda[t])[i - 1] = agenda[t][i]
    BY <1>2, <1>4, <2>2
  <2>4. i - 1 \in DOMAIN Tail(agenda[t])
    BY <2>2, <2>3
  <2> QED
    BY <1>1, <1>4, <2>1, <2>3, <2>4
<1> QED
  BY <1>3, <1>4

(* The last Arc of a node is released: nothing that uses the node is left. *)
LEMMA ReleaseOwn ==
  ASSUME IInv, OwnInv, NEW t \in Thread, Release(t)
  PROVE  OwnInv'
<1> DEFINE z == agenda[t][1]
           n == agenda[t][1].node
           todo == Left(t)
<1>1. Doing(t, "release")
  BY DEF Release
<1>2. /\ pc[t] = "idle" /\ agenda[t] # <<>> /\ agenda \in [Thread -> Seq(Task)]
      /\ Head(agenda[t]) = z /\ z.do = "release" /\ n \in Node /\ z \in Task
      /\ JobOK(z) /\ AgendaInv /\ KeptAlive /\ life[n] = "live"
      /\ life \in [Node -> {"unborn", "live", "dropping", "gone"}]
  BY <1>1, DoingJob DEF JobOK, IInv, OwnerTypes
<1>3. UNCHANGED <<pc, cell, from, saved, seen, resume, home, handles, future,
                  registered>>
  BY DEF Release, walk
<1>4. CASE agenda' = todo /\ life' = life
  <2>1. Then(t, <<>>)
    <3>1. <<>> \o Tail(agenda[t]) = Tail(agenda[t])
      BY <1>2
    <3> QED
      BY <1>4, <3>1 DEF Then, Left
  <2>2. \A x \in Task : JobOK(x) => JobOK(x)'
    BY <1>3, <1>4 DEF JobOK, Shards
  <2>3. AgendaInv'
    BY <1>2, <2>1, <2>2, ThenNone
  <2>4. KeptAlive'
    BY <1>2, <1>3, <1>4, AliveFrame
  <2>5. WalksInv'
    BY <1>2, <1>3, <1>4, ProceedWalks DEF Left
  <2> QED
    BY <2>3, <2>4, <2>5 DEF OwnInv
<1>5. CASE /\ ~Pinned(n, todo) /\ life' = [life EXCEPT ![n] = "dropping"]
           /\ Then(t, Collect(n))
  <2> DEFINE x == TaskOn("latch", n)
             y == TaskOn("deregister", n)
  <2>1. x \in Task /\ x.do = "latch" /\ x.node = n /\ x.shards = Shards(n) /\ x.kids = {}
    BY <1>2, FreshJob DEF TaskName
  <2>2. /\ y \in Task /\ y.do = "deregister" /\ y.node = n /\ y.shards = Shards(n)
        /\ y.kids = {}
    BY <1>2, FreshJob DEF TaskName
  <2>3. Then(t, <<x, y>>)
    BY <1>5 DEF Collect
  <2> HIDE DEF x, y, todo
  <2>4. /\ handles[n] = 0 /\ future[n] = "none"
        /\ \A g \in Guard : n # Root /\ home[g] # NoShard => NodeOf[home[g]] # n
        /\ \A m \in Child : Parent[m] = n => life[m] \notin {"live", "dropping"}
        /\ \A w \in Task : Pending(t, w) =>
             ~(w.do \in {"release", "adopt"} /\ w.node = n) /\ n \notin w.kids
    <3>1. handles[n] \in Nat
      BY <1>2 DEF IInv, OwnerTypes
    <3>3. \A w \in Task : Pending(t, w) =>
            \E u \in Thread : \E i \in DOMAIN todo[u] : todo[u][i] = w
      BY <1>2, PendingRest DEF todo
    <3> HIDE DEF n
    <3>4. ~Pinned(n, todo)
      BY <1>5
    <3>5. handles[n] = 0 /\ future[n] = "none"
      BY <3>1, <3>4 DEF Pinned
    <3>6. /\ \A g \in Guard : n # Root /\ home[g] # NoShard => NodeOf[home[g]] # n
          /\ \A m \in Child : Parent[m] = n => life[m] \notin {"live", "dropping"}
      BY <3>4 DEF Pinned
    <3>7. ASSUME NEW w \in Task, Pending(t, w)
          PROVE  ~(w.do \in {"release", "adopt"} /\ w.node = n) /\ n \notin w.kids
      <4>1. PICK u \in Thread : \E i \in DOMAIN todo[u] : todo[u][i] = w
        BY <3>3, <3>7
      <4>2. PICK i \in DOMAIN todo[u] : todo[u][i] = w
        BY <4>1
      <4>3. ~(\/ todo[u][i].do \in {"release", "adopt"} /\ todo[u][i].node = n
              \/ n \in todo[u][i].kids)
        BY <3>4 DEF Pinned
      <4> QED
        BY <4>2, <4>3
    <3> QED
      BY <3>5, <3>6, <3>7
  <2>5. life'[n] = "dropping" /\ \A k \in Node \ {n} : life'[k] = life[k]
    BY <1>2, <1>5
  <2>6. ASSUME NEW w \in Task, Pending(t, w), JobOK(w)
        PROVE  JobOK(w)' /\ ~(w.do = "deregister" /\ w.node = y.node)
    <3>1. w.node \in Node /\ w.kids \subseteq Node
      BY DEF Task, Child
    <3>2. ~(w.do = "deregister" /\ w.node = n)
      BY <1>2, <2>6 DEF JobOK
    <3>3. ~(w.do \in {"release", "adopt"} /\ w.node = n) /\ n \notin w.kids
      BY <2>4, <2>6
    <3> HIDE DEF n
    <3>4. /\ \A m \in w.kids : Parent[m] = w.node /\ life'[m] = "live"
          /\ w.do \in {"release", "adopt"} => life'[w.node] = "live"
          /\ w.do = "deregister" => life'[w.node] = "dropping"
      BY <2>5, <2>6, <3>1, <3>2, <3>3 DEF JobOK
    <3>5. JobOK(w)'
      BY <1>3, <2>6, <3>4 DEF JobOK, Shards
    <3> QED
      BY <2>2, <3>2, <3>5
  <2>7. \A w \in Task : w = x \/ w = y => JobOK(w)'
    <3>1. \A w \in Task : w = x => JobOK(w)'
      BY <2>1 DEF JobOK, Shards
    <3>2. \A w \in Task : w = y => JobOK(w)'
      BY <2>2, <2>5 DEF JobOK, Shards
    <3> QED
      BY <3>1, <3>2
  <2>8. Keeps(y, x.node)
    BY <2>1, <2>2 DEF Keeps, Keeping
  <2>9. \A w \in Task : Pending(t, w) => JobOK(w)
    BY <1>2 DEF Pending, AgendaInv, JobsOK
  <2>10. AgendaInv' /\ \A u \in Thread \ {t} : agenda'[u] = agenda[u]
    <3>1. x.do # "deregister" /\ y.do \notin Using
      BY <2>1, <2>2 DEF Using
    <3> QED
      BY <1>2, <2>1, <2>2, <2>3, <2>6, <2>7, <2>8, <2>9, <3>1, ThenTwo
  <2>11. KeptAlive'
    <3> HIDE DEF n
    <3>1. ASSUME NEW k \in Node, handles'[k] > 0 \/ future'[k] # "none"
          PROVE  life'[k] = "live"
      BY <1>2, <1>3, <2>4, <2>5, <3>1 DEF KeptAlive
    <3>2. ASSUME NEW g \in Guard, home'[g] # NoShard, NodeOf[home'[g]] # Root
          PROVE  life'[NodeOf[home'[g]]] = "live"
      <4>1. home[g] \in Shard /\ NodeOf[home[g]] \in Node
        BY <1>3, <3>2, ShardAssumption DEF IInv, CoreInv, WordTypes
      <4> QED
        BY <1>2, <1>3, <2>4, <2>5, <3>2, <4>1 DEF KeptAlive
    <3>3. ASSUME NEW m \in Child, life'[m] \in {"live", "dropping"}
          PROVE  life'[Parent[m]] = "live"
      <4>1. m \in Node /\ Parent[m] \in Node
        BY TreeAssumption DEF Child
      <4>2. life[m] \in {"live", "dropping"}
        BY <1>2, <2>5, <3>3, <4>1
      <4>3. Parent[m] # n /\ life[Parent[m]] = "live"
        BY <1>2, <2>4, <4>2 DEF KeptAlive
      <4> QED
        BY <2>5, <4>1, <4>3
    <3> QED
      BY <1>2, <1>3, <3>1, <3>2, <3>3 DEF KeptAlive
  <2>12. WalksInv'
    BY <1>2, <1>3, <2>10, ProceedWalks
  <2> QED
    BY <2>10, <2>11, <2>12 DEF OwnInv
<1> QED
  BY <1>2, <1>4, <1>5 DEF Release, Left

(* The end of Drop for Inner: the child is gone, and its Arc of the parent *)
(* is released.                                                            *)
LEMMA DeregisterOwn ==
  ASSUME IInv, OwnInv, NEW t \in Thread, Deregister(t)
  PROVE  OwnInv'
<1> DEFINE n == agenda[t][1].node
<1>1. Doing(t, "deregister")
  BY DEF Deregister
<1>2. /\ pc[t] = "idle" /\ agenda[t] # <<>> /\ agenda \in [Thread -> Seq(Task)]
      /\ Head(agenda[t]) = agenda[t][1] /\ agenda[t][1].do = "deregister"
      /\ n \in Node /\ 1 \in 1 .. Len(agenda[t])
      /\ AgendaInv /\ KeptAlive /\ life[n] = "dropping"
      /\ life \in [Node -> {"unborn", "live", "dropping", "gone"}]
      /\ registered \in [Node -> Shard \cup {NoShard}]
  BY <1>1, DoingJob DEF JobOK, IInv, OwnerTypes
<1>3. /\ UNCHANGED <<pc, cell, from, saved, seen, resume, home, handles, future>>
      /\ registered' = [registered EXCEPT ![n] = NoShard]
      /\ life' = [life EXCEPT ![n] = "gone"]
      /\ Then(t, IF n = Root THEN <<>> ELSE <<TaskOn("release", Parent[n])>>)
  BY <1>2 DEF Deregister, walk
<1>4. \A w \in Task : Pending(t, w) => ~(w.do = "deregister" /\ w.node = n)
  <2> SUFFICES ASSUME NEW w \in Task, Pending(t, w), w.do = "deregister", w.node = n
               PROVE  FALSE
    OBVIOUS
  <2>1. PICK u \in Thread : \E i \in 1 .. Len(agenda[u]) :
          agenda[u][i] = w /\ (u = t => i > 1)
    BY DEF Pending
  <2>2. PICK i \in 1 .. Len(agenda[u]) : agenda[u][i] = w /\ (u = t => i > 1)
    BY <2>1
  <2>3. u = t /\ i = 1
    BY <1>2, <2>2 DEF AgendaInv, CollectedOnce
  <2> QED
    BY <2>2, <2>3
<1> HIDE DEF n
<1>5. life'[n] = "gone" /\ \A k \in Node \ {n} : life'[k] = life[k]
  BY <1>2, <1>3
<1>6. ASSUME NEW w \in Task, Pending(t, w), JobOK(w)
      PROVE  JobOK(w)'
  <2>1. w.node \in Node /\ w.kids \subseteq Node
    BY DEF Task, Child
  <2>2. /\ \A m \in w.kids : Parent[m] = w.node /\ life'[m] = "live"
        /\ w.do \in {"release", "adopt"} => life'[w.node] = "live"
        /\ w.do = "deregister" => life'[w.node] = "dropping"
    BY <1>2, <1>4, <1>5, <1>6, <2>1 DEF JobOK
  <2> QED
    BY <1>3, <1>6, <2>2 DEF JobOK, Shards
<1>7. AgendaInv' /\ \A u \in Thread \ {t} : agenda'[u] = agenda[u]
  <2>1. CASE n = Root
    <3>1. Then(t, <<>>)
      BY <1>3, <2>1
    <3>2. AgendaInv'
      BY <1>2, <1>6, <3>1, ThenNone
    <3> QED
      BY <1>2, <3>1, <3>2 DEF Then
  <2>2. CASE n # Root
    <3> DEFINE x == TaskOn("release", Parent[n])
    <3>1. n \in Child /\ Parent[n] \in Node /\ Parent[n] # n
      BY <1>2, <2>2, ParentBelowNone, AncestorsClosed DEF Child
    <3>2. /\ x \in Task /\ x.do = "release" /\ x.node = Parent[n]
          /\ x.shards = Shards(Parent[n]) /\ x.kids = {}
      BY <3>1, FreshJob DEF TaskName
    <3>3. Then(t, <<x>>)
      BY <1>3, <2>2
    <3> HIDE DEF x
    <3>4. life'[Parent[n]] = "live"
      BY <1>2, <1>5, <3>1 DEF KeptAlive
    <3>5. \A w \in Task : w = x => JobOK(w)'
      BY <3>2, <3>4 DEF JobOK, Shards
    <3> QED
      BY <1>2, <1>6, <3>2, <3>3, <3>5, ThenOne DEF Using
  <2> QED
    BY <2>1, <2>2
<1>8. KeptAlive'
  <2>1. ASSUME NEW k \in Node, handles'[k] > 0 \/ future'[k] # "none"
        PROVE  life'[k] = "live"
    BY <1>2, <1>3, <1>5, <2>1 DEF KeptAlive
  <2>2. ASSUME NEW g \in Guard, home'[g] # NoShard, NodeOf[home'[g]] # Root
        PROVE  life'[NodeOf[home'[g]]] = "live"
    <3>1. home[g] \in Shard /\ NodeOf[home[g]] \in Node
      BY <1>3, <2>2, ShardAssumption DEF IInv, CoreInv, WordTypes
    <3> QED
      BY <1>2, <1>3, <1>5, <2>2, <3>1 DEF KeptAlive
  <2>3. ASSUME NEW m \in Child, life'[m] \in {"live", "dropping"}
        PROVE  life'[Parent[m]] = "live"
    <3>1. m \in Node /\ Parent[m] \in Node
      BY TreeAssumption DEF Child
    <3>2. life[m] \in {"live", "dropping"} /\ m # n
      BY <1>2, <1>5, <2>3, <3>1
    <3> QED
      BY <1>2, <1>5, <3>1, <3>2 DEF KeptAlive
  <2>4. ASSUME NEW m \in Child, registered'[m] # NoShard
        PROVE  NodeOf[registered'[m]] = Parent[m]
    <3>1. m \in Node
      BY DEF Child
    <3> QED
      BY <1>2, <1>3, <2>4, <3>1 DEF KeptAlive
  <2> QED
    BY <2>1, <2>2, <2>3, <2>4 DEF KeptAlive
<1>9. WalksInv'
  BY <1>2, <1>3, <1>7, ProceedWalks
<1> QED
  BY <1>7, <1>8, <1>9 DEF OwnInv

(* `if parent.is_stopped() { inner.stop() }`                               *)
LEMMA CheckOwn ==
  ASSUME IInv, OwnInv, NEW t \in Thread, Check(t)
  PROVE  OwnInv'
<1> DEFINE n == agenda[t][1].node
           x == TaskOn("stop", n)
           q == StopIfParentDid(n)
<1>1. Doing(t, "check")
  BY DEF Check
<1>2. /\ pc[t] = "idle" /\ agenda[t] # <<>> /\ agenda \in [Thread -> Seq(Task)]
      /\ Head(agenda[t]) = agenda[t][1] /\ agenda[t][1].do = "check"
      /\ n \in Node /\ AgendaInv /\ KeptAlive
  BY <1>1, DoingJob
<1>3. /\ Then(t, q)
      /\ UNCHANGED <<pc, cell, from, saved, seen, resume, home, handles, future,
                     life, registered>>
  BY <1>2 DEF Check, walk, owners
<1>4. x \in Task /\ x.do = "stop" /\ x.node = n /\ x.shards = Shards(n) /\ x.kids = {}
  BY <1>2, FreshJob DEF TaskName
<1>5. q = <<>> \/ q = <<x>>
  BY DEF StopIfParentDid
<1> HIDE DEF x, q
<1>6. q \in Seq(Task) /\ \A i \in 1 .. Len(q) : q[i] = x
  <2>1. CASE q = <<>>
    BY <2>1
  <2>2. CASE q = <<x>>
    BY <1>4, <2>2
  <2> QED
    BY <1>5, <2>1, <2>2
<1>7. \A y \in Task : y = x =>
        y.do \in Using /\ y.node = agenda[t][1].node /\ JobOK(y)'
  BY <1>3, <1>4 DEF JobOK, Using, Shards
<1>8. AgendaInv'
  <2>1. agenda[t][1].do \in Using
    BY <1>2 DEF Using
  <2> QED
    BY <1>2, <1>3, <1>6, <1>7, <2>1, ThenSame
<1>9. KeptAlive'
  BY <1>2, <1>3, AliveFrame
<1>10. WalksInv'
  BY <1>2, <1>3, <1>6, ThenJobs, ProceedWalks
<1> QED
  BY <1>8, <1>9, <1>10 DEF OwnInv

(* A root's guard finds the root alive before it flushes, or lets it be.   *)
LEMMA UpgradeOwn ==
  ASSUME IInv, OwnInv, NEW t \in Thread, Upgrade(t)
  PROVE  OwnInv'
<1> DEFINE z == agenda[t][1]
<1>1. Doing(t, "upgrade")
  BY DEF Upgrade
<1>2. /\ pc[t] = "idle" /\ agenda[t] # <<>> /\ agenda \in [Thread -> Seq(Task)]
      /\ Head(agenda[t]) = z /\ JobOK(z) /\ z.do = "upgrade"
      /\ AgendaInv /\ KeptAlive
  BY <1>1, DoingJob
<1>3. UNCHANGED <<from, saved, seen, resume, home, handles, future, life, registered>>
  BY DEF Upgrade, owners
<1>4. \A y \in Task : JobOK(y) => JobOK(y)'
  BY <1>3 DEF JobOK, Shards
<1>5. KeptAlive'
  BY <1>2, <1>3, AliveFrame
<1>6. PICK s \in z.shards :
        \/ life[Root] = "live" /\ Go(t, "flush", s) /\ Then(t, <<TaskOn("release", Root)>>)
        \/ Then(t, <<>>) /\ Stay
  BY <1>2 DEF Upgrade
<1>7. s \in Shards(Root)
  BY <1>2 DEF JobOK
<1>8. CASE life[Root] = "live" /\ Go(t, "flush", s) /\ Then(t, <<TaskOn("release", Root)>>)
  <2> DEFINE x == TaskOn("release", Root)
  <2>1. /\ x \in Task /\ x.do = "release" /\ x.node = Root /\ x.shards = Shards(Root)
        /\ x.kids = {}
    BY TreeAssumption, FreshJob DEF TaskName
  <2>2. Then(t, <<x>>)
    BY <1>8
  <2> HIDE DEF x
  <2>3. \A w \in Task : w = x => JobOK(w)'
    BY <1>3, <1>8, <2>1 DEF JobOK, Shards
  <2>4. /\ AgendaInv' /\ \A u \in Thread \ {t} : agenda'[u] = agenda[u]
        /\ 1 \in 1 .. Len(agenda'[t]) /\ agenda'[t][1] = x
    BY <1>2, <1>4, <2>1, <2>2, <2>3, ThenOne DEF Using
  <2>5. /\ pc'[t] = "flush" /\ cell'[t] = s
        /\ \A u \in Thread \ {t} : pc'[u] = pc[u] /\ cell'[u] = cell[u]
    BY <1>8 DEF Go, IInv, CoreInv, WalkTypes
  <2>6. ChainOK(t)' /\ WalkKept(t)'
    BY <1>2, <1>3, <1>7, <2>1, <2>4, <2>5, TreeAssumption, IdleChain DEF Keeping
  <2>7. WalksInv'
    BY <1>3, <2>4, <2>5, <2>6, OthersChain DEF OwnInv, WalksInv, SameRow
  <2> QED
    BY <1>5, <2>4, <2>7 DEF OwnInv
<1>9. CASE Then(t, <<>>) /\ Stay
  <2>1. AgendaInv'
    BY <1>2, <1>4, <1>9, ThenNone
  <2>2. \A u \in Thread \ {t} : agenda'[u] = agenda[u]
    BY <1>2, <1>9 DEF Then
  <2>3. WalksInv'
    BY <1>2, <1>3, <1>9, <2>2, ProceedWalks DEF Stay
  <2> QED
    BY <1>5, <2>1, <2>3 DEF OwnInv
<1> QED
  BY <1>6, <1>8, <1>9

(* Lists of one or two tasks, put together.                                *)
LEMMA JoinTasks ==
  ASSUME NEW x \in Task, NEW y \in Task
  PROVE  <<>> \o <<y>> = <<y>> /\ <<x>> \o <<y>> = <<x, y>>
<1> DEFINE p == <<x>> \o <<y>>
<1>1. p \in Seq(Task) /\ Len(p) = 2 /\ p[1] = x /\ p[2] = y
  OBVIOUS
<1>2. <<>> \o <<y>> = <<y>>
  OBVIOUS
<1> HIDE DEF p
<1>3. p = <<x, y>>
  BY <1>1
<1> QED
  BY <1>2, <1>3 DEF p

(* Dropping a handle releases its Arc, for a root after a stop.            *)
LEMMA DropJobs ==
  ASSUME NEW n \in Node, NEW x, x = TaskOn("stop", n),
         NEW y, y = TaskOn("release", n)
  PROVE  /\ DropTasks(n) = <<y>> \/ DropTasks(n) = <<x, y>>
         /\ x \in Task /\ x.do = "stop" /\ x.node = n /\ x.shards = Shards(n)
         /\ x.kids = {}
         /\ y \in Task /\ y.do = "release" /\ y.node = n /\ y.shards = Shards(n)
         /\ y.kids = {}
<1>1. /\ x \in Task /\ x.do = "stop" /\ x.node = n /\ x.shards = Shards(n)
      /\ x.kids = {}
  BY FreshJob DEF TaskName
<1>2. /\ y \in Task /\ y.do = "release" /\ y.node = n /\ y.shards = Shards(n)
      /\ y.kids = {}
  BY FreshJob DEF TaskName
<1>3. DropTasks(n) = <<>> \o <<y>> \/ DropTasks(n) = <<x>> \o <<y>>
  BY DEF DropTasks
<1>4. <<>> \o <<y>> = <<y>> /\ <<x>> \o <<y>> = <<x, y>>
  BY <1>1, <1>2, JoinTasks
<1> QED
  BY <1>1, <1>2, <1>3, <1>4

(* block_on_shutdown_completion returns and drops its handle.              *)
LEMMA UnblockOwn ==
  ASSUME IInv, OwnInv, NEW t \in Thread, Unblock(t)
  PROVE  OwnInv'
<1> DEFINE n == agenda[t][1].node
           x == TaskOn("stop", n)
           y == TaskOn("release", n)
<1>1. Doing(t, "block")
  BY DEF Unblock
<1>2. /\ pc[t] = "idle" /\ agenda[t] # <<>> /\ agenda \in [Thread -> Seq(Task)]
      /\ Head(agenda[t]) = agenda[t][1] /\ n \in Node /\ AgendaInv /\ KeptAlive
  BY <1>1, DoingJob
<1>3. /\ Then(t, DropTasks(n)) /\ future[n] = "resolved"
      /\ future' = [future EXCEPT ![n] = "none"]
      /\ UNCHANGED <<pc, cell, from, saved, seen, resume, home, handles, life,
                     registered>>
  BY <1>2 DEF Unblock, walk
<1> HIDE DEF n
<1>4. /\ DropTasks(n) = <<y>> \/ DropTasks(n) = <<x, y>>
      /\ x \in Task /\ x.do = "stop" /\ x.node = n /\ x.shards = Shards(n)
      /\ x.kids = {}
      /\ y \in Task /\ y.do = "release" /\ y.node = n /\ y.shards = Shards(n)
      /\ y.kids = {}
  BY <1>2, DropJobs
<1> HIDE DEF x, y
<1>5. life[n] = "live"
  BY <1>2, <1>3 DEF KeptAlive
<1>6. \A w \in Task : w = x \/ w = y => JobOK(w)'
  <2>1. \A w \in Task : w = x => JobOK(w)'
    BY <1>3, <1>4 DEF JobOK, Shards
  <2>2. \A w \in Task : w = y => JobOK(w)'
    BY <1>3, <1>4, <1>5 DEF JobOK, Shards
  <2> QED
    BY <2>1, <2>2
<1>7. \A w \in Task : JobOK(w) => JobOK(w)'
  BY <1>3 DEF JobOK, Shards
<1>8. y.do \notin Using /\ x.do # "deregister" /\ y.do # "deregister" /\ Keeps(y, x.node)
  BY <1>4 DEF Using, Keeps, Keeping
<1>9. AgendaInv' /\ \A u \in Thread \ {t} : agenda'[u] = agenda[u]
  <2>1. CASE DropTasks(n) = <<y>>
    BY <1>2, <1>3, <1>4, <1>6, <1>7, <1>8, <2>1, ThenOne
  <2>2. CASE DropTasks(n) = <<x, y>>
    BY <1>2, <1>3, <1>4, <1>6, <1>7, <1>8, <2>2, ThenTwo, SMTT(60)
  <2> QED
    BY <1>4, <2>1, <2>2
<1>10. KeptAlive'
  <2>1. \A k \in Node : future'[k] # "none" => future[k] # "none"
    BY <1>2, <1>3 DEF IInv, OwnerTypes
  <2> QED
    BY <1>2, <1>3, <2>1, AliveFrame
<1>11. WalksInv'
  BY <1>2, <1>3, <1>9, ProceedWalks
<1> QED
  BY <1>9, <1>10, <1>11 DEF OwnInv

(* Every step of an agenda keeps the invariant.                            *)
LEMMA ProceedOwn ==
  ASSUME IInv, OwnInv, NEW t \in Thread, Proceed(t)
  PROVE  OwnInv'
BY StopOwn, LatchOwn, SnapshotOwn, StopKidsOwn, LastOwn, ReleaseOwn, DeregisterOwn,
   CheckOwn, UpgradeOwn, UnblockOwn DEF Proceed

-----------------------------------------------------------------------------
(* Calls of clients.                                                       *)

(* An operation that leaves two tasks, the second keeping the node of the  *)
(* first.                                                                  *)
LEMMA BeginTwo ==
  ASSUME agenda \in [Thread -> Seq(Task)], AgendaInv, NEW t \in Thread,
         agenda[t] = <<>>, NEW x \in Task, NEW z \in Task, Begin(t, <<x, z>>),
         \A y \in Task : Pending(t, y) /\ JobOK(y) => JobOK(y)',
         \A y \in Task : y = x \/ y = z => JobOK(y)',
         x.do # "deregister", z.do # "deregister", z.do \notin Using,
         Keeps(z, x.node)
  PROVE  AgendaInv' /\ agenda'[t] = <<x, z>>
<1> DEFINE q == <<x, z>>
<1>1. q \in Seq(Task) /\ Len(q) = 2 /\ q[1] = x /\ q[2] = z
  OBVIOUS
<1>2. \A i \in 1 .. Len(q) : i = 1 \/ i = 2
  BY <1>1
<1>3. Begin(t, q)
  OBVIOUS
<1> HIDE DEF q
<1>4. \A y \in Task : (\E i \in 1 .. Len(q) : q[i] = y) => JobOK(y)'
  BY <1>1, <1>2
<1>5. ASSUME NEW i \in 1 .. Len(q), q[i].do \in Using
      PROVE  \E j \in 1 .. Len(q) : j > i /\ Keeps(q[j], q[i].node)
  <2>1. i = 1 /\ 2 \in 1 .. Len(q) /\ 2 > i /\ Keeps(q[2], q[1].node)
    BY <1>1, <1>2, <1>5
  <2> QED
    BY <2>1
<1>6. \A i \in 1 .. Len(q) : q[i].do # "deregister"
  BY <1>1, <1>2
<1>7. AgendaInv'
  BY <1>1, <1>3, <1>4, <1>5, <1>6, BeginAgenda
<1>8. agenda'[t] = q
  BY <1>1, <1>3, BeginJobs
<1> QED
  BY <1>7, <1>8 DEF q

(* An operation that begins with no walk.                                  *)
LEMMA CallWalks ==
  ASSUME IInv, OwnInv, NEW t \in Thread, pc[t] = "idle",
         UNCHANGED <<pc, cell, from, saved, seen, resume>>,
         NEW q, Begin(t, q)
  PROVE  WalksInv'
<1>1. \A u \in Thread \ {t} : agenda'[u] = agenda[u]
  BY DEF Begin, IInv, OwnerTypes
<1> QED
  BY <1>1, ProceedWalks

(* What holds of an idle thread.                                           *)
LEMMA IdleCall ==
  ASSUME IInv, OwnInv, NEW t \in Thread, Idle(t)
  PROVE  /\ pc[t] = "idle" /\ agenda[t] = <<>> /\ agenda \in [Thread -> Seq(Task)]
         /\ AgendaInv /\ KeptAlive
         /\ handles \in [Node -> Nat] /\ life \in [Node -> {"unborn", "live", "dropping", "gone"}]
BY DEF IInv, OwnerTypes, OwnInv, Idle

(* Swansong::guard borrows a handle and arrives.                           *)
LEMMA NewGuardOwn ==
  ASSUME IInv, OwnInv, NEW t \in Thread, NEW n \in Node, NEW g \in Guard,
         NewGuard(t, n, g)
  PROVE  OwnInv'
<1> DEFINE x == TaskOn("return", n)
<1>1. Idle(t) /\ handles[n] > 0 /\ Go(t, "arriveShard", MyShard[t][n]) /\ Begin(t, <<x>>)
  BY DEF NewGuard
<1>2. UNCHANGED <<from, saved, seen, resume, home, handles, future, life, registered>>
  BY DEF NewGuard, owners
<1>3. /\ pc[t] = "idle" /\ agenda[t] = <<>> /\ agenda \in [Thread -> Seq(Task)]
      /\ AgendaInv /\ KeptAlive
  BY <1>1, IdleCall
<1>4. x \in Task /\ x.do = "return" /\ x.node = n /\ x.shards = Shards(n) /\ x.kids = {}
  BY FreshJob DEF TaskName
<1> HIDE DEF x
<1>5. \A y \in Task : JobOK(y) => JobOK(y)'
  BY <1>2 DEF JobOK, Shards
<1>6. \A y \in Task : y = x => JobOK(y)'
  BY <1>1, <1>2, <1>4 DEF JobOK, Shards
<1>7. AgendaInv' /\ agenda'[t] = <<x>>
  BY <1>1, <1>3, <1>4, <1>5, <1>6, BeginOne DEF Using
<1>8. KeptAlive'
  BY <1>2, <1>3, AliveFrame
<1>9. ChainOK(t)' /\ WalkKept(t)'
  BY <1>1, <1>2, <1>3, <1>4, <1>7, StartChain
<1>10. \A u \in Thread \ {t} : SameRow(u) /\ agenda'[u] = agenda[u]
  BY <1>1, <1>2 DEF SameRow, Go, Begin, IInv, CoreInv, WalkTypes, OwnerTypes
<1>11. WalksInv'
  BY <1>9, <1>10, OthersChain DEF OwnInv, WalksInv
<1> QED
  BY <1>7, <1>8, <1>11 DEF OwnInv

(* Interrupt::guarded: a guard on an arrived shard of the root, or a look  *)
(* at the node.                                                            *)
LEMMA ForShardOwn ==
  ASSUME IInv, OwnInv, NEW t \in Thread, NEW s \in Shard, NEW g \in Guard,
         ForShard(t, s, g)
  PROVE  OwnInv'
<1>1. Idle(t) /\ UNCHANGED <<from, saved, seen, resume, handles, future, life,
                             registered, agenda>>
  BY DEF ForShard
<1>2. /\ pc[t] = "idle" /\ agenda[t] = <<>> /\ agenda \in [Thread -> Seq(Task)]
      /\ AgendaInv /\ KeptAlive
  BY <1>1, IdleCall
<1>3. AgendaInv'
  BY <1>1, <1>2, AgendaFrame
<1>4. CASE /\ NodeOf[s] = Root /\ home' = [home EXCEPT ![g] = s] /\ Stay
  <2>1. \A h \in Guard : home'[h] # home[h] => home'[h] = s
    BY <1>4 DEF IInv, CoreInv, WordTypes
  <2>2. KeptAlive'
    BY <1>1, <1>2, <1>4, <2>1, AliveFrame
  <2>3. WalksInv'
    BY <1>1, <1>2, <1>4, ProceedWalks DEF Stay
  <2> QED
    BY <1>3, <2>2, <2>3 DEF OwnInv
<1>5. CASE Go(t, "guarded", NodeOf[s]) /\ UNCHANGED home
  <2>1. KeptAlive'
    BY <1>1, <1>2, <1>5, AliveFrame
  <2>2. pc'[t] = "guarded" /\ agenda'[t] = <<>>
    BY <1>1, <1>2, <1>5 DEF Go, IInv, CoreInv, WalkTypes
  <2>3. ChainOK(t)' /\ WalkKept(t)'
    BY <1>1, <1>2, <2>2, IdleChain
  <2>4. \A u \in Thread \ {t} : SameRow(u) /\ agenda'[u] = agenda[u]
    BY <1>1, <1>5 DEF SameRow, Go, IInv, CoreInv, WalkTypes
  <2>5. WalksInv'
    BY <2>3, <2>4, OthersChain DEF OwnInv, WalksInv
  <2> QED
    BY <1>3, <2>1, <2>5 DEF OwnInv
<1> QED
  BY <1>4, <1>5 DEF ForShard

(* A clone of a guard is homed on the same shard.                          *)
LEMMA CloneGuardOwn ==
  ASSUME IInv, OwnInv, NEW t \in Thread, NEW g \in Guard, NEW g2 \in Guard,
         CloneGuard(t, g, g2)
  PROVE  OwnInv'
<1>1. /\ Idle(t) /\ home[g] # NoShard /\ home' = [home EXCEPT ![g2] = home[g]]
      /\ UNCHANGED <<pc, cell, from, saved, seen, resume, handles, future, life,
                     registered, agenda>>
  BY DEF CloneGuard, walk
<1>2. /\ pc[t] = "idle" /\ agenda[t] = <<>> /\ agenda \in [Thread -> Seq(Task)]
      /\ AgendaInv /\ KeptAlive
  BY <1>1, IdleCall
<1>3. AgendaInv'
  BY <1>1, <1>2, AgendaFrame
<1>4. \A h \in Guard : home'[h] # home[h] => home'[h] = home[g]
  BY <1>1 DEF IInv, CoreInv, WordTypes
<1>5. NodeOf[home[g]] = Root \/ life[NodeOf[home[g]]] = "live"
  BY <1>1, <1>2 DEF KeptAlive
<1>6. KeptAlive'
  BY <1>1, <1>2, <1>4, <1>5, AliveFrame
<1>7. WalksInv'
  BY <1>1, <1>2, ProceedWalks
<1> QED
  BY <1>3, <1>6, <1>7 DEF OwnInv

(* The drop of a guard: a child's releases its pin, a root's may flush.    *)
LEMMA DropGuardOwn ==
  ASSUME IInv, OwnInv, NEW t \in Thread, NEW g \in Guard, DropGuard(t, g)
  PROVE  OwnInv'
<1> DEFINE s == home[g]
           n == NodeOf[s]
           x == TaskOn("release", n)
           y == [TaskOn("upgrade", Root) EXCEPT !.shards = {s}]
<1>1. /\ Idle(t) /\ s # NoShard /\ home' = [home EXCEPT ![g] = NoShard]
      /\ UNCHANGED <<from, saved, seen, resume, handles, future, life, registered>>
  BY DEF DropGuard
<1>2. /\ pc[t] = "idle" /\ agenda[t] = <<>> /\ agenda \in [Thread -> Seq(Task)]
      /\ AgendaInv /\ KeptAlive
  BY <1>1, IdleCall
<1>3. s \in Shard /\ n \in Node /\ s \in Shards(n)
  BY <1>1, ShardAssumption DEF IInv, CoreInv, WordTypes, Shards
<1>4. \/ n # Root /\ (Go(t, "flush", s) \/ Stay) /\ Begin(t, <<x>>)
      \/ n = Root /\ Stay /\ (Begin(t, <<y>>) \/ Begin(t, <<>>))
  BY DEF DropGuard
<1>5. \A z \in Task : JobOK(z) => JobOK(z)'
  BY <1>1 DEF JobOK, Shards
<1>6. KeptAlive'
  <2>1. \A h \in Guard : home'[h] # home[h] => home'[h] = NoShard
    BY <1>1 DEF IInv, CoreInv, WordTypes
  <2> QED
    BY <1>1, <1>2, <2>1, AliveFrame
<1> HIDE DEF n
<1>7. CASE n # Root /\ (Go(t, "flush", s) \/ Stay) /\ Begin(t, <<x>>)
  <2>1. x \in Task /\ x.do = "release" /\ x.node = n /\ x.shards = Shards(n) /\ x.kids = {}
    BY <1>3, FreshJob DEF TaskName
  <2> HIDE DEF x
  <2>2. life[n] = "live"
    BY <1>1, <1>2, <1>7 DEF KeptAlive, n
  <2>3. \A z \in Task : z = x => JobOK(z)'
    BY <1>1, <2>1, <2>2 DEF JobOK, Shards
  <2>4. AgendaInv' /\ agenda'[t] = <<x>>
    BY <1>2, <1>5, <1>7, <2>1, <2>3, BeginOne DEF Using
  <2>5. \A u \in Thread \ {t} : SameRow(u) /\ agenda'[u] = agenda[u]
    BY <1>1, <1>7 DEF SameRow, Go, Stay, Begin, IInv, CoreInv, WalkTypes, OwnerTypes
  <2>6. pc'[t] = "idle" \/ (pc'[t] = "flush" /\ cell'[t] = s)
    BY <1>2, <1>7 DEF Go, Stay, IInv, CoreInv, WalkTypes
  <2>7. /\ 1 \in 1 .. Len(agenda'[t]) /\ agenda'[t][1].do \in Keeping
        /\ s \in Shards(agenda'[t][1].node) /\ agenda'[t][1].node \in Node
    BY <1>3, <2>1, <2>4 DEF Keeping
  <2>8. ChainOK(t)' /\ WalkKept(t)'
    BY <1>1, <1>2, <2>6, <2>7, IdleChain
  <2>9. WalksInv'
    BY <2>5, <2>8, OthersChain DEF OwnInv, WalksInv
  <2> QED
    BY <1>6, <2>4, <2>9 DEF OwnInv
<1>8. CASE n = Root /\ Stay /\ (Begin(t, <<y>>) \/ Begin(t, <<>>))
  <2>1. WalksInv'
    BY <1>1, <1>2, <1>8, CallWalks DEF Stay
  <2>2. CASE Begin(t, <<y>>)
    <3>1. y \in Task /\ y.do = "upgrade" /\ y.node = Root /\ y.shards = {s} /\ y.kids = {}
      BY <1>3, TreeAssumption DEF TaskOn, Task, TaskName, Shards
    <3> HIDE DEF y
    <3>2. \A z \in Task : z = y => JobOK(z)'
      BY <1>3, <1>8, <3>1 DEF JobOK, Shards
    <3>3. AgendaInv'
      BY <1>2, <1>5, <2>2, <3>1, <3>2, BeginOne DEF Using
    <3> QED
      BY <1>6, <2>1, <3>3 DEF OwnInv
  <2>3. CASE Begin(t, <<>>)
    <3>1. agenda' = agenda
      BY <1>2, <2>3 DEF Begin
    <3>2. AgendaInv'
      BY <1>1, <1>2, <3>1, AgendaFrame
    <3> QED
      BY <1>6, <2>1, <3>2 DEF OwnInv
  <2> QED
    BY <1>8, <2>2, <2>3
<1> QED
  BY <1>4, <1>7, <1>8

(* Another handle.                                                         *)
LEMMA CloneSwansongOwn ==
  ASSUME IInv, OwnInv, NEW t \in Thread, NEW n \in Node, CloneSwansong(t, n)
  PROVE  OwnInv'
<1>1. /\ Idle(t) /\ handles[n] > 0 /\ handles' = [handles EXCEPT ![n] = @ + 1]
      /\ UNCHANGED <<pc, cell, from, saved, seen, resume, home, future, life,
                     registered, agenda>>
  BY ThreadAssumption DEF CloneSwansong, walk
<1>2. /\ pc[t] = "idle" /\ agenda[t] = <<>> /\ agenda \in [Thread -> Seq(Task)]
      /\ AgendaInv /\ KeptAlive /\ handles \in [Node -> Nat]
  BY <1>1, IdleCall
<1>3. \A k \in Node : handles'[k] > 0 <=> handles[k] > 0
  BY <1>1, <1>2
<1>4. AgendaInv'
  BY <1>1, <1>2, <1>3, AgendaFrame
<1>5. KeptAlive'
  BY <1>1, <1>2, <1>3 DEF KeptAlive
<1>6. WalksInv'
  BY <1>1, <1>2, ProceedWalks
<1> QED
  BY <1>4, <1>5, <1>6 DEF OwnInv

(* A handle that is given up is not the last one that an operation borrows.*)
LEMMA HandleGiven ==
  ASSUME IInv, OwnInv, NEW t \in Thread, NEW n \in Node, Idle(t),
         handles[n] > 0, handles[n] = 1 => ~Borrowed(n),
         handles' = [handles EXCEPT ![n] = @ - 1], life' = life
  PROVE  /\ \A y \in Task : Pending(t, y) /\ JobOK(y) => JobOK(y)'
         /\ life[n] = "live" /\ \A k \in Node : handles'[k] > 0 => handles[k] > 0
<1>1. handles \in [Node -> Nat] /\ KeptAlive /\ agenda \in [Thread -> Seq(Task)]
  BY IdleCall
<1>2. \A k \in Node : handles'[k] > 0 => handles[k] > 0
  BY <1>1
<1>3. life[n] = "live"
  BY <1>1 DEF KeptAlive
<1>4. ASSUME NEW y \in Task, Pending(t, y), JobOK(y)
      PROVE  JobOK(y)'
  <2>1. PICK u \in Thread : \E i \in 1 .. Len(agenda[u]) : agenda[u][i] = y
    BY <1>4 DEF Pending
  <2>2. PICK i \in 1 .. Len(agenda[u]) : agenda[u][i] = y
    BY <2>1
  <2>3. i \in DOMAIN agenda[u]
    BY <1>1, <2>2
  <2>4. y.node \in Node /\ (y.do = "adopt" => Parent[y.node] \in Node)
    BY TreeAssumption DEF Task, Child
  <2>5. y.do \in {"return", "watch"} => handles'[y.node] > 0
    <3>1. CASE y.node = n /\ y.do \in {"return", "watch"}
      <4>1. Borrowed(n)
        BY <2>2, <2>3, <3>1 DEF Borrowed
      <4> QED
        BY <1>1, <3>1, <4>1
    <3>2. CASE y.node # n
      BY <1>1, <1>4, <2>4, <3>2 DEF JobOK
    <3> QED
      BY <3>1, <3>2
  <2>6. y.do = "adopt" => handles'[Parent[y.node]] > 0
    <3>1. CASE y.do = "adopt" /\ Parent[y.node] = n
      <4>1. Borrowed(n)
        BY <2>2, <2>3, <3>1 DEF Borrowed
      <4> QED
        BY <1>1, <3>1, <4>1
    <3>2. CASE Parent[y.node] # n
      BY <1>1, <1>4, <2>4, <3>2 DEF JobOK
    <3> QED
      BY <3>1, <3>2
  <2> QED
    BY <1>4, <2>5, <2>6 DEF JobOK, Shards
<1> QED
  BY <1>2, <1>3, <1>4

(* Drop for Swansong, alone or after making a completion.                  *)
LEMMA DropHandleOwn ==
  ASSUME IInv, OwnInv, NEW t \in Thread, NEW n \in Node,
         DropSwansong(t, n) \/ AwaitSwansong(t, n)
  PROVE  OwnInv'
<1> DEFINE x == TaskOn("stop", n)
           y == TaskOn("release", n)
<1>1. /\ Idle(t) /\ handles[n] > 0 /\ (handles[n] = 1 => ~Borrowed(n))
      /\ handles' = [handles EXCEPT ![n] = @ - 1] /\ Begin(t, DropTasks(n))
  BY DEF DropSwansong, AwaitSwansong, DropHandle
<1>2. /\ future' = future \/ future' = [future EXCEPT ![n] = "new"]
      /\ UNCHANGED <<pc, cell, from, saved, seen, resume, home, life, registered>>
  BY DEF DropSwansong, AwaitSwansong, walk
<1>3. /\ pc[t] = "idle" /\ agenda[t] = <<>> /\ agenda \in [Thread -> Seq(Task)]
      /\ AgendaInv /\ KeptAlive
  BY <1>1, IdleCall
<1>4. /\ \A w \in Task : Pending(t, w) /\ JobOK(w) => JobOK(w)'
      /\ life[n] = "live" /\ \A k \in Node : handles'[k] > 0 => handles[k] > 0
  BY <1>1, <1>2, HandleGiven
<1>5. /\ DropTasks(n) = <<y>> \/ DropTasks(n) = <<x, y>>
      /\ x \in Task /\ x.do = "stop" /\ x.node = n /\ x.shards = Shards(n)
      /\ x.kids = {}
      /\ y \in Task /\ y.do = "release" /\ y.node = n /\ y.shards = Shards(n)
      /\ y.kids = {}
  BY DropJobs
<1> HIDE DEF x, y
<1>6. \A w \in Task : w = x \/ w = y => JobOK(w)'
  <2>1. \A w \in Task : w = x => JobOK(w)'
    BY <1>5 DEF JobOK, Shards
  <2>2. \A w \in Task : w = y => JobOK(w)'
    BY <1>2, <1>4, <1>5 DEF JobOK, Shards
  <2> QED
    BY <2>1, <2>2
<1>7. y.do \notin Using /\ x.do # "deregister" /\ y.do # "deregister" /\ Keeps(y, x.node)
  BY <1>5 DEF Using, Keeps, Keeping
<1>8. AgendaInv'
  <2>1. CASE DropTasks(n) = <<y>>
    BY <1>1, <1>3, <1>4, <1>5, <1>6, <1>7, <2>1, BeginOne
  <2>2. CASE DropTasks(n) = <<x, y>>
    BY <1>1, <1>3, <1>4, <1>5, <1>6, <1>7, <2>2, BeginTwo
  <2> QED
    BY <1>5, <2>1, <2>2
<1>9. KeptAlive'
  <2>1. ASSUME NEW k \in Node, handles'[k] > 0 \/ future'[k] # "none"
        PROVE  life'[k] = "live"
    <3>1. k = n \/ handles[k] > 0 \/ future[k] # "none"
      BY <1>2, <1>4, <2>1 DEF IInv, OwnerTypes
    <3> QED
      BY <1>2, <1>3, <1>4, <3>1 DEF KeptAlive
  <2> QED
    BY <1>2, <1>3, <2>1 DEF KeptAlive
<1>10. WalksInv'
  BY <1>1, <1>2, <1>3, CallWalks
<1> QED
  BY <1>8, <1>9, <1>10 DEF OwnInv

(* block_on_shutdown_completion consumes a handle.                         *)
LEMMA BlockOwn ==
  ASSUME IInv, OwnInv, NEW t \in Thread, NEW n \in Node, BlockOnShutdown(t, n)
  PROVE  OwnInv'
<1> DEFINE y == TaskOn("block", n)
<1>1. /\ Idle(t) /\ handles[n] > 0 /\ (handles[n] = 1 => ~Borrowed(n))
      /\ handles' = [handles EXCEPT ![n] = @ - 1] /\ Begin(t, <<y>>)
      /\ future' = [future EXCEPT ![n] = "new"]
      /\ UNCHANGED <<pc, cell, from, saved, seen, resume, home, life, registered>>
  BY DEF BlockOnShutdown, walk
<1>2. /\ pc[t] = "idle" /\ agenda[t] = <<>> /\ agenda \in [Thread -> Seq(Task)]
      /\ AgendaInv /\ KeptAlive
  BY <1>1, IdleCall
<1>3. /\ \A w \in Task : Pending(t, w) /\ JobOK(w) => JobOK(w)'
      /\ life[n] = "live" /\ \A k \in Node : handles'[k] > 0 => handles[k] > 0
  BY <1>1, HandleGiven
<1>4. y \in Task /\ y.do = "block" /\ y.node = n /\ y.shards = Shards(n) /\ y.kids = {}
  BY FreshJob DEF TaskName
<1> HIDE DEF y
<1>5. \A w \in Task : w = y => JobOK(w)'
  BY <1>4 DEF JobOK, Shards
<1>6. AgendaInv'
  BY <1>1, <1>2, <1>3, <1>4, <1>5, BeginOne DEF Using
<1>7. KeptAlive'
  <2>1. ASSUME NEW k \in Node, handles'[k] > 0 \/ future'[k] # "none"
        PROVE  life'[k] = "live"
    <3>1. k = n \/ handles[k] > 0 \/ future[k] # "none"
      BY <1>1, <1>3, <2>1 DEF IInv, OwnerTypes
    <3> QED
      BY <1>1, <1>2, <1>3, <3>1 DEF KeptAlive
  <2> QED
    BY <1>1, <1>2, <2>1 DEF KeptAlive
<1>8. WalksInv'
  BY <1>1, <1>2, CallWalks
<1> QED
  BY <1>6, <1>7, <1>8 DEF OwnInv

(* Swansong::shut_down borrows a handle to the end.                        *)
LEMMA ShutDownOwn ==
  ASSUME IInv, OwnInv, NEW t \in Thread, NEW n \in Node, ShutDown(t, n)
  PROVE  OwnInv'
<1> DEFINE x == TaskOn("stop", n)
           y == TaskOn("watch", n)
<1>1. /\ Idle(t) /\ handles[n] > 0 /\ Begin(t, <<x, y>>)
      /\ UNCHANGED <<pc, cell, from, saved, seen, resume, home, handles, future, life,
                     registered>>
  BY DEF ShutDown, walk, owners
<1>2. /\ pc[t] = "idle" /\ agenda[t] = <<>> /\ agenda \in [Thread -> Seq(Task)]
      /\ AgendaInv /\ KeptAlive
  BY <1>1, IdleCall
<1>3. x \in Task /\ x.do = "stop" /\ x.node = n /\ x.shards = Shards(n) /\ x.kids = {}
  BY FreshJob DEF TaskName
<1>4. y \in Task /\ y.do = "watch" /\ y.node = n /\ y.shards = Shards(n) /\ y.kids = {}
  BY FreshJob DEF TaskName
<1> HIDE DEF x, y
<1>5. \A w \in Task : w = x => JobOK(w)'
  BY <1>3 DEF JobOK, Shards
<1>6. \A w \in Task : w = y => JobOK(w)'
  BY <1>1, <1>4 DEF JobOK, Shards
<1>7. \A w \in Task : JobOK(w) => JobOK(w)'
  BY <1>1 DEF JobOK, Shards
<1>8. x.do # "deregister" /\ y.do # "deregister" /\ y.do \notin Using /\ Keeps(y, x.node)
  BY <1>3, <1>4 DEF Using, Keeps, Keeping
<1>9. AgendaInv'
  BY <1>1, <1>2, <1>3, <1>4, <1>5, <1>6, <1>7, <1>8, BeginTwo
<1>10. KeptAlive'
  BY <1>1, <1>2, AliveFrame
<1>11. WalksInv'
  BY <1>1, <1>2, CallWalks
<1> QED
  BY <1>9, <1>10, <1>11 DEF OwnInv

(* A completion is dropped.                                                *)
LEMMA DropFutureOwn ==
  ASSUME IInv, OwnInv, NEW t \in Thread, NEW n \in Node, DropFuture(t, n)
  PROVE  OwnInv'
<1> DEFINE y == TaskOn("release", n)
<1>1. /\ Idle(t) /\ future[n] # "none" /\ Begin(t, <<y>>)
      /\ future' = [future EXCEPT ![n] = "none"]
      /\ UNCHANGED <<pc, cell, from, saved, seen, resume, home, handles, life, registered>>
  BY DEF DropFuture, walk
<1>2. /\ pc[t] = "idle" /\ agenda[t] = <<>> /\ agenda \in [Thread -> Seq(Task)]
      /\ AgendaInv /\ KeptAlive
  BY <1>1, IdleCall
<1>3. life[n] = "live"
  BY <1>1, <1>2 DEF KeptAlive
<1>4. y \in Task /\ y.do = "release" /\ y.node = n /\ y.shards = Shards(n) /\ y.kids = {}
  BY FreshJob DEF TaskName
<1> HIDE DEF y
<1>5. \A w \in Task : w = y => JobOK(w)'
  BY <1>1, <1>3, <1>4 DEF JobOK, Shards
<1>6. \A w \in Task : JobOK(w) => JobOK(w)'
  BY <1>1 DEF JobOK, Shards
<1>7. AgendaInv'
  BY <1>1, <1>2, <1>4, <1>5, <1>6, BeginOne DEF Using
<1>8. KeptAlive'
  <2>1. \A k \in Node : future'[k] # "none" => future[k] # "none"
    BY <1>1 DEF IInv, OwnerTypes
  <2> QED
    BY <1>1, <1>2, <2>1, AliveFrame
<1>9. WalksInv'
  BY <1>1, <1>2, CallWalks
<1> QED
  BY <1>7, <1>8, <1>9 DEF OwnInv

(* Swansong::child: the new node is kept by the task that adopts it, its   *)
(* parent by a handle.                                                     *)
LEMMA NewChildOwn ==
  ASSUME IInv, OwnInv, NEW t \in Thread, NEW m \in Child, NewChild(t, m)
  PROVE  OwnInv'
<1> DEFINE x == TaskOn("register", m)
           y == TaskOn("check", m)
           z == TaskOn("adopt", m)
           q == <<x, y, z>>
<1>1. /\ Idle(t) /\ life[m] = "unborn" /\ handles[Parent[m]] > 0
      /\ life' = [life EXCEPT ![m] = "live"] /\ Begin(t, q)
      /\ UNCHANGED <<pc, cell, from, saved, seen, resume, home, handles, future,
                     registered>>
  BY DEF NewChild, walk
<1>2. /\ pc[t] = "idle" /\ agenda[t] = <<>> /\ agenda \in [Thread -> Seq(Task)]
      /\ AgendaInv /\ KeptAlive /\ life \in [Node -> {"unborn", "live", "dropping", "gone"}]
  BY <1>1, IdleCall
<1>3. m \in Node /\ m # Root /\ Parent[m] \in Node /\ life[Parent[m]] = "live"
  BY <1>1, <1>2, TreeAssumption DEF Child, KeptAlive
<1>4. x \in Task /\ x.do = "register" /\ x.node = m /\ x.shards = Shards(m) /\ x.kids = {}
  BY <1>3, FreshJob DEF TaskName
<1>5. y \in Task /\ y.do = "check" /\ y.node = m /\ y.shards = Shards(m) /\ y.kids = {}
  BY <1>3, FreshJob DEF TaskName
<1>6. z \in Task /\ z.do = "adopt" /\ z.node = m /\ z.shards = Shards(m) /\ z.kids = {}
  BY <1>3, FreshJob DEF TaskName
<1> HIDE DEF x, y, z
<1>7. q \in Seq(Task) /\ Len(q) = 3 /\ q[1] = x /\ q[2] = y /\ q[3] = z
  BY <1>4, <1>5, <1>6
<1> HIDE DEF q
<1>8. \A i \in 1 .. Len(q) : i = 1 \/ i = 2 \/ i = 3
  BY <1>7
<1>9. \A k \in Node : (life[k] = "live" => life'[k] = "live")
        /\ (life[k] = "dropping" => life'[k] = "dropping")
  BY <1>1, <1>2
<1>10. life'[m] = "live"
  BY <1>1, <1>2, <1>3
<1>11. ASSUME NEW w \in Task, JobOK(w)
       PROVE  JobOK(w)'
  <2>1. w.node \in Node /\ w.kids \subseteq Node
    BY DEF Task, Child
  <2> QED
    BY <1>1, <1>9, <1>11, <2>1 DEF JobOK, Shards
<1>12. ASSUME NEW w \in Task, \E i \in 1 .. Len(q) : q[i] = w
       PROVE  JobOK(w)'
  <2>1. w = x \/ w = y \/ w = z
    BY <1>7, <1>8, <1>12
  <2>2. CASE w = x
    BY <1>4, <2>2 DEF JobOK, Shards
  <2>3. CASE w = y
    BY <1>5, <2>3 DEF JobOK, Shards
  <2>4. CASE w = z
    BY <1>1, <1>6, <1>10, <2>4 DEF JobOK, Shards
  <2> QED
    BY <2>1, <2>2, <2>3, <2>4
<1>13. ASSUME NEW i \in 1 .. Len(q), q[i].do \in Using
       PROVE  \E j \in 1 .. Len(q) : j > i /\ Keeps(q[j], q[i].node)
  <2>1. 3 \in 1 .. Len(q) /\ q[i].node = m /\ Keeps(q[3], m)
    BY <1>4, <1>5, <1>6, <1>7, <1>8 DEF Keeps, Keeping
  <2>2. i # 3
    BY <1>6, <1>7, <1>13 DEF Using
  <2>3. 3 > i
    BY <1>8, <2>2
  <2> QED
    BY <2>1, <2>3
<1>14. \A i \in 1 .. Len(q) : q[i].do # "deregister"
  BY <1>4, <1>5, <1>6, <1>7, <1>8
<1>15. AgendaInv'
  BY <1>1, <1>2, <1>7, <1>11, <1>12, <1>13, <1>14, BeginAgenda
<1>16. KeptAlive'
  <2>1. \A k \in Node : handles'[k] > 0 \/ future'[k] # "none" => life'[k] = "live"
    BY <1>1, <1>2, <1>9 DEF KeptAlive
  <2>2. ASSUME NEW g \in Guard, home'[g] # NoShard, NodeOf[home'[g]] # Root
        PROVE  life'[NodeOf[home'[g]]] = "live"
    <3>1. home[g] \in Shard /\ NodeOf[home[g]] \in Node
      BY <1>1, <2>2, ShardAssumption DEF IInv, CoreInv, WordTypes
    <3> QED
      BY <1>1, <1>2, <1>9, <2>2, <3>1 DEF KeptAlive
  <2>3. ASSUME NEW k \in Child, life'[k] \in {"live", "dropping"}
        PROVE  life'[Parent[k]] = "live"
    <3>1. k \in Node /\ Parent[k] \in Node
      BY TreeAssumption DEF Child
    <3>2. life[Parent[k]] = "live"
      BY <1>1, <1>2, <1>3, <2>3, <3>1 DEF KeptAlive
    <3> QED
      BY <1>9, <3>1, <3>2
  <2>4. \A k \in Child : registered'[k] # NoShard => NodeOf[registered'[k]] = Parent[k]
    BY <1>1, <1>2 DEF KeptAlive
  <2> QED
    BY <2>1, <2>2, <2>3, <2>4 DEF KeptAlive
<1>17. WalksInv'
  BY <1>1, <1>2, CallWalks
<1> QED
  BY <1>15, <1>16, <1>17 DEF OwnInv

(* Every call keeps the invariant.                                         *)
LEMMA CallOwn ==
  ASSUME IInv, OwnInv, NEW t \in Thread, Call(t)
  PROVE  OwnInv'
BY NewGuardOwn, ForShardOwn, CloneGuardOwn, DropGuardOwn, CloneSwansongOwn,
   DropHandleOwn, BlockOwn, ShutDownOwn, NewChildOwn, DropFutureOwn DEF Call

(* A step that leaves agendas, walks and owners, a completion's state aside.*)
LEMMA OwnFrame ==
  ASSUME IInv, OwnInv,
         UNCHANGED <<pc, cell, from, saved, seen, resume, home, handles, life,
                     registered, agenda>>,
         \A n \in Node : future'[n] # "none" => future[n] # "none"
  PROVE  OwnInv'
<1>1. AgendaInv /\ KeptAlive /\ agenda \in [Thread -> Seq(Task)]
  BY DEF OwnInv, IInv, OwnerTypes
<1>2. AgendaInv'
  BY <1>1, AgendaFrame
<1>3. KeptAlive'
  BY <1>1, AliveFrame
<1>4. \A u \in Thread : SameRow(u) /\ agenda'[u] = agenda[u]
  BY DEF SameRow
<1>5. WalksInv'
  BY <1>4, OthersChain DEF OwnInv, WalksInv
<1> QED
  BY <1>2, <1>3, <1>5 DEF OwnInv

(* Every step keeps the invariant.                                         *)
LEMMA OwnNext ==
  ASSUME IInv, OwnInv, [Next]_vars
  PROVE  OwnInv'
<1>1. CASE \E t \in Thread : Walk(t) \/ Proceed(t) \/ Call(t)
  BY <1>1, WalkOwn, ProceedOwn, CallOwn
<1>2. ASSUME NEW n \in Node, Poll(n)
      PROVE  OwnInv'
  <2>1. UNCHANGED <<pc, cell, from, saved, seen, resume, home, handles, life,
                    registered, agenda>>
    BY <1>2 DEF Poll, walk
  <2>2. \A k \in Node : future'[k] # "none" => future[k] # "none"
    BY <1>2 DEF Poll, Unresolved, IInv, OwnerTypes
  <2> QED
    BY <2>1, <2>2, OwnFrame
<1>3. CASE UNCHANGED vars
  BY <1>3, OwnFrame DEF vars, walk, owners
<1> QED
  BY <1>1, <1>2, <1>3 DEF Next

(* At first there is the root with one handle, and nobody does anything.   *)
LEMMA InitOwn ==
  ASSUME Init
  PROVE  OwnInv
<1>1. \A t \in Thread : Len(agenda[t]) = 0 /\ agenda[t] = <<>>
  BY DEF Init
<1>2. AgendaInv
  BY <1>1 DEF AgendaInv, JobsOK, UsesKept, CollectedOnce
<1>3. KeptAlive
  BY TreeAssumption DEF Init, KeptAlive, Child
<1>4. WalksInv
  BY DEF Init, WalksInv, ChainOK, WalkKept, Active, Arriving, Idling
<1> QED
  BY <1>2, <1>3, <1>4 DEF OwnInv

-----------------------------------------------------------------------------
(* The theorems.                                                           *)

(* The ownership invariant, with the counts and the types it rests on,     *)
(* holds of every reachable state.                                         *)
THEOREM Ownership == Spec => [](IInv /\ OwnInv)
<1>1. Init => IInv /\ OwnInv
  BY InitIInv, InitOwn
<1>2. IInv /\ OwnInv /\ [Next]_vars => IInv' /\ OwnInv'
  BY CoreNext, OwnersNext, OwnNext DEF IInv
<1> QED
  BY <1>1, <1>2, PTL DEF Spec

(* The ancestors of a node that exists are alive, but for the node itself, *)
(* which may be in the middle of its drop.                                 *)
LEMMA LiveAncestors ==
  ASSUME KeptAlive, NEW n \in Node, life[n] \in {"live", "dropping"},
         NEW a \in Ancestors(n)
  PROVE  life[a] = "live" \/ (a = n /\ life[a] = "dropping")
<1> DEFINE S == {k \in Node : life[k] = "live" \/ (k = n /\ life[k] = "dropping")}
<1>1. n \in S
  OBVIOUS
<1>2. ASSUME NEW m \in Child, m \in S
      PROVE  Parent[m] \in S
  BY <1>2, TreeAssumption DEF KeptAlive
<1> HIDE DEF S
<1>3. Ancestors(n) \subseteq S
  BY <1>1, <1>2, AncestorsLeast
<1> QED
  BY <1>3 DEF S

(* What has an owner has live ancestors.                                   *)
LEMMA ChainAliveNow ==
  ASSUME KeptAlive
  PROVE  ChainAlive
<1> SUFFICES ASSUME NEW n \in Node,
                    \/ handles[n] > 0
                    \/ future[n] # "none"
                    \/ n # Root /\ \E g \in Guard : home[g] # NoShard /\ NodeOf[home[g]] = n,
                    NEW a \in Ancestors(n)
             PROVE  life[a] = "live"
  BY DEF ChainAlive
<1>1. life[n] = "live"
  BY DEF KeptAlive
<1> QED
  BY <1>1, LiveAncestors

(* A handle, a completion or a child's guard keeps its node and every node *)
(* above it from being collected, however the drops of the Arcs, of the    *)
(* handles and of the children interleave (Drop for Inner runs only when   *)
(* the last Arc goes).                                                     *)
THEOREM OwnersKeepChain == Spec => []ChainAlive
<1>1. KeptAlive => ChainAlive
  BY ChainAliveNow
<1> QED
  BY <1>1, Ownership, PTL DEF OwnInv

(* No thread works on a node that has been collected: the cell a walk is   *)
(* on, the home of a suspended arrival and the node of each task belong to *)
(* an Inner that still exists.  In the code these accesses go through      *)
(* references that the borrow checker accepts; in the model the node words *)
(* stay readable after the collection, so that it has to be shown.         *)
NoUseAfterCollection ==
  \A t \in Thread :
    /\ pc[t] \notin {"idle", "guarded"} =>
         life[Under(cell[t])] \in {"live", "dropping"}
    /\ \A i \in 1 .. Len(agenda[t]) : agenda[t][i].do \in Using \cup Keeping =>
         life[agenda[t][i].node] \in {"live", "dropping"}

(* In every state that satisfies the invariants.                           *)
LEMMA UnusedNow ==
  ASSUME IInv, OwnInv
  PROVE  NoUseAfterCollection
<1>1. ASSUME NEW t \in Thread, NEW i \in 1 .. Len(agenda[t]),
             agenda[t][i].do \in Keeping
      PROVE  life[agenda[t][i].node] \in {"live", "dropping"}
  <2>1. JobOK(agenda[t][i]) /\ KeptAlive /\ agenda[t][i].node \in Node
    BY JobType DEF OwnInv, AgendaInv, JobsOK
  <2> QED
    BY <1>1, <2>1 DEF JobOK, KeptAlive, Keeping
<1>2. ASSUME NEW t \in Thread, NEW i \in 1 .. Len(agenda[t]),
             agenda[t][i].do \in Using
      PROVE  life[agenda[t][i].node] \in {"live", "dropping"}
  <2>1. PICK j \in 1 .. Len(agenda[t]) :
          agenda[t][j].do \in Keeping /\ agenda[t][j].node = agenda[t][i].node
    BY <1>2 DEF OwnInv, AgendaInv, UsesKept, Keeps
  <2> QED
    BY <1>1, <2>1
<1>3. ASSUME NEW t \in Thread, pc[t] \notin {"idle", "guarded"}
      PROVE  life[Under(cell[t])] \in {"live", "dropping"}
  <2>1. PICK i \in 1 .. Len(agenda[t]) :
          /\ agenda[t][i].do \in Keeping
          /\ Under(cell[t]) \in Ancestors(agenda[t][i].node)
    BY <1>3 DEF OwnInv, WalksInv, WalkKept
  <2>2. agenda[t][i].node \in Node /\ life[agenda[t][i].node] \in {"live", "dropping"}
    BY <1>1, <2>1, JobType
  <2> QED
    BY <2>1, <2>2, LiveAncestors DEF OwnInv
<1> QED
  BY <1>1, <1>2, <1>3 DEF NoUseAfterCollection

(* Every walk and every task of every thread stays on nodes that exist.    *)
THEOREM CollectedUnused == Spec => []NoUseAfterCollection
<1>1. IInv /\ OwnInv => NoUseAfterCollection
  BY UnusedNow
<1> QED
  BY <1>1, Ownership, PTL

-----------------------------------------------------------------------------
(* What a step may do to a node word.                                      *)

(* Inner::arrive counts a shard.                                           *)
NodeUp(n) ==
  /\ nodeState'[n].count = nodeState[n].count + 1
  /\ nodeState'[n].flags \in {nodeState[n].flags, nodeState[n].flags \cup {ARRIVED}}
  /\ \E t \in Thread : pc[t] \in {"arriveNode", "casNode"} /\ cell[t] = n

(* Inner::depart counts a shard out; the last one is not done yet.         *)
NodeDown(n) ==
  \E t \in Thread :
    /\ pc[t] = "departNode" /\ cell[t] = n
    /\ nodeState'[n] = [nodeState[n] EXCEPT !.count = @ - 1]
    /\ nodeState'[n].count = 0 /\ (n # Root \/ Stopped(n)) =>
         /\ cell'[t] = n /\ seen'[t] = nodeState'[n]
         /\ pc'[t] = IF Stopped(n) THEN "notify" ELSE "unarrive"

(* It gives up the arrival at the parent.                                  *)
NodeOut(n) ==
  \E t \in Thread :
    /\ pc[t] = "unarrive" /\ cell[t] = n /\ nodeState[n] = seen[t]
    /\ nodeState[n].count = 0 /\ n \in Child
    /\ nodeState'[n] = EmptyNode(nodeState[n].flags \cap {STOPPED})

(* Inner::stop.                                                            *)
NodeStop(n) ==
  \E t \in Thread :
    /\ Stop(t) /\ Head(agenda[t]).node = n
    /\ nodeState'[n] = [nodeState[n] EXCEPT !.flags = @ \cup {STOPPED}]

(* Nothing else changes a node word.                                       *)
LEMMA NodeMoves ==
  ASSUME IInv, [Next]_vars, NEW n \in Node, nodeState'[n] # nodeState[n]
  PROVE  NodeUp(n) \/ NodeDown(n) \/ NodeOut(n) \/ NodeStop(n)
<1>0. /\ nodeState \in [Node -> NodeWord] /\ nodeState[n] \in NodeWord
      /\ nodeState[n].count \in Nat
  BY DEF IInv, CoreInv, WordTypes, NodeWord
<1>1. PICK t \in Thread : Walk(t) \/ Stop(t)
  <2>1. ASSUME NEW t \in Thread, Call(t) PROVE FALSE
    BY <2>1, ZenonT(60) DEF Call, NewGuard, ForShard, CloneGuard, DropGuard, CloneSwansong,
                DropSwansong, AwaitSwansong, ShutDown, NewChild, DropFuture,
                BlockOnShutdown, words
  <2>2. ASSUME NEW t \in Thread, Proceed(t), ~Stop(t) PROVE FALSE
    BY <2>2 DEF Proceed, Latch, Snapshot, StopKids, StopNotify, Release, Deregister,
                Register, Check, Adopt, Watch, GuardReturned, Upgrade, Unblock, words
  <2>3. ASSUME NEW k \in Node, Poll(k) PROVE FALSE
    BY <2>3, SMTT(60) DEF Poll, words
  <2> QED
    BY <2>1, <2>2, <2>3 DEF Next, vars, words
<1>2. CASE Stop(t)
  <2>1. Head(agenda[t]).node = n
    BY <1>0, <1>2 DEF Stop
  <2> QED
    BY <1>0, <1>2, <2>1 DEF Stop, NodeStop
<1>3. CASE Walk(t)
  <2>1. \/ ArriveNode(t) \/ CasNode(t) \/ DepartNode(t) \/ Unarrive(t)
    BY <1>3 DEF Walk, Guarded, ArriveShard, CasShard, DepartShard, Flush, DepartNotify,
                words
  <2>2. CASE ArriveNode(t)
    <3>1. pc[t] = "arriveNode" /\ nodeState' = [nodeState EXCEPT ![cell[t]].count = @ + 1]
      BY <2>2 DEF ArriveNode, At
    <3>2. cell[t] = n
      BY <1>0, <3>1
    <3> QED
      BY <1>0, <3>1, <3>2 DEF NodeUp, NodeWord
  <2>3. CASE CasNode(t)
    <3> DEFINE w == [flags |-> saved[t][cell[t]] \cup {ARRIVED}, count |-> 1,
                     at |-> MyShard[t][Parent[cell[t]]]]
    <3>1. /\ pc[t] = "casNode" /\ nodeState[cell[t]] = EmptyNode(saved[t][cell[t]])
          /\ nodeState' = [nodeState EXCEPT ![cell[t]] = w]
      BY <2>3 DEF CasNode, At
    <3>2. cell[t] = n
      BY <1>0, <3>1
    <3>3. nodeState[n].count = 0 /\ nodeState[n].flags = saved[t][n]
      BY <3>1, <3>2 DEF EmptyNode
    <3>4. nodeState'[n].count = 1 /\ nodeState'[n].flags = saved[t][n] \cup {ARRIVED}
      BY <1>0, <3>1, <3>2
    <3> QED
      BY <3>1, <3>2, <3>3, <3>4 DEF NodeUp
  <2>4. CASE DepartNode(t)
    <3>1. cell[t] = n
      BY <1>0, <2>4 DEF DepartNode
    <3> DEFINE w == [nodeState[n] EXCEPT !.count = @ - 1]
    <3>2. /\ pc[t] = "departNode" /\ nodeState' = [nodeState EXCEPT ![n] = w]
          /\ AfterDeparture(n, w) = "return" \/
               (Go(t, AfterDeparture(n, w), n) /\ seen' = [seen EXCEPT ![t] = w])
      BY <2>4, <3>1 DEF DepartNode, At
    <3>3. w.flags = nodeState[n].flags /\ nodeState'[n] = w
      BY <1>0, <3>2 DEF NodeWord
    <3>4. ASSUME w.count = 0, n # Root \/ Stopped(n)
          PROVE  /\ cell'[t] = n /\ seen'[t] = w
                 /\ pc'[t] = IF Stopped(n) THEN "notify" ELSE "unarrive"
      <4>1. AfterDeparture(n, w) = IF Stopped(n) THEN "notify" ELSE "unarrive"
        BY <3>3, <3>4 DEF AfterDeparture, Stopped
      <4> QED
        BY <3>2, <4>1 DEF Go, IInv, CoreInv, WalkTypes
    <3> HIDE DEF w
    <3>5. nodeState'[n] = [nodeState[n] EXCEPT !.count = @ - 1]
      BY <3>3 DEF w
    <3> QED
      BY <3>1, <3>2, <3>3, <3>4, <3>5 DEF NodeDown
  <2>5. CASE Unarrive(t)
    <3>1. cell[t] = n
      BY <1>0, <2>5 DEF Unarrive
    <3>2. /\ pc[t] = "unarrive" /\ nodeState[n] = seen[t]
          /\ nodeState' = [nodeState EXCEPT ![n] = Unarrived(seen[t])]
      BY <2>5, <3>1 DEF Unarrive, At, StillEmpty
    <3>3. n \in Child /\ seen[t].count = 0
      BY <3>1, <3>2 DEF IInv, CoreInv, ControlOK, WalkOK, OnTrack
    <3> QED
      BY <1>0, <3>1, <3>2, <3>3 DEF NodeOut, Unarrived
  <2> QED
    BY <2>1, <2>2, <2>3, <2>4, <2>5
<1> QED
  BY <1>1, <1>2, <1>3

-----------------------------------------------------------------------------
(* What a step may do to a shard word.                                     *)

(* A guard or a child is counted in.                                       *)
ShardUp(s) ==
  /\ shardState'[s].local # 0 \/ shardState'[s].kids # 0
  /\ shardState'[s].flags = shardState[s].flags \cup {ARRIVED}
  /\ \/ \E t \in Thread : pc[t] \in {"arriveShard", "casShard"} /\ cell[t] = s
     \/ NodeOf[s] = Root
     \/ \E g \in Guard : home[g] = s

FlushAt(s) == \E t \in Thread : pc[t] = "flush" /\ cell[t] = s

(* The drop of a guard of the root looks for the node before it flushes.   *)
UpgradeAt(s) ==
  \E t \in Thread : /\ pc[t] = "idle" /\ agenda[t] # <<>>
                    /\ agenda[t][1].do = "upgrade" /\ agenda[t][1].shards = {s}

(* One is counted out; the last of a stopped shard is followed by a flush. *)
ShardDown(s) ==
  /\ shardState'[s].flags = shardState[s].flags
  /\ \/ \E t \in Thread : pc[t] = "departShard" /\ cell[t] = s
     \/ \E g \in Guard : home[g] = s
  /\ shardState'[s] = StillArrived => FlushAt(s)' \/ (NodeOf[s] = Root /\ UpgradeAt(s)')

(* Shard::flush.                                                           *)
ShardOut(s) ==
  \E t \in Thread :
    /\ pc[t] = "flush" /\ cell[t] = s
    /\ shardState[s] = StillArrived /\ shardState'[s] = Flushed

(* Shard::stop, which is followed by a flush on an empty shard.            *)
ShardLatch(s) ==
  /\ \E t \in Thread : Doing(t, "latch") /\ s \in Head(agenda[t]).shards
  /\ shardState'[s] = [shardState[s] EXCEPT !.flags = @ \cup {STOPPED}]
  /\ shardState'[s] = StillArrived => FlushAt(s)'

(* Counting a unit in.                                                     *)
LEMMA UnitIn ==
  ASSUME NEW w \in ShardWord, NEW t, NEW n
  PROVE  /\ PlusUnit(w, t, n).flags = w.flags
         /\ PlusUnit(w, t, n).local # 0 \/ PlusUnit(w, t, n).kids # 0
BY DEF PlusUnit, ShardWord

(* Nothing else changes a shard word.                                      *)
LEMMA WalkShardMoves ==
  ASSUME IInv, NEW t \in Thread, Walk(t), NEW s \in Shard,
         shardState'[s] # shardState[s]
  PROVE  ShardUp(s) \/ ShardDown(s) \/ ShardOut(s)
<1>0. shardState \in [Shard -> ShardWord] /\ shardState[s] \in ShardWord
  BY DEF IInv, CoreInv, WordTypes
<1>1. \/ ArriveShard(t) \/ CasShard(t) \/ DepartShard(t) \/ Flush(t)
  BY DEF Walk, Guarded, ArriveNode, CasNode, DepartNode, DepartNotify, Unarrive, words
<1>2. CASE ArriveShard(t)
  <2>1. cell[t] = s
    BY <1>0, <1>2 DEF ArriveShard
  <2>2. /\ pc[t] = "arriveShard" /\ ARRIVED \in shardState[s].flags
        /\ shardState' = [shardState EXCEPT ![s] = PlusUnit(shardState[s], t, NodeOf[s])]
    BY <1>2, <2>1 DEF ArriveShard, At
  <2>3. shardState'[s] = PlusUnit(shardState[s], t, NodeOf[s])
    BY <1>0, <2>2
  <2>4. /\ shardState'[s].flags = shardState[s].flags
        /\ shardState'[s].local # 0 \/ shardState'[s].kids # 0
    BY <1>0, <2>3, UnitIn
  <2> QED
    BY <2>1, <2>2, <2>4 DEF ShardUp
<1>3. CASE CasShard(t)
  <2>1. cell[t] = s
    BY <1>0, <1>3 DEF CasShard
  <2> DEFINE w == EmptyShard(saved[t][s] \cup {ARRIVED})
  <2>2. /\ pc[t] = "casShard" /\ shardState[s] = EmptyShard(saved[t][s])
        /\ shardState' = [shardState EXCEPT ![s] = PlusUnit(w, t, NodeOf[s])]
    BY <1>3, <2>1 DEF CasShard, At
  <2>3. saved[t][s] \in SUBSET Flags
    BY DEF IInv, CoreInv, WalkTypes, Cell
  <2>4. w \in ShardWord /\ w.flags = saved[t][s] \cup {ARRIVED}
    BY <2>3 DEF EmptyShard, ShardWord, Flags
  <2> HIDE DEF w
  <2>5. /\ shardState'[s].flags = saved[t][s] \cup {ARRIVED}
        /\ shardState'[s].local # 0 \/ shardState'[s].kids # 0
    BY <1>0, <2>2, <2>4, UnitIn
  <2>6. shardState[s].flags = saved[t][s]
    BY <2>2 DEF EmptyShard
  <2> QED
    BY <2>1, <2>2, <2>5, <2>6 DEF ShardUp
<1>4. CASE DepartShard(t)
  <2>1. cell[t] = s
    BY <1>0, <1>4 DEF DepartShard
  <2> DEFINE w == [shardState[s] EXCEPT !.kids = @ - 1]
  <2>2. /\ pc[t] = "departShard" /\ shardState' = [shardState EXCEPT ![s] = w]
        /\ MustFlush(w) => Go(t, "flush", s)
    BY <1>4, <2>1 DEF DepartShard, At
  <2>3. w.flags = shardState[s].flags
    BY <1>0 DEF ShardWord
  <2> HIDE DEF w
  <2>4. shardState'[s] = w
    BY <1>0, <2>2
  <2>5. w = StillArrived => pc'[t] = "flush" /\ cell'[t] = s
    BY <2>2 DEF MustFlush, StillArrived, Go, IInv, CoreInv, WalkTypes
  <2> QED
    BY <2>1, <2>2, <2>3, <2>4, <2>5 DEF ShardDown, FlushAt
<1>5. CASE Flush(t)
  <2>1. cell[t] = s
    BY <1>0, <1>5 DEF Flush
  <2> QED
    BY <1>0, <1>5, <2>1 DEF Flush, At, ShardOut, StillArrived
<1> QED
  BY <1>1, <1>2, <1>3, <1>4, <1>5

(* A latch sets the stop bit, and a flush follows on an empty shard.       *)
LEMMA LatchMoves ==
  ASSUME IInv, NEW t \in Thread, Latch(t), NEW s \in Shard,
         shardState'[s] # shardState[s]
  PROVE  ShardLatch(s)
<1>0. shardState \in [Shard -> ShardWord] /\ shardState[s] \in ShardWord
  BY DEF IInv, CoreInv, WordTypes
<1>1. Doing(t, "latch")
  BY DEF Latch
<1>2. PICK r \in Head(agenda[t]).shards :
        /\ shardState' = [shardState EXCEPT ![r].flags = @ \cup {STOPPED}]
        /\ [shardState[r] EXCEPT !.flags = @ \ {STOPPED}] = EmptyShard({ARRIVED})
             => Go(t, "flush", r)
  BY DEF Latch
<1>3. r = s
  BY <1>0, <1>2
<1>4. shardState'[s] = [shardState[s] EXCEPT !.flags = @ \cup {STOPPED}]
  BY <1>0, <1>2, <1>3
<1>5. ASSUME shardState'[s] = StillArrived
      PROVE  pc'[t] = "flush" /\ cell'[t] = s
  <2>1. /\ shardState[s].local = 0 /\ shardState[s].kids = 0
        /\ shardState[s].flags \cup {STOPPED} = {ARRIVED, STOPPED}
    BY <1>0, <1>4, <1>5 DEF StillArrived, EmptyShard, ShardWord
  <2>2. shardState[s].flags \ {STOPPED} = {ARRIVED}
    BY <2>1 DEF ARRIVED, STOPPED
  <2>3. [shardState[s] EXCEPT !.flags = @ \ {STOPPED}] = EmptyShard({ARRIVED})
    <3> DEFINE w == [shardState[s] EXCEPT !.flags = @ \ {STOPPED}]
    <3>1. /\ w \in [flags : SUBSET Flags, local : Nat, kids : Nat]
          /\ w.flags = {ARRIVED} /\ w.local = 0 /\ w.kids = 0
      BY <1>0, <2>1, <2>2 DEF ShardWord
    <3> HIDE DEF w
    <3>2. w = [flags |-> {ARRIVED}, local |-> 0, kids |-> 0]
      BY <3>1
    <3> QED
      BY <3>2 DEF w, EmptyShard
  <2> QED
    BY <1>2, <1>3, <2>3 DEF Go, IInv, CoreInv, WalkTypes
<1> QED
  BY <1>1, <1>2, <1>3, <1>4, <1>5 DEF ShardLatch, FlushAt

(* Every step that changes a shard word counts up, counts down, takes the  *)
(* shard out of its node, or latches it.                                   *)
LEMMA ShardMoves ==
  ASSUME IInv, [Next]_vars, NEW s \in Shard, shardState'[s] # shardState[s]
  PROVE  ShardUp(s) \/ ShardDown(s) \/ ShardOut(s) \/ ShardLatch(s)
<1>0. shardState \in [Shard -> ShardWord] /\ shardState[s] \in ShardWord
  BY SMTT(60) DEF IInv, CoreInv, WordTypes
<1>1. ASSUME NEW t \in Thread, Proceed(t), ~Latch(t) PROVE FALSE
  BY <1>1 DEF Proceed, Stop, Snapshot, StopKids, StopNotify, Release, Deregister,
              Register, Check, Adopt, Watch, GuardReturned, Upgrade, Unblock, words
<1>2. ASSUME NEW n \in Node, Poll(n) PROVE FALSE
  BY <1>2 DEF Poll, words
<1>3. ASSUME NEW t \in Thread, NEW r \in Shard, NEW g \in Guard, ForShard(t, r, g)
      PROVE  ShardUp(s)
  <2>1. /\ NodeOf[r] = Root /\ ARRIVED \in shardState[r].flags
        /\ shardState' = [shardState EXCEPT ![r].local = @ + 1]
    BY <1>3 DEF ForShard
  <2>2. r = s
    BY <1>0, <2>1
  <2>3. shardState'[s].flags = shardState[s].flags /\ shardState'[s].local # 0
    BY <1>0, <2>1, <2>2 DEF ShardWord
  <2> QED
    BY <2>1, <2>2, <2>3 DEF ShardUp
<1>4. ASSUME NEW t \in Thread, NEW g \in Guard, NEW g2 \in Guard, CloneGuard(t, g, g2)
      PROVE  ShardUp(s)
  <2>1. home[g] # NoShard /\ shardState' = [shardState EXCEPT ![home[g]].local = @ + 1]
    BY <1>4 DEF CloneGuard
  <2>2. home[g] = s
    BY <1>0, <2>1
  <2>3. ARRIVED \in shardState[s].flags
    BY <2>1, <2>2, GuardHome DEF IInv
  <2>4. shardState'[s].flags = shardState[s].flags /\ shardState'[s].local # 0
    BY <1>0, <2>1, <2>2 DEF ShardWord
  <2> QED
    BY <2>2, <2>3, <2>4 DEF ShardUp
<1>5. ASSUME NEW t \in Thread, NEW g \in Guard, DropGuard(t, g)
      PROVE  ShardDown(s)
  <2> DEFINE w == [shardState[home[g]] EXCEPT !.local = @ - 1]
  <2>1. /\ shardState' = [shardState EXCEPT ![home[g]] = w]
        /\ NodeOf[home[g]] # Root /\ MustFlush(w) => Go(t, "flush", home[g])
    BY <1>5 DEF DropGuard
  <2>2. home[g] = s
    BY <1>0, <2>1
  <2>3. w.flags = shardState[s].flags
    BY <1>0, <2>2 DEF ShardWord
  <2> HIDE DEF w
  <2>4. shardState'[s] = w
    BY <1>0, <2>1, <2>2
  <2>5. NodeOf[s] # Root /\ w = StillArrived => pc'[t] = "flush" /\ cell'[t] = s
    BY <2>1, <2>2 DEF MustFlush, StillArrived, Go, IInv, CoreInv, WalkTypes
  <2>6. ASSUME NodeOf[s] = Root, w = StillArrived PROVE UpgradeAt(s)'
    <3> DEFINE x == [TaskOn("upgrade", Root) EXCEPT !.shards = {s}]
    <3>1. pc[t] = "idle" /\ pc' = pc /\ Begin(t, <<x>>)
      BY <1>5, <2>2, <2>6 DEF DropGuard, MustFlush, StillArrived, Stay, Idle, w
    <3>2. x.do = "upgrade" /\ x.shards = {s}
      BY DEF TaskOn
    <3> HIDE DEF x
    <3>3. agenda'[t] = <<x>>
      BY <3>1 DEF Begin, IInv, OwnerTypes
    <3>4. agenda'[t] # <<>> /\ agenda'[t][1] = x
      BY <3>3
    <3> QED
      BY <3>1, <3>2, <3>4 DEF UpgradeAt
  <2> QED
    BY <2>2, <2>3, <2>4, <2>5, <2>6 DEF ShardDown, FlushAt
<1>6. ASSUME NEW t \in Thread, Call(t)
      PROVE  ShardUp(s) \/ ShardDown(s)
  <2>1. \/ \E r \in Shard, g \in Guard : ForShard(t, r, g)
        \/ \E g, g2 \in Guard : CloneGuard(t, g, g2)
        \/ \E g \in Guard : DropGuard(t, g)
    BY <1>6 DEF Call, NewGuard, CloneSwansong, DropSwansong, AwaitSwansong, ShutDown,
                NewChild, DropFuture, BlockOnShutdown, words
  <2> QED
    BY <2>1, <1>3, <1>4, <1>5
<1> QED
  BY <1>1, <1>2, <1>6, WalkShardMoves, LatchMoves DEF Next, vars, words

-----------------------------------------------------------------------------
(* What a step may do to the threads.                                      *)

(* The tasks that a step of an agenda may leave, and what they come from.  *)
FreshTask(t, x) ==
  LET h == Head(agenda[t]) IN
  /\ x.do = "latch" =>
       x.node = h.node /\ (Stop(t) \/ Latch(t) \/ life'[h.node] = "dropping")
  /\ x.do = "stop" =>
       \/ StopKids(t) /\ x.node \in h.kids
       \/ Check(t) /\ x.node = h.node /\ Stopped(Parent[h.node])
       \/ Unblock(t) /\ x.node = h.node /\ h.node = Root /\ SwansongCount(Root) = 1
  /\ x.do \in {"snapshot", "stopKids"} =>
       x.node = h.node /\ (Stop(t) \/ Snapshot(t) \/ StopKids(t))
  /\ x.kids # {} =>
       x.do \in {"snapshot", "stopKids"} \/ (x.do = h.do /\ x.kids = h.kids)
  /\ x.do \notin {"watch", "block", "adopt", "register", "check", "return", "upgrade",
                 "tally", "gather"}

FreshTasks(t, q) ==
  /\ q \in Seq(Task) /\ Then(t, q)
  /\ \A x \in Task : (\E i \in 1 .. Len(q) : q[i] = x) => FreshTask(t, x)

(* Inner::stop.                                                            *)
LEMMA StopFresh ==
  ASSUME IInv, NEW t \in Thread, Stop(t), agenda[t] # <<>>, NEW h \in Task,
         h = Head(agenda[t]), h.node \in Node
  PROVE  \E q : FreshTasks(t, q)
<1> DEFINE n == h.node
           x == TaskOn("latch", n)
           y == TaskOn("snapshot", n)
           z == TaskOn("notify", n)
           q == IF Stopped(n) THEN <<>> ELSE StopTasks(n)
<1>1. Then(t, q)
  BY DEF Stop
<1>2. /\ x \in Task /\ x.do = "latch" /\ x.node = n /\ x.kids = {}
      /\ y \in Task /\ y.do = "snapshot" /\ y.node = n /\ y.kids = {}
      /\ z \in Task /\ z.do = "notify" /\ z.node = n /\ z.kids = {}
  BY FreshJob DEF TaskName
<1>3. q = <<>> \/ q = <<x, y>> \o <<z>> \/ q = <<x, y>> \o <<>>
  BY DEF StopTasks
<1> HIDE DEF n, x, y, z
<1>4. q \in Seq(Task) /\ \A i \in 1 .. Len(q) : q[i] = x \/ q[i] = y \/ q[i] = z
  <2>1. CASE q = <<>>
    <3> HIDE DEF q
    <3> QED
      BY <2>1
  <2>2. CASE q = <<x, y>> \o <<z>>
    <3> DEFINE r == <<x, y>> \o <<z>>
    <3>1. r \in Seq(Task) /\ Len(r) = 3 /\ r[1] = x /\ r[2] = y /\ r[3] = z
      BY <1>2
    <3> HIDE DEF r
    <3>2. \A i \in 1 .. Len(r) : i = 1 \/ i = 2 \/ i = 3
      BY <3>1
    <3>3. q = r
      BY <2>2 DEF r
    <3> HIDE DEF q
    <3> QED
      BY <3>1, <3>2, <3>3
  <2>3. CASE q = <<x, y>> \o <<>>
    <3> DEFINE r == <<x, y>> \o <<>>
    <3>1. r \in Seq(Task) /\ Len(r) = 2 /\ r[1] = x /\ r[2] = y
      BY <1>2
    <3> HIDE DEF r
    <3>2. \A i \in 1 .. Len(r) : i = 1 \/ i = 2
      BY <3>1
    <3>3. q = r
      BY <2>3 DEF r
    <3> HIDE DEF q
    <3> QED
      BY <3>1, <3>2, <3>3
  <2> QED
    BY <1>3, <2>1, <2>2, <2>3
<1> HIDE DEF q
<1>5. \A w \in Task : w = x \/ w = y \/ w = z => FreshTask(t, w)
  BY <1>2 DEF FreshTask, n
<1>6. FreshTasks(t, q)
  BY <1>1, <1>4, <1>5 DEF FreshTasks
<1> QED
  BY <1>6

(* for child in live_children { child.stop() }                             *)
LEMMA StopKidsFresh ==
  ASSUME IInv, NEW t \in Thread, StopKids(t), agenda[t] # <<>>, NEW h \in Task,
         h = Head(agenda[t]), h.node \in Node, h.kids \in SUBSET Child
  PROVE  \E q : FreshTasks(t, q)
<1>1. PICK m \in h.kids :
        Then(t, <<TaskOn("stop", m), TaskOn("release", m)>>
                  \o RestOf([h EXCEPT !.kids = @ \ {m}]))
  BY DEF StopKids
<1>2. m \in Node
  BY <1>1 DEF Child
<1> DEFINE a == TaskOn("stop", m)
           b == TaskOn("release", m)
           y == [h EXCEPT !.kids = @ \ {m}]
           q == AndRest(a, b, y)
<1>3. /\ a \in Task /\ a.do = "stop" /\ a.node = m /\ a.kids = {}
      /\ b \in Task /\ b.do = "release" /\ b.node = m /\ b.kids = {}
  BY <1>2, FreshJob DEF TaskName
<1>4. h.do = "stopKids"
  BY DEF StopKids, Doing
<1>5. y \in Task /\ y.do = "stopKids" /\ y.node = h.node
  BY <1>4 DEF Task
<1>6. Then(t, q)
  BY <1>1 DEF AndRest
<1> HIDE DEF a, b, y
<1>7. ThreeAtMost(q, a, b, y)
  BY <1>3, <1>5, TwoAndRest
<1> HIDE DEF q
<1>8. q \in Seq(Task) /\ \A i \in 1 .. Len(q) : q[i] = a \/ q[i] = b \/ q[i] = y
  <2>1. /\ q \in Seq(Task) /\ q[1] = a /\ q[2] = b
        /\ Len(q) = 2 \/ (Len(q) = 3 /\ q[3] = y)
    BY <1>7 DEF ThreeAtMost
  <2>2. CASE Len(q) = 2
    <3>1. \A i \in 1 .. Len(q) : i = 1 \/ i = 2
      BY <2>2
    <3> QED
      BY <2>1, <3>1
  <2>3. CASE Len(q) = 3 /\ q[3] = y
    <3>1. \A i \in 1 .. Len(q) : i = 1 \/ i = 2 \/ i = 3
      BY <2>3
    <3> QED
      BY <2>1, <2>3, <3>1
  <2> QED
    BY <2>1, <2>2, <2>3
<1>9. \A w \in Task : w = a \/ w = b \/ w = y => FreshTask(t, w)
  <2>1. \A w \in Task : w = a => FreshTask(t, w)
    BY <1>1, <1>3 DEF FreshTask
  <2>2. \A w \in Task : w = b => FreshTask(t, w)
    BY <1>3 DEF FreshTask
  <2>3. \A w \in Task : w = y => FreshTask(t, w)
    BY <1>5 DEF FreshTask
  <2> QED
    BY <2>1, <2>2, <2>3
<1>10. FreshTasks(t, q)
  BY <1>6, <1>8, <1>9 DEF FreshTasks
<1> QED
  BY <1>10

(* The others leave at most two tasks.                                     *)
LEMMA FreshNone ==
  ASSUME NEW t, Then(t, <<>>)
  PROVE  \E q : FreshTasks(t, q)
<1> DEFINE q == <<>>
<1>1. q \in Seq(Task) /\ Then(t, q) /\ \A i \in 1 .. Len(q) : FALSE
  OBVIOUS
<1> HIDE DEF q
<1>2. FreshTasks(t, q)
  BY <1>1 DEF FreshTasks
<1> QED
  BY <1>2

(* One task in place of the head of an agenda.                             *)
LEMMA FreshOne ==
  ASSUME NEW t, NEW x \in Task, Then(t, <<x>>), \A w \in Task : w = x => FreshTask(t, w)
  PROVE  \E q : FreshTasks(t, q)
<1> DEFINE q == <<x>>
<1>1. q \in Seq(Task) /\ Then(t, q) /\ \A i \in 1 .. Len(q) : q[i] = x
  OBVIOUS
<1> HIDE DEF q
<1>2. FreshTasks(t, q)
  BY <1>1 DEF FreshTasks
<1> QED
  BY <1>2

(* Two tasks in place of the head of an agenda.                            *)
LEMMA FreshTwo ==
  ASSUME NEW t, NEW x \in Task, NEW y \in Task, Then(t, <<x, y>>),
         \A w \in Task : w = x \/ w = y => FreshTask(t, w)
  PROVE  \E q : FreshTasks(t, q)
<1> DEFINE q == <<x, y>>
<1>1. q \in Seq(Task) /\ Then(t, q) /\ Len(q) = 2 /\ q[1] = x /\ q[2] = y
  OBVIOUS
<1> HIDE DEF q
<1>2. \A i \in 1 .. Len(q) : i = 1 \/ i = 2
  BY <1>1
<1>3. FreshTasks(t, q)
  BY <1>1, <1>2 DEF FreshTasks
<1> QED
  BY <1>3

(* What is left of the head of an agenda in its place.                     *)
LEMMA FreshRest ==
  ASSUME NEW t, NEW x \in Task, Then(t, RestOf(x)), \A w \in Task : w = x => FreshTask(t, w)
  PROVE  \E q : FreshTasks(t, q)
<1>1. CASE RestOf(x) = <<>>
  <2>1. Then(t, <<>>)
    BY <1>1
  <2> QED
    BY <2>1, FreshNone
<1>2. CASE RestOf(x) = <<x>>
  <2>1. Then(t, <<x>>)
    BY <1>2
  <2> QED
    BY <2>1, FreshOne
<1> QED
  BY <1>1, <1>2 DEF RestOf

(* A step of an agenda replaces its head.                                  *)
LEMMA ProceedThen ==
  ASSUME IInv, NEW t \in Thread, Proceed(t)
  PROVE  /\ pc[t] = "idle" /\ agenda[t] # <<>>
         /\ \E q : FreshTasks(t, q)
<1>0. OwnerTypes
  BY SMTT(60) DEF IInv
<1>1. PICK d : Doing(t, d)
  BY DEF Proceed, Stop, Latch, Snapshot, StopKids, StopNotify, Release, Deregister,
         Register, Check, Adopt, Watch, GuardReturned, Upgrade, Unblock
<1>2. pc[t] = "idle" /\ agenda[t] # <<>> /\ agenda[t] \in Seq(Task)
  BY <1>0, <1>1 DEF Doing, OwnerTypes
<1> SUFFICES \E q : FreshTasks(t, q)
  BY <1>2
<1> DEFINE h == Head(agenda[t])
<1>3. /\ h \in Task /\ Tail(agenda[t]) \in Seq(Task) /\ h.node \in Node
      /\ h.shards \in SUBSET Shard /\ h.kids \in SUBSET Child
  BY <1>0, <1>2, AgendaHead
<1> HIDE DEF h
<1>6. CASE Stop(t)
  BY <1>2, <1>3, <1>6, StopFresh DEF h
<1>7. CASE Latch(t)
  <2>1. PICK s \in h.shards : Then(t, RestOf([h EXCEPT !.shards = @ \ {s}]))
    BY <1>7 DEF Latch, h
  <2> DEFINE x == [h EXCEPT !.shards = @ \ {s}]
  <2>2. h.do = "latch"
    BY <1>7 DEF Latch, Doing, h
  <2>3. x \in Task /\ x.do = "latch" /\ x.node = h.node /\ x.kids = h.kids
    BY <1>3, <2>2 DEF Task
  <2>4. Then(t, RestOf(x))
    BY <2>1
  <2> HIDE DEF x
  <2>5. \A w \in Task : w = x => FreshTask(t, w)
    BY <1>7, <2>2, <2>3 DEF FreshTask, h
  <2> QED
    BY <2>3, <2>4, <2>5, FreshRest
<1>8. CASE Snapshot(t)
  <2> DEFINE x(s) == [h EXCEPT
                        !.do = IF h.shards \ {s} = {} THEN "stopKids" ELSE "snapshot",
                        !.shards = h.shards \ {s}, !.kids = @ \cup LiveChildren(s)]
  <2>1. PICK s \in h.shards : Then(t, RestOf(x(s)))
    BY <1>8 DEF Snapshot, h
  <2> DEFINE y == x(s)
  <2>2. y \in Task /\ y.do \in {"stopKids", "snapshot"} /\ y.node = h.node
    BY <1>3 DEF Task, TaskName, LiveChildren
  <2>3. Then(t, RestOf(y))
    BY <2>1
  <2> HIDE DEF y
  <2>4. \A w \in Task : w = y => FreshTask(t, w)
    BY <1>8, <2>2 DEF FreshTask, h
  <2> QED
    BY <2>2, <2>3, <2>4, FreshRest
<1>9. CASE StopKids(t)
  BY <1>2, <1>3, <1>9, StopKidsFresh DEF h
<1>10. CASE \/ StopNotify(t) \/ Register(t) \/ Adopt(t) \/ Watch(t) \/ GuardReturned(t)
  <2>1. Then(t, <<>>)
    BY <1>10 DEF StopNotify, Register, Adopt, Watch, GuardReturned
  <2> QED
    BY <2>1, FreshNone
<1>11. CASE Release(t)
  <2>1. CASE agenda' = [agenda EXCEPT ![t] = Tail(@)]
    <3>1. <<>> \o Tail(agenda[t]) = Tail(agenda[t])
      BY <1>3
    <3>2. Then(t, <<>>)
      BY <2>1, <3>1 DEF Then
    <3> QED
      BY <3>2, FreshNone
  <2>2. CASE life' = [life EXCEPT ![h.node] = "dropping"] /\ Then(t, Collect(h.node))
    <3> DEFINE x == TaskOn("latch", h.node)
               y == TaskOn("deregister", h.node)
    <3>1. /\ x \in Task /\ x.do = "latch" /\ x.node = h.node /\ x.kids = {}
          /\ y \in Task /\ y.do = "deregister" /\ y.node = h.node /\ y.kids = {}
      BY <1>3, FreshJob DEF TaskName
    <3>2. Then(t, <<x, y>>)
      BY <2>2 DEF Collect
    <3> HIDE DEF x, y
    <3>3. life'[h.node] = "dropping"
      BY <1>0, <1>3, <2>2 DEF OwnerTypes
    <3>4. \A w \in Task : w = x \/ w = y => FreshTask(t, w)
      BY <3>1, <3>3 DEF FreshTask, h
    <3> QED
      BY <3>1, <3>2, <3>4, FreshTwo
  <2> QED
    BY <1>11, <2>1, <2>2 DEF Release, h
<1>12. CASE Deregister(t)
  <2>1. CASE h.node = Root
    <3>1. Then(t, <<>>)
      BY <1>12, <2>1 DEF Deregister, h
    <3> QED
      BY <3>1, FreshNone
  <2>2. CASE h.node # Root
    <3> DEFINE x == TaskOn("release", Parent[h.node])
    <3>1. Parent[h.node] \in Node
      BY <1>3, <2>2, TreeAssumption DEF Child
    <3>2. x \in Task /\ x.do = "release" /\ x.kids = {}
      BY <3>1, FreshJob DEF TaskName
    <3>3. Then(t, <<x>>)
      BY <1>12, <2>2 DEF Deregister, h
    <3> HIDE DEF x
    <3>4. \A w \in Task : w = x => FreshTask(t, w)
      BY <3>2 DEF FreshTask
    <3> QED
      BY <3>2, <3>3, <3>4, FreshOne
  <2> QED
    BY <2>1, <2>2
<1>13. CASE Check(t)
  <2>1. CASE ~Stopped(Parent[h.node])
    <3>1. Then(t, <<>>)
      BY <1>13, <2>1 DEF Check, StopIfParentDid, h
    <3> QED
      BY <3>1, FreshNone
  <2>2. CASE Stopped(Parent[h.node])
    <3> DEFINE x == TaskOn("stop", h.node)
    <3>1. x \in Task /\ x.do = "stop" /\ x.node = h.node /\ x.kids = {}
      BY <1>3, FreshJob DEF TaskName
    <3>2. Then(t, <<x>>)
      BY <1>13, <2>2 DEF Check, StopIfParentDid, h
    <3> HIDE DEF x
    <3>3. \A w \in Task : w = x => FreshTask(t, w)
      BY <1>13, <2>2, <3>1 DEF FreshTask, h
    <3> QED
      BY <3>1, <3>2, <3>3, FreshOne
  <2> QED
    BY <2>1, <2>2
<1>14. CASE Upgrade(t)
  <2> DEFINE x == TaskOn("release", Root)
  <2>1. x \in Task /\ x.do = "release" /\ x.kids = {}
    BY TreeAssumption, FreshJob DEF TaskName
  <2>2. Then(t, <<x>>) \/ Then(t, <<>>)
    BY <1>14 DEF Upgrade
  <2> HIDE DEF x
  <2>3. \A w \in Task : w = x => FreshTask(t, w)
    BY <2>1 DEF FreshTask
  <2>4. CASE Then(t, <<x>>)
    BY <2>1, <2>3, <2>4, FreshOne
  <2>5. CASE Then(t, <<>>)
    BY <2>5, FreshNone
  <2> QED
    BY <2>2, <2>4, <2>5
<1>15. CASE Unblock(t)
  <2> DEFINE x == TaskOn("stop", h.node)
             y == TaskOn("release", h.node)
  <2>1. /\ DropTasks(h.node) = <<y>> \/ DropTasks(h.node) = <<x, y>>
        /\ x \in Task /\ x.do = "stop" /\ x.node = h.node /\ x.kids = {}
        /\ y \in Task /\ y.do = "release" /\ y.node = h.node /\ y.kids = {}
    BY <1>3, DropJobs
  <2>2. Then(t, DropTasks(h.node))
    BY <1>15 DEF Unblock, h
  <2>3. CASE h.node = Root /\ SwansongCount(Root) = 1
    <3> HIDE DEF x, y
    <3>1. \A w \in Task : w = x \/ w = y => FreshTask(t, w)
      BY <1>15, <2>1, <2>3 DEF FreshTask, h
    <3>2. CASE DropTasks(h.node) = <<y>>
      <4>1. Then(t, <<y>>)
        BY <2>2, <3>2
      <4> QED
        BY <2>1, <3>1, <4>1, FreshOne
    <3>3. CASE DropTasks(h.node) = <<x, y>>
      <4>1. Then(t, <<x, y>>)
        BY <2>2, <3>3
      <4> QED
        BY <2>1, <3>1, <4>1, FreshTwo
    <3> QED
      BY <2>1, <3>2, <3>3
  <2>4. CASE ~(h.node = Root /\ SwansongCount(Root) = 1)
    <3>1. DropTasks(h.node) = <<>> \o <<y>>
      BY <2>4 DEF DropTasks
    <3>2. <<>> \o <<y>> = <<y>>
      BY <2>1, JoinTasks
    <3> HIDE DEF x, y
    <3>3. Then(t, <<y>>)
      BY <2>2, <3>1, <3>2
    <3>4. \A w \in Task : w = y => FreshTask(t, w)
      BY <2>1 DEF FreshTask
    <3> QED
      BY <2>1, <3>3, <3>4, FreshOne
  <2> QED
    BY <2>3, <2>4
<1> QED
  BY <1>6, <1>7, <1>8, <1>9, <1>10, <1>11, <1>12, <1>13, <1>14, <1>15 DEF Proceed

(* What a step that is not one of its walk may do to a thread.             *)
Starts(t) ==
  /\ pc[t] = "idle" /\ pc'[t] \in {"idle", "flush", "arriveShard", "guarded"}
  /\ from'[t] = from[t] /\ saved'[t] = saved[t] /\ seen'[t] = seen[t]
  /\ resume'[t] = resume[t]

(* Work that is not on the agenda of an idle thread comes from a client.   *)
Rest(t) == \A u \in Thread \ {t} : SameRow(u) /\ agenda'[u] = agenda[u]

(* A step between walks concerns the walk of its own thread only, and      *)
(* starts one at most.                                                     *)
LEMMA ProceedRows ==
  ASSUME IInv, NEW t \in Thread, Proceed(t)
  PROVE  Starts(t) /\ Rest(t)
<1>1. pc[t] = "idle" /\ \E q \in Seq(Task) : Then(t, q)
  BY ProceedThen DEF FreshTasks
<1>2. \A u \in Thread \ {t} : agenda'[u] = agenda[u]
  BY <1>1, SMTT(60) DEF Then, IInv, OwnerTypes
<1>3. /\ UNCHANGED <<from, saved, seen, resume>>
      /\ UNCHANGED <<pc, cell>> \/ \E s : Go(t, "flush", s)
  BY DEF Proceed, Stop, Latch, Snapshot, StopKids, StopNotify, Release, Deregister,
         Register, Check, Adopt, Watch, GuardReturned, Upgrade, Unblock, walk, Stay
<1>4. /\ pc'[t] \in {"idle", "flush"}
      /\ \A u \in Thread \ {t} : pc'[u] = pc[u] /\ cell'[u] = cell[u]
  BY <1>1, <1>3 DEF Go, IInv, CoreInv, WalkTypes
<1> QED
  BY <1>1, <1>2, <1>3, <1>4 DEF Starts, Rest, SameRow

(* So does a call, on an empty agenda.                                     *)
LEMMA CallRows ==
  ASSUME IInv, NEW t \in Thread, Call(t)
  PROVE  Starts(t) /\ Rest(t) /\ agenda[t] = <<>>
<1>1. Idle(t)
  BY DEF Call, NewGuard, ForShard, CloneGuard, DropGuard, CloneSwansong, DropSwansong,
         AwaitSwansong, ShutDown, NewChild, DropFuture, BlockOnShutdown, DropHandle
<1>2. agenda' = agenda \/ \E q : Begin(t, q)
  BY DEF Call, NewGuard, ForShard, CloneGuard, DropGuard, CloneSwansong, DropSwansong,
         AwaitSwansong, ShutDown, NewChild, DropFuture, BlockOnShutdown, DropHandle
<1>3. \A u \in Thread \ {t} : agenda'[u] = agenda[u]
  BY <1>2 DEF Begin, IInv, OwnerTypes
<1>4. /\ UNCHANGED <<from, saved, seen, resume>>
      /\ \/ UNCHANGED <<pc, cell>>
         \/ \E label \in {"flush", "arriveShard", "guarded"} : \E c : Go(t, label, c)
  BY DEF Call, NewGuard, ForShard, CloneGuard, DropGuard, CloneSwansong, DropSwansong,
         AwaitSwansong, ShutDown, NewChild, DropFuture, BlockOnShutdown, walk, Stay
<1>5. /\ pc[t] = "idle" /\ pc'[t] \in {"idle", "flush", "arriveShard", "guarded"}
      /\ \A u \in Thread \ {t} : pc'[u] = pc[u] /\ cell'[u] = cell[u]
  BY <1>1, <1>4 DEF Idle, Go, IInv, CoreInv, WalkTypes
<1> QED
  BY <1>1, <1>3, <1>4, <1>5 DEF Starts, Rest, SameRow, Idle

(* The threads after a step: each goes on, starts something, or stays.     *)
LEMMA StepRows ==
  ASSUME IInv, OwnInv, [Next]_vars, NEW u \in Thread
  PROVE  /\ SameRow(u) \/ Walk(u) \/ Starts(u)
         /\ agenda'[u] = agenda[u] \/ Proceed(u) \/ agenda[u] = <<>>
<1>1. ASSUME NEW t \in Thread, Walk(t)
      PROVE  Rest(t) /\ (agenda'[t] = agenda[t] \/ agenda[t] = <<>>)
  <2>1. CASE Guarded(t)
    BY <1>1, <2>1, WalkRows DEF Rest, Guarded, At, OwnInv, WalksInv, ChainOK
  <2>2. CASE ~Guarded(t)
    <3>1. agenda' = agenda
      BY <1>1, <2>2 DEF Walk, ArriveShard, ArriveNode, CasShard, CasNode, DepartShard,
                        Flush, DepartNode, DepartNotify, Unarrive
    <3> QED
      BY <1>1, <3>1, WalkRows DEF Rest
  <2> QED
    BY <2>1, <2>2
<1>2. CASE \E t \in Thread : Walk(t) \/ Proceed(t) \/ Call(t)
  <2>1. PICK t \in Thread : Walk(t) \/ Proceed(t) \/ Call(t)
    BY <1>2
  <2>2. CASE u = t
    BY <1>1, <2>1, <2>2, ProceedRows, CallRows
  <2>3. CASE u # t
    BY <1>1, <2>1, <2>3, ProceedRows, CallRows DEF Rest
  <2> QED
    BY <2>2, <2>3
<1>3. CASE (\E n \in Node : Poll(n)) \/ UNCHANGED vars
  BY <1>3 DEF Poll, walk, vars, SameRow
<1> QED
  BY <1>2, <1>3 DEF Next

(* A task is there until it is at the head and done.                       *)
LEMMA TaskStays ==
  ASSUME IInv, OwnInv, [Next]_vars, NEW u \in Thread, NEW i \in 1 .. Len(agenda[u]),
         i # 1 \/ ~Proceed(u)
  PROVE  \E j \in 1 .. Len(agenda'[u]) : agenda'[u][j] = agenda[u][i]
<1>0. agenda \in [Thread -> Seq(Task)] /\ agenda[u] # <<>>
  <2>1. agenda \in [Thread -> Seq(Task)]
    BY DEF IInv, OwnerTypes
  <2> QED
    BY <2>1
<1>1. CASE agenda'[u] = agenda[u]
  BY <1>1
<1>2. CASE Proceed(u)
  <2>1. PICK q \in Seq(Task) : Then(u, q)
    BY <1>2, ProceedThen DEF FreshTasks
  <2>2. /\ Len(agenda[u]) \in Nat \ {0} /\ Len(q) \in Nat
        /\ Len(agenda'[u]) = Len(q) + Len(agenda[u]) - 1
        /\ i \in 2 .. Len(agenda[u]) => agenda'[u][i - 1 + Len(q)] = agenda[u][i]
    BY <1>0, <2>1, ThenJobs
  <2>3. i \in 2 .. Len(agenda[u]) /\ i - 1 + Len(q) \in 1 .. Len(agenda'[u])
    BY <1>2, <2>2, SMTT(60)
  <2> QED
    BY <2>2, <2>3
<1> QED
  BY <1>0, <1>1, <1>2, StepRows

(* The action of a thread at the head of its agenda is that of its task.   *)
LEMMA HeadAction ==
  ASSUME NEW t \in Thread, Proceed(t)
  PROVE  /\ Head(agenda[t]).do = "notify" => StopNotify(t)
         /\ Head(agenda[t]).do = "latch" => Latch(t)
         /\ Head(agenda[t]).do = "deregister" => Deregister(t)
         /\ Head(agenda[t]).do = "stop" => Stop(t)
         /\ Head(agenda[t]).do = "snapshot" => Snapshot(t)
         /\ Head(agenda[t]).do = "stopKids" => StopKids(t)
         /\ Head(agenda[t]).do = "register" => Register(t)
         /\ Head(agenda[t]).do = "check" => Check(t)
<1>1. \E do : Doing(t, do) /\ do = Head(agenda[t]).do
  BY DEF Proceed, Stop, Latch, Snapshot, StopKids, StopNotify, Release, Deregister,
         Register, Check, Adopt, Watch, GuardReturned, Upgrade, Unblock, Doing
<1> QED
  BY ZenonT(60) DEF Proceed, Stop, Latch, Snapshot, StopKids, StopNotify, Release, Deregister,
         Register, Check, Adopt, Watch, GuardReturned, Upgrade, Unblock, Doing

(* The walk of a departing thread goes on with the step of its label.      *)
LEMMA WalkAction ==
  ASSUME NEW t \in Thread, Walk(t)
  PROVE  /\ pc[t] = "notify" => DepartNotify(t)
         /\ pc[t] = "unarrive" => Unarrive(t)
         /\ pc[t] = "flush" => Flush(t)
         /\ pc[t] = "departNode" => DepartNode(t)
         /\ pc[t] = "casShard" => CasShard(t)
         /\ pc[t] \notin {"idle"}
BY DEF Walk, At, Guarded, ArriveShard, ArriveNode, CasShard, CasNode, DepartShard, Flush,
       DepartNode, DepartNotify, Unarrive

-----------------------------------------------------------------------------
(* Notifications.                                                          *)

(* A completion goes to sleep only in a poll that finds its node not       *)
(* complete, and a notification wakes it.                                  *)
LEMMA SleepMoves ==
  ASSUME IInv, [Next]_vars, NEW n \in Node, future'[n] = "waiting"
  PROVE  /\ ~NotifyZero(n)
         /\ future[n] = "waiting" \/ (~Complete(n) /\ UNCHANGED words)
<1>0. future \in [Node -> {"none", "resolved"} \cup Unresolved]
  BY DEF IInv, OwnerTypes
<1>1. \A k \in Node : NotifyZero(k) => future'[n] # "waiting" \/ (k # n /\ future[n] = "waiting")
  BY <1>0 DEF NotifyZero, Unresolved
<1>2. ~NotifyZero(n)
  BY <1>1
<1>3. SUFFICES ASSUME future[n] # "waiting" PROVE ~Complete(n) /\ UNCHANGED words
  BY <1>2
<1>4. ASSUME NEW t \in Thread, Walk(t) PROVE FALSE
  <2>1. CASE DepartNotify(t)
    <3>1. cell[t] \in Node
      BY <2>1, SMTT(60) DEF DepartNotify, At, IInv, CoreInv, ControlOK, WalkOK, OnTrack, NodeLabel
    <3> QED
      BY <1>1, <1>3, <2>1, <3>1 DEF DepartNotify
  <2>2. CASE ~DepartNotify(t)
    BY <1>3, <1>4, <2>2 DEF Walk, Guarded, ArriveShard, ArriveNode, CasShard, CasNode,
                      DepartShard, Flush, DepartNode, Unarrive, owners
  <2> QED
    BY <2>1, <2>2
<1>5. ASSUME NEW t \in Thread, Proceed(t) PROVE FALSE
  <2>1. CASE StopNotify(t)
    <3>1. Head(agenda[t]).node \in Node
      BY <2>1, AgendaHead DEF StopNotify, Doing, IInv
    <3> QED
      BY <1>1, <1>3, <2>1, <3>1 DEF StopNotify
  <2>2. CASE Watch(t)
    BY <1>0, <1>3, <2>2, SMTT(60) DEF Watch
  <2>3. CASE \/ Stop(t) \/ Latch(t) \/ Snapshot(t) \/ StopKids(t) \/ Release(t)
             \/ Deregister(t) \/ Register(t) \/ Check(t) \/ Adopt(t)
             \/ GuardReturned(t) \/ Upgrade(t)
    BY <1>3, <2>3 DEF Stop, Latch, Snapshot, StopKids, Release, Deregister, Register,
                Check, Adopt, GuardReturned, Upgrade, owners
  <2>4. CASE Unblock(t)
    BY <1>0, <1>3, <2>4 DEF Unblock
  <2> QED
    BY <1>5, <2>1, <2>2, <2>3, <2>4 DEF Proceed
<1>6. ASSUME NEW t \in Thread, Call(t) PROVE FALSE
  <2>1. CASE \E k \in Node : \/ AwaitSwansong(t, k) \/ DropFuture(t, k)
                            \/ BlockOnShutdown(t, k)
    BY <1>0, <1>3, <2>1 DEF AwaitSwansong, DropFuture, BlockOnShutdown
  <2>2. CASE ~\E k \in Node : \/ AwaitSwansong(t, k) \/ DropFuture(t, k)
                             \/ BlockOnShutdown(t, k)
    BY <1>3, <1>6, <2>2 DEF Call, NewGuard, ForShard, CloneGuard, DropGuard,
                      CloneSwansong, DropSwansong, ShutDown, NewChild, owners
  <2> QED
    BY <2>1, <2>2
<1>7. PICK k \in Node : Poll(k)
  BY <1>3, <1>4, <1>5, <1>6 DEF Next, vars, owners
<1>8. k = n
  BY <1>0, <1>3, <1>7 DEF Poll
<1> QED
  BY <1>0, <1>3, <1>7, <1>8 DEF Poll, StillWaiting, Keep

(* A stop that empties the last reason to wait has a notification due.     *)
LEMMA StopNotifies ==
  ASSUME IInv, NEW t \in Thread, Stop(t), NEW n \in Node, Head(agenda[t]).node = n,
         ~Stopped(n), IsZero(n)
  PROVE  NotifyDue(t, n)'
<1>1. agenda[t] # <<>> /\ agenda \in [Thread -> Seq(Task)]
  BY DEF Stop, Doing, IInv, OwnerTypes
<1> DEFINE x == TaskOn("latch", n)
           y == TaskOn("snapshot", n)
           z == TaskOn("notify", n)
           q == <<x, y>> \o <<z>>
<1>2. Then(t, q)
  BY DEF Stop, StopTasks
<1>3. x \in Task /\ y \in Task
  BY FreshJob DEF TaskName
<1>4. z \in Task /\ z.do = "notify" /\ z.node = n
  BY FreshJob DEF TaskName
<1> HIDE DEF x, y, z
<1>5. q \in Seq(Task) /\ Len(q) = 3 /\ q[3] = z
  BY <1>3, <1>4
<1> HIDE DEF q
<1>6. 3 \in 1 .. Len(agenda'[t]) /\ agenda'[t][3] = z
  <2>1. /\ Len(agenda[t]) \in Nat \ {0} /\ Len(agenda'[t]) = Len(q) + Len(agenda[t]) - 1
        /\ \A i \in 1 .. Len(q) : agenda'[t][i] = q[i]
    BY <1>1, <1>2, <1>5, ThenJobs
  <2>2. 3 \in 1 .. Len(q)
    BY <1>5
  <2> QED
    BY <1>5, <2>1, <2>2
<1>7. agenda'[t] \in Seq(Task)
  BY <1>1, <1>2, <1>5, ThenType DEF IInv
<1>8. 3 \in DOMAIN agenda'[t]
  BY <1>6, <1>7
<1> QED
  BY <1>4, <1>6, <1>8 DEF NotifyDue

(* Every step keeps a notification due for a completion that sleeps on a   *)
(* complete node.                                                          *)
LEMMA NotifyNext ==
  ASSUME IInv, OwnInv, NoLostNotification, [Next]_vars
  PROVE  NoLostNotification'
<1> SUFFICES ASSUME NEW n \in Node, future'[n] = "waiting", Complete(n)'
             PROVE  \E t \in Thread : NotifyDue(t, n)'
  BY DEF NoLostNotification, Complete, Stopped, IsZero
<1>0. nodeState \in [Node -> NodeWord] /\ agenda \in [Thread -> Seq(Task)]
      /\ nodeState[n].count \in Nat
  BY DEF IInv, CoreInv, WordTypes, OwnerTypes, NodeWord
<1>1. ~NotifyZero(n) /\ (future[n] = "waiting" \/ (~Complete(n) /\ UNCHANGED words))
  BY SleepMoves
<1>2. CASE Complete(n)
  <2>1. PICK t \in Thread : NotifyDue(t, n)
    BY <1>1, <1>2 DEF NoLostNotification
  <2>2. CASE pc[t] = "notify" /\ cell[t] = n
    <3>1. ~Walk(t)
      BY <1>1, <2>2, WalkAction DEF DepartNotify
    <3>2. SameRow(t)
      BY <2>2, <3>1, StepRows DEF Starts
    <3> QED
      BY <2>2, <3>2 DEF SameRow, NotifyDue
  <2>3. ASSUME NEW i \in DOMAIN agenda[t], agenda[t][i].do = "notify", agenda[t][i].node = n
        PROVE  NotifyDue(t, n)'
    <3>1. i \in 1 .. Len(agenda[t]) /\ agenda[t] \in Seq(Task) /\ agenda[t] # <<>>
      BY <1>0
    <3>2. Head(agenda[t]) = agenda[t][1]
      BY <3>1
    <3>3. i # 1 \/ ~Proceed(t)
      BY <1>1, <2>3, <3>2, HeadAction DEF StopNotify
    <3>4. PICK j \in 1 .. Len(agenda'[t]) : agenda'[t][j] = agenda[t][i]
      BY <3>1, <3>3, TaskStays
    <3>5. agenda'[t] \in Seq(Task)
      BY OwnersNext DEF OwnerTypes
    <3>6. j \in DOMAIN agenda'[t]
      BY <3>4, <3>5
    <3> QED
      BY <2>3, <3>4, <3>6 DEF NotifyDue
  <2> QED
    BY <2>1, <2>2, <2>3 DEF NotifyDue
<1>3. CASE ~Complete(n)
  <2>1. nodeState'[n] # nodeState[n]
    BY <1>3 DEF Complete, Stopped, IsZero
  <2>2. STOPPED \in nodeState'[n].flags /\ nodeState'[n].count = 0
    BY DEF Complete, Stopped, IsZero
  <2>3. ~NodeUp(n)
    BY <1>0, <2>2 DEF NodeUp
  <2>4. CASE NodeDown(n)
    <3>1. PICK t \in Thread :
            /\ nodeState'[n] = [nodeState[n] EXCEPT !.count = @ - 1]
            /\ Stopped(n) => cell'[t] = n /\ pc'[t] = "notify"
      BY <2>2, <2>4 DEF NodeDown
    <3>2. Stopped(n)
      BY <1>0, <2>2, <3>1 DEF Stopped, NodeWord
    <3> QED
      BY <3>1, <3>2 DEF NotifyDue
  <2>5. ~NodeOut(n)
    <3>1. EmptyNode(nodeState[n].flags \cap {STOPPED}).flags = nodeState[n].flags \cap {STOPPED}
      BY DEF EmptyNode
    <3> QED
      BY <1>3, <2>2, <3>1 DEF NodeOut, Complete, Stopped, IsZero
  <2>6. CASE NodeStop(n)
    <3>1. PICK t \in Thread :
            /\ Stop(t) /\ Head(agenda[t]).node = n
            /\ nodeState'[n] = [nodeState[n] EXCEPT !.flags = @ \cup {STOPPED}]
      BY <2>6 DEF NodeStop
    <3>2. IsZero(n)
      BY <1>0, <2>2, <3>1 DEF IsZero, NodeWord
    <3>3. ~Stopped(n)
      BY <1>3, <3>2 DEF Complete
    <3> QED
      BY <3>1, <3>2, <3>3, StopNotifies
  <2> QED
    BY <2>1, <2>3, <2>4, <2>5, <2>6, NodeMoves
<1> QED
  BY <1>2, <1>3

(* No completion sleeps through the end of its shutdown: whenever it waits *)
(* while its node is stopped and counts nothing, the departure that emptied*)
(* the node or the stop that found it empty has yet to notify.             *)
THEOREM NotificationsArrive == Spec => []NoLostNotification
<1>1. Init => NoLostNotification
  BY DEF Init, NoLostNotification
<1>2. IInv /\ OwnInv /\ NoLostNotification /\ [Next]_vars => NoLostNotification'
  BY NotifyNext
<1> QED
  BY <1>1, <1>2, Ownership, PTL DEF Spec

-----------------------------------------------------------------------------
(* Lives, and the words of nodes that do not exist.                        *)

(* A node is created, has its last Arc dropped, and is gone, in this order *)
(* and each by one action.                                                 *)
LEMMA LifeMoves ==
  ASSUME IInv, OwnInv, [Next]_vars, NEW n \in Node, life'[n] # life[n]
  PROVE  \/ /\ life[n] = "unborn" /\ life'[n] = "live"
            /\ n \in Child /\ \E t \in Thread : NewChild(t, n)
         \/ /\ life[n] = "live" /\ life'[n] = "dropping"
            /\ \E t \in Thread : Release(t) /\ Head(agenda[t]).node = n
                                 /\ Then(t, Collect(n))
         \/ /\ life[n] = "dropping" /\ life'[n] = "gone"
            /\ \E t \in Thread : Deregister(t) /\ Head(agenda[t]).node = n
<1>0. life \in [Node -> {"unborn", "live", "dropping", "gone"}]
  BY SMTT(60) DEF IInv, OwnerTypes
<1>1. ASSUME NEW t \in Thread, Walk(t) PROVE FALSE
  BY <1>1 DEF Walk, Guarded, ArriveShard, ArriveNode, CasShard, CasNode, DepartShard,
              Flush, DepartNode, DepartNotify, Unarrive, owners
<1>2. ASSUME NEW k \in Node, Poll(k) PROVE FALSE
  BY <1>2 DEF Poll
<1>3. ASSUME NEW t \in Thread, Call(t)
      PROVE  life[n] = "unborn" /\ life'[n] = "live" /\ n \in Child /\ NewChild(t, n)
  <2>1. PICK m \in Child : NewChild(t, m)
    BY <1>3 DEF Call, NewGuard, ForShard, CloneGuard, DropGuard, CloneSwansong,
                DropSwansong, AwaitSwansong, ShutDown, DropFuture, BlockOnShutdown, owners
  <2>2. m = n
    BY <1>0, <2>1 DEF NewChild
  <2> QED
    BY <1>0, <2>1, <2>2 DEF NewChild
<1>4. ASSUME NEW t \in Thread, Proceed(t)
      PROVE  \/ /\ life[n] = "live" /\ life'[n] = "dropping"
                /\ Release(t) /\ Head(agenda[t]).node = n /\ Then(t, Collect(n))
             \/ /\ life[n] = "dropping" /\ life'[n] = "gone"
                /\ Deregister(t) /\ Head(agenda[t]).node = n
  <2>1. Release(t) \/ Deregister(t)
    BY <1>4 DEF Proceed, Stop, Latch, Snapshot, StopKids, StopNotify, Register, Check,
                Adopt, Watch, GuardReturned, Upgrade, Unblock, owners
  <2>2. CASE Release(t)
    <3>1. Doing(t, "release") /\ life' = [life EXCEPT ![Head(agenda[t]).node] = "dropping"]
          /\ Then(t, Collect(Head(agenda[t]).node))
      BY <2>2 DEF Release
    <3>2. JobOK(agenda[t][1]) /\ Head(agenda[t]) = agenda[t][1] /\ agenda[t][1].do = "release"
      BY <3>1, DoingJob
    <3>3. Head(agenda[t]).node = n
      BY <1>0, <3>1
    <3> QED
      BY <1>0, <2>2, <3>1, <3>2, <3>3 DEF JobOK
  <2>3. CASE Deregister(t)
    <3>1. Doing(t, "deregister") /\ life' = [life EXCEPT ![Head(agenda[t]).node] = "gone"]
      BY <2>3 DEF Deregister
    <3>2. JobOK(agenda[t][1]) /\ Head(agenda[t]) = agenda[t][1] /\ agenda[t][1].do = "deregister"
      BY <3>1, DoingJob
    <3>3. Head(agenda[t]).node = n
      BY <1>0, <3>1
    <3> QED
      BY <1>0, <2>3, <3>1, <3>2, <3>3 DEF JobOK
  <2> QED
    BY <2>1, <2>2, <2>3
<1> QED
  BY <1>1, <1>2, <1>3, <1>4 DEF Next, vars, owners

(* Only the words of a node that exists change; a root that is gone can    *)
(* still have guards, which change its shards.                             *)
LEMMA WordsInUse ==
  ASSUME IInv, OwnInv, [Next]_vars, NEW n \in Node
  PROVE  /\ nodeState'[n] # nodeState[n] => life[n] \in {"live", "dropping"}
         /\ n # Root => \A s \in Shards(n) : shardState'[s] # shardState[s] =>
              life[n] \in {"live", "dropping"}
<1>1. ASSUME NEW t \in Thread, pc[t] \notin {"idle", "guarded"}
      PROVE  life[Under(cell[t])] \in {"live", "dropping"}
  BY <1>1, UnusedNow DEF NoUseAfterCollection
<1>2. ASSUME NEW t \in Thread, NEW do, Doing(t, do), do \in Using
      PROVE  life[Head(agenda[t]).node] \in {"live", "dropping"}
  BY <1>2, DoingJob, UnusedNow DEF NoUseAfterCollection
<1>3. Under(n) = n
  BY UnderNode DEF Cell
<1>4. ASSUME nodeState'[n] # nodeState[n]
      PROVE  life[n] \in {"live", "dropping"}
  <2>1. NodeUp(n) \/ NodeDown(n) \/ NodeOut(n) \/ NodeStop(n)
    BY <1>4, NodeMoves
  <2>2. CASE NodeUp(n) \/ NodeDown(n) \/ NodeOut(n)
    BY <1>1, <1>3, <2>2 DEF NodeUp, NodeDown, NodeOut
  <2>3. CASE NodeStop(n)
    BY <1>2, <2>3 DEF NodeStop, Stop, Using
  <2> QED
    BY <2>1, <2>2, <2>3
<1>5. ASSUME n # Root, NEW s \in Shards(n), shardState'[s] # shardState[s]
      PROVE  life[n] \in {"live", "dropping"}
  <2>0. s \in Shard /\ NodeOf[s] = n /\ Under(s) = n
    BY <1>5, UnderNode DEF Shards, Cell
  <2>1. ShardUp(s) \/ ShardDown(s) \/ ShardOut(s) \/ ShardLatch(s)
    BY <1>5, <2>0, ShardMoves
  <2>2. ASSUME NEW g \in Guard, home[g] = s PROVE life[n] = "live"
    BY <1>5, <2>0, <2>2, ShardAssumption DEF OwnInv, KeptAlive
  <2>3. CASE ShardUp(s) \/ ShardDown(s) \/ ShardOut(s)
    BY <1>1, <1>5, <2>0, <2>2, <2>3 DEF ShardUp, ShardDown, ShardOut
  <2>4. CASE ShardLatch(s)
    <3>1. PICK t \in Thread : Doing(t, "latch") /\ s \in Head(agenda[t]).shards
      BY <2>4 DEF ShardLatch
    <3>2. JobOK(agenda[t][1]) /\ Head(agenda[t]) = agenda[t][1]
      BY <3>1, DoingJob
    <3>3. Head(agenda[t]).node = n
      BY <2>0, <3>1, <3>2 DEF JobOK, Shards
    <3> QED
      BY <1>2, <3>1, <3>3 DEF Using
  <2> QED
    BY <2>1, <2>3, <2>4
<1> QED
  BY <1>4, <1>5

-----------------------------------------------------------------------------
(* The invariant.                                                          *)

(* A node that will not count again once it is empty.                      *)
Quitting(n) == Stopped(n) \/ life[n] \in {"dropping", "gone"}

(* A shard is latched only because its node quits.                         *)
StopCause ==
  /\ \A s \in Shard : STOPPED \in shardState[s].flags => Quitting(NodeOf[s])
  /\ \A t \in Thread : \A i \in 1 .. Len(agenda[t]) :
       agenda[t][i].do = "latch" => Quitting(agenda[t][i].node)

(* An arrive loop has not seen more of a shard's stop bit than there is.   *)
SavedStops ==
  \A t \in Thread, s \in Shard :
    STOPPED \in saved[t][s] => STOPPED \in shardState[s].flags

(* A shard departs from a node that quits, or leaves another one behind.   *)
DepartCause ==
  \A t \in Thread : pc[t] = "departNode" =>
    Quitting(cell[t]) \/ \E s \in Shards(cell[t]) : ARRIVED \in shardState[s].flags

(* A child that counts nothing but is still arrived quits, and a thread    *)
(* is about to give the arrival up with the word as it is.                 *)
EmptyDue ==
  \A n \in Child : IsZero(n) /\ ARRIVED \in nodeState[n].flags =>
    /\ Quitting(n)
    /\ \E t \in Thread : /\ pc[t] \in {"notify", "unarrive"} /\ cell[t] = n
                         /\ seen[t] = nodeState[n]

(* A latched shard of a child that counts nothing is about to be flushed.  *)
FlushDue ==
  \A s \in Shard : NodeOf[s] # Root /\ shardState[s] = StillArrived => FlushAt(s)

(* The drop of a node: latch its shards, one by one, then leave the        *)
(* registry.                                                               *)
Collecting(t, n) ==
  \/ /\ 1 <= Len(agenda[t]) /\ agenda[t][1].do = "deregister" /\ agenda[t][1].node = n
     /\ \A s \in Shards(n) : STOPPED \in shardState[s].flags
  \/ /\ 2 <= Len(agenda[t]) /\ agenda[t][1].do = "latch" /\ agenda[t][1].node = n
     /\ agenda[t][2].do = "deregister" /\ agenda[t][2].node = n
     /\ \A s \in Shards(n) :
          STOPPED \in shardState[s].flags \/ s \in agenda[t][1].shards
DropProgress ==
  \A n \in Node : life[n] = "dropping" => \E t \in Thread : Collecting(t, n)

(* Nothing is known of a child that is not born, and none of its parent's  *)
(* shards lists a child that does not exist.                               *)
Absent ==
  \A n \in Child :
    /\ life[n] = "unborn" => nodeState[n] = EmptyNode({})
    /\ life[n] \notin {"live", "dropping"} => registered[n] = NoShard

DepartInv ==
  /\ StopCause /\ SavedStops /\ DepartCause /\ EmptyDue /\ FlushDue
  /\ DropProgress /\ Absent /\ CollectedDeparted

(* A node that quits keeps quitting.                                       *)
LEMMA QuittingStays ==
  ASSUME IInv, OwnInv, [Next]_vars, NEW n \in Node, Quitting(n)
  PROVE  Quitting(n)'
<1>1. CASE Stopped(n)
  <2>1. CASE Next
    BY <1>1, <2>1, NextLatches DEF Latched, Quitting, Stopped
  <2>2. CASE UNCHANGED vars
    BY <1>1, <2>2 DEF vars, words, Quitting, Stopped
  <2> QED
    BY <2>1, <2>2
<1>2. CASE life[n] \in {"dropping", "gone"}
  <2>1. life'[n] \in {"dropping", "gone"}
    BY <1>2, LifeMoves
  <2> QED
    BY <2>1 DEF Quitting
<1> QED
  BY <1>1, <1>2 DEF Quitting

(* A step loses a stop bit of no shard, and an arrival only by a flush.    *)
LEMMA FlagsStay ==
  ASSUME IInv, [Next]_vars, NEW s \in Shard
  PROVE  /\ STOPPED \in shardState[s].flags => STOPPED \in shardState'[s].flags
         /\ ARRIVED \in shardState[s].flags =>
              ARRIVED \in shardState'[s].flags \/ STOPPED \in shardState[s].flags
         /\ STOPPED \in shardState'[s].flags =>
              STOPPED \in shardState[s].flags \/ ShardLatch(s)
<1>0. shardState[s] \in ShardWord
  BY DEF IInv, CoreInv, WordTypes
<1>1. StillArrived.flags = {ARRIVED, STOPPED} /\ Flushed.flags = {STOPPED}
  BY DEF StillArrived, Flushed, EmptyShard
<1>2. CASE shardState'[s] = shardState[s]
  BY <1>2
<1>3. CASE ShardUp(s)
  BY <1>3 DEF ShardUp, ARRIVED, STOPPED
<1>4. CASE ShardDown(s)
  BY <1>4 DEF ShardDown
<1>5. CASE ShardOut(s)
  BY <1>1, <1>5 DEF ShardOut
<1>6. CASE ShardLatch(s)
  <2>1. shardState'[s].flags = shardState[s].flags \cup {STOPPED}
    BY <1>0, <1>6 DEF ShardLatch, ShardWord
  <2> QED
    BY <1>6, <2>1
<1> QED
  BY <1>2, <1>3, <1>4, <1>5, <1>6, ShardMoves

(* An arrive loop records the flags it has just loaded.                    *)
LEMMA SavedMoves ==
  ASSUME IInv, OwnInv, [Next]_vars, NEW t \in Thread, NEW s \in Shard
  PROVE  saved'[t][s] \subseteq saved[t][s] \cup shardState[s].flags
<1>0. WalkTypes
  BY DEF IInv, CoreInv
<1>1. CASE SameRow(t) \/ Starts(t)
  BY <1>1 DEF SameRow, Starts
<1>2. CASE Walk(t)
  <2>1. CASE saved' = saved
    BY <2>1
  <2>2. ASSUME NEW c \in Cell, NEW f \in SUBSET Flags, saved' = [saved EXCEPT ![t][c] = f],
               c # s \/ f \subseteq shardState[s].flags
        PROVE  saved'[t][s] \subseteq saved[t][s] \cup shardState[s].flags
    <3>1. s \in Cell
      BY DEF Cell
    <3> QED
      BY <1>0, <2>2, <3>1, SavedUpdate
  <2>3. CASE ArriveShard(t)
    <3>1. cell[t] \in Shard /\ shardState[cell[t]].flags \in SUBSET Flags
      BY <2>3 DEF ArriveShard, At, IInv, CoreInv, ControlOK, WalkOK, OnTrack, ShardLabel,
                  WordTypes, ShardWord
    <3> QED
      BY <2>1, <2>2, <2>3, <3>1 DEF ArriveShard, Cell
  <2>4. CASE ArriveNode(t)
    <3>1. cell[t] \in Node /\ cell[t] # s /\ nodeState[cell[t]].flags \in SUBSET Flags
      BY <2>4, ThreadAssumption
         DEF ArriveNode, At, IInv, CoreInv, ControlOK, WalkOK, OnTrack, NodeLabel,
             WordTypes, NodeWord
    <3> QED
      BY <2>1, <2>2, <2>4, <3>1 DEF ArriveNode, Cell
  <2>5. CASE CasShard(t)
    <3>1. cell[t] \in Shard /\ shardState[cell[t]].flags \in SUBSET Flags
      BY <2>5 DEF CasShard, At, IInv, CoreInv, ControlOK, WalkOK, OnTrack, ShardLabel,
                  WordTypes, ShardWord
    <3>2. {} \in SUBSET Flags /\ {} \subseteq shardState[s].flags
      OBVIOUS
    <3>3. \/ saved' = [saved EXCEPT ![t][cell[t]] = {}]
          \/ saved' = [saved EXCEPT ![t][cell[t]] = shardState[cell[t]].flags]
      BY <2>5 DEF CasShard
    <3> QED
      BY <2>2, <3>1, <3>2, <3>3 DEF Cell
  <2>6. CASE CasNode(t)
    <3>1. cell[t] \in Node /\ cell[t] # s /\ nodeState[cell[t]].flags \in SUBSET Flags
      BY <2>6, ThreadAssumption
         DEF CasNode, At, IInv, CoreInv, ControlOK, WalkOK, OnTrack, NodeLabel,
             WordTypes, NodeWord
    <3>2. {} \in SUBSET Flags
      OBVIOUS
    <3>3. \/ saved' = [saved EXCEPT ![t][cell[t]] = {}]
          \/ saved' = [saved EXCEPT ![t][cell[t]] = nodeState[cell[t]].flags]
      BY <2>6 DEF CasNode
    <3> QED
      BY <2>2, <3>1, <3>2, <3>3 DEF Cell
  <2>7. CASE \/ Guarded(t) \/ DepartShard(t) \/ Flush(t) \/ DepartNode(t)
             \/ DepartNotify(t) \/ Unarrive(t)
    BY <2>1, <2>7 DEF Guarded, DepartShard, Flush, DepartNode, DepartNotify, Unarrive
  <2> QED
    BY <1>2, <2>3, <2>4, <2>5, <2>6, <2>7 DEF Walk
<1> QED
  BY <1>1, <1>2, StepRows

(* SavedStops is kept.                                                     *)
LEMMA SavedStopsNext ==
  ASSUME IInv, OwnInv, SavedStops, [Next]_vars
  PROVE  SavedStops'
<1> SUFFICES ASSUME NEW t \in Thread, NEW s \in Shard, STOPPED \in saved'[t][s]
             PROVE  STOPPED \in shardState'[s].flags
  BY DEF SavedStops
<1>1. STOPPED \in saved[t][s] \/ STOPPED \in shardState[s].flags
  BY SavedMoves
<1>2. STOPPED \in shardState[s].flags
  BY <1>1 DEF SavedStops
<1> QED
  BY <1>2, FlagsStay

-----------------------------------------------------------------------------
(* Where the tasks of an agenda come from.                                 *)

(* The tasks that an operation of a client begins with.                    *)
BegunTask(t, x) ==
  /\ x.kids = {}
  /\ x.do \in {"stop", "watch", "block", "register", "check", "adopt", "return",
               "upgrade", "release"}
  /\ x.do = "stop" =>
       ShutDown(t, x.node) \/ (x.node = Root /\ SwansongCount(Root) = 1 /\ DropHandle(t, Root))
  /\ x.do = "watch" => ShutDown(t, x.node)
  /\ x.do = "block" => BlockOnShutdown(t, x.node)
  /\ x.do \in {"register", "check", "adopt"} => NewChild(t, x.node)

BegunTasks(t, q) ==
  /\ q \in Seq(Task) /\ Begin(t, q)
  /\ \A x \in Task : (\E i \in 1 .. Len(q) : q[i] = x) => BegunTask(t, x)

(* An operation that begins with at most three tasks.                      *)
LEMMA BegunNone ==
  ASSUME NEW t, Begin(t, <<>>)
  PROVE  \E q : BegunTasks(t, q)
<1> DEFINE q == <<>>
<1>1. q \in Seq(Task) /\ Begin(t, q) /\ \A i \in 1 .. Len(q) : FALSE
  OBVIOUS
<1> HIDE DEF q
<1>2. BegunTasks(t, q)
  BY <1>1 DEF BegunTasks
<1> QED
  BY <1>2

(* One.                                                                    *)
LEMMA BegunOne ==
  ASSUME NEW t, NEW x \in Task, Begin(t, <<x>>), \A w \in Task : w = x => BegunTask(t, w)
  PROVE  \E q : BegunTasks(t, q)
<1> DEFINE q == <<x>>
<1>1. q \in Seq(Task) /\ Begin(t, q) /\ \A i \in 1 .. Len(q) : q[i] = x
  OBVIOUS
<1> HIDE DEF q
<1>2. BegunTasks(t, q)
  BY <1>1 DEF BegunTasks
<1> QED
  BY <1>2

(* Two.                                                                    *)
LEMMA BegunTwo ==
  ASSUME NEW t, NEW x \in Task, NEW y \in Task, Begin(t, <<x, y>>),
         \A w \in Task : w = x \/ w = y => BegunTask(t, w)
  PROVE  \E q : BegunTasks(t, q)
<1> DEFINE q == <<x, y>>
<1>1. q \in Seq(Task) /\ Begin(t, q) /\ Len(q) = 2 /\ q[1] = x /\ q[2] = y
  OBVIOUS
<1> HIDE DEF q
<1>2. \A i \in 1 .. Len(q) : i = 1 \/ i = 2
  BY <1>1
<1>3. BegunTasks(t, q)
  BY <1>1, <1>2 DEF BegunTasks
<1> QED
  BY <1>3

(* Dropping a handle.                                                      *)
LEMMA HandleBegins ==
  ASSUME NEW t \in Thread, NEW n \in Node, DropHandle(t, n)
  PROVE  \E q : BegunTasks(t, q)
<1> DEFINE x == TaskOn("stop", n)
           y == TaskOn("release", n)
<1>1. /\ DropTasks(n) = <<y>> \/ DropTasks(n) = <<x, y>>
      /\ x \in Task /\ x.do = "stop" /\ x.node = n /\ x.kids = {}
      /\ y \in Task /\ y.do = "release" /\ y.node = n /\ y.kids = {}
  BY DropJobs
<1>2. Begin(t, DropTasks(n))
  BY DEF DropHandle
<1>3. CASE n = Root /\ SwansongCount(Root) = 1
  <2> HIDE DEF x, y
  <2>1. \A w \in Task : w = x \/ w = y => BegunTask(t, w)
    BY <1>1, <1>3 DEF BegunTask
  <2>2. CASE DropTasks(n) = <<y>>
    <3>1. Begin(t, <<y>>)
      BY <1>2, <2>2
    <3> QED
      BY <1>1, <2>1, <3>1, BegunOne
  <2>3. CASE DropTasks(n) = <<x, y>>
    <3>1. Begin(t, <<x, y>>)
      BY <1>2, <2>3
    <3> QED
      BY <1>1, <2>1, <3>1, BegunTwo
  <2> QED
    BY <1>1, <2>2, <2>3
<1>4. CASE ~(n = Root /\ SwansongCount(Root) = 1)
  <2>1. DropTasks(n) = <<>> \o <<y>>
    BY <1>4 DEF DropTasks
  <2>2. <<>> \o <<y>> = <<y>>
    BY <1>1, JoinTasks
  <2> HIDE DEF x, y
  <2>3. Begin(t, <<y>>)
    BY <1>2, <2>1, <2>2
  <2>4. \A w \in Task : w = y => BegunTask(t, w)
    BY <1>1 DEF BegunTask
  <2> QED
    BY <1>1, <2>3, <2>4, BegunOne
<1> QED
  BY <1>3, <1>4

(* Swansong::child.                                                        *)
LEMMA ChildBegins ==
  ASSUME NEW t \in Thread, NEW m \in Child, NewChild(t, m)
  PROVE  \E q : BegunTasks(t, q)
<1> DEFINE x == TaskOn("register", m)
           y == TaskOn("check", m)
           z == TaskOn("adopt", m)
           q == <<x, y, z>>
<1>1. m \in Node /\ m # Root /\ Begin(t, q)
  BY DEF NewChild, Child
<1>2. x \in Task /\ x.do = "register" /\ x.node = m /\ x.kids = {}
  BY <1>1, FreshJob DEF TaskName
<1>3. y \in Task /\ y.do = "check" /\ y.node = m /\ y.kids = {}
  BY <1>1, FreshJob DEF TaskName
<1>4. z \in Task /\ z.do = "adopt" /\ z.node = m /\ z.kids = {}
  BY <1>1, FreshJob DEF TaskName
<1> HIDE DEF x, y, z
<1>5. q \in Seq(Task) /\ Len(q) = 3 /\ q[1] = x /\ q[2] = y /\ q[3] = z
  BY <1>2, <1>3, <1>4
<1> HIDE DEF q
<1>6. \A i \in 1 .. Len(q) : i = 1 \/ i = 2 \/ i = 3
  BY <1>5
<1>7. \A w \in Task : w = x \/ w = y \/ w = z => BegunTask(t, w)
  BY <1>2, <1>3, <1>4 DEF BegunTask
<1>8. BegunTasks(t, q)
  BY <1>1, <1>5, <1>6, <1>7 DEF BegunTasks
<1> QED
  BY <1>8

(* Every operation begins with such tasks, or leaves the agenda alone.     *)
LEMMA CallBegins ==
  ASSUME IInv, NEW t \in Thread, Call(t)
  PROVE  agenda' = agenda \/ \E q : BegunTasks(t, q)
<1>1. ASSUME NEW n \in Node, NEW do \in {"return", "release"}, Begin(t, <<TaskOn(do, n)>>)
      PROVE  \E q : BegunTasks(t, q)
  <2> DEFINE x == TaskOn(do, n)
  <2>1. x \in Task /\ x.do = do /\ x.kids = {}
    BY <1>1, FreshJob DEF TaskName
  <2>2. Begin(t, <<x>>)
    BY <1>1
  <2> HIDE DEF x
  <2>3. \A w \in Task : w = x => BegunTask(t, w)
    BY <2>1 DEF BegunTask
  <2> QED
    BY <2>1, <2>2, <2>3, BegunOne
<1>2. ASSUME NEW n \in Node, NEW g \in Guard, NewGuard(t, n, g)
      PROVE  \E q : BegunTasks(t, q)
  BY <1>1, <1>2 DEF NewGuard
<1>3. ASSUME NEW g \in Guard, DropGuard(t, g), home[g] \in Shard
      PROVE  \E q : BegunTasks(t, q)
  <2> DEFINE x == [TaskOn("upgrade", Root) EXCEPT !.shards = {home[g]}]
  <2>1. x \in Task /\ x.do = "upgrade" /\ x.kids = {}
    BY <1>3, TreeAssumption DEF TaskOn, Task, TaskName, Child
  <2>2. NodeOf[home[g]] \in Node
    BY <1>3, ShardAssumption
  <2>3. \/ Begin(t, <<TaskOn("release", NodeOf[home[g]])>>)
        \/ Begin(t, <<x>>) \/ Begin(t, <<>>)
    BY <1>3 DEF DropGuard
  <2> HIDE DEF x
  <2>4. \A w \in Task : w = x => BegunTask(t, w)
    BY <2>1 DEF BegunTask
  <2>5. CASE Begin(t, <<x>>)
    BY <2>1, <2>4, <2>5, BegunOne
  <2>6. CASE Begin(t, <<>>)
    BY <2>6, BegunNone
  <2> QED
    BY <1>1, <2>2, <2>3, <2>5, <2>6
<1>4. ASSUME NEW n \in Node, BlockOnShutdown(t, n)
      PROVE  \E q : BegunTasks(t, q)
  <2> DEFINE x == TaskOn("block", n)
  <2>1. x \in Task /\ x.do = "block" /\ x.node = n /\ x.kids = {}
    BY FreshJob DEF TaskName
  <2>2. Begin(t, <<x>>)
    BY <1>4 DEF BlockOnShutdown
  <2> HIDE DEF x
  <2>3. \A w \in Task : w = x => BegunTask(t, w)
    BY <1>4, <2>1 DEF BegunTask
  <2> QED
    BY <2>1, <2>2, <2>3, BegunOne
<1>5. ASSUME NEW n \in Node, ShutDown(t, n)
      PROVE  \E q : BegunTasks(t, q)
  <2> DEFINE x == TaskOn("stop", n)
             y == TaskOn("watch", n)
  <2>1. /\ x \in Task /\ x.do = "stop" /\ x.node = n /\ x.kids = {}
        /\ y \in Task /\ y.do = "watch" /\ y.node = n /\ y.kids = {}
    BY FreshJob DEF TaskName
  <2>2. Begin(t, <<x, y>>)
    BY <1>5 DEF ShutDown
  <2> HIDE DEF x, y
  <2>3. \A w \in Task : w = x \/ w = y => BegunTask(t, w)
    BY <1>5, <2>1 DEF BegunTask
  <2> QED
    BY <2>1, <2>2, <2>3, BegunTwo
<1>6. ASSUME NEW n \in Node, DropFuture(t, n)
      PROVE  \E q : BegunTasks(t, q)
  BY <1>1, <1>6 DEF DropFuture
<1>7. ASSUME NEW n \in Node, DropSwansong(t, n) \/ AwaitSwansong(t, n)
      PROVE  \E q : BegunTasks(t, q)
  BY <1>7, HandleBegins DEF DropSwansong, AwaitSwansong
<1>8. ASSUME NEW g \in Guard, DropGuard(t, g)
      PROVE  home[g] \in Shard
  BY <1>8 DEF DropGuard, IInv, CoreInv, WordTypes
<1>9. CASE \/ \E s \in Shard, g \in Guard : ForShard(t, s, g)
           \/ \E g, g2 \in Guard : CloneGuard(t, g, g2)
           \/ \E n \in Node : CloneSwansong(t, n)
  BY <1>9 DEF ForShard, CloneGuard, CloneSwansong
<1> QED
  BY <1>2, <1>3, <1>4, <1>5, <1>6, <1>7, <1>8, <1>9, ChildBegins DEF Call

(* The origin of a task: it was there, or the head of the agenda made it,  *)
(* or an operation began with it.                                          *)
LEMMA TaskOrigin ==
  ASSUME IInv, OwnInv, [Next]_vars, NEW u \in Thread, NEW j \in 1 .. Len(agenda'[u])
  PROVE  /\ agenda'[u] \in Seq(Task) /\ agenda'[u][j] \in Task
         /\ \/ \E i \in 1 .. Len(agenda[u]) :
                 agenda[u][i] = agenda'[u][j] /\ (i # 1 \/ ~Proceed(u))
            \/ Proceed(u) /\ agenda[u] # <<>> /\ FreshTask(u, agenda'[u][j])
            \/ agenda[u] = <<>> /\ BegunTask(u, agenda'[u][j])
<1>0. agenda \in [Thread -> Seq(Task)] /\ agenda' \in [Thread -> Seq(Task)]
  BY OwnersNext DEF IInv, OwnerTypes
<1>1. agenda'[u] \in Seq(Task) /\ agenda'[u][j] \in Task
  <2>1. agenda'[u] \in Seq(Task)
    BY <1>0
  <2> QED
    BY <2>1
<1>2. CASE Proceed(u)
  <2>1. agenda[u] # <<>> /\ \E q : FreshTasks(u, q)
    BY <1>2, ProceedThen
  <2>2. PICK q : FreshTasks(u, q)
    BY <2>1
  <2>3. q \in Seq(Task) /\ Then(u, q)
    BY <2>2 DEF FreshTasks
  <2>4. CASE j \in 1 .. Len(q) /\ agenda'[u][j] = q[j]
    BY <1>1, <1>2, <2>1, <2>2, <2>4 DEF FreshTasks
  <2>5. CASE \E i \in 2 .. Len(agenda[u]) : agenda'[u][j] = agenda[u][i]
    <3>1. PICK i \in 2 .. Len(agenda[u]) : agenda'[u][j] = agenda[u][i]
      BY <2>5
    <3>2. i \in 1 .. Len(agenda[u]) /\ i # 1
      OBVIOUS
    <3> QED
      BY <1>1, <3>1, <3>2
  <2> QED
    BY <1>0, <2>1, <2>3, <2>4, <2>5, ThenPositions
<1>3. CASE agenda'[u] = agenda[u] /\ ~Proceed(u)
  BY <1>1, <1>3
<1>4. CASE agenda'[u] # agenda[u] /\ ~Proceed(u)
  <2>1. agenda[u] = <<>>
    BY <1>4, StepRows
  <2>2. CASE Call(u)
    <3>1. PICK q : BegunTasks(u, q)
      BY <1>4, <2>2, CallBegins
    <3>2. q \in Seq(Task) /\ agenda'[u] = q
      BY <1>0, <3>1 DEF BegunTasks, Begin
    <3> QED
      BY <1>1, <2>1, <3>1, <3>2 DEF BegunTasks
  <2>3. CASE Walk(u)
    <3>1. Guarded(u)
      BY <1>4, <2>3 DEF Walk, ArriveShard, ArriveNode, CasShard, CasNode, DepartShard,
                  Flush, DepartNode, DepartNotify, Unarrive
    <3>2. cell[u] \in Node
      BY <3>1 DEF Guarded, At, IInv, CoreInv, ControlOK, WalkOK, OnTrack, NodeLabel
    <3> DEFINE x == TaskOn("release", cell[u])
               q == <<x>>
    <3>3. x \in Task /\ x.do = "release" /\ x.kids = {}
      BY <3>2, FreshJob DEF TaskName
    <3>4. Begin(u, q)
      BY <1>4, <3>1 DEF Guarded
    <3> HIDE DEF x
    <3>5. q \in Seq(Task) /\ \A i \in 1 .. Len(q) : q[i] = x
      BY <3>3
    <3> HIDE DEF q
    <3>6. agenda'[u] = q
      BY <1>0, <3>4, <3>5, BeginJobs
    <3>7. agenda'[u][j] = x
      BY <3>5, <3>6
    <3> QED
      BY <1>1, <2>1, <3>3, <3>7 DEF BegunTask
  <2>4. CASE \E t \in Thread \ {u} : Walk(t) \/ Proceed(t) \/ Call(t)
    BY <1>4, <2>4, WalkRows, ProceedRows, CallRows DEF Rest
  <2>5. CASE (\E n \in Node : Poll(n)) \/ UNCHANGED vars
    BY <1>4, <2>5 DEF Poll, vars
  <2> QED
    BY <1>4, <2>2, <2>3, <2>4, <2>5 DEF Next
<1> QED
  BY <1>2, <1>3, <1>4

-----------------------------------------------------------------------------
(* Each part of the invariant is kept.                                     *)

(* StopCause.                                                              *)
LEMMA StopCauseNext ==
  ASSUME IInv, OwnInv, StopCause, [Next]_vars
  PROVE  StopCause'
<1>1. ASSUME NEW t \in Thread, NEW i \in 1 .. Len(agenda[t]), agenda[t][i].do = "latch"
      PROVE  /\ agenda[t][i].node \in Node /\ Quitting(agenda[t][i].node)
             /\ \A n \in Node : n = agenda[t][i].node => Quitting(n)'
  <2>1. agenda[t][i].node \in Node /\ Quitting(agenda[t][i].node)
    BY <1>1, JobType DEF StopCause
  <2>2. \A n \in Node : n = agenda[t][i].node => Quitting(n)'
    BY <2>1, QuittingStays
  <2> QED
    BY <2>1, <2>2
<1>2. ASSUME NEW s \in Shard, STOPPED \in shardState'[s].flags
      PROVE  Quitting(NodeOf[s])'
  <2>0. NodeOf[s] \in Node
    BY ShardAssumption
  <2>1. CASE STOPPED \in shardState[s].flags
    BY <2>0, <2>1, QuittingStays DEF StopCause
  <2>2. CASE ShardLatch(s)
    <3>1. PICK t \in Thread : Doing(t, "latch") /\ s \in Head(agenda[t]).shards
      BY <2>2 DEF ShardLatch
    <3>2. /\ 1 \in 1 .. Len(agenda[t]) /\ Head(agenda[t]) = agenda[t][1]
          /\ JobOK(agenda[t][1]) /\ agenda[t][1].do = "latch"
      BY <3>1, DoingJob
    <3>3. agenda[t][1].node = NodeOf[s]
      BY <3>1, <3>2 DEF JobOK, Shards
    <3>4. Quitting(NodeOf[s])
      BY <1>1, <3>2, <3>3
    <3> QED
      BY <2>0, <3>4, QuittingStays
  <2> QED
    BY <1>2, <2>1, <2>2, FlagsStay
<1>3. ASSUME NEW t \in Thread, NEW j \in 1 .. Len(agenda'[t]), agenda'[t][j].do = "latch"
      PROVE  Quitting(agenda[t][j].node)'
  <2>1. CASE \E i \in 1 .. Len(agenda[t]) : agenda[t][i] = agenda'[t][j]
    <3>1. PICK i \in 1 .. Len(agenda[t]) : agenda[t][i] = agenda'[t][j]
      BY <2>1
    <3> QED
      BY <1>1, <1>3, <3>1 DEF Quitting, Stopped
  <2>2. CASE Proceed(t) /\ agenda[t] # <<>> /\ FreshTask(t, agenda'[t][j])
    <3>0. Head(agenda[t]).node \in Node /\ Head(agenda[t]) = agenda[t][1]
          /\ 1 \in 1 .. Len(agenda[t])
      <4>1. agenda[t] \in Seq(Task)
        BY DEF IInv, OwnerTypes
      <4>2. 1 \in 1 .. Len(agenda[t]) /\ Head(agenda[t]) = agenda[t][1]
        BY <2>2, <4>1
      <4> QED
        BY <4>2, JobType
    <3>1. /\ agenda'[t][j].node = Head(agenda[t]).node
          /\ Stop(t) \/ Latch(t) \/ life'[Head(agenda[t]).node] = "dropping"
      BY <1>3, <2>2 DEF FreshTask
    <3>2. CASE Stop(t)
      <4>1. nodeState \in [Node -> NodeWord]
        BY DEF IInv, CoreInv, WordTypes
      <4>2. STOPPED \in nodeState'[Head(agenda[t]).node].flags
        BY <3>0, <3>2, <4>1 DEF Stop, NodeWord
      <4> QED
        BY <3>1, <4>2 DEF Quitting, Stopped
    <3>3. CASE Latch(t)
      <4>1. agenda[t][1].do = "latch"
        BY <3>0, <3>3 DEF Latch, Doing
      <4>2. life'[agenda[t][1].node] \in {"dropping", "gone"} \/
              STOPPED \in nodeState'[agenda[t][1].node].flags
        BY <1>1, <3>0, <4>1 DEF Quitting, Stopped
      <4> QED
        BY <3>0, <3>1, <4>2 DEF Quitting, Stopped
    <3>4. CASE life'[Head(agenda[t]).node] = "dropping"
      BY <3>1, <3>4 DEF Quitting
    <3> QED
      BY <3>1, <3>2, <3>3, <3>4
  <2>3. CASE BegunTask(t, agenda'[t][j])
    BY <1>3, <2>3 DEF BegunTask
  <2> QED
    BY <2>1, <2>2, <2>3, TaskOrigin
<1> QED
  BY <1>2, <1>3 DEF StopCause

(* A departure from a node follows a lost arrival of a shard or its flush. *)
LEMMA ToDepartNode ==
  ASSUME IInv, NEW t \in Thread, Walk(t), pc'[t] = "departNode"
  PROVE  /\ cell[t] \in Shard /\ cell'[t] = NodeOf[cell[t]]
         /\ \/ /\ pc[t] = "casShard" /\ shardState' = shardState
               /\ shardState[cell[t]] # EmptyShard(saved[t][cell[t]])
            \/ pc[t] = "flush" /\ shardState[cell[t]] = StillArrived
<1>0. /\ WalkTypes /\ resume[t].pc \notin {"departNode"}
      /\ pc[t] \in ShardLabel => cell[t] \in Shard
  BY DEF IInv, CoreInv, ControlOK, WalkOK, OnTrack
<1>1. ~Return(t)
  BY <1>0 DEF Return, Go, WalkTypes
<1>2. \A label, c : Go(t, label, c) => label = "departNode" /\ cell'[t] = c
  BY <1>0 DEF Go, WalkTypes
<1>3. CasShard(t) \/ Flush(t)
  <2>1. ~Guarded(t)
    BY <1>2 DEF Guarded
  <2>2. ~ArriveShard(t) /\ ~ArriveNode(t)
    BY <1>2 DEF ArriveShard, ArriveNode, Counted
  <2>3. ~CasNode(t)
    BY <1>2 DEF CasNode, TakeBack
  <2>4. ~DepartShard(t) /\ ~DepartNotify(t) /\ ~Unarrive(t)
    BY <1>1, <1>2 DEF DepartShard, DepartNotify, Unarrive
  <2>5. ~DepartNode(t)
    BY <1>1, <1>2 DEF DepartNode, AfterDeparture
  <2> QED
    BY <2>1, <2>2, <2>3, <2>4, <2>5 DEF Walk
<1>4. CASE CasShard(t)
  <2>1. ~Counted(t, cell[t])
    BY <1>2 DEF Counted
  <2> QED
    BY <1>0, <1>2, <1>4, <2>1 DEF CasShard, At, TakeBack, ShardLabel
<1>5. CASE Flush(t)
  BY <1>0, <1>1, <1>2, <1>5 DEF Flush, At, StillArrived, ShardLabel
<1> QED
  BY <1>3, <1>4, <1>5

(* DepartCause.                                                            *)
LEMMA DepartCauseNext ==
  ASSUME IInv, OwnInv, StopCause, SavedStops, DepartCause, [Next]_vars
  PROVE  DepartCause'
<1> SUFFICES ASSUME NEW t \in Thread, pc'[t] = "departNode"
             PROVE  \/ Quitting(cell[t])'
                    \/ \E s \in Shards(cell'[t]) : ARRIVED \in shardState'[s].flags
  BY DEF DepartCause, Shards
<1>1. ASSUME NEW s \in Shard, STOPPED \in shardState[s].flags, cell'[t] = NodeOf[s]
      PROVE  Quitting(cell[t])'
  <2>1. NodeOf[s] \in Node /\ Quitting(NodeOf[s])
    BY <1>1, ShardAssumption DEF StopCause
  <2>2. Quitting(NodeOf[s])'
    BY <2>1, QuittingStays
  <2> QED
    BY <1>1, <2>2 DEF Quitting, Stopped
<1>2. CASE SameRow(t)
  <2>1. pc[t] = "departNode" /\ cell'[t] = cell[t] /\ cell[t] \in Node
    BY <1>2 DEF SameRow, IInv, CoreInv, ControlOK, WalkOK, OnTrack, NodeLabel
  <2>2. CASE Quitting(cell[t])
    <3>1. \A n \in Node : n = cell[t] => Quitting(n)'
      BY <2>2, QuittingStays
    <3> QED
      BY <2>1, <3>1 DEF Quitting, Stopped
  <2>3. CASE \E s \in Shards(cell[t]) : ARRIVED \in shardState[s].flags
    <3>1. PICK s \in Shards(cell[t]) : ARRIVED \in shardState[s].flags
      BY <2>3
    <3>2. s \in Shard /\ NodeOf[s] = cell[t]
      BY DEF Shards
    <3> QED
      BY <1>1, <2>1, <3>1, <3>2, FlagsStay
  <2> QED
    BY <2>1, <2>2, <2>3 DEF DepartCause
<1>3. CASE Walk(t)
  <2>1. /\ cell[t] \in Shard /\ cell'[t] = NodeOf[cell[t]]
        /\ \/ /\ pc[t] = "casShard" /\ shardState' = shardState
              /\ shardState[cell[t]] # EmptyShard(saved[t][cell[t]])
           \/ pc[t] = "flush" /\ shardState[cell[t]] = StillArrived
    BY <1>3, ToDepartNode
  <2>2. CASE shardState[cell[t]] = StillArrived
    <3>1. STOPPED \in shardState[cell[t]].flags
      BY <2>2 DEF StillArrived, EmptyShard
    <3> QED
      BY <1>1, <2>1, <3>1
  <2>3. CASE shardState' = shardState /\ ARRIVED \in shardState[cell[t]].flags
    BY <2>1, <2>3 DEF Shards
  <2>4. CASE /\ shardState[cell[t]] # EmptyShard(saved[t][cell[t]])
             /\ ARRIVED \notin shardState[cell[t]].flags
    <3> DEFINE w == shardState[cell[t]]
    <3>1. w \in ShardWord /\ w.local = 0 /\ w.kids = 0 /\ ARRIVED \notin w.flags
      BY <2>1, <2>4 DEF IInv, CoreInv, WordTypes, CountsExact, UnarrivedEmpty
    <3>2. ARRIVED \notin saved[t][cell[t]] /\ saved[t][cell[t]] \subseteq Flags
          /\ (STOPPED \in saved[t][cell[t]] => STOPPED \in w.flags)
      BY <2>1 DEF IInv, CoreInv, WalkTypes, ControlOK, WalkOK, SavedStops, Cell
    <3> HIDE DEF w
    <3>3. ASSUME STOPPED \notin w.flags
          PROVE  w = EmptyShard(saved[t][cell[t]])
      <4>1. w.flags = {} /\ saved[t][cell[t]] = {}
        BY <3>1, <3>2, <3>3 DEF ShardWord, Flags
      <4>2. w = [flags |-> {}, local |-> 0, kids |-> 0]
        BY <3>1, <4>1 DEF ShardWord
      <4> QED
        BY <4>1, <4>2 DEF EmptyShard
    <3> QED
      BY <1>1, <2>1, <2>4, <3>3 DEF w
  <2> QED
    BY <2>1, <2>2, <2>3, <2>4
<1>4. ~Starts(t)
  BY DEF Starts
<1> QED
  BY <1>2, <1>3, <1>4, StepRows

(* FlushDue.                                                               *)
LEMMA FlushDueNext ==
  ASSUME IInv, OwnInv, FlushDue, [Next]_vars
  PROVE  FlushDue'
<1> SUFFICES ASSUME NEW s \in Shard, NodeOf[s] # Root, shardState'[s] = StillArrived
             PROVE  FlushAt(s)'
  BY DEF FlushDue, StillArrived, EmptyShard
<1>1. /\ StillArrived # Flushed
      /\ StillArrived.local = 0 /\ StillArrived.kids = 0
  <2>1. StillArrived.flags = {ARRIVED, STOPPED} /\ Flushed.flags = {STOPPED}
    BY DEF StillArrived, Flushed, EmptyShard
  <2>2. {ARRIVED, STOPPED} # {STOPPED}
    BY DEF ARRIVED, STOPPED
  <2> QED
    BY <2>1, <2>2 DEF StillArrived, EmptyShard
<1>2. CASE shardState'[s] = shardState[s]
  <2>1. PICK t \in Thread : pc[t] = "flush" /\ cell[t] = s
    BY <1>2 DEF FlushDue, FlushAt
  <2>2. ~Walk(t)
    <3>1. SUFFICES ASSUME Flush(t) PROVE FALSE
      BY <2>1, WalkAction
    <3>2. shardState' = [shardState EXCEPT ![s] = Flushed]
      BY <1>2, <2>1, <3>1 DEF Flush, StillArrived
    <3> QED
      BY <1>1, <3>2 DEF IInv, CoreInv, WordTypes
  <2>3. ~Starts(t)
    BY <2>1 DEF Starts
  <2>4. SameRow(t)
    BY <2>2, <2>3, StepRows
  <2> QED
    BY <2>1, <2>4 DEF SameRow, FlushAt
<1>3. CASE shardState'[s] # shardState[s]
  <2>1. ~ShardUp(s)
    BY <1>1 DEF ShardUp
  <2>2. ~ShardOut(s)
    BY <1>1 DEF ShardOut
  <2>3. CASE ShardDown(s)
    BY <2>3 DEF ShardDown
  <2>4. CASE ShardLatch(s)
    BY <2>4 DEF ShardLatch
  <2> QED
    BY <1>3, <2>1, <2>2, <2>3, <2>4, ShardMoves
<1> QED
  BY <1>2, <1>3

(* What keeps a node that is being dropped is its collection.              *)
LEMMA KeptByCollector ==
  ASSUME IInv, OwnInv, NEW n \in Node, life[n] = "dropping", NEW u \in Thread,
         NEW i \in 1 .. Len(agenda[u]), Keeps(agenda[u][i], n)
  PROVE  agenda[u][i].do = "deregister"
BY DEF OwnInv, AgendaInv, JobsOK, JobOK, KeptAlive, Keeps, Keeping

(* One thread collects a node.                                             *)
LEMMA OneCollector ==
  ASSUME IInv, OwnInv, NEW n \in Node, NEW t \in Thread, Collecting(t, n),
         NEW u \in Thread, NEW i \in 1 .. Len(agenda[u]),
         agenda[u][i].do = "deregister", agenda[u][i].node = n
  PROVE  u = t /\ (i = 1 \/ (i = 2 /\ agenda[t][1].do = "latch"))
<1>0. Len(agenda[t]) \in Nat
  <2>1. agenda[t] \in Seq(Task)
    BY DEF IInv, OwnerTypes
  <2> QED
    BY <2>1
<1>1. CASE 1 <= Len(agenda[t]) /\ agenda[t][1].do = "deregister" /\ agenda[t][1].node = n
  <2>1. 1 \in 1 .. Len(agenda[t])
    BY <1>0, <1>1
  <2> QED
    BY <1>1, <2>1 DEF OwnInv, AgendaInv, CollectedOnce
<1>2. CASE /\ 2 <= Len(agenda[t]) /\ agenda[t][1].do = "latch"
           /\ agenda[t][2].do = "deregister" /\ agenda[t][2].node = n
  <2>1. 2 \in 1 .. Len(agenda[t])
    BY <1>0, <1>2
  <2> QED
    BY <1>2, <2>1 DEF OwnInv, AgendaInv, CollectedOnce
<1> QED
  BY <1>1, <1>2 DEF Collecting

(* Only the thread that collects a node walks there.                       *)
LEMMA OnlyCollector ==
  ASSUME IInv, OwnInv, NEW n \in Node, life[n] = "dropping", NEW t \in Thread,
         Collecting(t, n), NEW u \in Thread, pc[u] \notin {"idle", "guarded"},
         Under(cell[u]) = n
  PROVE  u = t
<1>1. PICK i \in 1 .. Len(agenda[u]) :
        agenda[u][i].do \in Keeping /\ n \in Ancestors(agenda[u][i].node)
  BY DEF OwnInv, WalksInv, WalkKept
<1>2. agenda[u][i].node \in Node /\ life[agenda[u][i].node] \in {"live", "dropping"}
  BY <1>1, JobType, UnusedNow DEF NoUseAfterCollection
<1>3. agenda[u][i].node = n
  BY <1>1, <1>2, LiveAncestors DEF OwnInv
<1>4. agenda[u][i].do = "deregister"
  BY <1>1, <1>3, KeptByCollector DEF Keeps
<1> QED
  BY <1>3, <1>4, OneCollector

(* Nobody stops a node that is being dropped.                              *)
LEMMA StopNotDropping ==
  ASSUME IInv, OwnInv, DropProgress, NEW u \in Thread, NEW i \in 1 .. Len(agenda[u]),
         agenda[u][i].do = "stop"
  PROVE  life[agenda[u][i].node] # "dropping"
<1> DEFINE n == agenda[u][i].node
<1> SUFFICES ASSUME life[n] = "dropping" PROVE FALSE
  OBVIOUS
<1>1. n \in Node
  BY JobType
<1>2. PICK j \in 1 .. Len(agenda[u]) : j > i /\ Keeps(agenda[u][j], n)
  BY DEF OwnInv, AgendaInv, UsesKept, Using
<1>3. PICK t \in Thread : Collecting(t, n)
  BY <1>1 DEF DropProgress
<1> HIDE DEF n
<1>4. agenda[u][j].do = "deregister" /\ agenda[u][j].node = n
  BY <1>1, <1>2, KeptByCollector DEF Keeps
<1>5. u = t /\ (j = 1 \/ (j = 2 /\ agenda[t][1].do = "latch"))
  BY <1>1, <1>3, <1>4, OneCollector
<1>6. i = 1
  BY <1>2, <1>5
<1> QED
  BY <1>2, <1>5, <1>6

(* Shard::stop in the drop of a node: one shard fewer to latch.            *)
LEMMA LatchCollects ==
  ASSUME IInv, OwnInv, NEW n \in Node, NEW t \in Thread, Latch(t),
         2 <= Len(agenda[t]), agenda[t][1].node = n,
         agenda[t][2].do = "deregister", agenda[t][2].node = n,
         \A s \in Shards(n) : STOPPED \in shardState[s].flags \/ s \in agenda[t][1].shards
  PROVE  Collecting(t, n)'
<1>0. /\ agenda \in [Thread -> Seq(Task)] /\ agenda[t] # <<>>
      /\ Head(agenda[t]) = agenda[t][1] /\ agenda[t][1] \in Task
      /\ agenda[t][1].do = "latch" /\ agenda[t][1].shards \subseteq Shard
  BY DoingJob DEF Latch
<1> DEFINE x(s) == [agenda[t][1] EXCEPT !.shards = @ \ {s}]
<1>1. PICK r \in agenda[t][1].shards :
        /\ shardState' = [shardState EXCEPT ![r].flags = @ \cup {STOPPED}]
        /\ Then(t, RestOf(x(r)))
  BY <1>0 DEF Latch
<1> DEFINE y == x(r)
<1>2. /\ y \in Task /\ y.do = "latch" /\ y.node = n
      /\ y.shards = agenda[t][1].shards \ {r}
  BY <1>0 DEF Task
<1>3. Then(t, RestOf(y))
  BY <1>1
<1> HIDE DEF y
<1>4. ASSUME NEW s \in Shards(n)
      PROVE  STOPPED \in shardState'[s].flags \/ s \in y.shards
  <2>1. s \in Shard /\ shardState \in [Shard -> ShardWord] /\ shardState[s] \in ShardWord
    BY DEF Shards, IInv, CoreInv, WordTypes
  <2>2. STOPPED \in shardState[s].flags => STOPPED \in shardState'[s].flags
    BY <1>1, <2>1 DEF ShardWord
  <2>3. STOPPED \in shardState'[r].flags
    BY <1>0, <1>1 DEF IInv, CoreInv, WordTypes, ShardWord
  <2> QED
    BY <1>2, <2>2, <2>3
<1>5. CASE RestOf(y) = <<y>>
  <2> DEFINE q == <<y>>
  <2>1. q \in Seq(Task) /\ Len(q) = 1 /\ q[1] = y /\ Then(t, q)
    BY <1>2, <1>3, <1>5
  <2> HIDE DEF q
  <2>2. /\ Len(agenda[t]) \in Nat \ {0} /\ Len(q) \in Nat
        /\ Len(agenda'[t]) = Len(q) + Len(agenda[t]) - 1
        /\ \A i \in 1 .. Len(q) : agenda'[t][i] = q[i]
        /\ \A i \in 2 .. Len(agenda[t]) : agenda'[t][i - 1 + Len(q)] = agenda[t][i]
    BY <1>0, <2>1, ThenJobs
  <2>3. 1 \in 1 .. Len(q) /\ 2 \in 2 .. Len(agenda[t]) /\ 2 <= Len(agenda'[t])
        /\ 2 - 1 + Len(q) = 2
    BY <2>1, <2>2
  <2>4. agenda'[t][1] = y /\ agenda'[t][2] = agenda[t][2]
    BY <2>1, <2>2, <2>3
  <2> QED
    BY <1>2, <1>4, <2>3, <2>4 DEF Collecting, Shards
<1>6. CASE y.shards = {} /\ RestOf(y) = <<>>
  <2> DEFINE q == <<>>
  <2>1. q \in Seq(Task) /\ Len(q) = 0 /\ Then(t, q)
    BY <1>3, <1>6
  <2> HIDE DEF q
  <2>2. /\ Len(agenda[t]) \in Nat \ {0} /\ Len(q) \in Nat
        /\ Len(agenda'[t]) = Len(q) + Len(agenda[t]) - 1
        /\ \A i \in 2 .. Len(agenda[t]) : agenda'[t][i - 1 + Len(q)] = agenda[t][i]
    BY <1>0, <2>1, ThenJobs
  <2>3. 2 \in 2 .. Len(agenda[t]) /\ 1 <= Len(agenda'[t]) /\ 2 - 1 + Len(q) = 1
    BY <2>1, <2>2
  <2>4. agenda'[t][1] = agenda[t][2]
    BY <2>2, <2>3
  <2> QED
    BY <1>4, <1>6, <2>3, <2>4 DEF Collecting, Shards
<1> QED
  BY <1>5, <1>6 DEF RestOf

(* DropProgress.                                                           *)
LEMMA DropProgressNext ==
  ASSUME IInv, OwnInv, DropProgress, [Next]_vars
  PROVE  DropProgress'
<1> SUFFICES ASSUME NEW n \in Node, life'[n] = "dropping"
             PROVE  \E t \in Thread : Collecting(t, n)'
  BY DEF DropProgress
<1>0. agenda \in [Thread -> Seq(Task)]
  BY DEF IInv, OwnerTypes
<1>1. CASE life[n] = "dropping"
  <2>1. PICK t \in Thread : Collecting(t, n)
    BY <1>1 DEF DropProgress
  <2>2. agenda[t] \in Seq(Task) /\ agenda[t] # <<>> /\ Head(agenda[t]) = agenda[t][1]
    <3>1. agenda[t] \in Seq(Task) /\ 1 <= Len(agenda[t])
      BY <1>0, <2>1 DEF Collecting
    <3> QED
      BY <3>1
  <2>3. CASE agenda'[t] = agenda[t]
    <3>1. \A s \in Shards(n) : STOPPED \in shardState[s].flags => STOPPED \in shardState'[s].flags
      BY FlagsStay DEF Shards
    <3> QED
      BY <2>1, <2>3, <3>1 DEF Collecting, Shards
  <2>4. CASE Proceed(t)
    <3>1. agenda[t][1].do # "deregister" \/ agenda[t][1].node # n
      <4> SUFFICES ASSUME agenda[t][1].do = "deregister", agenda[t][1].node = n PROVE FALSE
        OBVIOUS
      <4>1. Deregister(t)
        BY <2>2, <2>4, HeadAction
      <4> QED
        BY <2>2, <4>1 DEF Deregister, IInv, OwnerTypes
    <3>2. /\ 2 <= Len(agenda[t]) /\ agenda[t][1].do = "latch" /\ agenda[t][1].node = n
          /\ agenda[t][2].do = "deregister" /\ agenda[t][2].node = n
          /\ \A s \in Shards(n) :
               STOPPED \in shardState[s].flags \/ s \in agenda[t][1].shards
      BY <2>1, <3>1 DEF Collecting
    <3>3. Latch(t)
      BY <2>2, <2>4, <3>2, HeadAction
    <3> QED
      BY <3>2, <3>3, LatchCollects
  <2> QED
    BY <2>2, <2>3, <2>4, StepRows
<1>2. CASE life[n] # "dropping"
  <2>1. PICK t \in Thread : Release(t) /\ Head(agenda[t]).node = n /\ Then(t, Collect(n))
    BY <1>2, LifeMoves
  <2>2. agenda[t] # <<>>
    BY <2>1 DEF Release, Doing
  <2> DEFINE x == TaskOn("latch", n)
             y == TaskOn("deregister", n)
             q == <<x, y>>
  <2>3. /\ x \in Task /\ x.do = "latch" /\ x.node = n /\ x.shards = Shards(n)
        /\ y \in Task /\ y.do = "deregister" /\ y.node = n
    BY FreshJob DEF TaskName
  <2>4. Then(t, q)
    BY <2>1 DEF Collect
  <2> HIDE DEF x, y
  <2>5. q \in Seq(Task) /\ Len(q) = 2 /\ q[1] = x /\ q[2] = y
    BY <2>3
  <2> HIDE DEF q
  <2>6. /\ Len(agenda[t]) \in Nat \ {0}
        /\ Len(agenda'[t]) = Len(q) + Len(agenda[t]) - 1
        /\ \A i \in 1 .. Len(q) : agenda'[t][i] = q[i]
    BY <1>0, <2>2, <2>4, <2>5, ThenJobs
  <2>7. 2 <= Len(agenda'[t]) /\ agenda'[t][1] = x /\ agenda'[t][2] = y
    BY <2>5, <2>6
  <2> QED
    BY <2>3, <2>7 DEF Collecting, Shards
<1> QED
  BY <1>1, <1>2

(* A shard that has arrived is counted, now and after the step.            *)
ArrivalsCount ==
  \A s \in Shard : ARRIVED \in shardState[s].flags => nodeState[NodeOf[s]].count > 0

(* The node of an arrived shard is not empty.                              *)
LEMMA ArrivedCounted == IInv => ArrivalsCount
BY ShardCounted DEF IInv, ArrivalsCount

(* The same after a step.                                                  *)
LEMMA ArrivedCountedNext == IInv' => ArrivalsCount'
BY ArrivedCounted, PTL

(* EmptyDue.                                                               *)
LEMMA EmptyDueNext ==
  ASSUME IInv, IInv', OwnInv, StopCause, DepartCause, EmptyDue, DropProgress, [Next]_vars
  PROVE  EmptyDue'
<1> SUFFICES ASSUME NEW n \in Child, nodeState'[n].count = 0, ARRIVED \in nodeState'[n].flags
             PROVE  /\ Quitting(n)'
                    /\ \E t \in Thread : /\ pc'[t] \in {"notify", "unarrive"} /\ cell'[t] = n
                                         /\ seen'[t] = nodeState'[n]
  BY DEF EmptyDue, IsZero
<1>0. n \in Node /\ n # Root /\ nodeState[n] \in NodeWord /\ nodeState[n].count \in Nat
  BY DEF Child, IInv, CoreInv, WordTypes, NodeWord
<1>1. CASE nodeState'[n] = nodeState[n]
  <2>1. Quitting(n)'
    BY <1>0, <1>1, QuittingStays DEF EmptyDue, IsZero
  <2>2. PICK t \in Thread : /\ pc[t] \in {"notify", "unarrive"} /\ cell[t] = n
                            /\ seen[t] = nodeState[n]
    BY <1>1 DEF EmptyDue, IsZero
  <2>3. CASE SameRow(t)
    BY <1>1, <2>1, <2>2, <2>3 DEF SameRow
  <2>4. CASE Walk(t) /\ pc[t] = "notify"
    <3>1. DepartNotify(t)
      BY <2>4, WalkAction
    <3>2. Go(t, "unarrive", n) /\ UNCHANGED seen
      BY <1>0, <2>2, <3>1 DEF DepartNotify
    <3>3. pc'[t] = "unarrive" /\ cell'[t] = n
      BY <3>2 DEF Go, IInv, CoreInv, WalkTypes
    <3> QED
      BY <1>1, <2>1, <2>2, <3>2, <3>3
  <2>5. ~(Walk(t) /\ pc[t] = "unarrive")
    <3> SUFFICES ASSUME Unarrive(t) PROVE FALSE
      BY WalkAction
    <3>1. nodeState' = [nodeState EXCEPT ![n] = Unarrived(seen[t])]
      BY <2>2 DEF Unarrive, StillEmpty
    <3>2. nodeState'[n].flags = seen[t].flags \cap {STOPPED}
      BY <1>0, <3>1 DEF IInv, CoreInv, WordTypes, Unarrived, EmptyNode
    <3> QED
      BY <3>2 DEF ARRIVED, STOPPED
  <2>6. ~Starts(t)
    BY <2>2 DEF Starts
  <2> QED
    BY <2>2, <2>3, <2>4, <2>5, <2>6, StepRows
<1>2. CASE NodeUp(n)
  BY <1>0, <1>2 DEF NodeUp
<1>3. CASE NodeDown(n)
  <2>1. PICK t \in Thread :
          /\ pc[t] = "departNode" /\ cell[t] = n
          /\ cell'[t] = n /\ seen'[t] = nodeState'[n]
          /\ pc'[t] = IF Stopped(n) THEN "notify" ELSE "unarrive"
    BY <1>0, <1>3 DEF NodeDown
  <2>2. CASE Quitting(n)
    BY <1>0, <2>1, <2>2, QuittingStays
  <2>3. CASE \E s \in Shards(n) : ARRIVED \in shardState[s].flags
    <3>1. PICK s \in Shards(n) : ARRIVED \in shardState[s].flags
      BY <2>3
    <3>2. s \in Shard /\ NodeOf[s] = n
      BY DEF Shards
    <3>3. ARRIVED \notin shardState'[s].flags
      <4>1. SUFFICES ASSUME ARRIVED \in shardState'[s].flags PROVE FALSE
        OBVIOUS
      <4> QED
        BY <3>2, <4>1, ArrivedCountedNext DEF ArrivalsCount
    <3>4. STOPPED \in shardState[s].flags
      BY <3>1, <3>2, <3>3, FlagsStay
    <3>5. Quitting(n)
      BY <3>2, <3>4 DEF StopCause
    <3> QED
      BY <1>0, <2>1, <3>5, QuittingStays
  <2> QED
    BY <2>1, <2>2, <2>3 DEF DepartCause
<1>4. CASE NodeOut(n)
  <2>1. nodeState'[n].flags = nodeState[n].flags \cap {STOPPED}
    BY <1>4 DEF NodeOut, EmptyNode
  <2> QED
    BY <2>1 DEF ARRIVED, STOPPED
<1>5. CASE NodeStop(n) /\ nodeState'[n] # nodeState[n]
  <2>1. PICK t \in Thread :
          /\ Stop(t) /\ Head(agenda[t]).node = n
          /\ nodeState'[n] = [nodeState[n] EXCEPT !.flags = @ \cup {STOPPED}]
    BY <1>5 DEF NodeStop
  <2>2. nodeState[n].count = 0 /\ nodeState'[n].flags = nodeState[n].flags \cup {STOPPED}
    BY <1>0, <2>1 DEF NodeWord
  <2>3. ARRIVED \in nodeState[n].flags
    BY <2>2 DEF ARRIVED, STOPPED
  <2>4. ~Stopped(n)
    <3> SUFFICES ASSUME STOPPED \in nodeState[n].flags
                 PROVE  nodeState'[n] = nodeState[n]
      BY <1>5 DEF Stopped
    <3>1. nodeState[n].flags \cup {STOPPED} = nodeState[n].flags
      OBVIOUS
    <3> QED
      BY <1>0, <2>1, <3>1 DEF NodeWord
  <2>5. life[n] \in {"dropping", "gone"}
    BY <2>2, <2>3, <2>4 DEF EmptyDue, IsZero, Quitting
  <2>6. /\ 1 \in 1 .. Len(agenda[t]) /\ Head(agenda[t]) = agenda[t][1]
        /\ agenda[t][1].do = "stop"
    BY <2>1, DoingJob DEF Stop
  <2>7. life[n] # "dropping"
    BY <2>1, <2>6, StopNotDropping
  <2>8. life[n] \in {"live", "dropping"}
    BY <2>1, <2>6, UnusedNow DEF NoUseAfterCollection, Using
  <2> QED
    BY <2>5, <2>7, <2>8
<1> QED
  BY <1>0, <1>1, <1>2, <1>3, <1>4, <1>5, NodeMoves

(* Absent.                                                                 *)
LEMMA AbsentNext ==
  ASSUME IInv, OwnInv, Absent, [Next]_vars
  PROVE  Absent'
<1> SUFFICES ASSUME NEW n \in Child
             PROVE  /\ life'[n] = "unborn" => nodeState'[n] = EmptyNode({})
                    /\ life'[n] \notin {"live", "dropping"} => registered'[n] = NoShard
  BY DEF Absent, EmptyNode
<1>0. n \in Node /\ registered \in [Node -> Shard \cup {NoShard}]
  BY DEF Child, IInv, OwnerTypes
<1>1. ASSUME life'[n] = "unborn"
      PROVE  nodeState'[n] = EmptyNode({})
  <2>1. life[n] = "unborn"
    BY <1>0, <1>1, LifeMoves
  <2>2. nodeState'[n] = nodeState[n]
    BY <1>0, <2>1, WordsInUse
  <2> QED
    BY <2>1, <2>2 DEF Absent
<1>2. ASSUME life'[n] \notin {"live", "dropping"}, registered'[n] # NoShard
      PROVE  FALSE
  <2>1. CASE life'[n] # life[n]
    <3>1. PICK t \in Thread : Deregister(t) /\ Head(agenda[t]).node = n
      BY <1>0, <1>2, <2>1, LifeMoves
    <3> QED
      BY <1>0, <1>2, <3>1 DEF Deregister
  <2>2. CASE life'[n] = life[n]
    <3>1. registered[n] = NoShard
      BY <1>2, <2>2 DEF Absent
    <3>2. PICK t \in Thread : Register(t) \/ Deregister(t)
      <4>1. ASSUME NEW t \in Thread, Walk(t) PROVE registered' = registered
        BY <4>1 DEF Walk, Guarded, ArriveShard, ArriveNode, CasShard, CasNode,
                    DepartShard, Flush, DepartNode, DepartNotify, Unarrive, owners
      <4>2. ASSUME NEW t \in Thread, Call(t) PROVE registered' = registered
        BY <4>2 DEF Call, NewGuard, ForShard, CloneGuard, DropGuard, CloneSwansong,
                    DropSwansong, AwaitSwansong, ShutDown, NewChild, DropFuture,
                    BlockOnShutdown, owners
      <4>3. ASSUME NEW t \in Thread, Proceed(t), ~Register(t), ~Deregister(t)
            PROVE  registered' = registered
        BY <4>3 DEF Proceed, Stop, Latch, Snapshot, StopKids, StopNotify, Release,
                    Check, Adopt, Watch, GuardReturned, Upgrade, Unblock, owners
      <4>4. ASSUME NEW k \in Node, Poll(k) PROVE registered' = registered
        BY <4>4 DEF Poll
      <4> QED
        BY <1>2, <3>1, <4>1, <4>2, <4>3, <4>4, SMTT(60) DEF Next, vars, owners
    <3>3. CASE Deregister(t)
      BY <1>0, <1>2, <3>1, <3>3 DEF Deregister
    <3>4. CASE Register(t)
      <4>1. Head(agenda[t]).node = n
        BY <1>0, <1>2, <3>1, <3>4 DEF Register
      <4>2. /\ 1 \in 1 .. Len(agenda[t]) /\ Head(agenda[t]) = agenda[t][1]
            /\ agenda[t][1].do = "register"
        BY <3>4, DoingJob DEF Register
      <4> QED
        BY <1>2, <2>2, <4>1, <4>2, UnusedNow DEF NoUseAfterCollection, Using
    <3> QED
      BY <3>2, <3>3, <3>4
  <2> QED
    BY <2>1, <2>2
<1> QED
  BY <1>1, <1>2

(* At the end of its drop a child has no guards, no children and no        *)
(* arrival: the flushes that the latching asked for have run to the end.   *)
LEMMA EmptiedAtLast ==
  ASSUME IInv, OwnInv, DepartInv, NEW n \in Child, life[n] = "dropping",
         NEW t \in Thread, Doing(t, "deregister"), Head(agenda[t]).node = n
  PROVE  /\ ARRIVED \notin nodeState[n].flags
         /\ \A s \in Shards(n) : shardState[s] = EmptyShard({STOPPED})
<1>0. /\ n \in Node /\ n # Root /\ nodeState[n] \in NodeWord
      /\ WordTypes /\ CountsExact /\ ControlOK /\ KeptAlive
      /\ StopCause /\ EmptyDue /\ FlushDue /\ DropProgress /\ Absent /\ CollectedDeparted
  BY DEF Child, IInv, CoreInv, WordTypes, OwnInv, DepartInv
<1>1. /\ pc[t] = "idle" /\ 1 \in 1 .. Len(agenda[t])
      /\ agenda[t][1].do = "deregister" /\ agenda[t][1].node = n
  BY DoingJob
<1>2. Collecting(t, n)
  <2>1. PICK u \in Thread : Collecting(u, n)
    BY <1>0 DEF DropProgress
  <2> QED
    BY <1>0, <1>1, <2>1, OneCollector
<1>3. \A s \in Shards(n) : STOPPED \in shardState[s].flags
  BY <1>1, <1>2 DEF Collecting
<1>4. ASSUME NEW u \in Thread, pc[u] \notin {"idle", "guarded"}, Under(cell[u]) = n
      PROVE  FALSE
  BY <1>0, <1>1, <1>2, <1>4, OnlyCollector
<1>5. Under(n) = n /\ \A s \in Shards(n) : s \in Shard /\ NodeOf[s] = n /\ Under(s) = n
  BY <1>0, UnderNode DEF Shards, Cell
<1>6. ASSUME NEW m \in Child, Parent[m] = n, life[m] \in {"live", "dropping"}
      PROVE  FALSE
  BY <1>0, <1>6 DEF KeptAlive
<1>7. ASSUME NEW s \in Shards(n)
      PROVE  shardState[s].local = 0
  <2>1. LocalTokens(s) = {}
    BY <1>0, <1>5, ShardAssumption DEF LocalTokens, KeptAlive
  <2> QED
    BY <1>0, <1>5, <2>1, FS_EmptySet DEF CountsExact, LocalExact
<1>8. ASSUME NEW s \in Shards(n)
      PROVE  shardState[s].kids = 0
  <2>1. ASSUME NEW m \in Child, ARRIVED \in nodeState[m].flags, nodeState[m].at = s
        PROVE  FALSE
    <3>1. Parent[m] = n
      BY <1>0, <1>5, <2>1 DEF ControlOK, WordsLinked
    <3>2. life[m] # "unborn"
      BY <1>0, <2>1 DEF Absent, EmptyNode
    <3>3. life[m] # "gone"
      BY <1>0, <2>1 DEF CollectedDeparted
    <3>4. life[m] \in {"live", "dropping"}
      BY <3>2, <3>3 DEF IInv, OwnerTypes, Child
    <3> QED
      BY <1>6, <3>1, <3>4
  <2>2. ASSUME NEW u \in Thread, KidInFlight(u, s)
        PROVE  FALSE
    <3>1. CASE pc[u] = "departShard" /\ cell[u] = s
      BY <1>4, <1>5, <3>1
    <3>2. CASE pc[u] = "casNode" /\ MyShard[u][Parent[cell[u]]] = s
      <4>1. cell[u] \in Child /\ Parent[cell[u]] \in Node
        BY <1>0, <3>2, TreeAssumption DEF ControlOK, WalkOK, OnTrack
      <4>2. Parent[cell[u]] = n
        BY <1>5, <3>2, <4>1, ShardAssumption
      <4>3. Under(cell[u]) = cell[u]
        BY <4>1, UnderNode DEF Cell, Child
      <4>4. life[cell[u]] \in {"live", "dropping"}
        BY <3>2, <4>3, UnusedNow DEF NoUseAfterCollection
      <4> QED
        BY <1>6, <4>1, <4>2, <4>4
    <3> QED
      BY <2>2, <3>1, <3>2 DEF KidInFlight
  <2>3. KidTokens(s) = {}
    BY <2>1, <2>2 DEF KidTokens
  <2> QED
    BY <1>0, <1>5, <2>3, FS_EmptySet DEF CountsExact, KidsExact
<1>9. ASSUME NEW s \in Shards(n)
      PROVE  shardState[s] = EmptyShard({STOPPED})
  <2>1. shardState[s] \in [flags : SUBSET Flags, local : Nat, kids : Nat]
    BY <1>0, <1>5 DEF WordTypes, ShardWord
  <2>2. ARRIVED \notin shardState[s].flags
    <3> SUFFICES ASSUME ARRIVED \in shardState[s].flags PROVE FALSE
      OBVIOUS
    <3>1. shardState[s].flags = {ARRIVED, STOPPED}
      BY <1>3, <2>1 DEF Flags
    <3>2. shardState[s] = [flags |-> {ARRIVED, STOPPED}, local |-> 0, kids |-> 0]
      BY <1>7, <1>8, <2>1, <3>1
    <3>3. FlushAt(s)
      BY <1>0, <1>5, <3>2 DEF FlushDue, StillArrived, EmptyShard
    <3> QED
      BY <1>4, <1>5, <3>3 DEF FlushAt
  <2>3. shardState[s].flags = {STOPPED}
    BY <1>3, <2>1, <2>2 DEF Flags
  <2>4. shardState[s] = [flags |-> {STOPPED}, local |-> 0, kids |-> 0]
    BY <1>7, <1>8, <2>1, <2>3
  <2> QED
    BY <2>4 DEF EmptyShard
<1>10. nodeState[n].count = 0
  <2>1. ASSUME NEW u \in Thread, ShardInFlight(u, n)
        PROVE  FALSE
    <3>1. CASE pc[u] = "casShard" /\ NodeOf[cell[u]] = n
      <4>1. cell[u] \in Shard
        BY <1>0, <3>1 DEF ControlOK, WalkOK, OnTrack, ShardLabel
      <4> QED
        BY <1>4, <3>1, <4>1, UnderNode DEF Cell
    <3>2. CASE pc[u] = "departNode" /\ cell[u] = n
      BY <1>4, <1>5, <3>2
    <3> QED
      BY <2>1, <3>1, <3>2 DEF ShardInFlight
  <2>2. \A s \in Shards(n) : ARRIVED \notin shardState[s].flags
    BY <1>9 DEF EmptyShard, ARRIVED, STOPPED
  <2>3. ShardTokens(n) = {}
    BY <2>1, <2>2 DEF ShardTokens
  <2> QED
    BY <1>0, <2>3, FS_EmptySet DEF CountsExact, ShardsExact
<1>11. ARRIVED \notin nodeState[n].flags
  <2> SUFFICES ASSUME ARRIVED \in nodeState[n].flags PROVE FALSE
    OBVIOUS
  <2>1. PICK u \in Thread : pc[u] \in {"notify", "unarrive"} /\ cell[u] = n
    BY <1>0, <1>10 DEF EmptyDue, IsZero
  <2> QED
    BY <1>4, <1>5, <2>1
<1> QED
  BY <1>9, <1>11

(* CollectedDeparted.                                                      *)
LEMMA CollectedNext ==
  ASSUME IInv, OwnInv, DepartInv, [Next]_vars
  PROVE  CollectedDeparted'
<1>1. Absent'
  BY AbsentNext DEF DepartInv
<1> SUFFICES ASSUME NEW n \in Child, life'[n] = "gone"
             PROVE  /\ registered'[n] = NoShard
                    /\ ARRIVED \notin nodeState'[n].flags
                    /\ \A s \in Shards(n) : shardState'[s] = EmptyShard({STOPPED})
  BY DEF CollectedDeparted, Shards, EmptyShard
<1>2. n \in Node /\ n # Root /\ registered'[n] = NoShard
  BY <1>1 DEF Absent, Child
<1>3. CASE life[n] = "gone"
  <2>1. /\ ARRIVED \notin nodeState[n].flags
        /\ \A s \in Shards(n) : shardState[s] = EmptyShard({STOPPED})
    BY <1>3 DEF DepartInv, CollectedDeparted
  <2>2. nodeState'[n] = nodeState[n] /\ \A s \in Shards(n) : shardState'[s] = shardState[s]
    BY <1>2, <1>3, WordsInUse
  <2> QED
    BY <1>2, <2>1, <2>2
<1>4. CASE life[n] # "gone"
  <2>1. life[n] = "dropping"
    BY <1>2, <1>4, LifeMoves
  <2>2. PICK t \in Thread : Deregister(t) /\ Head(agenda[t]).node = n
    BY <1>2, <1>4, LifeMoves
  <2>3. Doing(t, "deregister") /\ nodeState' = nodeState /\ shardState' = shardState
    BY <2>2 DEF Deregister, words
  <2>4. /\ ARRIVED \notin nodeState[n].flags
        /\ \A s \in Shards(n) : shardState[s] = EmptyShard({STOPPED})
    BY <2>1, <2>2, <2>3, EmptiedAtLast
  <2> QED
    BY <1>2, <2>3, <2>4
<1> QED
  BY <1>3, <1>4

(* The initial states.                                                     *)
LEMMA InitDepart ==
  ASSUME Init
  PROVE  DepartInv
<1>1. /\ \A s \in Shard : shardState[s] = EmptyShard({})
      /\ \A n \in Node : nodeState[n] = EmptyNode({}) /\ registered[n] = NoShard
                         /\ life[n] \in {"live", "unborn"}
      /\ \A t \in Thread : pc[t] = "idle" /\ agenda[t] = <<>>
      /\ \A t \in Thread, s \in Shard : saved[t][s] = {}
  BY DEF Init, Cell
<1>2. Len(<<>>) = 0 /\ \A t \in Thread : Len(agenda[t]) = 0
  BY <1>1
<1>3. StopCause /\ SavedStops
  BY <1>1, <1>2 DEF StopCause, SavedStops, EmptyShard
<1>4. DepartCause
  BY <1>1 DEF DepartCause
<1>5. EmptyDue
  BY <1>1 DEF EmptyDue, EmptyNode, Child
<1>6. FlushDue
  <2>1. EmptyShard({}) # StillArrived
    <3>1. EmptyShard({}).flags = {} /\ StillArrived.flags = {ARRIVED, STOPPED}
      BY DEF EmptyShard, StillArrived
    <3> QED
      BY <3>1
  <2> QED
    BY <1>1, <2>1 DEF FlushDue
<1>7. DropProgress /\ Absent /\ CollectedDeparted
  BY <1>1 DEF DropProgress, Absent, CollectedDeparted, Child
<1> QED
  BY <1>3, <1>4, <1>5, <1>6, <1>7 DEF DepartInv

(* The three layers of the invariant together.                             *)
THEOREM Departures == Spec => [](IInv /\ OwnInv /\ DepartInv)
<1>1. Init => DepartInv
  BY InitDepart
<1>2. IInv /\ IInv' /\ OwnInv /\ DepartInv /\ [Next]_vars => DepartInv'
  <2> SUFFICES ASSUME IInv, IInv', OwnInv, DepartInv, [Next]_vars
               PROVE  DepartInv'
    OBVIOUS
  <2>1. StopCause /\ SavedStops /\ DepartCause /\ EmptyDue /\ FlushDue /\ DropProgress /\ Absent
    BY DEF DepartInv
  <2>2. StopCause' /\ SavedStops' /\ DepartCause'
    BY <2>1, StopCauseNext, SavedStopsNext, DepartCauseNext
  <2>3. EmptyDue' /\ FlushDue' /\ DropProgress' /\ Absent'
    BY <2>1, EmptyDueNext, FlushDueNext, DropProgressNext, AbsentNext
  <2>4. CollectedDeparted'
    BY CollectedNext
  <2> QED
    BY <2>2, <2>3, <2>4 DEF DepartInv
<1> QED
  BY <1>1, <1>2, Ownership, PTL DEF Spec

(* Inner::depart never strands an arrival: whenever a child counts nothing *)
(* but is still counted by its parent, the thread that emptied it is on    *)
(* its way to give the arrival up, whatever compare_exchange was lost.     *)
THEOREM EmptiedChildrenDepart == Spec => []EmptyChildDeparts
<1>1. DepartInv => EmptyChildDeparts
  BY DEF DepartInv, EmptyDue, EmptyChildDeparts
<1> QED
  BY <1>1, Departures, PTL

(* Drop for Inner leaves nothing behind: a collected child is in no        *)
(* registry and arrived at no level, and its shards are latched and empty, *)
(* so that its parent's count cannot be held up by a node that is gone.    *)
THEOREM CollectionComplete == Spec => []CollectedDeparted
<1>1. DepartInv => CollectedDeparted
  BY DEF DepartInv
<1> QED
  BY <1>1, Departures, PTL

=============================================================================
