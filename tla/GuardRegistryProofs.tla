------------------------ MODULE GuardRegistryProofs -------------------------
(***************************************************************************)
(* The registries hold exactly the infos that are alive, within twice      *)
(* their peak, and a report that no guard disturbs is exact, for all       *)
(* numbers of shards, guards, sites and reporters.                         *)
(*                                                                         *)
(* What a sweep keeps is computed by recursion over a registry; the facts  *)
(* about it are proved by induction on a prefix of the registry, which in  *)
(* turn rests on the least element of a set of naturals.                   *)
(***************************************************************************)
EXTENDS GuardRegistry, WellFoundedInduction, FiniteSetTheorems, TLAPS

-----------------------------------------------------------------------------
(* Induction.                                                              *)

(* A set of naturals has a least element.                                  *)
LEMMA LeastNumber ==
  ASSUME NEW T \in SUBSET Nat, T # {}
  PROVE  \E m \in T : \A n \in T : m <= n
<1>1. \A U \in SUBSET Nat : U # {} =>
        \E x \in U : \A y \in U : ~(<<y, x>> \in OpToRel(<, Nat))
  BY NatLessThanWellFounded, WFMin, Zenon
<1>2. \E x \in T : \A y \in T : ~(<<y, x>> \in OpToRel(<, Nat))
  BY <1>1, Zenon
<1>3. \E x \in T : \A y \in T : ~(y < x)
  BY <1>2, Zenon DEF OpToRel
<1>4. PICK x \in T : \A y \in T : ~(y < x)
  BY <1>3
<1>5. \A y \in T : x <= y
  BY <1>4
<1> QED BY <1>5

(* Induction up to a bound, for membership in a set.                       *)
LEMMA BoundedInduction ==
  ASSUME NEW S, NEW N \in Nat, 0 \in S,
         \A n \in 0 .. N : n \in S /\ n < N => n + 1 \in S
  PROVE  \A n \in 0 .. N : n \in S
<1> SUFFICES ASSUME NEW k \in 0 .. N, k \notin S PROVE FALSE
  OBVIOUS
<1> DEFINE T == {n \in Nat : n <= N /\ n \notin S}
<1>0. T \in SUBSET Nat /\ T # {}
  OBVIOUS
<1>1. PICK m \in T : \A n \in T : m <= n
  <2> HIDE DEF T
  <2> QED BY <1>0, LeastNumber
<1>2. m # 0 /\ m - 1 \in 0 .. N /\ m - 1 < N /\ m - 1 \notin T
  BY <1>1
<1>3. m - 1 \in S /\ m - 1 + 1 = m
  BY <1>2
<1> QED BY <1>1, <1>2, <1>3

-----------------------------------------------------------------------------
(* What a sweep keeps.                                                     *)

Entry == Guard \cup {Dangling}

(* One more entry of a registry.                                           *)
Kept(last, entry) == IF entry = Dangling THEN last ELSE Append(last, entry)

(* The prefixes of what is kept of the first n entries.                    *)
IsKept(f, seq, n) ==
  f = [i \in 0 .. n |-> IF i = 0 THEN <<>>
                        ELSE IF seq[i] = Dangling THEN f[i - 1]
                        ELSE Append(f[i - 1], seq[i])]

(* The recursion, row by row.                                              *)
LEMMA IsKeptRows ==
  ASSUME NEW f, NEW seq, NEW n \in Nat
  PROVE  IsKept(f, seq, n) <=>
           /\ f = [i \in 0 .. n |-> f[i]]
           /\ f[0] = <<>>
           /\ \A i \in 1 .. n : f[i] = Kept(f[i - 1], seq[i])
<1>1. ASSUME IsKept(f, seq, n)
      PROVE  /\ f = [i \in 0 .. n |-> f[i]]
             /\ f[0] = <<>>
             /\ \A i \in 1 .. n : f[i] = Kept(f[i - 1], seq[i])
  <2>1. \A i \in 0 .. n : f[i] = IF i = 0 THEN <<>>
                                 ELSE IF seq[i] = Dangling THEN f[i - 1]
                                 ELSE Append(f[i - 1], seq[i])
    BY <1>1 DEF IsKept
  <2>2. f = [i \in 0 .. n |-> f[i]]
    BY <1>1, <2>1, Zenon DEF IsKept
  <2> QED BY <2>1, <2>2 DEF Kept
<1>2. ASSUME f = [i \in 0 .. n |-> f[i]], f[0] = <<>>,
             \A i \in 1 .. n : f[i] = Kept(f[i - 1], seq[i])
      PROVE  IsKept(f, seq, n)
  <2>1. \A i \in 0 .. n : f[i] = IF i = 0 THEN <<>>
                                 ELSE IF seq[i] = Dangling THEN f[i - 1]
                                 ELSE Append(f[i - 1], seq[i])
    BY <1>2 DEF Kept
  <2> QED BY <1>2, <2>1 DEF IsKept
<1> QED BY <1>1, <1>2

(* The recursion has a solution.                                           *)
LEMMA KeptExists ==
  ASSUME NEW seq, NEW N \in Nat
  PROVE  \E f : IsKept(f, seq, N)
<1> DEFINE S == {n \in 0 .. N : \E f : IsKept(f, seq, n)}
<1>1. 0 \in S
  <2> DEFINE f == [i \in 0 .. 0 |-> <<>>]
  <2>1. f[0] = <<>> /\ f = [i \in 0 .. 0 |-> f[i]] /\ 1 .. 0 = {}
    OBVIOUS
  <2> HIDE DEF f
  <2>2. IsKept(f, seq, 0)
    BY <2>1, IsKeptRows
  <2> QED BY <2>2
<1>2. ASSUME NEW n \in 0 .. N, n \in S, n < N PROVE n + 1 \in S
  <2>1. PICK f : IsKept(f, seq, n)
    BY <1>2
  <2> DEFINE h == [i \in 0 .. n + 1 |-> IF i = n + 1 THEN Kept(f[n], seq[n + 1]) ELSE f[i]]
  <2>2. /\ f[0] = <<>> /\ \A i \in 1 .. n : f[i] = Kept(f[i - 1], seq[i])
    BY <2>1, IsKeptRows
  <2>3. h[0] = <<>> /\ \A i \in 0 .. n : h[i] = f[i]
    BY <2>2
  <2>4. \A i \in 1 .. n + 1 : h[i] = Kept(h[i - 1], seq[i])
    <3> SUFFICES ASSUME NEW i \in 1 .. n + 1 PROVE h[i] = Kept(h[i - 1], seq[i])
      OBVIOUS
    <3>1. i - 1 \in 0 .. n
      OBVIOUS
    <3>2. CASE i = n + 1
      <4>1. h[i] = Kept(f[n], seq[n + 1])
        BY <3>2
      <4>2. i - 1 = n /\ h[n] = f[n]
        BY <3>2, <2>3
      <4> QED BY <4>1, <4>2, <3>2
    <3>3. CASE i # n + 1
      <4>1. i \in 1 .. n
        BY <3>3
      <4> QED BY <4>1, <3>1, <2>2, <2>3
    <3> QED BY <3>2, <3>3
  <2>5. h = [i \in 0 .. n + 1 |-> h[i]] /\ n + 1 \in Nat
    OBVIOUS
  <2> HIDE DEF h, S
  <2>6. IsKept(h, seq, n + 1)
    BY <2>3, <2>4, <2>5, IsKeptRows, Zenon
  <2> USE DEF S
  <2> QED BY <1>2, <2>6
<1> HIDE DEF S
<1>3. N \in S
  BY <1>1, <1>2, BoundedInduction
<1> QED BY <1>3 DEF S

(* Alive is the last of them.                                              *)
LEMMA AliveIs ==
  ASSUME NEW seq \in Seq(Entry)
  PROVE  \E f : IsKept(f, seq, Len(seq)) /\ Alive(seq) = f[Len(seq)]
<1>1. \E f : IsKept(f, seq, Len(seq))
  BY KeptExists
<1> DEFINE h == CHOOSE f : IsKept(f, seq, Len(seq))
<1>2. IsKept(h, seq, Len(seq))
  BY <1>1
<1>3. Alive(seq) = h[Len(seq)]
  BY DEF Alive, IsKept
<1> QED BY <1>2, <1>3

-----------------------------------------------------------------------------
(* The elements of a sequence.                                             *)

(* An empty sequence has no elements.                                      *)
LEMMA EmptyElements == Elements(<<>>) = {}
BY DEF Elements

(* Append adds one element.                                                *)
LEMMA AppendElements ==
  ASSUME NEW A, NEW q \in Seq(A), NEW e \in A
  PROVE  /\ Append(q, e) \in Seq(A)
         /\ Elements(Append(q, e)) = Elements(q) \cup {e}
<1>1. /\ Append(q, e) \in Seq(A) /\ DOMAIN Append(q, e) = 1 .. Len(q) + 1
      /\ Append(q, e)[Len(q) + 1] = e /\ DOMAIN q = 1 .. Len(q)
      /\ \A i \in 1 .. Len(q) : Append(q, e)[i] = q[i]
      /\ Len(q) \in Nat
  OBVIOUS
<1>2. 1 .. Len(q) + 1 = (1 .. Len(q)) \cup {Len(q) + 1}
  BY <1>1
<1> QED BY <1>1, <1>2 DEF Elements

(* Concatenation joins the elements.                                       *)
LEMMA ConcatElements ==
  ASSUME NEW A, NEW p \in Seq(A), NEW q \in Seq(A)
  PROVE  /\ p \o q \in Seq(A)
         /\ Elements(p \o q) = Elements(p) \cup Elements(q)
<1>1. /\ p \o q \in Seq(A) /\ Len(p) \in Nat /\ Len(q) \in Nat
      /\ DOMAIN p = 1 .. Len(p) /\ DOMAIN q = 1 .. Len(q)
      /\ DOMAIN (p \o q) = 1 .. Len(p) + Len(q)
      /\ \A i \in 1 .. Len(p) : (p \o q)[i] = p[i]
      /\ \A i \in 1 .. Len(p) + Len(q) : i > Len(p) => (p \o q)[i] = q[i - Len(p)]
  OBVIOUS
<1>2. Elements(p \o q) \subseteq Elements(p) \cup Elements(q)
  <2> SUFFICES ASSUME NEW i \in 1 .. Len(p) + Len(q)
               PROVE  (p \o q)[i] \in Elements(p) \cup Elements(q)
    BY <1>1 DEF Elements
  <2>1. CASE i <= Len(p)
    BY <1>1, <2>1 DEF Elements
  <2>2. CASE i > Len(p)
    <3>1. i - Len(p) \in 1 .. Len(q)
      BY <1>1, <2>2
    <3> QED BY <1>1, <2>2, <3>1 DEF Elements
  <2> QED BY <1>1, <2>1, <2>2
<1>3. Elements(p) \subseteq Elements(p \o q)
  <2>1. \A i \in 1 .. Len(p) : i \in 1 .. Len(p) + Len(q)
    BY <1>1
  <2> QED BY <1>1, <2>1 DEF Elements
<1>4. Elements(q) \subseteq Elements(p \o q)
  <2> SUFFICES ASSUME NEW i \in 1 .. Len(q) PROVE q[i] \in Elements(p \o q)
    BY <1>1 DEF Elements
  <2>1. /\ i + Len(p) \in 1 .. Len(p) + Len(q) /\ i + Len(p) > Len(p)
        /\ (i + Len(p)) - Len(p) = i
    BY <1>1
  <2>2. (p \o q)[i + Len(p)] = q[i]
    BY <1>1, <2>1
  <2> QED BY <1>1, <2>1, <2>2 DEF Elements
<1> QED BY <1>1, <1>2, <1>3, <1>4

(* No entry but a dangling one occurs twice.                               *)
Once(seq) ==
  \A i, j \in DOMAIN seq : seq[i] = seq[j] /\ seq[i] # Dangling => i = j
Different(seq) == \A i, j \in DOMAIN seq : seq[i] = seq[j] => i = j

(* Appending a new element repeats nothing.                                *)
LEMMA AppendDifferent ==
  ASSUME NEW A, NEW q \in Seq(A), NEW e \in A, e \notin Elements(q), Different(q)
  PROVE  Different(Append(q, e))
<1>1. /\ DOMAIN Append(q, e) = 1 .. Len(q) + 1
      /\ Append(q, e)[Len(q) + 1] = e /\ DOMAIN q = 1 .. Len(q)
      /\ \A i \in 1 .. Len(q) : Append(q, e)[i] = q[i] /\ q[i] # e
      /\ Len(q) \in Nat
  BY DEF Elements
<1>2. 1 .. Len(q) + 1 = (1 .. Len(q)) \cup {Len(q) + 1}
  BY <1>1
<1> HIDE <1>2
<1> SUFFICES ASSUME NEW i \in 1 .. Len(q) + 1, NEW j \in 1 .. Len(q) + 1,
                    Append(q, e)[i] = Append(q, e)[j]
             PROVE  i = j
  BY <1>1 DEF Different
<1>3. CASE i = Len(q) + 1 \/ j = Len(q) + 1
  BY <1>1, <1>2, <1>3
<1>4. CASE i \in 1 .. Len(q) /\ j \in 1 .. Len(q)
  BY <1>1, <1>4 DEF Different
<1> QED BY <1>2, <1>3, <1>4

-----------------------------------------------------------------------------

(* What is known of a registry of which n entries have been looked at.     *)
KeptOK(q, seq, n) ==
  /\ q \in Seq(Guard)
  /\ Elements(q) = {seq[i] : i \in 1 .. n} \ {Dangling}
  /\ Once(seq) => /\ Different(q)
                  /\ IsFiniteSet(Elements(q)) /\ Len(q) = Cardinality(Elements(q))

(* One more entry keeps what is known of a prefix.                         *)
LEMMA KeptOKStep ==
  ASSUME NEW seq \in Seq(Entry), NEW n \in Nat, n + 1 <= Len(seq),
         NEW q, KeptOK(q, seq, n)
  PROVE  KeptOK(Kept(q, seq[n + 1]), seq, n + 1)
<1> DEFINE e == seq[n + 1]
<1>1. n + 1 \in 1 .. Len(seq) /\ 1 .. n + 1 = (1 .. n) \cup {n + 1}
      /\ \A i \in 1 .. n : i \in 1 .. Len(seq) /\ i # n + 1
  OBVIOUS
<1>2. {seq[i] : i \in 1 .. n + 1} = {seq[i] : i \in 1 .. n} \cup {e}
  BY <1>1
<1>3. DOMAIN seq = 1 .. Len(seq) /\ e \in Entry
  BY <1>1
<1>4. CASE e = Dangling
  BY <1>2, <1>4 DEF KeptOK, Kept
<1>5. CASE e # Dangling
  <2>1. e \in Guard /\ Kept(q, e) = Append(q, e)
    BY <1>3, <1>5 DEF Entry, Kept
  <2>2. q \in Seq(Guard) /\ Elements(q) = {seq[i] : i \in 1 .. n} \ {Dangling}
    BY DEF KeptOK
  <2>3. Append(q, e) \in Seq(Guard) /\ Elements(Append(q, e)) = Elements(q) \cup {e}
    BY <2>1, <2>2, AppendElements
  <2>4. Elements(Append(q, e)) = {seq[i] : i \in 1 .. n + 1} \ {Dangling}
    BY <1>2, <1>5, <2>2, <2>3
  <2>5. ASSUME Once(seq)
        PROVE  /\ Different(Append(q, e))
               /\ IsFiniteSet(Elements(q) \cup {e})
               /\ Len(Append(q, e)) = Cardinality(Elements(q) \cup {e})
    <3>1. e \notin Elements(q)
      BY <1>1, <1>3, <1>5, <2>2, <2>5 DEF Once
    <3>2. Different(q) /\ IsFiniteSet(Elements(q)) /\ Len(q) = Cardinality(Elements(q))
      BY <2>5 DEF KeptOK
    <3>3. Different(Append(q, e))
      BY <2>1, <2>2, <3>1, <3>2, AppendDifferent
    <3>4. /\ IsFiniteSet(Elements(q) \cup {e})
          /\ Cardinality(Elements(q) \cup {e}) = Cardinality(Elements(q)) + 1
      BY <3>1, <3>2, FS_AddElement
    <3>5. Len(Append(q, e)) = Len(q) + 1
      BY <2>1, <2>2
    <3> QED BY <3>2, <3>3, <3>4, <3>5
  <2> QED BY <2>1, <2>3, <2>4, <2>5 DEF KeptOK
<1> QED BY <1>4, <1>5

(* A sweep keeps what is not dangling, each once and in as many entries as *)
(* there are infos.                                                        *)
LEMMA AliveKeeps ==
  ASSUME NEW seq \in Seq(Entry)
  PROVE  /\ Alive(seq) \in Seq(Guard)
         /\ Elements(Alive(seq)) = Elements(seq) \ {Dangling}
         /\ Once(seq) => /\ Different(Alive(seq))
                         /\ IsFiniteSet(Elements(Alive(seq)))
                         /\ Len(Alive(seq)) = Cardinality(Elements(Alive(seq)))
<1> DEFINE N == Len(seq)
<1>1. N \in Nat /\ DOMAIN seq = 1 .. N
  OBVIOUS
<1> HIDE DEF N
<1>2. PICK f : IsKept(f, seq, N) /\ Alive(seq) = f[N]
  BY AliveIs DEF N
<1>3. f[0] = <<>> /\ \A i \in 1 .. N : f[i] = Kept(f[i - 1], seq[i])
  BY <1>1, <1>2, IsKeptRows
<1> DEFINE S == {n \in 0 .. N : KeptOK(f[n], seq, n)}
<1>4. KeptOK(f[0], seq, 0)
  <2>1. 1 .. 0 = {} /\ <<>> \in Seq(Guard) /\ Len(<<>>) = 0
    OBVIOUS
  <2>2. Different(<<>>)
    BY DEF Different
  <2> QED BY <1>3, <2>1, <2>2, EmptyElements, FS_EmptySet DEF KeptOK
<1>5. ASSUME NEW n \in 0 .. N, n \in S, n < N PROVE n + 1 \in S
  <2>1. n \in Nat /\ n + 1 \in 1 .. N /\ n + 1 <= Len(seq) /\ (n + 1) - 1 = n
    BY <1>1, <1>5 DEF N
  <2>2. f[n + 1] = Kept(f[n], seq[n + 1])
    BY <1>3, <2>1
  <2>3. KeptOK(f[n + 1], seq, n + 1)
    BY <1>5, <2>1, <2>2, KeptOKStep
  <2> QED BY <1>1, <2>1, <2>3
<1>6. 0 \in S
  BY <1>1, <1>4
<1> HIDE DEF S
<1>7. N \in S
  BY <1>1, <1>5, <1>6, BoundedInduction
<1>8. KeptOK(Alive(seq), seq, N)
  BY <1>2, <1>7 DEF S
<1> QED BY <1>1, <1>8 DEF KeptOK, Elements

-----------------------------------------------------------------------------
(* The registries.                                                         *)

Infos == OwnedInfos \cup HeldInfos

(* A guard that is counted and not recorded yet has no info.               *)
CountedUnheld == \A g \in Guard : phase[g] = "counted" => g \notin HeldInfos

ExactInv == TypeOK /\ CountedUnheld /\ RegistryExact

(* RegistryExact, shard by shard.                                          *)
LEMMA ExactIs ==
  RegistryExact <=>
    \A s \in Shard : Elements(guards[s]) \ {Dangling} = InfosOf(s) /\ Once(guards[s])
BY DEF RegistryExact, Once

(* The same after a step.                                                  *)
LEMMA ExactIsNext ==
  RegistryExact' <=>
    \A s \in Shard : Elements(guards'[s]) \ {Dangling} = InfosOf(s)' /\ Once(guards'[s])
BY DEF RegistryExact, Once, Elements

(* The infos of a shard among all infos.                                   *)
LEMMA InfosOfIs ==
  ASSUME NEW s
  PROVE  InfosOf(s) = {g \in Infos : home[g] = s}
BY DEF InfosOf, Infos

(* The same after a step.                                                  *)
LEMMA InfosOfIsNext ==
  ASSUME NEW s
  PROVE  InfosOf(s)' = {g \in Infos' : home'[g] = s}
BY DEF InfosOf, Infos

(* Infos are named like guards.                                            *)
LEMMA InfosTyped ==
  ASSUME TypeOK
  PROVE  Infos \subseteq Guard /\ HeldInfos \subseteq Guard /\ OwnedInfos \subseteq Guard
<1>1. \A r \in Reporter : Elements(infos[r]) \subseteq Guard
  BY DEF TypeOK, Elements
<1>2. HeldInfos \subseteq Guard
  BY <1>1 DEF HeldInfos
<1> QED BY <1>2 DEF Infos, OwnedInfos

(* A registry is a sequence of entries.                                    *)
LEMMA EntryTyped ==
  ASSUME TypeOK, NEW s \in Shard
  PROVE  guards[s] \in Seq(Entry) /\ Dangling \notin Guard
BY RegistryAssumption DEF TypeOK, Entry

(* Neither the registries nor the infos change.                            *)
LEMMA ExactFrame ==
  ASSUME RegistryExact, UNCHANGED guards, Infos' = Infos,
         \A g \in Infos : home'[g] = home[g]
  PROVE  RegistryExact'
<1>1. \A s \in Shard : InfosOf(s)' = InfosOf(s)
  BY InfosOfIs, InfosOfIsNext
<1> QED BY <1>1, ExactIs, ExactIsNext

(* A sweep keeps every info that is alive.                                 *)
LEMMA SweepExact ==
  ASSUME TypeOK, RegistryExact, NEW s \in Shard
  PROVE  /\ Alive(guards[s]) \in Seq(Guard) /\ Alive(guards[s]) \in Seq(Entry)
         /\ Elements(Alive(guards[s])) = InfosOf(s)
         /\ Different(Alive(guards[s])) /\ Once(Alive(guards[s]))
         /\ IsFiniteSet(InfosOf(s)) /\ Len(Alive(guards[s])) = Cardinality(InfosOf(s))
<1>1. guards[s] \in Seq(Entry)
  BY EntryTyped
<1>2. Elements(guards[s]) \ {Dangling} = InfosOf(s) /\ Once(guards[s])
  BY ExactIs
<1>3. /\ Alive(guards[s]) \in Seq(Guard)
      /\ Elements(Alive(guards[s])) = InfosOf(s)
      /\ Different(Alive(guards[s]))
      /\ IsFiniteSet(InfosOf(s)) /\ Len(Alive(guards[s])) = Cardinality(InfosOf(s))
  BY <1>1, <1>2, AliveKeeps
<1>4. Alive(guards[s]) \in Seq(Entry)
  BY <1>3 DEF Entry
<1>5. Once(Alive(guards[s]))
  BY <1>3 DEF Once, Different
<1> QED BY <1>3, <1>4, <1>5

(* A registration adds one info, and may sweep before.                     *)
LEMMA AppendOnce ==
  ASSUME NEW q \in Seq(Entry), NEW e \in Guard, e \notin Elements(q), Once(q)
  PROVE  Once(Append(q, e))
<1>1. /\ DOMAIN Append(q, e) = 1 .. Len(q) + 1
      /\ Append(q, e)[Len(q) + 1] = e /\ DOMAIN q = 1 .. Len(q)
      /\ \A i \in 1 .. Len(q) : Append(q, e)[i] = q[i] /\ q[i] # e
      /\ Len(q) \in Nat
  BY DEF Elements, Entry
<1>2. 1 .. Len(q) + 1 = (1 .. Len(q)) \cup {Len(q) + 1}
  BY <1>1
<1> SUFFICES ASSUME NEW i \in 1 .. Len(q) + 1, NEW j \in 1 .. Len(q) + 1,
                    Append(q, e)[i] = Append(q, e)[j], Append(q, e)[i] # Dangling
             PROVE  i = j
  BY <1>1 DEF Once
<1>3. CASE i = Len(q) + 1 \/ j = Len(q) + 1
  BY <1>1, <1>2, <1>3
<1>4. CASE i \in 1 .. Len(q) /\ j \in 1 .. Len(q)
  BY <1>1, <1>4 DEF Once
<1> QED BY <1>2, <1>3, <1>4

(* What register leaves in the registry and in its threshold, with a sweep *)
(* and without.                                                            *)
LEMMA RegisteredSeq ==
  ASSUME TypeOK, RegistryExact, NEW s \in Shard, NEW g \in Guard, Registered(s, g),
         g \notin Infos
  PROVE  \E q \in Seq(Entry) :
           /\ guards' = [guards EXCEPT ![s] = q]
           /\ Elements(q) \ {Dangling} = InfosOf(s) \cup {g} /\ Once(q)
           /\ sweep_threshold' \in [Shard -> Nat]
           /\ \/ /\ SweepDue(s)
                 /\ Len(q) = Cardinality(InfosOf(s)) + 1
                 /\ sweep_threshold' =
                      [sweep_threshold EXCEPT ![s] = 2 * Cardinality(InfosOf(s))]
              \/ /\ ~SweepDue(s)
                 /\ Len(q) = Len(guards[s]) + 1
                 /\ UNCHANGED sweep_threshold
<1>1. /\ guards[s] \in Seq(Entry) /\ Dangling \notin Guard /\ g \in Entry
      /\ Elements(guards[s]) \ {Dangling} = InfosOf(s) /\ Once(guards[s])
      /\ g \notin InfosOf(s) /\ sweep_threshold \in [Shard -> Nat]
  BY EntryTyped, ExactIs, InfosOfIs DEF Entry, TypeOK
<1>2. CASE SweepDue(s)
  <2> DEFINE a == Alive(guards[s])
             q == Append(a, g)
  <2>1. guards' = [guards EXCEPT ![s] = q]
        /\ sweep_threshold' = [sweep_threshold EXCEPT ![s] = 2 * Len(a)]
    BY <1>2 DEF Registered, Sweep
  <2>2. /\ a \in Seq(Entry) /\ Elements(a) = InfosOf(s) /\ Once(a)
        /\ Len(a) = Cardinality(InfosOf(s)) /\ Len(a) \in Nat
    BY SweepExact
  <2> HIDE DEF a
  <2>3. q \in Seq(Entry) /\ Elements(q) = InfosOf(s) \cup {g} /\ Len(q) = Len(a) + 1
    BY <1>1, <2>2, AppendElements
  <2>4. Once(q)
    BY <1>1, <2>2, AppendOnce
  <2>5. Dangling \notin InfosOf(s) \cup {g}
    BY <1>1, InfosOfIs, InfosTyped
  <2>6. sweep_threshold' \in [Shard -> Nat]
    BY <1>1, <2>1, <2>2
  <2> HIDE DEF q
  <2> QED BY <1>2, <2>1, <2>2, <2>3, <2>4, <2>5, <2>6
<1>3. CASE ~SweepDue(s)
  <2> DEFINE q == Append(guards[s], g)
  <2>1. guards' = [guards EXCEPT ![s] = q] /\ UNCHANGED sweep_threshold
    BY <1>3 DEF Registered
  <2>2. q \in Seq(Entry) /\ Elements(q) = Elements(guards[s]) \cup {g}
        /\ Len(q) = Len(guards[s]) + 1
    BY <1>1, AppendElements
  <2>3. g \notin Elements(guards[s]) /\ g # Dangling
    BY <1>1
  <2>4. Once(q)
    BY <1>1, <2>3, AppendOnce
  <2> HIDE DEF q
  <2> QED BY <1>1, <1>3, <2>1, <2>2, <2>3, <2>4
<1> QED BY <1>2, <1>3

(* A registration keeps the registries exact.                              *)
LEMMA RegisteredExact ==
  ASSUME TypeOK, RegistryExact, NEW s \in Shard, NEW g \in Guard, Registered(s, g),
         g \notin Infos, Infos' = Infos \cup {g}, home'[g] = s,
         \A h \in Infos : home'[h] = home[h]
  PROVE  RegistryExact' /\ guards' \in [Shard -> Seq(Entry)]
         /\ sweep_threshold' \in [Shard -> Nat]
<1>1. PICK q \in Seq(Entry) :
        /\ guards' = [guards EXCEPT ![s] = q]
        /\ Elements(q) \ {Dangling} = InfosOf(s) \cup {g} /\ Once(q)
        /\ sweep_threshold' \in [Shard -> Nat]
  BY RegisteredSeq
<1>2. guards \in [Shard -> Seq(Entry)]
  BY DEF TypeOK, Entry
<1>3. InfosOf(s)' = InfosOf(s) \cup {g}
  BY InfosOfIs, InfosOfIsNext
<1>4. \A t \in Shard \ {s} : InfosOf(t)' = InfosOf(t)
  BY InfosOfIs, InfosOfIsNext
<1>5. guards' \in [Shard -> Seq(Entry)] /\ guards'[s] = q
      /\ \A t \in Shard \ {s} : guards'[t] = guards[t]
  BY <1>1, <1>2
<1> QED BY <1>1, <1>3, <1>4, <1>5, ExactIs, ExactIsNext

(* Infos whose last Arc is gone dangle.                                    *)
LEMMA DropExact ==
  ASSUME TypeOK, RegistryExact, NEW gone \in SUBSET Guard, Drop(gone),
         Infos' = Infos \ gone
  PROVE  /\ RegistryExact' /\ guards' \in [Shard -> Seq(Entry)]
         /\ home' \in [Guard -> Shard] /\ site' \in [Guard -> Location]
         /\ \A g \in Guard \ gone : home'[g] = home[g] /\ site'[g] = site[g]
         /\ \A s \in Shard : Len(guards'[s]) = Len(guards[s])
<1>1. AnyShard \in Shard /\ AnyLocation \in Location
  BY RegistryAssumption DEF AnyShard, AnyLocation
<1>2. /\ home' \in [Guard -> Shard] /\ site' \in [Guard -> Location]
      /\ \A g \in Guard \ gone : home'[g] = home[g] /\ site'[g] = site[g]
  BY <1>1 DEF Drop, TypeOK
<1>3. \A s \in Shard : InfosOf(s)' = InfosOf(s) \ gone
  BY <1>2, InfosTyped, InfosOfIs, InfosOfIsNext
<1>4. ASSUME NEW s \in Shard
      PROVE  /\ guards'[s] \in Seq(Entry) /\ Len(guards'[s]) = Len(guards[s])
             /\ Elements(guards'[s]) \ {Dangling} = (Elements(guards[s]) \ {Dangling}) \ gone
             /\ Once(guards'[s])
  <2> DEFINE q == guards[s]
             p == guards'[s]
  <2>1. /\ q \in Seq(Entry) /\ Dangling \notin Guard /\ Once(q)
    BY EntryTyped, ExactIs
  <2>2. p = [i \in DOMAIN q |-> IF q[i] \in gone THEN Dangling ELSE q[i]]
    BY DEF Drop
  <2> HIDE DEF p, q
  <2>3. DOMAIN q = 1 .. Len(q) /\ Len(q) \in Nat /\ \A i \in DOMAIN q : q[i] \in Entry
    BY <2>1
  <2>4. p \in [1 .. Len(q) -> Entry]
    BY <2>2, <2>3 DEF Entry
  <2>5. p \in Seq(Entry) /\ Len(p) = Len(q) /\ DOMAIN p = DOMAIN q
    BY <2>3, <2>4
  <2>6. \A i \in DOMAIN q : p[i] = IF q[i] \in gone THEN Dangling ELSE q[i]
    BY <2>2
  <2>7. Elements(p) \ {Dangling} = (Elements(q) \ {Dangling}) \ gone
    BY <2>1, <2>5, <2>6 DEF Elements
  <2>8. Once(p)
    BY <2>1, <2>5, <2>6 DEF Once
  <2> QED BY <2>5, <2>7, <2>8 DEF p, q
<1>5. guards' \in [Shard -> Seq(Entry)]
  BY <1>4 DEF Drop
<1>6. RegistryExact'
  BY <1>3, <1>4, ExactIs, ExactIsNext
<1> QED BY <1>2, <1>4, <1>5, <1>6

-----------------------------------------------------------------------------
(* Who owns the infos, step by step.                                       *)

(* The infos that guards own, by phase.                                    *)
LEMMA OwnedIs ==
  ASSUME NEW g \in Guard
  PROVE  g \in OwnedInfos <=> phase[g] \in {"recorded", "live", "departed"}
BY DEF OwnedInfos

(* One guard changes its phase, and the reports do not change.             *)
LEMMA PhaseMoves ==
  ASSUME TypeOK, NEW g \in Guard, NEW p \in Phase,
         phase' = [phase EXCEPT ![g] = p], UNCHANGED infos
  PROVE  /\ HeldInfos' = HeldInfos
         /\ OwnedInfos' = IF p \in {"recorded", "live", "departed"}
                          THEN OwnedInfos \cup {g} ELSE OwnedInfos \ {g}
         /\ phase' \in [Guard -> Phase]
         /\ phase'[g] = p /\ \A h \in Guard \ {g} : phase'[h] = phase[h]
<1>1. HeldInfos' = HeldInfos
  BY DEF HeldInfos
<1>2. /\ phase' \in [Guard -> Phase]
      /\ phase'[g] = p /\ \A h \in Guard \ {g} : phase'[h] = phase[h]
  BY DEF TypeOK
<1>3. OwnedInfos' = {h \in Guard : phase'[h] \in {"recorded", "live", "departed"}}
  BY DEF OwnedInfos
<1>4. OwnedInfos' = IF p \in {"recorded", "live", "departed"}
                    THEN OwnedInfos \cup {g} ELSE OwnedInfos \ {g}
  BY <1>2, <1>3 DEF OwnedInfos
<1> QED BY <1>1, <1>2, <1>4

(* The peak rises to the infos there are.                                  *)
LEMMA PeakTyped ==
  ASSUME TypeOK, NEW s \in Shard, NEW g \in Guard, Peak(s, g)
  PROVE  /\ peak' \in [Shard -> Nat]
         /\ peak'[s] >= peak[s] /\ peak'[s] >= Cardinality(InfosOf(s) \cup {g})
         /\ \A t \in Shard \ {s} : peak'[t] = peak[t]
<1>1. InfosOf(s) \cup {g} \subseteq Guard
  BY InfosOfIs, InfosTyped
<1>2. Cardinality(InfosOf(s) \cup {g}) \in Nat
  BY <1>1, RegistryAssumption, FS_Subset, FS_CardinalityType
<1> DEFINE a == peak[s]
           b == Cardinality(InfosOf(s) \cup {g})
<1>3. a \in Nat /\ b \in Nat
  BY <1>2 DEF TypeOK
<1>4. peak' = [peak EXCEPT ![s] = Max({a, b})]
  BY DEF Peak
<1> HIDE DEF a, b
<1>5. \E x \in {a, b} : \A y \in {a, b} : x >= y
  BY <1>3
<1>6. Max({a, b}) \in {a, b} /\ \A y \in {a, b} : Max({a, b}) >= y
  BY <1>5, Zenon DEF Max
<1>7. Max({a, b}) \in Nat /\ Max({a, b}) >= a /\ Max({a, b}) >= b
  BY <1>3, <1>6
<1> QED BY <1>4, <1>7 DEF TypeOK, a, b

(* There is no info at first.                                              *)
LEMMA ExactInitial == Init => ExactInv
<1> SUFFICES ASSUME Init PROVE ExactInv
  OBVIOUS
<1>1. AnyShard \in Shard /\ AnyLocation \in Location
  BY RegistryAssumption DEF AnyShard, AnyLocation
<1>2. TypeOK
  BY <1>1 DEF Init, TypeOK, Phase, ReportPc
<1>3. HeldInfos = {} /\ OwnedInfos = {}
  BY EmptyElements DEF Init, HeldInfos, OwnedInfos
<1>4. \A s \in Shard : InfosOf(s) = {} /\ Elements(guards[s]) = {} /\ Once(guards[s])
  BY <1>3, EmptyElements DEF Init, InfosOf, Once
<1> QED BY <1>2, <1>3, <1>4, ExactIs DEF ExactInv, CountedUnheld

(* Guard::at_location and clones register a new info.                      *)
LEMMA RecordExact ==
  ASSUME ExactInv, NEW g \in Guard, NEW s \in Shard, NEW l \in Location, Record(g, s, l)
  PROVE  ExactInv' /\ g \notin Infos /\ Infos' = Infos \cup {g}
<1>1. /\ TypeOK /\ phase[g] = "none" /\ g \notin HeldInfos
      /\ phase' = [phase EXCEPT ![g] = "recorded"] /\ UNCHANGED infos
      /\ home' = [home EXCEPT ![g] = s] /\ site' = [site EXCEPT ![g] = l]
      /\ Registered(s, g) /\ Peak(s, g)
      /\ quiet' = [r \in Reporter |-> FALSE]
      /\ UNCHANGED <<pc, todo, locked>>
  BY DEF ExactInv, Record, FreeGuard, Disturb, reports
<1>2. /\ HeldInfos' = HeldInfos /\ OwnedInfos' = OwnedInfos \cup {g}
      /\ phase' \in [Guard -> Phase]
      /\ phase'[g] = "recorded" /\ \A h \in Guard \ {g} : phase'[h] = phase[h]
  BY <1>1, PhaseMoves DEF Phase
<1>3. g \notin Infos /\ Infos' = Infos \cup {g} /\ Infos \subseteq Guard
  BY <1>1, <1>2, OwnedIs, InfosTyped DEF Infos
<1>4. /\ home' \in [Guard -> Shard] /\ site' \in [Guard -> Location] /\ home'[g] = s
      /\ \A h \in Infos : home'[h] = home[h]
  BY <1>1, <1>3 DEF TypeOK
<1>5. /\ RegistryExact' /\ guards' \in [Shard -> Seq(Entry)]
      /\ sweep_threshold' \in [Shard -> Nat]
  BY <1>1, <1>3, <1>4, RegisteredExact DEF ExactInv
<1>6. TypeOK'
  BY <1>1, <1>2, <1>4, <1>5, PeakTyped DEF TypeOK, Entry
<1>7. CountedUnheld'
  BY <1>2 DEF ExactInv, CountedUnheld
<1> QED BY <1>3, <1>5, <1>6, <1>7 DEF ExactInv

(* Counting a guard moves no info.                                         *)
LEMMA CountExact ==
  ASSUME ExactInv, NEW g \in Guard, Count(g)
  PROVE  ExactInv' /\ Infos' = Infos
<1>1. /\ TypeOK /\ phase[g] = "recorded" /\ phase' = [phase EXCEPT ![g] = "live"]
      /\ quiet' = [r \in Reporter |-> FALSE]
      /\ UNCHANGED <<guards, sweep_threshold, home, site, pc, todo, locked, infos, peak>>
  BY DEF ExactInv, Count, Disturb, registries, reports
<1>2. /\ HeldInfos' = HeldInfos /\ OwnedInfos' = OwnedInfos \cup {g}
      /\ phase' \in [Guard -> Phase]
      /\ phase'[g] = "live" /\ \A h \in Guard \ {g} : phase'[h] = phase[h]
  BY <1>1, PhaseMoves DEF Phase
<1>3. Infos' = Infos
  BY <1>1, <1>2, OwnedIs DEF Infos
<1>4. RegistryExact'
  BY <1>1, <1>3, ExactFrame DEF ExactInv
<1>5. TypeOK'
  BY <1>1, <1>2 DEF TypeOK
<1>6. CountedUnheld'
  BY <1>2 DEF ExactInv, CountedUnheld
<1> QED BY <1>3, <1>4, <1>5, <1>6 DEF ExactInv

(* Nor does counting one ahead of its record.                              *)
LEMMA CountFirstExact ==
  ASSUME ExactInv, NEW g \in Guard, NEW s \in Shard, NEW l \in Location,
         CountFirst(g, s, l)
  PROVE  ExactInv' /\ g \notin Infos /\ Infos' = Infos
<1>1. /\ TypeOK /\ phase[g] = "none" /\ g \notin HeldInfos
      /\ phase' = [phase EXCEPT ![g] = "counted"]
      /\ home' = [home EXCEPT ![g] = s] /\ site' = [site EXCEPT ![g] = l]
      /\ quiet' = [r \in Reporter |-> FALSE]
      /\ UNCHANGED <<guards, sweep_threshold, pc, todo, locked, infos, peak>>
  BY DEF ExactInv, CountFirst, FreeGuard, Disturb, registries, reports
<1>2. /\ HeldInfos' = HeldInfos /\ OwnedInfos' = OwnedInfos \ {g}
      /\ phase' \in [Guard -> Phase]
      /\ phase'[g] = "counted" /\ \A h \in Guard \ {g} : phase'[h] = phase[h]
  BY <1>1, PhaseMoves DEF Phase
<1>3. Infos' = Infos /\ g \notin Infos /\ Infos \subseteq Guard
  BY <1>1, <1>2, OwnedIs, InfosTyped DEF Infos
<1>4. \A h \in Infos : home'[h] = home[h]
  BY <1>1, <1>3 DEF TypeOK
<1>5. RegistryExact'
  BY <1>1, <1>3, <1>4, ExactFrame DEF ExactInv
<1>6. TypeOK'
  BY <1>1, <1>2 DEF TypeOK
<1>7. CountedUnheld'
  BY <1>1, <1>2 DEF ExactInv, CountedUnheld
<1> QED BY <1>3, <1>5, <1>6, <1>7 DEF ExactInv

(* Guard::for_shard registers the info of a counted guard.                 *)
LEMMA RecordLateExact ==
  ASSUME ExactInv, NEW g \in Guard, RecordLate(g)
  PROVE  ExactInv' /\ g \notin Infos /\ Infos' = Infos \cup {g} /\ home[g] \in Shard
<1>1. /\ TypeOK /\ phase[g] = "counted" /\ g \notin HeldInfos
      /\ phase' = [phase EXCEPT ![g] = "live"] /\ home[g] \in Shard
      /\ Registered(home[g], g) /\ Peak(home[g], g)
      /\ quiet' = [r \in Reporter |-> FALSE]
      /\ UNCHANGED <<home, site, infos, pc, todo, locked>>
  BY DEF ExactInv, CountedUnheld, RecordLate, Disturb, reports, TypeOK
<1>2. /\ HeldInfos' = HeldInfos /\ OwnedInfos' = OwnedInfos \cup {g}
      /\ phase' \in [Guard -> Phase]
      /\ phase'[g] = "live" /\ \A h \in Guard \ {g} : phase'[h] = phase[h]
  BY <1>1, PhaseMoves DEF Phase
<1>3. g \notin Infos /\ Infos' = Infos \cup {g}
  BY <1>1, <1>2, OwnedIs DEF Infos
<1>4. /\ RegistryExact' /\ guards' \in [Shard -> Seq(Entry)]
      /\ sweep_threshold' \in [Shard -> Nat]
  BY <1>1, <1>3, RegisteredExact DEF ExactInv
<1>5. TypeOK'
  BY <1>1, <1>2, <1>4, PeakTyped DEF TypeOK, Entry
<1>6. CountedUnheld'
  BY <1>2 DEF ExactInv, CountedUnheld
<1> QED BY <1>1, <1>3, <1>4, <1>5, <1>6 DEF ExactInv

(* Uncounting a guard moves no info.                                       *)
LEMMA DepartExact ==
  ASSUME ExactInv, NEW g \in Guard, Depart(g)
  PROVE  ExactInv' /\ Infos' = Infos
<1>1. /\ TypeOK /\ phase[g] = "live" /\ phase' = [phase EXCEPT ![g] = "departed"]
      /\ quiet' = [r \in Reporter |-> FALSE]
      /\ UNCHANGED <<guards, sweep_threshold, home, site, pc, todo, locked, infos, peak>>
  BY DEF ExactInv, Depart, Disturb, registries, reports
<1>2. /\ HeldInfos' = HeldInfos /\ OwnedInfos' = OwnedInfos \cup {g}
      /\ phase' \in [Guard -> Phase]
      /\ phase'[g] = "departed" /\ \A h \in Guard \ {g} : phase'[h] = phase[h]
  BY <1>1, PhaseMoves DEF Phase
<1>3. Infos' = Infos
  BY <1>1, <1>2, OwnedIs DEF Infos
<1>4. RegistryExact'
  BY <1>1, <1>3, ExactFrame DEF ExactInv
<1>5. TypeOK'
  BY <1>1, <1>2 DEF TypeOK
<1>6. CountedUnheld'
  BY <1>2 DEF ExactInv, CountedUnheld
<1> QED BY <1>3, <1>4, <1>5, <1>6 DEF ExactInv

(* Dropping the info of a guard makes its entry dangle unless a report     *)
(* holds the info.                                                         *)
LEMMA DropInfoExact ==
  ASSUME ExactInv, NEW g \in Guard, DropInfo(g)
  PROVE  /\ ExactInv' /\ Infos' = Infos \ ({g} \ HeldInfos)
         /\ \A s \in Shard : Len(guards'[s]) = Len(guards[s])
         /\ \A h \in Guard \ {g} : home'[h] = home[h] /\ site'[h] = site[h]
<1> DEFINE gone == {g} \ HeldInfos
<1>1. /\ TypeOK /\ phase[g] = "departed" /\ phase' = [phase EXCEPT ![g] = "none"]
      /\ quiet' = [r \in Reporter |-> FALSE] /\ Drop(gone) /\ gone \in SUBSET Guard
      /\ UNCHANGED <<sweep_threshold, pc, todo, locked, infos, peak>>
  BY DEF ExactInv, DropInfo, Disturb, reports
<1>2. /\ HeldInfos' = HeldInfos /\ OwnedInfos' = OwnedInfos \ {g}
      /\ phase' \in [Guard -> Phase]
      /\ phase'[g] = "none" /\ \A h \in Guard \ {g} : phase'[h] = phase[h]
  BY <1>1, PhaseMoves DEF Phase
<1>3. Infos' = Infos \ gone
  BY <1>1, <1>2 DEF Infos
<1> HIDE DEF gone
<1>4. /\ RegistryExact' /\ guards' \in [Shard -> Seq(Entry)]
      /\ home' \in [Guard -> Shard] /\ site' \in [Guard -> Location]
      /\ \A h \in Guard \ gone : home'[h] = home[h] /\ site'[h] = site[h]
      /\ \A s \in Shard : Len(guards'[s]) = Len(guards[s])
  BY <1>1, <1>3, DropExact DEF ExactInv
<1>5. TypeOK'
  BY <1>1, <1>2, <1>4 DEF TypeOK, Entry
<1>6. CountedUnheld'
  BY <1>2 DEF ExactInv, CountedUnheld
<1> QED BY <1>3, <1>4, <1>5, <1>6 DEF ExactInv, gone

(* A report that begins moves no info.                                     *)
LEMMA BeginExact ==
  ASSUME ExactInv, NEW r \in Reporter, Begin(r)
  PROVE  ExactInv' /\ Infos' = Infos
<1>1. /\ TypeOK /\ UNCHANGED <<guards, sweep_threshold, phase, home, site, locked, infos, peak>>
      /\ pc' = [pc EXCEPT ![r] = "sweep"] /\ todo' = [todo EXCEPT ![r] = Shard]
  BY DEF ExactInv, Begin, registries, provenance
<1>2. HeldInfos' = HeldInfos /\ OwnedInfos' = OwnedInfos
  BY <1>1 DEF HeldInfos, OwnedInfos
<1>3. Infos' = Infos
  BY <1>2 DEF Infos
<1>4. RegistryExact'
  BY <1>1, <1>3, ExactFrame DEF ExactInv
<1>5. quiet' \in [Reporter -> BOOLEAN]
  BY DEF ExactInv, TypeOK, Begin
<1>6. TypeOK'
  BY <1>1, <1>5 DEF TypeOK, ReportPc
<1>7. CountedUnheld'
  BY <1>1, <1>2 DEF ExactInv, CountedUnheld
<1> QED BY <1>3, <1>4, <1>6, <1>7 DEF ExactInv

(* The shard that a report sweeps.                                         *)
LEMMA SweepPick ==
  ASSUME TypeOK, NEW r \in Reporter, SweepShard(r)
  PROVE  \E s \in Shard :
           /\ s \in todo[r] /\ locked' = [locked EXCEPT ![r] = {s}]
           /\ guards' = [guards EXCEPT ![s] = Alive(guards[s])]
           /\ sweep_threshold' = [sweep_threshold EXCEPT ![s] = 2 * Len(Alive(guards[s]))]
           /\ pc' = [pc EXCEPT ![r] = "upgrade"]
           /\ UNCHANGED <<phase, home, site, todo, infos, peak, quiet>>
BY DEF TypeOK, SweepShard, Swept, Sweep, provenance, history

(* The sweep of a report drops dangling entries only.                      *)
LEMMA SweepShardExact ==
  ASSUME ExactInv, NEW r \in Reporter, SweepShard(r)
  PROVE  ExactInv' /\ Infos' = Infos
<1>1. PICK s \in Shard :
        /\ s \in todo[r] /\ locked' = [locked EXCEPT ![r] = {s}]
        /\ guards' = [guards EXCEPT ![s] = Alive(guards[s])]
        /\ sweep_threshold' = [sweep_threshold EXCEPT ![s] = 2 * Len(Alive(guards[s]))]
        /\ pc' = [pc EXCEPT ![r] = "upgrade"]
        /\ UNCHANGED <<phase, home, site, todo, infos, peak, quiet>>
  BY SweepPick DEF ExactInv
<1>2. HeldInfos' = HeldInfos /\ OwnedInfos' = OwnedInfos
  BY <1>1 DEF HeldInfos, OwnedInfos
<1>3. Infos' = Infos
  BY <1>2 DEF Infos
<1>4. TypeOK /\ RegistryExact
  BY DEF ExactInv
<1>5. /\ Alive(guards[s]) \in Seq(Entry) /\ Once(Alive(guards[s]))
      /\ Elements(Alive(guards[s])) = InfosOf(s) /\ Len(Alive(guards[s])) \in Nat
  BY <1>4, SweepExact
<1>6. \A t \in Shard : InfosOf(t)' = InfosOf(t)
  BY <1>1, <1>3, InfosOfIs, InfosOfIsNext
<1>7. guards \in [Shard -> Seq(Entry)]
  BY <1>4 DEF TypeOK, Entry
<1> DEFINE q == Alive(guards[s])
<1> HIDE DEF q
<1>8. /\ guards' \in [Shard -> Seq(Entry)] /\ guards'[s] = q
      /\ \A t \in Shard \ {s} : guards'[t] = guards[t]
      /\ sweep_threshold' \in [Shard -> Nat]
  BY <1>1, <1>4, <1>5, <1>7 DEF q, TypeOK
<1>9. Dangling \notin InfosOf(s)
  BY <1>4, InfosOfIs, InfosTyped, EntryTyped
<1>10. RegistryExact'
  BY <1>4, <1>5, <1>6, <1>8, <1>9, ExactIs, ExactIsNext DEF q
<1>11. TypeOK'
  BY <1>1, <1>4, <1>8 DEF TypeOK, Entry, ReportPc
<1>12. CountedUnheld'
  BY <1>1, <1>2 DEF ExactInv, CountedUnheld
<1> QED BY <1>3, <1>10, <1>11, <1>12 DEF ExactInv

(* The shard whose infos a report collects.                                *)
LEMMA UpgradePick ==
  ASSUME TypeOK, NEW r \in Reporter, Upgrade(r)
  PROVE  \E s \in Shard :
           /\ s \in locked[r] /\ pc[r] = "upgrade"
           /\ infos' = [infos EXCEPT ![r] = infos[r] \o Alive(guards[s])]
           /\ todo' = [todo EXCEPT ![r] = todo[r] \ {s}]
           /\ pc' = [pc EXCEPT ![r] = IF todo[r] = {s} THEN "aggregate" ELSE "sweep"]
           /\ locked' = [locked EXCEPT ![r] = {}]
           /\ UNCHANGED <<guards, sweep_threshold, phase, home, site, peak, quiet>>
BY DEF TypeOK, Upgrade, Live, registries, provenance, history

(* What it holds then.                                                     *)
LEMMA UpgradeHeld ==
  ASSUME TypeOK, RegistryExact, NEW r \in Reporter, NEW s \in Shard,
         infos' = [infos EXCEPT ![r] = infos[r] \o Alive(guards[s])]
  PROVE  /\ infos' \in [Reporter -> Seq(Guard)]
         /\ Elements(infos'[r]) = Elements(infos[r]) \cup InfosOf(s)
         /\ \A q \in Reporter \ {r} : infos'[q] = infos[q]
         /\ HeldInfos' = HeldInfos \cup InfosOf(s)
<1>1. Alive(guards[s]) \in Seq(Guard) /\ Elements(Alive(guards[s])) = InfosOf(s)
  BY SweepExact
<1>2. infos[r] \in Seq(Guard)
  BY DEF TypeOK
<1> DEFINE new == infos[r] \o Alive(guards[s])
<1>3. new \in Seq(Guard) /\ Elements(new) = Elements(infos[r]) \cup InfosOf(s)
  BY <1>1, <1>2, ConcatElements
<1>4. infos' = [infos EXCEPT ![r] = new]
  OBVIOUS
<1> HIDE DEF new
<1>5. /\ infos' \in [Reporter -> Seq(Guard)] /\ infos'[r] = new
      /\ \A q \in Reporter \ {r} : infos'[q] = infos[q]
  BY <1>3, <1>4, ZenonT(60) DEF TypeOK
<1>7. HeldInfos' = UNION {Elements(infos'[q]) : q \in Reporter}
  BY DEF HeldInfos, Elements
<1>8. HeldInfos' = HeldInfos \cup InfosOf(s)
  <2>1. \A e : e \in HeldInfos' <=> \E q \in Reporter : e \in Elements(infos'[q])
    BY <1>7
  <2>2. \A e : e \in HeldInfos <=> \E q \in Reporter : e \in Elements(infos[q])
    BY DEF HeldInfos
  <2>3. \A q \in Reporter : \A e :
          e \in Elements(infos'[q])
            <=> e \in Elements(infos[q]) \/ (q = r /\ e \in InfosOf(s))
    <3> SUFFICES ASSUME NEW q \in Reporter
                 PROVE  \A e : e \in Elements(infos'[q])
                          <=> e \in Elements(infos[q]) \/ (q = r /\ e \in InfosOf(s))
      BY Zenon
    <3>1. CASE q = r
      <4>1. Elements(infos'[q]) = Elements(infos[q]) \cup InfosOf(s)
        BY <3>1, <1>3, <1>5
      <4> QED BY <3>1, <4>1, Zenon
    <3>2. CASE q # r
      <4>1. infos'[q] = infos[q]
        BY <3>2, <1>5
      <4> QED BY <3>2, <4>1, Zenon
    <3> QED BY <3>1, <3>2, Zenon
  <2>4. \A e : e \in HeldInfos' <=> e \in HeldInfos \/ e \in InfosOf(s)
    BY <2>1, <2>2, <2>3, Zenon
  <2> QED BY <2>4
<1> QED BY <1>3, <1>5, <1>8

(* Upgrading makes a report one more owner of infos that are alive.        *)
LEMMA UpgradeExact ==
  ASSUME ExactInv, NEW r \in Reporter, Upgrade(r)
  PROVE  ExactInv' /\ Infos' = Infos
<1>1. PICK s \in Shard :
        /\ infos' = [infos EXCEPT ![r] = infos[r] \o Alive(guards[s])]
        /\ todo' = [todo EXCEPT ![r] = todo[r] \ {s}]
        /\ pc' = [pc EXCEPT ![r] = IF todo[r] = {s} THEN "aggregate" ELSE "sweep"]
        /\ locked' = [locked EXCEPT ![r] = {}]
        /\ UNCHANGED <<guards, sweep_threshold, phase, home, site, peak, quiet>>
  BY UpgradePick DEF ExactInv
<1>2. TypeOK /\ RegistryExact /\ CountedUnheld
  BY DEF ExactInv
<1>3. infos' \in [Reporter -> Seq(Guard)] /\ HeldInfos' = HeldInfos \cup InfosOf(s)
  BY <1>1, <1>2, UpgradeHeld
<1>4. OwnedInfos' = OwnedInfos
  BY <1>1 DEF OwnedInfos
<1>5. InfosOf(s) \subseteq Infos
  BY InfosOfIs
<1>6. Infos' = Infos
  BY <1>3, <1>4, <1>5 DEF Infos
<1>7. RegistryExact'
  BY <1>1, <1>2, <1>6, ExactFrame
<1>8. todo' \in [Reporter -> SUBSET Shard] /\ locked' \in [Reporter -> SUBSET Shard]
      /\ pc' \in [Reporter -> ReportPc]
  BY <1>1, <1>2 DEF TypeOK, ReportPc
<1>9. TypeOK'
  BY <1>1, <1>2, <1>3, <1>8 DEF TypeOK
<1>10. CountedUnheld'
  <2>1. \A g \in Guard : phase[g] = "counted" => g \notin Infos
    BY <1>2, OwnedIs DEF CountedUnheld, Infos
  <2> QED BY <1>1, <1>3, <1>5, <2>1 DEF CountedUnheld, Infos
<1> QED BY <1>6, <1>7, <1>9, <1>10 DEF ExactInv

(* The infos that a report drops.                                          *)
Dropped(r) ==
  Elements(infos[r]) \
    (OwnedInfos \cup UNION {Elements(infos[q]) : q \in Reporter \ {r}})

(* A report that ends drops the infos that nobody else owns.               *)
LEMMA AggregateExact ==
  ASSUME ExactInv, NEW r \in Reporter, Aggregate(r)
  PROVE  /\ ExactInv' /\ Infos' = Infos \ Dropped(r)
         /\ Dropped(r) \in SUBSET Guard /\ Dropped(r) \cap OwnedInfos = {}
         /\ \A s \in Shard : Len(guards'[s]) = Len(guards[s])
         /\ \A g \in Guard \ Dropped(r) : home'[g] = home[g] /\ site'[g] = site[g]
         /\ HeldInfos' = UNION {Elements(infos[q]) : q \in Reporter \ {r}}
<1> DEFINE others == UNION {Elements(infos[q]) : q \in Reporter \ {r}}
           gone == Dropped(r)
<1>1. /\ infos' = [infos EXCEPT ![r] = <<>>] /\ Drop(gone)
      /\ pc' = [pc EXCEPT ![r] = "idle"]
      /\ quiet' = [quiet EXCEPT ![r] = FALSE]
      /\ UNCHANGED <<sweep_threshold, phase, todo, locked, peak>>
  BY DEF Aggregate, Dropped
<1>2. TypeOK /\ RegistryExact /\ CountedUnheld
  BY DEF ExactInv
<1>3. /\ infos' \in [Reporter -> Seq(Guard)] /\ infos'[r] = <<>>
      /\ \A q \in Reporter \ {r} : infos'[q] = infos[q]
  BY <1>1, <1>2 DEF TypeOK
<1>4. OwnedInfos' = OwnedInfos
  BY <1>1 DEF OwnedInfos
<1>5. HeldInfos = others \cup Elements(infos[r])
  BY DEF HeldInfos
<1>6. HeldInfos' = others
  <2>1. HeldInfos' = UNION {Elements(infos'[q]) : q \in Reporter}
    BY DEF HeldInfos, Elements
  <2>2. Elements(infos'[r]) = {}
    BY <1>3, EmptyElements
  <2> QED BY <1>3, <2>1, <2>2
<1>7. gone = Elements(infos[r]) \ (OwnedInfos \cup others)
  BY DEF Dropped
<1>8. gone \in SUBSET Guard
  BY <1>2, <1>5, <1>7, InfosTyped
<1> HIDE DEF gone, others
<1>9. Infos' = Infos \ gone
  BY <1>4, <1>5, <1>6, <1>7 DEF Infos
<1>10. /\ RegistryExact' /\ guards' \in [Shard -> Seq(Entry)]
       /\ home' \in [Guard -> Shard] /\ site' \in [Guard -> Location]
       /\ \A g \in Guard \ gone : home'[g] = home[g] /\ site'[g] = site[g]
       /\ \A s \in Shard : Len(guards'[s]) = Len(guards[s])
  BY <1>1, <1>2, <1>8, <1>9, DropExact
<1>11. TypeOK'
  BY <1>1, <1>2, <1>3, <1>10 DEF TypeOK, Entry, ReportPc
<1>12. CountedUnheld'
  BY <1>1, <1>2, <1>5, <1>6 DEF CountedUnheld
<1> QED BY <1>6, <1>7, <1>8, <1>9, <1>10, <1>11, <1>12 DEF ExactInv, gone, others

(* Stuttering.                                                             *)
LEMMA IdleExact ==
  ASSUME ExactInv, UNCHANGED vars
  PROVE  ExactInv'
<1>1. UNCHANGED <<guards, sweep_threshold, phase, home, site, pc, todo, locked, infos, peak, quiet>>
  BY DEF vars, registries, provenance, reports, history
<1>2. HeldInfos' = HeldInfos /\ OwnedInfos' = OwnedInfos
  BY <1>1 DEF HeldInfos, OwnedInfos
<1>3. Infos' = Infos
  BY <1>2 DEF Infos
<1>4. RegistryExact'
  BY <1>1, <1>3, ExactFrame DEF ExactInv
<1> QED BY <1>1, <1>2, <1>4 DEF ExactInv, TypeOK, CountedUnheld

(* A clone is recorded at the shard and the site of its original.          *)
LEMMA CloneIs ==
  ASSUME TypeOK, NEW g \in Guard, NEW h \in Guard, CloneGuard(g, h)
  PROVE  \E s \in Shard, l \in Location : Record(h, s, l)
BY DEF TypeOK, CloneGuard

(* The invariant is inductive.                                             *)
LEMMA ExactNext == ExactInv /\ [Next]_vars => ExactInv'
<1> SUFFICES ASSUME ExactInv, [Next]_vars PROVE ExactInv'
  OBVIOUS
<1>1. CASE UNCHANGED vars
  BY <1>1, IdleExact
<1>2. CASE \E g, h \in Guard : CloneGuard(g, h)
  BY <1>2, CloneIs, RecordExact DEF ExactInv
<1>3. CASE Next
  BY <1>2, <1>3, RecordExact, CountFirstExact, CountExact, RecordLateExact, DepartExact,
     DropInfoExact, BeginExact, SweepShardExact, UpgradeExact, AggregateExact DEF Next
<1> QED BY <1>1, <1>3

(* Types, and registries that hold exactly the infos alive at their shard, *)
(* with no info on a guard that is not recorded yet.                       *)
THEOREM RegistryInvariant == Spec => []ExactInv
BY ExactInitial, ExactNext, PTL DEF Spec

(* The type invariant of the registries and the reports.                   *)
THEOREM RegistryTyped == Spec => []TypeOK
<1>1. ExactInv => TypeOK
  BY DEF ExactInv
<1> QED BY <1>1, RegistryInvariant, PTL

(* No info that is alive is ever swept, and none is registered twice.      *)
THEOREM RegistriesExact == Spec => []RegistryExact
<1>1. ExactInv => RegistryExact
  BY DEF ExactInv
<1> QED BY <1>1, RegistryInvariant, PTL

-----------------------------------------------------------------------------
(* The registries stay within bounds.                                      *)

(* The maximum of two numbers.                                             *)
LEMMA MaxTwo ==
  ASSUME NEW a \in Nat, NEW b \in Nat
  PROVE  /\ Max({a, b}) \in Nat /\ Max({a, b}) \in {a, b}
         /\ Max({a, b}) >= a /\ Max({a, b}) >= b
<1>1. \E x \in {a, b} : \A y \in {a, b} : x >= y
  OBVIOUS
<1>2. Max({a, b}) \in {a, b} /\ \A y \in {a, b} : Max({a, b}) >= y
  BY <1>1, Zenon DEF Max
<1> QED BY <1>2

(* A registry is swept before it outgrows twice the infos that were ever   *)
(* alive at once on its shard.                                             *)
Bounds ==
  \A s \in Shard :
    /\ Cardinality(InfosOf(s)) <= peak[s]
    /\ sweep_threshold[s] <= 2 * peak[s]
    /\ Len(guards[s]) <= Max({MIN_SWEEP_THRESHOLD, 2 * peak[s]})

(* There are finitely many infos.                                          *)
LEMMA InfosFinite ==
  ASSUME TypeOK, NEW s
  PROVE  IsFiniteSet(InfosOf(s)) /\ Cardinality(InfosOf(s)) \in Nat
<1>1. InfosOf(s) \subseteq Guard
  BY InfosOfIs, InfosTyped
<1> QED BY <1>1, RegistryAssumption, FS_Subset, FS_CardinalityType

(* No info is added and no registry grows.                                 *)
LEMMA BoundsFrame ==
  ASSUME ExactInv, Bounds, UNCHANGED <<sweep_threshold, peak>>,
         \A s \in Shard : Len(guards'[s]) = Len(guards[s]),
         \A s \in Shard : InfosOf(s)' \subseteq InfosOf(s)
  PROVE  Bounds'
<1> SUFFICES ASSUME NEW s \in Shard
             PROVE  /\ Cardinality(InfosOf(s)') <= peak[s]
                    /\ sweep_threshold[s] <= 2 * peak[s]
                    /\ Len(guards'[s]) <= Max({MIN_SWEEP_THRESHOLD, 2 * peak[s]})
  BY DEF Bounds
<1>1. IsFiniteSet(InfosOf(s)) /\ Cardinality(InfosOf(s)) \in Nat
      /\ InfosOf(s)' \subseteq InfosOf(s)
  BY InfosFinite DEF ExactInv
<1>2. /\ Cardinality(InfosOf(s)') \in Nat
      /\ Cardinality(InfosOf(s)') <= Cardinality(InfosOf(s))
  BY <1>1, FS_Subset, FS_CardinalityType
<1>3. peak[s] \in Nat /\ Cardinality(InfosOf(s)) <= peak[s]
  BY DEF ExactInv, TypeOK, Bounds
<1>4. Cardinality(InfosOf(s)') <= peak[s]
  BY <1>1, <1>2, <1>3
<1> QED BY <1>4 DEF Bounds

(* A registration.                                                         *)
LEMMA RegisteredBounds ==
  ASSUME ExactInv, Bounds, NEW s \in Shard, NEW g \in Guard, Registered(s, g),
         Peak(s, g), g \notin Infos, Infos' = Infos \cup {g}, home'[g] = s,
         \A h \in Infos : home'[h] = home[h]
  PROVE  Bounds'
<1> DEFINE c == Cardinality(InfosOf(s))
<1>1. TypeOK /\ RegistryExact /\ g \notin InfosOf(s)
  BY InfosOfIs DEF ExactInv
<1>2. PICK q \in Seq(Entry) :
        /\ guards' = [guards EXCEPT ![s] = q]
        /\ \/ /\ SweepDue(s)
              /\ Len(q) = c + 1
              /\ sweep_threshold' = [sweep_threshold EXCEPT ![s] = 2 * c]
           \/ /\ ~SweepDue(s)
              /\ Len(q) = Len(guards[s]) + 1
              /\ UNCHANGED sweep_threshold
  BY <1>1, RegisteredSeq
<1>3. InfosOf(s)' = InfosOf(s) \cup {g}
  BY InfosOfIs, InfosOfIsNext
<1>4. \A t \in Shard \ {s} : InfosOf(t)' = InfosOf(t)
  BY InfosOfIs, InfosOfIsNext
<1>5. IsFiniteSet(InfosOf(s)) /\ c \in Nat
  BY <1>1, InfosFinite
<1>6. Cardinality(InfosOf(s) \cup {g}) = c + 1
  BY <1>1, <1>5, FS_AddElement
<1> HIDE DEF c
<1>7. /\ peak' \in [Shard -> Nat] /\ peak'[s] >= peak[s] /\ peak'[s] >= c + 1
      /\ \A t \in Shard \ {s} : peak'[t] = peak[t]
  BY <1>1, <1>6, PeakTyped
<1>8. /\ peak[s] \in Nat /\ c <= peak[s] /\ sweep_threshold[s] <= 2 * peak[s]
      /\ sweep_threshold \in [Shard -> Nat] /\ sweep_threshold[s] \in Nat
      /\ guards \in [Shard -> Seq(Entry)] /\ Len(guards[s]) \in Nat
  <2>1. peak[s] \in Nat /\ sweep_threshold \in [Shard -> Nat]
        /\ guards \in [Shard -> Seq(Entry)]
    BY <1>1 DEF TypeOK, Entry
  <2>2. c <= peak[s] /\ sweep_threshold[s] <= 2 * peak[s]
    BY DEF Bounds, c
  <2>3. guards[s] \in Seq(Entry)
    BY <2>1
  <2> QED BY <2>1, <2>2, <2>3
<1>9. peak'[s] \in Nat /\ 2 * peak'[s] \in Nat /\ MIN_SWEEP_THRESHOLD \in Nat
  BY <1>7, RegistryAssumption
<1> DEFINE m == Max({MIN_SWEEP_THRESHOLD, 2 * peak'[s]})
           d == Max({sweep_threshold[s], MIN_SWEEP_THRESHOLD})
<1>10. m \in Nat /\ m >= MIN_SWEEP_THRESHOLD /\ m >= 2 * peak'[s]
  BY <1>9, MaxTwo
<1>11. d \in {sweep_threshold[s], MIN_SWEEP_THRESHOLD} /\ d \in Nat
  BY <1>8, <1>9, MaxTwo
<1>12. SweepDue(s) <=> Len(guards[s]) >= d
  BY DEF SweepDue
<1>13. guards'[s] = q /\ \A t \in Shard \ {s} : guards'[t] = guards[t]
  BY <1>2, <1>8
<1> HIDE DEF m, d
<1>14. /\ sweep_threshold'[s] <= 2 * peak'[s]
       /\ \A t \in Shard \ {s} : sweep_threshold'[t] = sweep_threshold[t]
       /\ Len(q) <= m
  <2>1. CASE SweepDue(s)
    <3>1. Len(q) = c + 1 /\ sweep_threshold' = [sweep_threshold EXCEPT ![s] = 2 * c]
      BY <1>2, <2>1
    <3>2. sweep_threshold'[s] = 2 * c
          /\ \A t \in Shard \ {s} : sweep_threshold'[t] = sweep_threshold[t]
      BY <1>8, <3>1
    <3>3. 2 * c <= 2 * peak'[s] /\ c + 1 <= m
      BY <1>5, <1>7, <1>9, <1>10
    <3> QED BY <3>1, <3>2, <3>3
  <2>2. CASE ~SweepDue(s)
    <3>1. Len(q) = Len(guards[s]) + 1 /\ UNCHANGED sweep_threshold
      BY <1>2, <2>2
    <3>2. Len(guards[s]) + 1 <= d
      BY <1>8, <1>11, <1>12, <2>2
    <3>3. sweep_threshold[s] <= 2 * peak'[s]
      BY <1>7, <1>8, <1>9
    <3>4. d <= m
      BY <1>8, <1>9, <1>10, <1>11, <3>3
    <3>5. Len(guards[s]) + 1 <= m
      BY <1>8, <1>10, <1>11, <3>2, <3>4
    <3> QED BY <3>1, <3>3, <3>5
  <2> QED BY <2>1, <2>2
<1> SUFFICES ASSUME NEW t \in Shard
             PROVE  /\ Cardinality(InfosOf(t)') <= peak'[t]
                    /\ sweep_threshold'[t] <= 2 * peak'[t]
                    /\ Len(guards'[t]) <= Max({MIN_SWEEP_THRESHOLD, 2 * peak'[t]})
  BY DEF Bounds
<1>15. CASE t = s
  BY <1>15, <1>3, <1>6, <1>7, <1>13, <1>14 DEF m
<1>16. CASE t # s
  BY <1>16, <1>4, <1>7, <1>13, <1>14 DEF Bounds
<1> QED BY <1>15, <1>16

(* The sweep of a report leaves the infos that are alive.                  *)
LEMMA SweepShardBounds ==
  ASSUME ExactInv, Bounds, NEW r \in Reporter, SweepShard(r)
  PROVE  Bounds'
<1>1. TypeOK /\ RegistryExact
  BY DEF ExactInv
<1>2. PICK s \in Shard :
        /\ guards' = [guards EXCEPT ![s] = Alive(guards[s])]
        /\ sweep_threshold' = [sweep_threshold EXCEPT ![s] = 2 * Len(Alive(guards[s]))]
        /\ UNCHANGED <<home, peak>>
  BY <1>1, SweepPick
<1> DEFINE c == Cardinality(InfosOf(s))
           q == Alive(guards[s])
<1>3. Len(q) = c /\ c \in Nat
  BY <1>1, SweepExact, InfosFinite
<1>4. \A t \in Shard : InfosOf(t)' = InfosOf(t)
  BY <1>2, SweepShardExact, InfosOfIs, InfosOfIsNext
<1>5. guards' = [guards EXCEPT ![s] = q]
      /\ sweep_threshold' = [sweep_threshold EXCEPT ![s] = 2 * c]
  BY <1>2, <1>3
<1>6. peak[s] \in Nat /\ c <= peak[s] /\ guards \in [Shard -> Seq(Entry)]
      /\ sweep_threshold \in [Shard -> Nat]
  BY <1>1 DEF TypeOK, Bounds, Entry
<1> HIDE DEF c, q
<1>7. 2 * peak[s] \in Nat /\ MIN_SWEEP_THRESHOLD \in Nat /\ c <= 2 * peak[s]
      /\ 2 * c <= 2 * peak[s]
  BY <1>3, <1>6, RegistryAssumption
<1>8. Max({MIN_SWEEP_THRESHOLD, 2 * peak[s]}) \in Nat
      /\ Max({MIN_SWEEP_THRESHOLD, 2 * peak[s]}) >= 2 * peak[s]
  BY <1>7, MaxTwo
<1>9. c <= Max({MIN_SWEEP_THRESHOLD, 2 * peak[s]})
  BY <1>3, <1>7, <1>8
<1> SUFFICES ASSUME NEW t \in Shard
             PROVE  /\ Cardinality(InfosOf(t)') <= peak[t]
                    /\ sweep_threshold'[t] <= 2 * peak[t]
                    /\ Len(guards'[t]) <= Max({MIN_SWEEP_THRESHOLD, 2 * peak[t]})
  BY <1>2 DEF Bounds
<1>10. CASE t = s
  <2>1. guards'[t] = q /\ sweep_threshold'[t] = 2 * c
    BY <1>5, <1>6, <1>10
  <2>2. Cardinality(InfosOf(t)') = c
    BY <1>4, <1>10 DEF c
  <2> QED BY <2>1, <2>2, <1>3, <1>6, <1>7, <1>9, <1>10
<1>11. CASE t # s
  <2>1. guards'[t] = guards[t] /\ sweep_threshold'[t] = sweep_threshold[t]
    BY <1>5, <1>6, <1>11
  <2> QED BY <2>1, <1>4 DEF Bounds
<1> QED BY <1>10, <1>11

(* Guard::at_location and clones.                                          *)
LEMMA RecordBounds ==
  ASSUME ExactInv, Bounds, NEW g \in Guard, NEW s \in Shard, NEW l \in Location,
         Record(g, s, l)
  PROVE  Bounds'
<1>1. g \notin Infos /\ Infos' = Infos \cup {g} /\ Infos \subseteq Guard
  BY RecordExact, InfosTyped DEF ExactInv
<1>2. home'[g] = s /\ \A h \in Infos : home'[h] = home[h]
  BY <1>1 DEF Record, ExactInv, TypeOK
<1> QED BY <1>1, <1>2, RegisteredBounds DEF Record

(* Guard::for_shard.                                                       *)
LEMMA RecordLateBounds ==
  ASSUME ExactInv, Bounds, NEW g \in Guard, RecordLate(g)
  PROVE  Bounds'
<1>1. g \notin Infos /\ Infos' = Infos \cup {g} /\ home[g] \in Shard
  BY RecordLateExact
<1>2. UNCHANGED home /\ Registered(home[g], g) /\ Peak(home[g], g)
  BY DEF RecordLate
<1> QED BY <1>1, <1>2, RegisteredBounds

(* The other steps.                                                        *)
LEMMA OtherBounds ==
  ASSUME ExactInv, Bounds,
         \/ UNCHANGED vars
         \/ \E g \in Guard : Count(g) \/ Depart(g) \/ DropInfo(g)
         \/ \E g \in Guard, s \in Shard, l \in Location : CountFirst(g, s, l)
         \/ \E r \in Reporter : Begin(r) \/ Upgrade(r) \/ Aggregate(r)
  PROVE  Bounds'
<1>1. UNCHANGED <<sweep_threshold, peak>>
  BY DEF vars, registries, history, Count, Depart, DropInfo, CountFirst, Begin, Upgrade,
         Aggregate
<1>2. Infos \subseteq Guard
  BY InfosTyped DEF ExactInv
<1>3. ASSUME UNCHANGED guards, Infos' = Infos, \A h \in Infos : home'[h] = home[h]
      PROVE  Bounds'
  <2>1. \A s \in Shard : InfosOf(s)' = InfosOf(s)
    BY <1>3, InfosOfIs, InfosOfIsNext
  <2> QED BY <1>1, <1>3, <2>1, BoundsFrame
<1>4. CASE UNCHANGED vars
  <2>1. UNCHANGED <<guards, home, phase, infos>>
    BY <1>4 DEF vars, registries, provenance, reports
  <2>2. Infos' = Infos
    BY <2>1 DEF Infos, OwnedInfos, HeldInfos
  <2> QED BY <1>3, <2>1, <2>2
<1>5. CASE \E g \in Guard : Count(g) \/ Depart(g)
  <2>1. UNCHANGED <<guards, home>>
    BY <1>5 DEF Count, Depart, registries
  <2>2. Infos' = Infos
    BY <1>5, CountExact, DepartExact
  <2> QED BY <1>3, <2>1, <2>2
<1>6. ASSUME NEW g \in Guard, NEW s \in Shard, NEW l \in Location, CountFirst(g, s, l)
      PROVE  Bounds'
  <2>1. UNCHANGED guards /\ home' = [home EXCEPT ![g] = s]
    BY <1>6 DEF CountFirst, registries
  <2>2. Infos' = Infos /\ g \notin Infos
    BY <1>6, CountFirstExact
  <2>3. \A h \in Infos : home'[h] = home[h]
    BY <1>2, <2>1, <2>2 DEF ExactInv, TypeOK
  <2> QED BY <1>3, <2>1, <2>2, <2>3
<1>7. CASE \E r \in Reporter : Begin(r) \/ Upgrade(r)
  <2>1. UNCHANGED <<guards, home>>
    BY <1>7 DEF Begin, Upgrade, registries, provenance
  <2>2. Infos' = Infos
    BY <1>7, BeginExact, UpgradeExact
  <2> QED BY <1>3, <2>1, <2>2
<1>8. ASSUME NEW gone, Infos' = Infos \ gone,
             \A h \in Guard \ gone : home'[h] = home[h],
             \A s \in Shard : Len(guards'[s]) = Len(guards[s])
      PROVE  Bounds'
  <2>1. \A s \in Shard : InfosOf(s)' \subseteq InfosOf(s)
    BY <1>2, <1>8, InfosOfIs, InfosOfIsNext
  <2> QED BY <1>1, <1>8, <2>1, BoundsFrame
<1>9. ASSUME NEW g \in Guard, DropInfo(g) PROVE Bounds'
  <2>1. /\ Infos' = Infos \ ({g} \ HeldInfos)
        /\ \A s \in Shard : Len(guards'[s]) = Len(guards[s])
        /\ \A h \in Guard \ ({g} \ HeldInfos) : home'[h] = home[h]
    <3>1. \A h \in Guard \ ({g} \ HeldInfos) : home'[h] = home[h]
      BY <1>9 DEF DropInfo, Drop
    <3> QED BY <1>9, <3>1, DropInfoExact
  <2> QED BY <1>8, <2>1
<1>10. ASSUME NEW r \in Reporter, Aggregate(r) PROVE Bounds'
  BY <1>8, <1>10, AggregateExact
<1> QED BY <1>4, <1>5, <1>6, <1>7, <1>9, <1>10

(* The bounds are inductive.                                               *)
LEMMA BoundsNext == ExactInv /\ Bounds /\ [Next]_vars => Bounds'
<1> SUFFICES ASSUME ExactInv, Bounds, [Next]_vars PROVE Bounds'
  OBVIOUS
<1>1. CASE \E g, h \in Guard : CloneGuard(g, h)
  BY <1>1, CloneIs, RecordBounds DEF ExactInv
<1> QED
  BY <1>1, RecordBounds, RecordLateBounds, SweepShardBounds, OtherBounds DEF Next

(* However registrations, drops and the sweeps of reports interleave, a    *)
(* registry never holds more than twice the infos that were ever alive at  *)
(* once on its shard, or the minimal threshold.                            *)
THEOREM RegistriesBounded == Spec => []RegistryBounded
<1>1. Init => Bounds
  <2> SUFFICES ASSUME Init PROVE Bounds
    OBVIOUS
  <2>1. HeldInfos = {} /\ OwnedInfos = {}
    BY EmptyElements DEF Init, HeldInfos, OwnedInfos
  <2>2. \A s \in Shard : InfosOf(s) = {}
    BY <2>1 DEF InfosOf
  <2>3. Cardinality({}) = 0
    BY FS_EmptySet
  <2>4. 2 * 0 \in Nat /\ MIN_SWEEP_THRESHOLD \in Nat /\ Len(<<>>) = 0
    BY RegistryAssumption
  <2>5. Max({MIN_SWEEP_THRESHOLD, 2 * 0}) >= 0
    BY <2>4, MaxTwo
  <2>6. \A s \in Shard : peak[s] = 0 /\ sweep_threshold[s] = 0 /\ guards[s] = <<>>
    BY DEF Init
  <2>7. 0 <= 2 * 0 /\ Cardinality({}) <= 0
    BY <2>3
  <2>8. 0 <= Max({MIN_SWEEP_THRESHOLD, 2 * 0})
    BY <2>4, <2>5, MaxTwo
  <2>9. SUFFICES ASSUME NEW s \in Shard
                 PROVE  /\ Cardinality(InfosOf(s)) <= peak[s]
                        /\ sweep_threshold[s] <= 2 * peak[s]
                        /\ Len(guards[s]) <= Max({MIN_SWEEP_THRESHOLD, 2 * peak[s]})
    BY Zenon DEF Bounds
  <2>10. InfosOf(s) = {} /\ peak[s] = 0 /\ sweep_threshold[s] = 0 /\ Len(guards[s]) = 0
    BY <2>2, <2>4, <2>6
  <2> QED BY <2>7, <2>8, <2>10
<1>2. Bounds => RegistryBounded
  BY DEF Bounds, RegistryBounded
<1> QED BY <1>1, <1>2, BoundsNext, RegistryInvariant, PTL DEF Spec

-----------------------------------------------------------------------------
(* Sums of cardinalities.                                                  *)

(* The partial sums of a weight w over the subsets of S.                   *)
First(T) == CHOOSE x \in T : TRUE
IsSum(f, w, S) ==
  f = [T \in SUBSET S |-> IF T = {} THEN 0 ELSE w[First(T)] + f[T \ {First(T)}]]

(* What the members of T stand for in a family of sets.                    *)
Joined(family, T) == UNION {family[x] : x \in T}

(* Taking one set out of a disjoint family takes its cardinality out.      *)
LEMMA JoinedSplit ==
  ASSUME NEW T, NEW x \in T, NEW family, IsFiniteSet(Joined(family, T)),
         \A y, z \in T : y # z => family[y] \cap family[z] = {}
  PROVE  /\ IsFiniteSet(Joined(family, T \ {x})) /\ IsFiniteSet(family[x])
         /\ Cardinality(Joined(family, T)) =
              Cardinality(family[x]) + Cardinality(Joined(family, T \ {x}))
<1> DEFINE all == Joined(family, T)
           rest == Joined(family, T \ {x})
           one == family[x]
<1>1. all = one \cup rest
  BY DEF Joined
<1>2. one \cap rest = {}
  BY DEF Joined
<1> HIDE DEF all, rest, one
<1>3. one \in SUBSET all /\ rest \in SUBSET all /\ IsFiniteSet(all)
  BY <1>1 DEF all
<1>4. IsFiniteSet(one) /\ IsFiniteSet(rest)
  BY <1>3, FS_Subset
<1>5. /\ Cardinality(one) \in Nat /\ Cardinality(rest) \in Nat
      /\ Cardinality(one \cup rest) =
           Cardinality(one) + Cardinality(rest) - Cardinality(one \cap rest)
      /\ Cardinality({}) = 0
  BY <1>4, FS_Union, FS_CardinalityType, FS_EmptySet
<1>6. Cardinality(all) = Cardinality(one) + Cardinality(rest)
  <2>1. Cardinality(all) = Cardinality(one) + Cardinality(rest) - Cardinality({})
    BY <1>1, <1>2, <1>5, Zenon
  <2> QED BY <1>5, <2>1
<1> QED BY <1>4, <1>6 DEF all, rest, one

(* The recursion has one solution: the cardinalities of what is joined.    *)
LEMMA SumIs ==
  ASSUME NEW S, IsFiniteSet(S), NEW family, NEW w,
         \A x \in S : w[x] = Cardinality(family[x]),
         IsFiniteSet(Joined(family, S)),
         \A y, z \in S : y # z => family[y] \cap family[z] = {}
  PROVE  /\ \E f : IsSum(f, w, S)
         /\ \A f : IsSum(f, w, S) => f[S] = Cardinality(Joined(family, S))
<1> DEFINE c == [T \in SUBSET S |-> Cardinality(Joined(family, T))]
<1>1. \A T \in SUBSET S : c[T] = Cardinality(Joined(family, T))
  OBVIOUS
<1>2. \A T \in SUBSET S : T # {} => First(T) \in T
  BY DEF First
<1>3. ASSUME NEW T \in SUBSET S, T # {}
      PROVE  c[T] = w[First(T)] + c[T \ {First(T)}]
  <2> DEFINE x == First(T)
  <2>1. x \in T /\ T \ {x} \in SUBSET S
    BY <1>2, <1>3
  <2>2. Joined(family, T) \in SUBSET Joined(family, S)
    BY DEF Joined
  <2>3. IsFiniteSet(Joined(family, T))
    BY <2>2, FS_Subset
  <2> HIDE DEF x
  <2>4. \A y, z \in T : y # z => family[y] \cap family[z] = {}
    BY <2>1
  <2>5. Cardinality(Joined(family, T)) =
          Cardinality(family[x]) + Cardinality(Joined(family, T \ {x}))
    BY <2>1, <2>3, <2>4, JoinedSplit
  <2>6. c[T] = w[x] + c[T \ {x}]
    BY <1>1, <2>1, <2>5
  <2> QED BY <2>6 DEF x
<1>4. {} \in SUBSET S /\ c[{}] = 0
  <2>1. Joined(family, {}) = {}
    BY DEF Joined
  <2> QED BY <1>1, <2>1, FS_EmptySet
<1>5. c = [T \in SUBSET S |-> c[T]]
  OBVIOUS
<1> HIDE DEF c
<1>6. IsSum(c, w, S)
  <2>1. \A T \in SUBSET S : c[T] = IF T = {} THEN 0 ELSE w[First(T)] + c[T \ {First(T)}]
    BY <1>3, <1>4
  <2> QED BY <1>5, <2>1 DEF IsSum
<1>7. ASSUME NEW f, IsSum(f, w, S) PROVE f[S] = c[S]
  <2>1. /\ f[{}] = 0
        /\ \A T \in SUBSET S : T # {} => f[T] = w[First(T)] + f[T \ {First(T)}]
    BY <1>7, <1>4 DEF IsSum
  <2> SUFFICES ASSUME f[S] # c[S] PROVE FALSE
    OBVIOUS
  <2> DEFINE Wrong == {T \in SUBSET S : f[T] # c[T]}
             Sizes == {n \in Nat : \E T \in Wrong : n = Cardinality(T)}
  <2>2. \A T \in SUBSET S : IsFiniteSet(T) /\ Cardinality(T) \in Nat
    BY FS_Subset, FS_CardinalityType
  <2>3. Sizes \in SUBSET Nat /\ Sizes # {}
    BY <2>2
  <2>4. PICK m \in Sizes : \A n \in Sizes : m <= n
    <3> HIDE DEF Sizes
    <3> QED BY <2>3, LeastNumber
  <2>5. PICK T \in Wrong : m = Cardinality(T)
    BY <2>4
  <2>6. T \in SUBSET S /\ f[T] # c[T]
    BY <2>5
  <2>7. T # {}
    BY <2>1, <2>6, <1>4
  <2> DEFINE x == First(T)
             U == T \ {x}
  <2>8. x \in T /\ U \in SUBSET S
    BY <1>2, <2>6, <2>7
  <2>9. f[T] = w[x] + f[U] /\ c[T] = w[x] + c[U]
    BY <1>3, <2>1, <2>6, <2>7
  <2> HIDE DEF x
  <2>10. Cardinality(U) = m - 1 /\ Cardinality(U) \in Nat /\ m \in Nat
    BY <2>2, <2>5, <2>6, <2>8, FS_RemoveElement
  <2>11. Cardinality(U) \notin Sizes
    <3> HIDE DEF U, Sizes
    <3> QED BY <2>4, <2>10
  <2>12. U \notin Wrong
    <3> HIDE DEF U, Wrong
    <3> QED BY <2>10, <2>11
  <2>13. f[U] = c[U]
    <3> HIDE DEF U
    <3> QED BY <2>8, <2>12
  <2> HIDE DEF U, Wrong, Sizes
  <2> QED BY <2>6, <2>9, <2>13
<1>8. c[S] = Cardinality(Joined(family, S))
  BY <1>1
<1> QED BY <1>6, <1>7, <1>8

(* GuardReport::guard_count of entries that count the sets of a family.    *)
LEMMA GuardCountIs ==
  ASSUME NEW entries, IsFiniteSet(DOMAIN entries), NEW family,
         \A x \in DOMAIN entries : entries[x] = Cardinality(family[x]),
         IsFiniteSet(Joined(family, DOMAIN entries)),
         \A y, z \in DOMAIN entries : y # z => family[y] \cap family[z] = {}
  PROVE  GuardCount(entries) = Cardinality(Joined(family, DOMAIN entries))
<1> DEFINE S == DOMAIN entries
           f == CHOOSE h : IsSum(h, entries, S)
<1>1. GuardCount(entries) = f[S]
  BY DEF GuardCount, MapThenSumSet, MapThenFoldSet, IsSum, First
<1>2. /\ \E h : IsSum(h, entries, S)
      /\ \A h : IsSum(h, entries, S) => h[S] = Cardinality(Joined(family, S))
  <2> HIDE DEF S
  <2>1. /\ IsFiniteSet(S) /\ \A x \in S : entries[x] = Cardinality(family[x])
        /\ IsFiniteSet(Joined(family, S))
        /\ \A y, z \in S : y # z => family[y] \cap family[z] = {}
    BY DEF S
  <2> QED BY <2>1, SumIs
<1>3. IsSum(f, entries, S)
  <2> HIDE DEF S
  <2> QED BY <1>2
<1> HIDE DEF f
<1> QED BY <1>1, <1>2, <1>3

-----------------------------------------------------------------------------
(* A report is exact when nothing moves.                                   *)

(* A report that is idle holds nothing, the shard it has locked is one     *)
(* that it has yet to visit, and there is none left when it aggregates.    *)
Reporting ==
  \A r \in Reporter :
    /\ pc[r] = "idle" => infos[r] = <<>>
    /\ pc[r] = "upgrade" => locked[r] \subseteq todo[r]
    /\ pc[r] = "aggregate" => todo[r] = {}

(* While nothing moves, every info is that of a live guard, and a report   *)
(* has, once each, those of the shards it has visited.                     *)
StillQuiet ==
  /\ \A g \in Guard : phase[g] \in {"none", "live"}
  /\ HeldInfos \subseteq OwnedInfos
HasVisited(r) ==
  /\ Different(infos[r])
  /\ \A g \in Guard : g \in Elements(infos[r]) <=>
                        phase[g] = "live" /\ home[g] \notin todo[r]
QuietInv ==
  \A r \in Reporter : quiet[r] => StillQuiet /\ HasVisited(r)

(* Sequences without common elements or repetitions repeat nothing one     *)
(* after the other.                                                        *)
LEMMA ConcatDifferent ==
  ASSUME NEW A, NEW p \in Seq(A), NEW q \in Seq(A), Different(p), Different(q),
         Elements(p) \cap Elements(q) = {}
  PROVE  Different(p \o q)
<1> SUFFICES ASSUME NEW i \in DOMAIN (p \o q), NEW j \in DOMAIN (p \o q),
                    (p \o q)[i] = (p \o q)[j]
             PROVE  i = j
  BY DEF Different
<1>1. /\ Len(p) \in Nat /\ Len(q) \in Nat /\ Len(p \o q) = Len(p) + Len(q)
      /\ i \in 1 .. Len(p) + Len(q) /\ j \in 1 .. Len(p) + Len(q)
  OBVIOUS
<1>2. \A k \in 1 .. Len(p) + Len(q) :
        (p \o q)[k] = IF k <= Len(p) THEN p[k] ELSE q[k - Len(p)]
  OBVIOUS
<1>3. /\ \A k \in 1 .. Len(p) : p[k] \in Elements(p)
      /\ \A k \in 1 .. Len(q) : q[k] \in Elements(q)
  BY DEF Elements
<1>4. CASE i <= Len(p) /\ j <= Len(p)
  <2>1. i \in DOMAIN p /\ j \in DOMAIN p /\ p[i] = p[j]
    BY <1>1, <1>2, <1>4
  <2> QED BY <2>1 DEF Different
<1>5. CASE i > Len(p) /\ j > Len(p)
  <2>1. i - Len(p) \in DOMAIN q /\ j - Len(p) \in DOMAIN q
        /\ q[i - Len(p)] = q[j - Len(p)]
    BY <1>1, <1>2, <1>5
  <2>2. i - Len(p) = j - Len(p)
    BY <2>1 DEF Different
  <2> QED BY <1>1, <2>2
<1>6. CASE i <= Len(p) /\ j > Len(p)
  <2>1. i \in 1 .. Len(p) /\ j - Len(p) \in 1 .. Len(q) /\ p[i] = q[j - Len(p)]
    BY <1>1, <1>2, <1>6
  <2> QED BY <1>3, <2>1
<1>7. CASE i > Len(p) /\ j <= Len(p)
  <2>1. j \in 1 .. Len(p) /\ i - Len(p) \in 1 .. Len(q) /\ p[j] = q[i - Len(p)]
    BY <1>1, <1>2, <1>7
  <2> QED BY <1>3, <2>1
<1> QED BY <1>1, <1>4, <1>5, <1>6, <1>7

(* The steps of reports keep Reporting; those of guards do not touch it.   *)
LEMMA ReportingNext == ExactInv /\ Reporting /\ [Next]_vars => Reporting'
<1> SUFFICES ASSUME ExactInv, Reporting, [Next]_vars PROVE Reporting'
  OBVIOUS
<1>1. TypeOK
  BY DEF ExactInv
<1>2. CASE UNCHANGED <<pc, infos, locked, todo>>
  BY <1>2 DEF Reporting
<1>3. ASSUME NEW r \in Reporter, Begin(r) PROVE Reporting'
  <2>1. /\ pc' = [pc EXCEPT ![r] = "sweep"] /\ todo' = [todo EXCEPT ![r] = Shard]
        /\ UNCHANGED <<infos, locked>>
    BY <1>3 DEF Begin
  <2> QED BY <1>1, <2>1 DEF Reporting, TypeOK
<1>4. ASSUME NEW r \in Reporter, SweepShard(r) PROVE Reporting'
  <2>1. PICK s \in Shard :
          /\ s \in todo[r] /\ locked' = [locked EXCEPT ![r] = {s}]
          /\ pc' = [pc EXCEPT ![r] = "upgrade"] /\ UNCHANGED <<todo, infos>>
    BY <1>1, <1>4, SweepPick
  <2> QED BY <1>1, <2>1 DEF Reporting, TypeOK
<1>5. ASSUME NEW r \in Reporter, Upgrade(r) PROVE Reporting'
  <2>1. PICK s \in Shard :
          /\ infos' = [infos EXCEPT ![r] = infos[r] \o Alive(guards[s])]
          /\ todo' = [todo EXCEPT ![r] = todo[r] \ {s}]
          /\ pc' = [pc EXCEPT ![r] = IF todo[r] = {s} THEN "aggregate" ELSE "sweep"]
          /\ locked' = [locked EXCEPT ![r] = {}]
    BY <1>1, <1>5, UpgradePick
  <2>2. /\ pc'[r] # "idle" /\ pc'[r] # "upgrade"
        /\ pc'[r] = "aggregate" => todo'[r] = {}
        /\ \A q \in Reporter \ {r} : pc'[q] = pc[q] /\ locked'[q] = locked[q]
             /\ todo'[q] = todo[q] /\ infos'[q] = infos[q]
    BY <1>1, <2>1 DEF TypeOK
  <2> QED BY <2>2 DEF Reporting
<1>6. ASSUME NEW r \in Reporter, Aggregate(r) PROVE Reporting'
  <2>1. /\ pc' = [pc EXCEPT ![r] = "idle"] /\ infos' = [infos EXCEPT ![r] = <<>>]
        /\ UNCHANGED <<todo, locked>>
    BY <1>6 DEF Aggregate
  <2> QED BY <1>1, <2>1 DEF Reporting, TypeOK
<1>7. CASE \/ UNCHANGED vars
           \/ \E g \in Guard : Count(g) \/ RecordLate(g) \/ Depart(g) \/ DropInfo(g)
           \/ \E g \in Guard, s \in Shard, l \in Location :
                Record(g, s, l) \/ CountFirst(g, s, l)
  BY <1>2, <1>7 DEF vars, reports, Count, RecordLate, Depart, DropInfo, Record, CountFirst
<1>8. CASE \E g, h \in Guard : CloneGuard(g, h)
  BY <1>1, <1>7, <1>8, CloneIs
<1> QED BY <1>3, <1>4, <1>5, <1>6, <1>7, <1>8 DEF Next

(* No step of a guard leaves a report quiet.                               *)
LEMMA GuardQuiet ==
  ASSUME \/ \E g \in Guard : Count(g) \/ RecordLate(g) \/ Depart(g) \/ DropInfo(g)
         \/ \E g \in Guard, s \in Shard, l \in Location :
              Record(g, s, l) \/ CountFirst(g, s, l)
  PROVE  QuietInv'
<1>1. \A r \in Reporter : ~quiet'[r]
  BY DEF Count, RecordLate, Depart, DropInfo, Record, CountFirst, Disturb
<1> QED BY <1>1 DEF QuietInv

(* The steps of reports, while no guard moves.                             *)
LEMMA ReporterQuiet ==
  ASSUME ExactInv, Reporting, QuietInv, NEW r \in Reporter,
         Begin(r) \/ SweepShard(r) \/ Upgrade(r) \/ Aggregate(r)
  PROVE  QuietInv'
<1>1. TypeOK /\ RegistryExact
  BY DEF ExactInv
<1>2. UNCHANGED phase /\ OwnedInfos' = OwnedInfos
  BY DEF Begin, SweepShard, Upgrade, Aggregate, provenance, OwnedInfos
<1> DEFINE Visited(q) ==
      /\ Different(infos'[q])
      /\ \A g \in Guard : g \in Elements(infos'[q]) <=>
                            phase[g] = "live" /\ home'[g] \notin todo'[q]
<1>3. ASSUME HeldInfos' \subseteq OwnedInfos, StillQuiet PROVE StillQuiet'
  BY <1>2, <1>3 DEF StillQuiet
<1>4. ASSUME NEW q \in Reporter, Visited(q) PROVE HasVisited(q)'
  BY <1>2, <1>4 DEF HasVisited, Different, Elements
<1>5. ASSUME NEW q \in Reporter, quiet[q], infos'[q] = infos[q], todo'[q] = todo[q],
             \A g \in Guard : home'[g] = home[g]
      PROVE  Visited(q)
  BY <1>5 DEF QuietInv, HasVisited
<1>6. \A q \in Reporter : quiet[q] => StillQuiet
  BY DEF QuietInv
<1> HIDE DEF Visited
<1>7. CASE Begin(r)
  <2>1. /\ todo' = [todo EXCEPT ![r] = Shard] /\ pc[r] = "idle"
        /\ UNCHANGED <<home, infos>>
    BY <1>7 DEF Begin, provenance
  <2>2. quiet' = [quiet EXCEPT ![r] = StillQuiet]
    BY <1>7 DEF Begin, StillQuiet
  <2>3. quiet'[r] => StillQuiet
    BY <1>1, <2>2 DEF TypeOK
  <2>4. \A q \in Reporter \ {r} : quiet'[q] = quiet[q] /\ todo'[q] = todo[q]
    BY <1>1, <2>1, <2>2 DEF TypeOK
  <2>5. HeldInfos' = HeldInfos
    BY <2>1 DEF HeldInfos
  <2>6. StillQuiet => StillQuiet'
    BY <1>3, <2>5 DEF StillQuiet
  <2>7. Visited(r)
    <3>1. infos'[r] = <<>> /\ todo'[r] = Shard /\ \A g \in Guard : home'[g] \in Shard
      BY <1>1, <2>1 DEF Reporting, TypeOK
    <3>2. Different(<<>>) /\ Elements(<<>>) = {}
      BY EmptyElements DEF Different
    <3> QED BY <3>1, <3>2 DEF Visited
  <2>8. \A q \in Reporter : quiet'[q] => StillQuiet
    BY <1>6, <2>3, <2>4
  <2>9. \A q \in Reporter \ {r} : quiet'[q] => Visited(q)
    BY <1>5, <2>1, <2>4
  <2> QED BY <1>4, <2>6, <2>7, <2>8, <2>9 DEF QuietInv
<1>8. CASE SweepShard(r)
  <2>1. UNCHANGED <<home, todo, infos, quiet>>
    BY <1>1, <1>8, SweepPick
  <2>2. HeldInfos' = HeldInfos
    BY <2>1 DEF HeldInfos
  <2>3. StillQuiet => StillQuiet'
    BY <1>3, <2>2 DEF StillQuiet
  <2>4. \A q \in Reporter : quiet'[q] => Visited(q)
    BY <1>5, <2>1
  <2> QED BY <1>4, <1>6, <2>1, <2>3, <2>4 DEF QuietInv
<1>9. CASE Upgrade(r)
  <2>1. PICK s \in Shard :
          /\ s \in locked[r] /\ pc[r] = "upgrade"
          /\ infos' = [infos EXCEPT ![r] = infos[r] \o Alive(guards[s])]
          /\ todo' = [todo EXCEPT ![r] = todo[r] \ {s}]
          /\ UNCHANGED <<home, quiet>>
    BY <1>1, <1>9, UpgradePick
  <2>2. /\ Elements(infos'[r]) = Elements(infos[r]) \cup InfosOf(s)
        /\ \A q \in Reporter \ {r} : infos'[q] = infos[q]
        /\ HeldInfos' = HeldInfos \cup InfosOf(s)
    BY <1>1, <2>1, UpgradeHeld
  <2>3. /\ todo'[r] = todo[r] \ {s} /\ s \in todo[r]
        /\ infos'[r] = infos[r] \o Alive(guards[s])
        /\ \A q \in Reporter \ {r} : todo'[q] = todo[q]
    BY <1>1, <2>1 DEF TypeOK, Reporting
  <2>4. StillQuiet => Infos = OwnedInfos
    BY DEF StillQuiet, Infos
  <2>5. StillQuiet => StillQuiet'
    <3>1. InfosOf(s) \subseteq Infos
      BY InfosOfIs
    <3> QED BY <1>3, <2>2, <2>4, <3>1 DEF StillQuiet
  <2>6. ASSUME quiet[r] PROVE Visited(r)
    <3>1. StillQuiet /\ HasVisited(r)
      BY <2>6 DEF QuietInv
    <3>2. \A g \in Guard : g \in InfosOf(s) <=> phase[g] = "live" /\ home[g] = s
      <4>1. \A g \in Guard : g \in OwnedInfos <=> phase[g] = "live"
        BY <3>1, OwnedIs DEF StillQuiet
      <4> QED BY <2>4, <3>1, <4>1, InfosOfIs
    <3>3. \A g \in Guard : g \in Elements(infos[r]) <=>
                             phase[g] = "live" /\ home[g] \notin todo[r]
      BY <3>1 DEF HasVisited
    <3>4. \A g \in Guard : g \in Elements(infos'[r]) <=>
                             phase[g] = "live" /\ home'[g] \notin todo'[r]
      BY <2>1, <2>2, <2>3, <3>2, <3>3
    <3>5. InfosOf(s) \subseteq Guard
      BY <1>1, InfosOfIs, InfosTyped
    <3>6. Elements(infos[r]) \cap Elements(Alive(guards[s])) = {}
      <4>1. Elements(Alive(guards[s])) = InfosOf(s)
        BY <1>1, SweepExact
      <4> QED BY <2>3, <3>2, <3>3, <3>5, <4>1
    <3>7. Different(infos[r] \o Alive(guards[s]))
      <4>1. infos[r] \in Seq(Guard) /\ Different(infos[r])
        BY <1>1, <3>1 DEF TypeOK, HasVisited
      <4>2. Alive(guards[s]) \in Seq(Guard) /\ Different(Alive(guards[s]))
        BY <1>1, SweepExact
      <4> QED BY <3>6, <4>1, <4>2, ConcatDifferent
    <3> QED BY <2>3, <3>4, <3>7 DEF Visited
  <2>7. \A q \in Reporter \ {r} : quiet[q] => Visited(q)
    BY <1>5, <2>1, <2>2, <2>3
  <2> QED BY <1>4, <1>6, <2>1, <2>5, <2>6, <2>7 DEF QuietInv
<1>10. CASE Aggregate(r)
  <2>1. /\ infos' = [infos EXCEPT ![r] = <<>>] /\ quiet' = [quiet EXCEPT ![r] = FALSE]
        /\ UNCHANGED todo
    BY <1>10 DEF Aggregate
  <2>2. /\ ~quiet'[r]
        /\ \A q \in Reporter \ {r} : quiet'[q] = quiet[q] /\ infos'[q] = infos[q]
    BY <1>1, <2>1 DEF TypeOK
  <2>3. HeldInfos' \subseteq HeldInfos
    <3>1. HeldInfos' = UNION {Elements(infos[q]) : q \in Reporter \ {r}}
      BY <1>10, AggregateExact
    <3> QED BY <3>1 DEF HeldInfos
  <2>4. StillQuiet => StillQuiet'
    BY <1>3, <2>3 DEF StillQuiet
  <2>5. StillQuiet => \A g \in Guard : home'[g] = home[g]
    <3>1. Elements(infos[r]) \subseteq HeldInfos
      BY DEF HeldInfos
    <3>2. StillQuiet => Dropped(r) = {}
      BY <3>1 DEF StillQuiet, Dropped
    <3> QED BY <1>10, <3>2, AggregateExact
  <2>6. \A q \in Reporter \ {r} : quiet[q] => Visited(q)
    BY <1>5, <1>6, <2>1, <2>2, <2>5
  <2> QED BY <1>4, <1>6, <2>2, <2>4, <2>6 DEF QuietInv
<1> QED BY <1>7, <1>8, <1>9, <1>10

(* The invariant about quiet reports is inductive.                         *)
LEMMA QuietNext == ExactInv /\ Reporting /\ QuietInv /\ [Next]_vars => QuietInv'
<1> SUFFICES ASSUME ExactInv, Reporting, QuietInv, [Next]_vars PROVE QuietInv'
  OBVIOUS
<1>1. CASE UNCHANGED vars
  <2>1. UNCHANGED <<todo, infos, quiet, phase, home>>
    BY <1>1 DEF vars, reports, provenance, history
  <2>2. StillQuiet' <=> StillQuiet
    BY <2>1 DEF StillQuiet, HeldInfos, OwnedInfos
  <2>3. \A r \in Reporter : HasVisited(r)' <=> HasVisited(r)
    BY <2>1 DEF HasVisited
  <2> QED BY <2>1, <2>2, <2>3 DEF QuietInv
<1>2. CASE \E g, h \in Guard : CloneGuard(g, h)
  BY <1>2, CloneIs, GuardQuiet DEF ExactInv
<1>3. CASE Next
  BY <1>2, <1>3, GuardQuiet, ReporterQuiet DEF Next
<1> QED BY <1>1, <1>3

(* Counting the places of a sequence without repetition counts its         *)
(* elements.                                                               *)
LEMMA PlacesCount ==
  ASSUME NEW seq, Different(seq), NEW P \in SUBSET DOMAIN seq, NEW E,
         E = {seq[i] : i \in P}, IsFiniteSet(E)
  PROVE  Cardinality(P) = Cardinality(E)
<1> DEFINE f == [i \in P |-> seq[i]]
<1>1. f \in [P -> E]
  OBVIOUS
<1>2. \A i, j \in P : f[i] = f[j] => i = j
  BY DEF Different
<1>3. \A e \in E : \E i \in P : f[i] = e
  OBVIOUS
<1> HIDE DEF f
<1>4. f \in Injection(P, E)
  BY <1>1, <1>2 DEF Injection, IsInjective
<1>5. f \in Surjection(P, E)
  BY <1>1, <1>3 DEF Surjection
<1> QED BY <1>4, <1>5, FS_Injection

(* What is known of a report that is about to aggregate.                   *)
LEMMA QuietExact ==
  ASSUME ExactInv, Reporting, QuietInv, NEW r \in Reporter, pc[r] = "aggregate", quiet[r]
  PROVE  LET report == FromInfos(infos[r]) IN
         /\ report = [l \in {site[g] : g \in Counted} |-> Cardinality(LiveAt(l))]
         /\ GuardCount(report) = Cardinality(Counted)
<1> DEFINE seq == infos[r]
           sites == {site[g] : g \in Counted}
           report == [l \in sites |-> Cardinality(LiveAt(l))]
           family == [l \in sites |-> LiveAt(l)]
<1>1. StillQuiet /\ HasVisited(r) /\ TypeOK /\ todo[r] = {}
  BY DEF QuietInv, Reporting, ExactInv
<1>2. Elements(seq) = Counted
  <2>1. Elements(seq) \subseteq Guard
    BY <1>1 DEF TypeOK, Elements
  <2>2. \A g \in Guard : g \in Elements(seq) <=> phase[g] = "live"
    BY <1>1 DEF HasVisited
  <2>3. \A g \in Guard : g \in Counted <=> phase[g] = "live"
    BY <1>1 DEF Counted, StillQuiet
  <2>4. Counted \subseteq Guard
    BY DEF Counted
  <2> HIDE DEF seq
  <2> QED BY <2>1, <2>2, <2>3, <2>4
<1>3. Different(seq)
  BY <1>1 DEF HasVisited
<1>4. IsFiniteSet(Counted)
  BY RegistryAssumption, FS_Subset DEF Counted
<1>5. \A l : LiveAt(l) \in SUBSET Counted /\ IsFiniteSet(LiveAt(l))
  BY <1>4, FS_Subset DEF LiveAt
<1> HIDE DEF seq
<1>6. {site[seq[i]] : i \in DOMAIN seq} = sites
  BY <1>2 DEF Elements
<1>7. ASSUME NEW l
      PROVE  Cardinality({i \in DOMAIN seq : site[seq[i]] = l}) = Cardinality(LiveAt(l))
  <2> DEFINE P == {i \in DOMAIN seq : site[seq[i]] = l}
  <2>1. P \in SUBSET DOMAIN seq
    OBVIOUS
  <2>2. LiveAt(l) = {seq[i] : i \in P}
    BY <1>2 DEF LiveAt, Elements
  <2> HIDE DEF P
  <2>3. Cardinality(P) = Cardinality(LiveAt(l))
    BY <1>3, <1>5, <2>1, <2>2, PlacesCount
  <2> QED BY <2>3 DEF P
<1>8. FromInfos(seq) = report
  BY <1>6, <1>7 DEF FromInfos
<1>9. IsFiniteSet(sites)
  <2> DEFINE f == [g \in Counted |-> site[g]]
  <2>1. f \in Surjection(Counted, sites)
    BY DEF Surjection
  <2> HIDE DEF f, sites
  <2> QED BY <1>4, <2>1, FS_Surjection
<1>10. GuardCount(report) = Cardinality(Counted)
  <2>1. DOMAIN report = sites
        /\ \A l \in sites : report[l] = Cardinality(family[l]) /\ family[l] = LiveAt(l)
    OBVIOUS
  <2>2. Counted = Joined(family, sites)
    <3>1. \A g \in Counted : site[g] \in sites /\ g \in LiveAt(site[g])
      BY DEF LiveAt
    <3>2. \A l \in sites : family[l] = LiveAt(l) /\ LiveAt(l) \subseteq Counted
      BY <1>5, <2>1
    <3> HIDE DEF sites, family
    <3>3. \A g : g \in Joined(family, sites) <=> \E l \in sites : g \in family[l]
      BY DEF Joined
    <3> QED BY <3>1, <3>2, <3>3
  <2>3. \A y, z \in sites : y # z => family[y] \cap family[z] = {}
    BY DEF LiveAt
  <2> HIDE DEF report, family, sites
  <2>4. GuardCount(report) = Cardinality(Joined(family, DOMAIN report))
    <3>1. /\ IsFiniteSet(DOMAIN report) /\ IsFiniteSet(Joined(family, DOMAIN report))
          /\ \A l \in DOMAIN report : report[l] = Cardinality(family[l])
          /\ \A y, z \in DOMAIN report : y # z => family[y] \cap family[z] = {}
      <4>1. DOMAIN report = sites /\ IsFiniteSet(Joined(family, sites))
        BY <1>4, <2>1, <2>2
      <4> QED BY <1>9, <2>1, <2>3, <4>1
    <3> QED BY <3>1, GuardCountIs
  <2> QED BY <2>1, <2>2, <2>4
<1> QED BY <1>8, <1>10 DEF seq

(* S5 for guard_report(): with no guard operation in flight, and no other  *)
(* report still holding the info of a dropped guard, the report has the    *)
(* sites of the live guards, each with its number of them, and its count   *)
(* is guard_count().                                                       *)
THEOREM ReportsExactWhenQuiet == Spec => []ReportExactWhenQuiet
<1>1. Init => Reporting /\ QuietInv
  BY DEF Init, Reporting, QuietInv
<1>2. ExactInv /\ Reporting /\ QuietInv => ReportExactWhenQuiet
  BY QuietExact DEF ReportExactWhenQuiet
<1> QED
  BY <1>1, <1>2, ReportingNext, QuietNext, RegistryInvariant, PTL DEF Spec

=============================================================================
