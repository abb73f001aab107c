--------------------------- MODULE WrappersProofs ---------------------------
(***************************************************************************)
(* Wrappers never leak a guard or give one up twice, and a guarded         *)
(* interrupt delays the completions above it, for all trees, wrappers and  *)
(* guards.                                                                 *)
(*                                                                         *)
(* The invariant follows a wrapper through its life (Stages): which fields *)
(* it has left to drop, and that its guard is the last of them to go when  *)
(* it is an interrupt; and every guard that it holds is counted at the     *)
(* node that the wrapper belongs to (Homes).                               *)
(***************************************************************************)
EXTENDS Wrappers, TLAPS

Types ==
  /\ wrapper \in [Wrapper -> WrapperState]
  /\ member \in [Guard -> Node \cup {NoNode}]
  /\ completion \in [Node -> {"none", "pending", "resolved"}]

(* What is left to drop of an interrupt and of a Guarded.                  *)
InterruptStages(value) ==
  IF value THEN {<<>>, <<"listener", "value", "guard">>, <<"value", "guard">>}
           ELSE {<<"listener", "guard">>, <<"guard">>}
GuardedStages == {<<>>, <<"guard", "value">>, <<"value">>, <<"guard">>}

Stage(x) ==
  /\ x.kind = "none" => x = NoWrapper
  /\ x.kind = "interrupt" => x.fields \in InterruptStages(x.value)
  /\ x.kind = "guarded" => x.fields \in GuardedStages /\ x.promised
  /\ x.fields = <<"value">> => x.guard = NoGuard
  /\ x.promised /\ x.fields # <<"value">> => x.guard # NoGuard
  /\ x.fields # <<>> => x.spare = NoGuard
  /\ x.spare # NoGuard => x.guard # x.spare
Stages == \A w \in Wrapper : Stage(wrapper[w])

(* A guard that is held is counted where its wrapper belongs.              *)
Homes ==
  \A w \in Wrapper, g \in Guard : Holds(w, g) => member[g] = wrapper[w].node

WrapInv == Types /\ Stages /\ Homes /\ GuardsHeldOnce

-----------------------------------------------------------------------------
(* The sequences of fields.                                                *)

(* Dropping a field leaves the ones after it.                              *)
LEMMA DropsInOrder ==
  /\ Head(<<"listener", "value", "guard">>) = "listener"
  /\ Tail(<<"listener", "value", "guard">>) = <<"value", "guard">>
  /\ Head(<<"value", "guard">>) = "value"
  /\ Tail(<<"value", "guard">>) = <<"guard">>
  /\ Head(<<"listener", "guard">>) = "listener"
  /\ Tail(<<"listener", "guard">>) = <<"guard">>
  /\ Head(<<"guard", "value">>) = "guard"
  /\ Tail(<<"guard", "value">>) = <<"value">>
  /\ Head(<<"value">>) = "value"
  /\ Tail(<<"value">>) = <<>>
  /\ Head(<<"guard">>) = "guard"
  /\ Tail(<<"guard">>) = <<>>
OBVIOUS

(* No two of the stages are alike.                                         *)
LEMMA StagesDiffer ==
  /\ <<"listener", "value", "guard">> \notin {<<>>, <<"value">>}
  /\ <<"value", "guard">> \notin {<<>>, <<"value">>}
  /\ <<"listener", "guard">> \notin {<<>>, <<"value">>}
  /\ <<"guard", "value">> \notin {<<>>, <<"value">>}
  /\ <<"guard">> \notin {<<>>, <<"value">>}
  /\ <<"value">> # <<>>
OBVIOUS

(* They are sequences of fields.                                           *)
LEMMA StagesTyped ==
  /\ <<>> \in Seq(Field)
  /\ <<"listener", "value", "guard">> \in Seq(Field)
  /\ <<"value", "guard">> \in Seq(Field)
  /\ <<"listener", "guard">> \in Seq(Field)
  /\ <<"guard", "value">> \in Seq(Field)
  /\ <<"value">> \in Seq(Field)
  /\ <<"guard">> \in Seq(Field)
BY DEF Field

-----------------------------------------------------------------------------

(* The state of a wrapper.                                                 *)
LEMMA StateTyped ==
  ASSUME NEW x \in WrapperState
  PROVE  /\ x.kind \in Kind /\ x.node \in Node /\ x.value \in BOOLEAN
         /\ x.guard \in Guard \cup {NoGuard} /\ x.spare \in Guard \cup {NoGuard}
         /\ x.promised \in BOOLEAN /\ x.fields \in Seq(Field)
BY DEF WrapperState

(* No wrapper is a wrapper state.                                          *)
LEMMA NoWrapperTyped == NoWrapper \in WrapperState
BY WrapperAssumption, StagesTyped DEF NoWrapper, WrapperState, Kind

(* Initially there is no wrapper and no guard.                             *)
LEMMA WrapInitial == WrapInit => WrapInv
<1> SUFFICES ASSUME WrapInit PROVE WrapInv
  OBVIOUS
<1>1. Types
  BY NoWrapperTyped DEF WrapInit, Init, Types
<1>2. Stages
  BY WrapperAssumption DEF WrapInit, Stages, Stage, NoWrapper
<1>3. \A w \in Wrapper, g \in Guard : ~Holds(w, g)
  BY WrapperAssumption DEF WrapInit, Holds, NoWrapper
<1>4. \A g \in Guard : member[g] = NoNode
  BY DEF WrapInit, Init
<1> QED
  BY <1>1, <1>2, <1>3, <1>4 DEF WrapInv, Homes, GuardsHeldOnce

-----------------------------------------------------------------------------
(* What a step does to the guards decides Homes and GuardsHeldOnce.        *)

(* Nobody's guards change.                                                 *)
LEMMA HeldSame ==
  ASSUME Homes, GuardsHeldOnce, UNCHANGED member,
         \A w \in Wrapper, g \in Guard : Holds(w, g)' <=> Holds(w, g),
         \A w \in Wrapper, g \in Guard :
           Holds(w, g) => wrapper'[w].node = wrapper[w].node
  PROVE  Homes' /\ GuardsHeldOnce'
BY DEF Homes, GuardsHeldOnce

(* A wrapper takes a new guard, counted at its node.                       *)
LEMMA HeldMore ==
  ASSUME Types, Homes, GuardsHeldOnce,
         NEW v \in Wrapper, NEW h \in Guard, NEW n \in Node,
         Enter(h, n), wrapper'[v].node = n,
         \A w \in Wrapper, g \in Guard :
           Holds(w, g)' <=> Holds(w, g) \/ (w = v /\ g = h),
         \A w \in Wrapper, g \in Guard :
           Holds(w, g) => wrapper'[w].node = wrapper[w].node
  PROVE  Homes' /\ GuardsHeldOnce'
<1>1. /\ member' \in [Guard -> Node \cup {NoNode}]
      /\ member[h] = NoNode /\ member'[h] = n /\ n # NoNode
      /\ \A g \in Guard \ {h} : member'[g] = member[g]
  BY WrapperAssumption DEF Types, Enter
<1>2. \A w \in Wrapper : ~Holds(w, h)
  BY <1>1 DEF GuardsHeldOnce
<1>3. Homes'
  BY <1>1, <1>2 DEF Homes
<1>4. GuardsHeldOnce'
  <2> SUFFICES ASSUME NEW g \in Guard
               PROVE  /\ member'[g] # NoNode <=> \E w \in Wrapper : Holds(w, g)'
                      /\ \A u, w \in Wrapper : Holds(u, g)' /\ Holds(w, g)' => u = w
    BY DEF GuardsHeldOnce
  <2>1. CASE g = h
    BY <2>1, <1>1, <1>2
  <2>2. CASE g # h
    BY <2>2, <1>1, <1>2 DEF GuardsHeldOnce
  <2> QED BY <2>1, <2>2
<1> QED BY <1>3, <1>4

(* A wrapper gives up a guard, which is uncounted.                         *)
LEMMA HeldLess ==
  ASSUME Types, Homes, GuardsHeldOnce,
         NEW v \in Wrapper, NEW h \in Guard, Leave(h), Holds(v, h),
         \A w \in Wrapper, g \in Guard :
           Holds(w, g)' <=> Holds(w, g) /\ ~(w = v /\ g = h),
         \A w \in Wrapper, g \in Guard :
           Holds(w, g)' => wrapper'[w].node = wrapper[w].node
  PROVE  Homes' /\ GuardsHeldOnce'
<1>1. /\ member' \in [Guard -> Node \cup {NoNode}]
      /\ member'[h] = NoNode
      /\ \A g \in Guard \ {h} : member'[g] = member[g]
  BY DEF Types, Leave
<1>2. \A w \in Wrapper : ~Holds(w, h)'
  BY DEF GuardsHeldOnce
<1>3. Homes'
  BY <1>1, <1>2 DEF Homes
<1>4. GuardsHeldOnce'
  <2> SUFFICES ASSUME NEW g \in Guard
               PROVE  /\ member'[g] # NoNode <=> \E w \in Wrapper : Holds(w, g)'
                      /\ \A u, w \in Wrapper : Holds(u, g)' /\ Holds(w, g)' => u = w
    BY DEF GuardsHeldOnce
  <2>1. CASE g = h
    BY <2>1, <1>1, <1>2
  <2>2. CASE g # h
    BY <2>2, <1>1, <1>2 DEF GuardsHeldOnce
  <2> QED BY <2>1, <2>2
<1> QED BY <1>3, <1>4

-----------------------------------------------------------------------------
(* One wrapper moves in a step.                                            *)

Moves(v, x) ==
  /\ wrapper' \in [Wrapper -> WrapperState]
  /\ wrapper'[v] = x
  /\ \A w \in Wrapper \ {v} : wrapper'[w] = wrapper[w]

(* It is enough to look at the wrapper that moves.                         *)
LEMMA StagesMove ==
  ASSUME Stages, NEW v \in Wrapper, NEW x, Moves(v, x), Stage(x)
  PROVE  Stages'
BY DEF Stages, Moves

(* An operation on one wrapper changes what that wrapper holds only.       *)
LEMMA HoldsMove ==
  ASSUME NEW v \in Wrapper, NEW x, Moves(v, x)
  PROVE  /\ \A w \in Wrapper \ {v} : /\ wrapper'[w].node = wrapper[w].node
                                    /\ \A g \in Guard : Holds(w, g)' <=> Holds(w, g)
         /\ \A g \in Guard : Holds(v, g)' <=> x.guard = g \/ x.spare = g
BY DEF Holds, Moves

(* Replacing the state of one wrapper moves it.                            *)
LEMMA Replaced ==
  ASSUME Types, NEW v \in Wrapper, NEW x \in WrapperState,
         wrapper' = [wrapper EXCEPT ![v] = x]
  PROVE  Moves(v, x)
BY DEF Types, Moves

(* A new interrupt holds no guard.                                         *)
LEMMA NewInterruptKeeps ==
  ASSUME WrapInv, NEW v \in Wrapper, NEW n \in Node, NewInterrupt(v, n)
  PROVE  WrapInv'
<1> DEFINE x == [NoWrapper EXCEPT !.kind = "interrupt", !.node = n, !.value = TRUE]
<1>1. /\ x \in WrapperState /\ x.kind = "interrupt" /\ x.node = n /\ x.value
      /\ x.guard = NoGuard /\ x.spare = NoGuard /\ ~x.promised /\ x.fields = <<>>
  BY NoWrapperTyped, StagesTyped DEF NoWrapper, WrapperState, Kind
<1>2. Types /\ Stages /\ Homes /\ GuardsHeldOnce /\ UNCHANGED vars
      /\ wrapper[v] = NoWrapper /\ wrapper' = [wrapper EXCEPT ![v] = x]
  BY DEF WrapInv, NewInterrupt
<1> HIDE DEF x
<1>3. Moves(v, x)
  BY <1>1, <1>2, Replaced
<1>4. Stage(x)
  BY <1>1, StagesDiffer DEF Stage, InterruptStages
<1>5. Stages'
  BY <1>2, <1>3, <1>4, StagesMove
<1>6. Types'
  BY <1>2, <1>3 DEF Types, Moves, vars
<1>7. \A g \in Guard : ~Holds(v, g) /\ ~Holds(v, g)'
  BY <1>1, <1>2, <1>3, HoldsMove, WrapperAssumption DEF Holds, NoWrapper
<1>8. Homes' /\ GuardsHeldOnce'
  <2>1. \A w \in Wrapper, g \in Guard : Holds(w, g)' <=> Holds(w, g)
    BY <1>7, <1>3, HoldsMove
  <2>2. \A w \in Wrapper, g \in Guard :
          Holds(w, g) => wrapper'[w].node = wrapper[w].node
    BY <1>7, <1>3, HoldsMove
  <2> QED BY <1>2, <2>1, <2>2, HeldSame DEF vars
<1> QED BY <1>5, <1>6, <1>8 DEF WrapInv

(* A new Guarded holds a new guard of its node.                            *)
LEMMA NewGuardedKeeps ==
  ASSUME WrapInv, NEW v \in Wrapper, NEW n \in Node, NEW h \in Guard,
         NewGuarded(v, n, h)
  PROVE  WrapInv'
<1> DEFINE x == [NoWrapper EXCEPT !.kind = "guarded", !.node = n, !.value = TRUE,
                                  !.guard = h, !.promised = TRUE]
<1>1. /\ x \in WrapperState /\ x.kind = "guarded" /\ x.node = n /\ x.value
      /\ x.guard = h /\ x.spare = NoGuard /\ x.promised /\ x.fields = <<>>
  BY NoWrapperTyped, StagesTyped DEF NoWrapper, WrapperState, Kind
<1>2. Types /\ Stages /\ Homes /\ GuardsHeldOnce /\ Enter(h, n)
      /\ wrapper[v] = NoWrapper /\ wrapper' = [wrapper EXCEPT ![v] = x]
  BY DEF WrapInv, NewGuarded
<1> HIDE DEF x
<1>3. Moves(v, x)
  BY <1>1, <1>2, Replaced
<1>4. Stage(x)
  BY <1>1, StagesDiffer, WrapperAssumption DEF Stage, GuardedStages
<1>5. Stages'
  BY <1>2, <1>3, <1>4, StagesMove
<1>6. Types'
  BY <1>2, <1>3 DEF Types, Moves, Enter
<1>7. \A g \in Guard : ~Holds(v, g) /\ (Holds(v, g)' <=> g = h)
  BY <1>1, <1>2, <1>3, HoldsMove, WrapperAssumption DEF Holds, NoWrapper
<1>8. Homes' /\ GuardsHeldOnce'
  <2>1. \A w \in Wrapper, g \in Guard :
          Holds(w, g)' <=> Holds(w, g) \/ (w = v /\ g = h)
    BY <1>7, <1>3, HoldsMove
  <2>2. \A w \in Wrapper, g \in Guard :
          Holds(w, g) => wrapper'[w].node = wrapper[w].node
    BY <1>7, <1>3, HoldsMove
  <2>3. wrapper'[v].node = n
    BY <1>1, <1>3 DEF Moves
  <2> QED BY <1>2, <2>1, <2>2, <2>3, HeldMore
<1> QED BY <1>5, <1>6, <1>8 DEF WrapInv

(* A clone of a Guarded holds a guard of its own, of the same node.        *)
LEMMA CloneGuardedKeeps ==
  ASSUME WrapInv, NEW w0 \in Wrapper, NEW v \in Wrapper, NEW h \in Guard,
         CloneGuarded(w0, v, h)
  PROVE  WrapInv'
<1> DEFINE y == wrapper[w0]
           x == [y EXCEPT !.guard = h, !.value = FALSE]
<1>1. /\ Types /\ Stages /\ Homes /\ GuardsHeldOnce /\ Enter(h, y.node)
      /\ wrapper[v] = NoWrapper /\ wrapper' = [wrapper EXCEPT ![v] = x]
      /\ y.kind = "guarded" /\ y.fields = <<>> /\ y.spare = NoGuard
  BY DEF WrapInv, CloneGuarded, InUse
<1>2. y \in WrapperState /\ Stage(y)
  BY <1>1 DEF Types, Stages
<1>3. y.promised /\ y.node \in Node
  BY <1>1, <1>2 DEF Stage, WrapperState
<1>4. /\ x \in WrapperState /\ x.kind = "guarded" /\ x.node = y.node
      /\ x.guard = h /\ x.spare = NoGuard /\ x.promised /\ x.fields = <<>>
  BY <1>1, <1>2, <1>3 DEF WrapperState
<1> HIDE DEF x, y
<1>5. Moves(v, x)
  BY <1>1, <1>4, Replaced
<1>6. Stage(x)
  BY <1>4, StagesDiffer, WrapperAssumption DEF Stage, GuardedStages
<1>7. Stages'
  BY <1>1, <1>5, <1>6, StagesMove
<1>8. Types'
  BY <1>1, <1>3, <1>5 DEF Types, Moves, Enter
<1>9. \A g \in Guard : ~Holds(v, g) /\ (Holds(v, g)' <=> g = h)
  BY <1>1, <1>4, <1>5, HoldsMove, WrapperAssumption DEF Holds, NoWrapper
<1>10. Homes' /\ GuardsHeldOnce'
  <2>1. \A w \in Wrapper, g \in Guard :
          Holds(w, g)' <=> Holds(w, g) \/ (w = v /\ g = h)
    BY <1>9, <1>5, HoldsMove
  <2>2. \A w \in Wrapper, g \in Guard :
          Holds(w, g) => wrapper'[w].node = wrapper[w].node
    BY <1>9, <1>5, HoldsMove
  <2>3. wrapper'[v].node = y.node
    BY <1>4, <1>5 DEF Moves
  <2> QED BY <1>1, <1>3, <2>1, <2>2, <2>3, HeldMore
<1> QED BY <1>7, <1>8, <1>10 DEF WrapInv

(* A wrapper moves and keeps its guards.                                   *)
LEMMA GuardsStay ==
  ASSUME WrapInv, UNCHANGED vars, NEW v \in Wrapper, NEW x, Moves(v, x), Stage(x),
         x.guard = wrapper[v].guard, x.spare = wrapper[v].spare,
         x.node = wrapper[v].node
  PROVE  WrapInv'
<1>1. Stages'
  BY StagesMove DEF WrapInv
<1>2. Types'
  BY DEF WrapInv, Types, Moves, vars
<1>3. \A w \in Wrapper, g \in Guard : Holds(w, g)' <=> Holds(w, g)
  BY HoldsMove DEF Holds
<1>4. \A w \in Wrapper, g \in Guard :
        Holds(w, g) => wrapper'[w].node = wrapper[w].node
  BY HoldsMove DEF Moves
<1>5. Homes' /\ GuardsHeldOnce'
  BY <1>3, <1>4, HeldSame DEF WrapInv, vars
<1> QED BY <1>1, <1>2, <1>5 DEF WrapInv

(* Clone for Guarded has cloned the value.                                 *)
LEMMA CloneValueKeeps ==
  ASSUME WrapInv, NEW v \in Wrapper, CloneValue(v)
  PROVE  WrapInv'
<1> DEFINE y == wrapper[v]
           x == [y EXCEPT !.value = TRUE]
<1>1. y \in WrapperState /\ Stage(y) /\ UNCHANGED vars /\ y.kind = "guarded"
  BY DEF WrapInv, Types, Stages, CloneValue
<1>2. /\ x \in WrapperState /\ x.kind = "guarded" /\ x.node = y.node
      /\ x.guard = y.guard /\ x.spare = y.spare /\ x.promised = y.promised
      /\ x.fields = y.fields
  BY <1>1 DEF WrapperState
<1>3. Moves(v, x)
  BY <1>2 DEF WrapInv, Types, CloneValue, Moves
<1>4. Stage(x)
  BY <1>1, <1>2 DEF Stage
<1> QED BY <1>1, <1>2, <1>3, <1>4, GuardsStay

(* A drop begins: every field is left to drop.                             *)
LEMMA DropKeeps ==
  ASSUME WrapInv, NEW v \in Wrapper, Drop(v)
  PROVE  WrapInv'
<1> DEFINE y == wrapper[v]
           x == [y EXCEPT !.fields = Fields(y.kind)]
<1>1. y \in WrapperState /\ Stage(y) /\ UNCHANGED vars
      /\ y.kind # "none" /\ y.fields = <<>> /\ y.spare = NoGuard /\ y.value
  BY DEF WrapInv, Types, Stages, Drop, InUse
<1>2. Fields(y.kind) \in Seq(Field)
  BY StagesTyped DEF Fields, InterruptFields, GuardedFields
<1>3. /\ x \in WrapperState /\ x.kind = y.kind /\ x.node = y.node
      /\ x.guard = y.guard /\ x.spare = y.spare /\ x.promised = y.promised
      /\ x.value = y.value /\ x.fields = Fields(y.kind)
  BY <1>1, <1>2 DEF WrapperState
<1>4. Moves(v, x)
  BY <1>3 DEF WrapInv, Types, Drop, Moves
<1>5. Stage(x)
  <2>1. y.kind \in {"interrupt", "guarded"}
    BY <1>1 DEF WrapperState, Kind
  <2>2. CASE y.kind = "interrupt"
    BY <2>2, <1>1, <1>3, StagesDiffer DEF Stage, Fields, InterruptFields, InterruptStages
  <2>3. CASE y.kind = "guarded"
    BY <2>3, <1>1, <1>3, StagesDiffer DEF Stage, Fields, GuardedFields, GuardedStages
  <2> QED BY <2>1, <2>2, <2>3
<1> QED BY <1>1, <1>3, <1>4, <1>5, GuardsStay

(* into_inner begins: every field but the value is left to drop.           *)
LEMMA IntoInnerKeeps ==
  ASSUME WrapInv, NEW v \in Wrapper, IntoInner(v)
  PROVE  WrapInv'
<1> DEFINE y == wrapper[v]
           x == [y EXCEPT !.value = FALSE, !.fields = Rest(y.kind)]
<1>1. y \in WrapperState /\ Stage(y) /\ UNCHANGED vars
      /\ y.kind # "none" /\ y.fields = <<>> /\ y.spare = NoGuard /\ y.value
  BY DEF WrapInv, Types, Stages, IntoInner, InUse
<1>2. Rest(y.kind) \in Seq(Field)
  BY StagesTyped DEF Rest
<1>3. /\ x \in WrapperState /\ x.kind = y.kind /\ x.node = y.node
      /\ x.guard = y.guard /\ x.spare = y.spare /\ x.promised = y.promised
      /\ x.value = FALSE /\ x.fields = Rest(y.kind)
  BY <1>1, <1>2 DEF WrapperState
<1>4. Moves(v, x)
  BY <1>3 DEF WrapInv, Types, IntoInner, Moves
<1>5. Stage(x)
  <2>1. y.kind \in {"interrupt", "guarded"}
    BY <1>1 DEF WrapperState, Kind
  <2>2. CASE y.kind = "interrupt"
    BY <2>2, <1>1, <1>3, StagesDiffer DEF Stage, Rest, InterruptStages
  <2>3. CASE y.kind = "guarded"
    BY <2>3, <1>1, <1>3, StagesDiffer DEF Stage, Rest, GuardedStages
  <2> QED BY <2>1, <2>2, <2>3
<1> QED BY <1>1, <1>3, <1>4, <1>5, GuardsStay

(* Interrupt::guarded: the new guard is counted while the old one is held. *)
LEMMA GuardInterruptKeeps ==
  ASSUME WrapInv, NEW v \in Wrapper, NEW h \in Guard, GuardInterrupt(v, h)
  PROVE  WrapInv'
<1> DEFINE y == wrapper[v]
           x == [y EXCEPT !.guard = h, !.spare = y.guard, !.promised = TRUE]
<1>1. /\ Types /\ Stages /\ Homes /\ GuardsHeldOnce /\ Enter(h, y.node)
      /\ y.kind = "interrupt" /\ y.fields = <<>> /\ y.spare = NoGuard /\ y.value
  BY DEF WrapInv, GuardInterrupt, Reguard, InUse
<1>2. y \in WrapperState /\ Stage(y)
  BY <1>1 DEF Types, Stages
<1>3. /\ x \in WrapperState /\ x.kind = y.kind /\ x.node = y.node
      /\ x.guard = h /\ x.spare = y.guard /\ x.promised
      /\ x.value = y.value /\ x.fields = y.fields
  BY <1>2 DEF WrapperState
<1>4. Moves(v, x)
  BY <1>1, <1>3 DEF Types, GuardInterrupt, Reguard, Moves
<1>5. member[h] = NoNode /\ y.node \in Node /\ y.guard \in Guard \cup {NoGuard}
  BY <1>1, <1>2 DEF Enter, WrapperState
<1>6. ~Holds(v, h)
  BY <1>1, <1>5 DEF GuardsHeldOnce
<1>7. Stage(x)
  BY <1>1, <1>2, <1>3, <1>6, StagesDiffer, WrapperAssumption
     DEF Stage, InterruptStages, Holds
<1>8. Stages'
  BY <1>1, <1>4, <1>7, StagesMove
<1>9. Types'
  BY <1>1, <1>4, <1>5 DEF Types, Moves, Enter
<1>10. \A g \in Guard : Holds(v, g) <=> y.guard = g
  BY <1>1, WrapperAssumption DEF Holds
<1> HIDE DEF x
<1>11. Homes' /\ GuardsHeldOnce'
  <2>1. \A w \in Wrapper, g \in Guard :
          Holds(w, g)' <=> Holds(w, g) \/ (w = v /\ g = h)
    BY <1>3, <1>10, <1>4, HoldsMove
  <2>2. \A w \in Wrapper, g \in Guard :
          Holds(w, g) => wrapper'[w].node = wrapper[w].node
    BY <1>3, <1>4, HoldsMove DEF Moves
  <2>3. wrapper'[v].node = y.node
    BY <1>3, <1>4 DEF Moves
  <2> QED BY <1>1, <1>5, <2>1, <2>2, <2>3, HeldMore
<1> QED BY <1>8, <1>9, <1>11 DEF WrapInv

(* The replaced guard is dropped.                                          *)
LEMMA DropSpareKeeps ==
  ASSUME WrapInv, NEW v \in Wrapper, DropSpare(v)
  PROVE  WrapInv'
<1> DEFINE y == wrapper[v]
           x == [y EXCEPT !.spare = NoGuard]
<1>1. /\ Types /\ Stages /\ Homes /\ GuardsHeldOnce /\ Leave(y.spare)
      /\ y.spare # NoGuard
  BY DEF WrapInv, DropSpare
<1>2. y \in WrapperState /\ Stage(y)
  BY <1>1 DEF Types, Stages
<1>3. /\ x \in WrapperState /\ x.kind = y.kind /\ x.node = y.node
      /\ x.guard = y.guard /\ x.spare = NoGuard /\ x.promised = y.promised
      /\ x.value = y.value /\ x.fields = y.fields /\ y.spare \in Guard
  BY <1>1, <1>2 DEF WrapperState
<1>4. Moves(v, x)
  BY <1>1, <1>3 DEF Types, DropSpare, Moves
<1>5. Stage(x)
  BY <1>1, <1>2, <1>3 DEF Stage, NoWrapper
<1>6. Stages'
  BY <1>1, <1>4, <1>5, StagesMove
<1>7. Types'
  BY <1>1, <1>4 DEF Types, Moves, Leave
<1>8. y.guard # y.spare
  BY <1>1, <1>2 DEF Stage
<1> HIDE DEF x
<1>9. Homes' /\ GuardsHeldOnce'
  <2>1. \A w \in Wrapper, g \in Guard :
          Holds(w, g)' <=> Holds(w, g) /\ ~(w = v /\ g = y.spare)
    BY <1>3, <1>4, <1>8, HoldsMove, WrapperAssumption DEF Holds
  <2>2. \A w \in Wrapper, g \in Guard :
          Holds(w, g)' => wrapper'[w].node = wrapper[w].node
    BY <1>3, <1>4, HoldsMove DEF Moves
  <2>3. Holds(v, y.spare)
    BY DEF Holds
  <2> QED BY <1>1, <1>3, <2>1, <2>2, <2>3, HeldLess
<1> QED BY <1>6, <1>7, <1>9 DEF WrapInv

(* The state of a wrapper after its next field has been dropped.           *)
WithoutField(y) ==
  [y EXCEPT !.fields = Tail(@),
            !.value = @ /\ Head(y.fields) # "value",
            !.guard = IF Head(y.fields) = "guard" THEN NoGuard ELSE @]
AfterField(y) ==
  IF WithoutField(y).fields = <<>> THEN NoWrapper ELSE WithoutField(y)

(* Dropping the next field leaves a stage of a drop, without that field.   *)
LEMMA FieldDropped ==
  ASSUME NEW y \in WrapperState, Stage(y), y.fields # <<>>
  PROVE  LET x == AfterField(y) IN
         /\ x \in WrapperState /\ Stage(x)
         /\ x.spare = NoGuard /\ y.spare = NoGuard
         /\ x.guard = IF Head(y.fields) = "guard" THEN NoGuard ELSE y.guard
         /\ x.guard # NoGuard => x.node = y.node
<1> DEFINE r == WithoutField(y)
           x == AfterField(y)
<1>1. y.kind \in {"interrupt", "guarded"}
  BY DEF Stage, NoWrapper, WrapperState, Kind
<1>2. y.spare = NoGuard
  BY DEF Stage
<1>3. /\ r.kind = y.kind /\ r.node = y.node /\ r.spare = y.spare
      /\ r.promised = y.promised /\ r.fields = Tail(y.fields)
      /\ r.value = (y.value /\ Head(y.fields) # "value")
      /\ r.guard = IF Head(y.fields) = "guard" THEN NoGuard ELSE y.guard
  BY DEF WithoutField, WrapperState
<1>4. r \in WrapperState
  <2>1. Tail(y.fields) \in Seq(Field)
    BY DEF WrapperState
  <2>2. y.value \in BOOLEAN /\ y.guard \in Guard \cup {NoGuard}
    BY DEF WrapperState
  <2>3. (y.value /\ Head(y.fields) # "value") \in BOOLEAN
    OBVIOUS
  <2> QED BY <2>1, <2>2, <2>3 DEF WithoutField, WrapperState
<1>5. x = IF r.fields = <<>> THEN NoWrapper ELSE r
  BY DEF AfterField
<1> HIDE DEF r, x
<1>6. /\ NoWrapper.guard = NoGuard /\ NoWrapper.spare = NoGuard
      /\ NoWrapper.kind = "none" /\ NoWrapper.fields = <<>> /\ ~NoWrapper.promised
  BY DEF NoWrapper
<1>7. Stage(NoWrapper)
  BY <1>6, StagesDiffer DEF Stage
<1>8. CASE y.fields = <<"listener", "value", "guard">>
  <2>1. y.kind = "interrupt" /\ y.value
    BY <1>1, <1>8 DEF Stage, InterruptStages, GuardedStages
  <2>2. r.fields = <<"value", "guard">> /\ r.value /\ r.guard = y.guard
    BY <1>3, <1>8, <2>1, DropsInOrder
  <2>3. Stage(r)
    BY <1>2, <1>3, <2>1, <2>2, <1>8, StagesDiffer DEF Stage, InterruptStages
  <2> QED BY <1>2, <1>3, <1>4, <1>5, <1>8, <2>2, <2>3, DropsInOrder, StagesDiffer DEF x
<1>9. CASE y.fields = <<"value", "guard">>
  <2>1. y.kind = "interrupt" /\ y.value
    BY <1>1, <1>9 DEF Stage, InterruptStages, GuardedStages
  <2>2. r.fields = <<"guard">> /\ ~r.value /\ r.guard = y.guard
    BY <1>3, <1>9, <2>1, DropsInOrder
  <2>3. Stage(r)
    BY <1>2, <1>3, <2>1, <2>2, <1>9, StagesDiffer DEF Stage, InterruptStages
  <2> QED BY <1>2, <1>3, <1>4, <1>5, <1>9, <2>2, <2>3, DropsInOrder, StagesDiffer DEF x
<1>10. CASE y.fields = <<"listener", "guard">>
  <2>1. y.kind = "interrupt" /\ ~y.value
    BY <1>1, <1>10 DEF Stage, InterruptStages, GuardedStages
  <2>2. r.fields = <<"guard">> /\ ~r.value /\ r.guard = y.guard
    BY <1>3, <1>10, <2>1, DropsInOrder
  <2>3. Stage(r)
    BY <1>2, <1>3, <2>1, <2>2, <1>10, StagesDiffer DEF Stage, InterruptStages
  <2> QED BY <1>2, <1>3, <1>4, <1>5, <1>10, <2>2, <2>3, DropsInOrder, StagesDiffer DEF x
<1>11. CASE y.fields = <<"guard", "value">>
  <2>1. y.kind = "guarded"
    BY <1>1, <1>11 DEF Stage, InterruptStages, GuardedStages
  <2>2. r.fields = <<"value">> /\ r.guard = NoGuard
    BY <1>3, <1>11, <2>1, DropsInOrder
  <2>3. Stage(r)
    BY <1>2, <1>3, <2>1, <2>2, <1>11, StagesDiffer DEF Stage, GuardedStages
  <2> QED BY <1>2, <1>3, <1>4, <1>5, <1>11, <2>2, <2>3, DropsInOrder, StagesDiffer DEF x
<1>12. CASE y.fields = <<"value">>
  <2>1. r.fields = <<>> /\ y.guard = NoGuard /\ Head(y.fields) = "value"
    BY <1>3, <1>12, DropsInOrder DEF Stage
  <2> QED BY <1>2, <1>5, <1>6, <1>7, <2>1, NoWrapperTyped DEF x
<1>13. CASE y.fields = <<"guard">>
  <2>1. r.fields = <<>> /\ Head(y.fields) = "guard"
    BY <1>3, <1>13, DropsInOrder DEF Stage
  <2> QED BY <1>2, <1>5, <1>6, <1>7, <2>1, NoWrapperTyped DEF x
<1> QED
  BY <1>1, <1>8, <1>9, <1>10, <1>11, <1>12, <1>13
     DEF Stage, InterruptStages, GuardedStages

(* A field is dropped, and its guard with it.                              *)
LEMMA DropFieldKeeps ==
  ASSUME WrapInv, NEW v \in Wrapper, DropField(v)
  PROVE  WrapInv'
<1> DEFINE y == wrapper[v]
           x == AfterField(y)
<1>1. /\ Types /\ Stages /\ Homes /\ GuardsHeldOnce /\ y.fields # <<>>
      /\ wrapper' = [wrapper EXCEPT ![v] = x]
      /\ IF Head(y.fields) = "guard" /\ y.guard # NoGuard
         THEN Leave(y.guard) ELSE UNCHANGED vars
  BY DEF WrapInv, DropField, AfterField, WithoutField
<1>2. y \in WrapperState /\ Stage(y)
  BY <1>1 DEF Types, Stages
<1>3. /\ x \in WrapperState /\ Stage(x)
      /\ x.spare = NoGuard /\ y.spare = NoGuard
      /\ x.guard = IF Head(y.fields) = "guard" THEN NoGuard ELSE y.guard
      /\ x.guard # NoGuard => x.node = y.node
  BY <1>1, <1>2, FieldDropped
<1> HIDE DEF x
<1>4. Moves(v, x)
  BY <1>1, <1>3, Replaced
<1>5. Stages'
  BY <1>1, <1>3, <1>4, StagesMove
<1>6. \A g \in Guard : /\ Holds(v, g) <=> y.guard = g
                       /\ Holds(v, g)' <=> x.guard = g
  BY <1>3, <1>4, HoldsMove, WrapperAssumption DEF Holds
<1>7. CASE Head(y.fields) = "guard" /\ y.guard # NoGuard
  <2>1. y.guard \in Guard /\ Leave(y.guard)
    BY <1>1, <1>2, <1>7 DEF WrapperState
  <2>2. Types'
    BY <1>1, <1>4, <2>1 DEF Types, Moves, Leave
  <2>3. \A w \in Wrapper, g \in Guard :
          Holds(w, g)' <=> Holds(w, g) /\ ~(w = v /\ g = y.guard)
    BY <1>3, <1>4, <1>6, <1>7, HoldsMove, WrapperAssumption
  <2>4. \A w \in Wrapper, g \in Guard :
          Holds(w, g)' => wrapper'[w].node = wrapper[w].node
    BY <1>3, <1>4, <1>6, HoldsMove, WrapperAssumption DEF Moves
  <2>5. Holds(v, y.guard)
    BY DEF Holds
  <2> HIDE DEF y
  <2>6. Homes' /\ GuardsHeldOnce'
    BY <1>1, <2>1, <2>3, <2>4, <2>5, HeldLess
  <2> QED BY <1>5, <2>2, <2>6 DEF WrapInv
<1>8. CASE ~(Head(y.fields) = "guard" /\ y.guard # NoGuard)
  <2>1. UNCHANGED vars /\ x.guard = y.guard
    BY <1>1, <1>3, <1>8
  <2>2. Types'
    BY <1>1, <1>4, <2>1 DEF Types, Moves, vars
  <2>3. \A w \in Wrapper, g \in Guard : Holds(w, g)' <=> Holds(w, g)
    BY <1>4, <1>6, <2>1, HoldsMove
  <2>4. \A w \in Wrapper, g \in Guard :
          Holds(w, g) => wrapper'[w].node = wrapper[w].node
    BY <1>3, <1>4, <1>6, <2>1, HoldsMove, WrapperAssumption DEF Moves
  <2>5. Homes' /\ GuardsHeldOnce'
    BY <1>1, <2>1, <2>3, <2>4, HeldSame DEF vars
  <2> QED BY <1>5, <2>2, <2>5 DEF WrapInv
<1> QED BY <1>7, <1>8

(* The nodes do what they do without touching a guard.                     *)
LEMMA NodeStepFrame ==
  ASSUME Types, NodeStep
  PROVE  UNCHANGED member /\ completion' \in [Node -> {"none", "pending", "resolved"}]
<1>1. CASE \E m \in Node \ {Root} : Create(m)
  BY <1>1 DEF Types, Create
<1>2. CASE \E c \in Caller : Answer(c)
  BY <1>2 DEF Types, Answer
<1>3. CASE \E c \in Caller, n \in Node : Ask(c, n)
  BY <1>3 DEF Types, Ask
<1>4. CASE \E n \in Node : Abandon(n)
  BY <1>4 DEF Types, Abandon
<1>5. CASE \E n \in Node : Collect(n)
  BY <1>5 DEF Types, Collect
<1>6. CASE \E n \in Node : Stop(n)
  BY <1>6 DEF Types, Stop
<1>7. CASE \E n \in Node : Await(n)
  BY <1>7 DEF Types, Await
<1>8. CASE \E n \in Node : Resolve(n)
  BY <1>8 DEF Types, Resolve
<1>9. CASE \E n \in Node : Forget(n)
  BY <1>9 DEF Types, Forget
<1> QED
  BY <1>1, <1>2, <1>3, <1>4, <1>5, <1>6, <1>7, <1>8, <1>9 DEF NodeStep

(* What happens to nodes does not concern wrappers, which keep the guards  *)
(* they hold.                                                              *)
LEMMA NodeStepKeeps ==
  ASSUME WrapInv, NodeStep, UNCHANGED wrapper
  PROVE  WrapInv'
<1>1. UNCHANGED member /\ completion' \in [Node -> {"none", "pending", "resolved"}]
  BY NodeStepFrame DEF WrapInv
<1> QED
  BY <1>1 DEF WrapInv, Types, Stages, Homes, GuardsHeldOnce, Holds

(* The invariant is inductive.                                             *)
LEMMA WrapInvNext == WrapInv /\ [WrapNext]_wrapVars => WrapInv'
<1> SUFFICES ASSUME WrapInv, [WrapNext]_wrapVars PROVE WrapInv'
  OBVIOUS
<1>1. CASE UNCHANGED wrapVars
  BY <1>1 DEF wrapVars, vars, WrapInv, Types, Stages, Homes, GuardsHeldOnce, Holds
<1>2. CASE WrapNext
  BY <1>2, NewInterruptKeeps, NewGuardedKeeps, CloneGuardedKeeps, CloneValueKeeps,
     GuardInterruptKeeps, DropSpareKeeps, DropKeeps, IntoInnerKeeps,
     DropFieldKeeps, NodeStepKeeps DEF WrapNext
<1> QED BY <1>1, <1>2

(* Every behaviour of the wrappers keeps the invariant.                    *)
THEOREM WrappersInvariant == WrapSpec => []WrapInv
BY WrapInitial, WrapInvNext, PTL DEF WrapSpec

(* The type invariant; a wrapper in use that was guarded has a guard, also *)
(* while Interrupt::guarded replaces it.                                   *)
THEOREM WrappersTyped == WrapSpec => []WrapTypeOK
<1>1. WrapInv => WrapTypeOK
  BY StagesDiffer DEF WrapInv, Types, Stages, Stage, WrapTypeOK, InUse
<1> QED BY <1>1, WrappersInvariant, PTL

(* Interrupt::guarded, Guarded::clone, the drops and into_inner neither    *)
(* leak a guard nor give one up twice: each counted guard is held by       *)
(* exactly one wrapper.                                                    *)
THEOREM WrappersHoldOnce == WrapSpec => []GuardsHeldOnce
<1>1. WrapInv => GuardsHeldOnce
  BY DEF WrapInv
<1> QED BY <1>1, WrappersInvariant, PTL

-----------------------------------------------------------------------------
(* A guarded interrupt delays shutdown.                                    *)

(* A guarded interrupt that owns its value has a guard at its node.        *)
LEMMA ValueGuarded ==
  ASSUME WrapInv, NEW w \in Wrapper, wrapper[w].kind = "interrupt",
         wrapper[w].promised, wrapper[w].value
  PROVE  /\ wrapper[w].guard \in Guard
         /\ member[wrapper[w].guard] = wrapper[w].node
         /\ wrapper[w].node # NoNode
<1>1. wrapper[w] \in WrapperState /\ Stage(wrapper[w])
  BY DEF WrapInv, Types, Stages
<1>2. wrapper[w].fields # <<"value">>
  BY <1>1, StagesDiffer DEF Stage, InterruptStages
<1>3. wrapper[w].guard \in Guard
  BY <1>1, <1>2 DEF Stage, WrapperState
<1> QED
  BY <1>1, <1>3, WrapperAssumption DEF WrapInv, Homes, Holds, WrapperState

(* Only Resolve resolves a completion.                                     *)
LEMMA ResolvedBy ==
  ASSUME Types, [WrapNext]_wrapVars, NEW n \in Node, Resolving(n)
  PROVE  Subset(n) = {}
<1>1. CASE UNCHANGED completion
  BY <1>1 DEF Resolving
<1>2. CASE NodeStep
  <2>1. \/ \E m \in Node : Resolve(m)
        \/ \E c \in Caller : Answer(c)
        \/ \E m \in Node : Await(m)
        \/ \E m \in Node : Forget(m)
        \/ UNCHANGED completion
    BY <1>2 DEF NodeStep, Create, Ask, Abandon, Collect, Stop
  <2>2. CASE \E m \in Node : Resolve(m)
    BY <2>2 DEF Types, Resolve, CanResolve, Resolving
  <2>3. CASE \E c \in Caller : Answer(c)
    BY <2>3 DEF Types, Answer, Resolving
  <2>4. CASE \E m \in Node : Await(m)
    BY <2>4 DEF Types, Await, Resolving
  <2>5. CASE \E m \in Node : Forget(m)
    BY <2>5, SMTT(60) DEF Types, Forget, Resolving
  <2> QED BY <1>1, <2>1, <2>2, <2>3, <2>4, <2>5
<1>3. \/ NodeStep
      \/ UNCHANGED completion
  BY DEF WrapNext, wrapVars, vars, NewInterrupt, NewGuarded, CloneGuarded,
         CloneValue, GuardInterrupt, Reguard, DropSpare, Drop, IntoInner,
         DropField, Enter, Leave
<1> QED BY <1>1, <1>2, <1>3

(* No completion above a guarded interrupt resolves while the interrupt    *)
(* owns its value: before, while and after it is guarded again, and until  *)
(* the value has been dropped.                                             *)
THEOREM InterruptsDelay == WrapSpec => InterruptDelays
<1>1. WrapInv /\ [WrapNext]_wrapVars
        => [\A n \in Node, w \in Wrapper :
              Resolving(n) /\ wrapper[w].kind = "interrupt" => ~Promised(w, n)]_wrapVars
  <2> SUFFICES ASSUME WrapInv, [WrapNext]_wrapVars, NEW n \in Node, NEW w \in Wrapper,
                      Resolving(n), wrapper[w].kind = "interrupt", Promised(w, n)
               PROVE  FALSE
    OBVIOUS
  <2>1. wrapper[w].guard \in Subset(n)
    BY ValueGuarded DEF Promised, Subset
  <2> QED BY <2>1, ResolvedBy DEF WrapInv
<1> QED BY <1>1, WrappersInvariant, PTL DEF WrapSpec, InterruptDelays

=============================================================================
