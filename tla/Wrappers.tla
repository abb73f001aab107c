------------------------------ MODULE Wrappers ------------------------------
(***************************************************************************)
(* The values that swansong wraps, over the abstract specification of      *)
(* shutdown: an Interrupt may be given a guard, and another one later; a   *)
(* Guarded has one from the start.  A wrapper that is dropped drops its    *)
(* fields in the order in which they are declared, and the drop of the     *)
(* value that it wraps may take its time.                                  *)
(***************************************************************************)
EXTENDS Shutdown, Sequences

CONSTANTS Wrapper, NoGuard

ASSUME WrapperAssumption ==
  Root \in Node /\ NoNode \notin Node /\ NoGuard \notin Guard

VARIABLE wrapper  \* of each identity: see WrapperState

wrapVars == <<vars, wrapper>>

(* `fields` is what is left to drop, in order; `spare` the guard that      *)
(* another one has replaced; `promised` whether the wrapper has been       *)
(* guarded; `value` whether it owns the wrapped value.                     *)
Kind == {"none", "interrupt", "guarded"}
Field == {"listener", "value", "guard"}
WrapperState ==
  [kind : Kind, node : Node, value : BOOLEAN, guard : Guard \cup {NoGuard},
   spare : Guard \cup {NoGuard}, promised : BOOLEAN, fields : Seq(Field)]
NoWrapper ==
  [kind |-> "none", node |-> Root, value |-> FALSE, guard |-> NoGuard,
   spare |-> NoGuard, promised |-> FALSE, fields |-> <<>>]

(* The fields of the two types, in the order of their declarations.        *)
GuardBeforeValue == <<"listener", "guard", "value">>
InterruptFields == <<"listener", "value", "guard">>
GuardedFields == <<"guard", "value">>
Fields(kind) == IF kind = "interrupt" THEN InterruptFields ELSE GuardedFields

(* In use: complete, and not being dropped.                                *)
InUse(w) ==
  /\ wrapper[w].kind # "none" /\ wrapper[w].fields = <<>>
  /\ wrapper[w].spare = NoGuard /\ wrapper[w].value

(* Swansong::interrupt.                                                    *)
NewInterrupt(w, n) ==
  /\ wrapper[w] = NoWrapper /\ n \in governed
  /\ wrapper' = [wrapper EXCEPT ![w] =
       [NoWrapper EXCEPT !.kind = "interrupt", !.node = n, !.value = TRUE]]
  /\ UNCHANGED vars

(* Swansong::guarded.                                                      *)
NewGuarded(w, n, g) ==
  /\ wrapper[w] = NoWrapper /\ n \in governed
  /\ Enter(g, n)
  /\ wrapper' = [wrapper EXCEPT ![w] =
       [NoWrapper EXCEPT !.kind = "guarded", !.node = n, !.value = TRUE,
                         !.guard = g, !.promised = TRUE]]

(* Clone for Guarded counts the new guard, then clones the value.          *)
CloneGuarded(w, v, g) ==
  /\ InUse(w) /\ wrapper[w].kind = "guarded" /\ wrapper[v] = NoWrapper
  /\ Enter(g, wrapper[w].node)
  /\ wrapper' = [wrapper EXCEPT ![v] =
       [wrapper[w] EXCEPT !.guard = g, !.value = FALSE]]
CloneValue(v) ==
  /\ wrapper[v].kind = "guarded" /\ wrapper[v].fields = <<>> /\ ~wrapper[v].value
  /\ wrapper' = [wrapper EXCEPT ![v].value = TRUE]
  /\ UNCHANGED vars

(* Interrupt::guarded: no new guard if the node has been collected, though *)
(* a root's shard may still count one.  The assignment drops the old guard *)
(* once the new one is counted.                                            *)
DropOldFirst(w, g) ==
  /\ IF wrapper[w].guard = NoGuard THEN Enter(g, wrapper[w].node)
                                   ELSE Leave(wrapper[w].guard)
  /\ wrapper' = [wrapper EXCEPT ![w].guard = IF @ = NoGuard THEN g ELSE NoGuard,
                                ![w].promised = TRUE]
Reguard(w, g) ==
  /\ Enter(g, wrapper[w].node)
  /\ wrapper' = [wrapper EXCEPT ![w].guard = g, ![w].spare = wrapper[w].guard,
                                ![w].promised = TRUE]
GuardInterrupt(w, g) ==
  InUse(w) /\ wrapper[w].kind = "interrupt" /\ Reguard(w, g)

ForgetSpare(w) ==
  /\ wrapper[w].spare # NoGuard
  /\ wrapper' = [wrapper EXCEPT ![w].spare = NoGuard]
  /\ UNCHANGED vars
DropSpare(w) ==
  /\ wrapper[w].spare # NoGuard
  /\ Leave(wrapper[w].spare)
  /\ wrapper' = [wrapper EXCEPT ![w].spare = NoGuard]

Drop(w) ==
  /\ InUse(w)
  /\ wrapper' = [wrapper EXCEPT ![w].fields = Fields(wrapper[w].kind)]
  /\ UNCHANGED vars

(* into_inner moves the value out, then the other fields drop.             *)
Rest(kind) == IF kind = "interrupt" THEN <<"listener", "guard">> ELSE <<"guard">>
IntoInner(w) ==
  /\ InUse(w)
  /\ wrapper' = [wrapper EXCEPT ![w].value = FALSE,
                                ![w].fields = Rest(wrapper[w].kind)]
  /\ UNCHANGED vars

(* One field is dropped; after the last one the wrapper is gone.           *)
DropField(w) ==
  LET field == Head(wrapper[w].fields)
      rest == [wrapper[w] EXCEPT
                 !.fields = Tail(@),
                 !.value = @ /\ field # "value",
                 !.guard = IF field = "guard" THEN NoGuard ELSE @]
  IN
  /\ wrapper[w].fields # <<>>
  /\ wrapper' = [wrapper EXCEPT ![w] = IF rest.fields = <<>> THEN NoWrapper
                                                             ELSE rest]
  /\ IF field = "guard" /\ wrapper[w].guard # NoGuard
     THEN Leave(wrapper[w].guard)
     ELSE UNCHANGED vars

WrapInit == Init /\ wrapper = [w \in Wrapper |-> NoWrapper]

WrapNext ==
  \/ \E w \in Wrapper :
       \/ \E n \in Node : NewInterrupt(w, n)
       \/ \E n \in Node, g \in Guard : NewGuarded(w, n, g)
       \/ \E v \in Wrapper, g \in Guard : CloneGuarded(w, v, g)
       \/ \E g \in Guard : GuardInterrupt(w, g)
       \/ CloneValue(w) \/ DropSpare(w)
       \/ Drop(w) \/ IntoInner(w) \/ DropField(w)
  \/ NodeStep /\ UNCHANGED wrapper

WrapSpec == WrapInit /\ [][WrapNext]_wrapVars

-----------------------------------------------------------------------------

(* The type invariant; and a wrapper in use that was guarded has a guard,  *)
(* also while Interrupt::guarded gives it another one.                     *)
WrapTypeOK ==
  /\ wrapper \in [Wrapper -> WrapperState]
  /\ \A w \in Wrapper :
       InUse(w) /\ wrapper[w].promised => wrapper[w].guard # NoGuard

Resolving(n) == completion[n] # "resolved" /\ completion'[n] = "resolved"
Promised(w, n) ==
  wrapper[w].promised /\ wrapper[w].value /\ n \in Upwards(wrapper[w].node)

(* Interrupt::guarded delays shutdown until the wrapper has dropped: no    *)
(* completion above it resolves while a guarded interrupt still owns the   *)
(* value, whether it is being guarded again or has begun to drop.          *)
InterruptDelays ==
  [][\A n \in Node, w \in Wrapper :
       Resolving(n) /\ wrapper[w].kind = "interrupt" => ~Promised(w, n)]_wrapVars

(* Every counted guard is held by exactly one wrapper: guarding twice,     *)
(* cloning, dropping and into_inner neither leak a guard, which would make *)
(* shutdown hang, nor give one up twice.                                   *)
Holds(w, g) == wrapper[w].guard = g \/ wrapper[w].spare = g
GuardsHeldOnce ==
  \A g \in Guard :
    /\ member[g] # NoNode <=> \E w \in Wrapper : Holds(w, g)
    /\ \A v, w \in Wrapper : Holds(v, g) /\ Holds(w, g) => v = w

(* guarded.rs: a Guarded delays shutdown until it is dropped.              *)
GuardedDelays ==
  [][\A n \in Node, w \in Wrapper :
       Resolving(n) /\ wrapper[w].kind = "guarded" => ~Promised(w, n)]_wrapVars

=============================================================================
