-------------------------- MODULE StopSignalProofs --------------------------
(***************************************************************************)
(* A stop reaches everyone who sleeps for it, for all numbers of shards,   *)
(* interrupts, tasks, ShuttingDown futures and callers.                    *)
(*                                                                         *)
(* The slab of wakers comes first: its free list stays a single path from  *)
(* next_vacant to one past the end (SlabSound), so that an insertion never *)
(* takes an occupied slot.  The invariant then relates the registrations   *)
(* of the interrupts, the tasks that polled them last and the shards that  *)
(* a caller is draining (Standing).                                        *)
(***************************************************************************)
EXTENDS StopSignal, TLAPS

-----------------------------------------------------------------------------
(* The slab.                                                               *)

Unused(slab) == DOMAIN slab.slots \ Keys(slab)
End(slab) == Len(slab.slots) + 1

(* The free list is within bounds, no slot is on it twice, and nothing on  *)
(* it leads back to its head.                                              *)
SlabSound(slab) ==
  /\ slab.next \in Unused(slab) \cup {End(slab)}
  /\ \A k \in Unused(slab) :
       /\ slab.slots[k].link \in Unused(slab) \cup {End(slab)}
       /\ slab.slots[k].link # slab.next
       /\ \A j \in Unused(slab) : slab.slots[j].link = slab.slots[k].link => j = k

(* FreeListComplete, with its parts named.                                 *)
LEMMA FreeList ==
  ASSUME NEW slab
  PROVE  FreeListComplete(slab) <=>
           \A S \in SUBSET (Unused(slab) \cup {End(slab)}) :
             (slab.next \in S /\ \A k \in S \cap Unused(slab) : slab.slots[k].link \in S)
               => S = Unused(slab) \cup {End(slab)}
BY DEF FreeListComplete, Unused, End

(* The empty slab is sound.                                                *)
LEMMA EmptySlabSound ==
  /\ EmptySlab \in Slab /\ SlabSound(EmptySlab) /\ FreeListComplete(EmptySlab)
  /\ Keys(EmptySlab) = {}
<1>1. EmptySlab \in Slab
  BY DEF EmptySlab, Slab
<1>2. /\ EmptySlab.slots = <<>> /\ EmptySlab.next = 1
      /\ Keys(EmptySlab) = {} /\ Unused(EmptySlab) = {} /\ End(EmptySlab) = 1
  BY DEF EmptySlab, Keys, Unused, End
<1>3. SlabSound(EmptySlab)
  BY <1>2 DEF SlabSound
<1>4. FreeListComplete(EmptySlab)
  BY <1>2, FreeList
<1> QED BY <1>1, <1>2, <1>3, <1>4

(* What a slot and a slab are made of.                                     *)
LEMMA SlabTyped ==
  ASSUME NEW slab \in Slab
  PROVE  /\ slab.slots \in Seq(Slot) /\ slab.next \in Nat \ {0}
         /\ Len(slab.slots) \in Nat /\ DOMAIN slab.slots = 1 .. Len(slab.slots)
         /\ \A k \in DOMAIN slab.slots : /\ slab.slots[k].waker \in Task \cup {NoTask}
                                         /\ slab.slots[k].link \in Nat
<1>1. slab.slots \in Seq(Slot) /\ slab.next \in Nat \ {0}
  BY DEF Slab
<1>2. Len(slab.slots) \in Nat /\ DOMAIN slab.slots = 1 .. Len(slab.slots)
  BY <1>1
<1>3. \A k \in DOMAIN slab.slots : slab.slots[k] \in Slot
  BY <1>1, <1>2
<1> QED BY <1>1, <1>2, <1>3 DEF Slot

(* An insertion into the first vacant slot.                                *)
LEMMA InsertReused ==
  ASSUME NEW slab \in Slab, SlabSound(slab), FreeListComplete(slab),
         NEW w \in Task, slab.next \in DOMAIN slab.slots
  PROVE  LET new == SlabInsert(slab, w) IN
         /\ new \in Slab /\ SlabSound(new) /\ FreeListComplete(new)
         /\ slab.next \notin Keys(slab)
         /\ Keys(new) = Keys(slab) \cup {slab.next}
         /\ new.slots[slab.next].waker = w
         /\ \A k \in Keys(slab) : new.slots[k] = slab.slots[k]
<1> DEFINE new == SlabInsert(slab, w)
           n == slab.next
<1>1. /\ new.slots = [slab.slots EXCEPT ![n] = Occupied(w)]
      /\ new.next = slab.slots[n].link
      /\ new = [slots |-> new.slots, next |-> new.next]
  BY DEF SlabInsert
<1>2. n \in Unused(slab) /\ n \notin Keys(slab)
  BY SlabTyped DEF SlabSound, End, Unused
<1>3. /\ Occupied(w) \in Slot /\ Occupied(w).waker = w /\ w # NoTask
  BY StopSignalAssumption DEF Occupied, Slot
<1>4. /\ new.slots \in Seq(Slot) /\ DOMAIN new.slots = DOMAIN slab.slots
      /\ Len(new.slots) = Len(slab.slots)
      /\ new.slots[n] = Occupied(w)
      /\ \A k \in DOMAIN slab.slots \ {n} : new.slots[k] = slab.slots[k]
  BY <1>1, <1>3, SlabTyped
<1> HIDE DEF new
<1>5. Keys(new) = Keys(slab) \cup {n}
  BY <1>3, <1>4 DEF Keys
<1>6. Unused(new) = Unused(slab) \ {n} /\ End(new) = End(slab)
  BY <1>2, <1>4, <1>5 DEF Unused, End
<1>7. new.next \in Unused(new) \cup {End(new)} /\ new.next # n
  BY <1>1, <1>2, <1>6 DEF SlabSound
<1>8. \A k \in Unused(new) : new.slots[k] = slab.slots[k]
  BY <1>4, <1>6 DEF Unused
<1>9. SlabSound(new)
  BY <1>1, <1>2, <1>6, <1>7, <1>8 DEF SlabSound
<1>10. new \in Slab
  <2>1. new.next \in Nat \ {0}
    BY <1>7, <1>6, SlabTyped DEF Unused, End
  <2> QED BY <1>1, <1>4, <2>1 DEF Slab
<1>11. FreeListComplete(new)
  <2> SUFFICES ASSUME NEW S \in SUBSET (Unused(new) \cup {End(new)}), new.next \in S,
                      \A k \in S \cap Unused(new) : new.slots[k].link \in S
               PROVE  S = Unused(new) \cup {End(new)}
    BY FreeList
  <2>1. n # End(slab)
    BY SlabTyped DEF End
  <2>2. S \cup {n} \in SUBSET (Unused(slab) \cup {End(slab)})
    BY <1>2, <1>6
  <2>3. \A k \in (S \cup {n}) \cap Unused(slab) : slab.slots[k].link \in S \cup {n}
    BY <1>1, <1>6, <1>8
  <2>4. S \cup {n} = Unused(slab) \cup {End(slab)}
    BY <2>2, <2>3, FreeList
  <2> QED BY <1>6, <2>1, <2>4
<1> QED BY <1>2, <1>3, <1>4, <1>5, <1>9, <1>10, <1>11 DEF Keys, new

(* An insertion that grows the slab: no slot was vacant.                   *)
LEMMA InsertGrown ==
  ASSUME NEW slab \in Slab, SlabSound(slab), FreeListComplete(slab),
         NEW w \in Task, slab.next \notin DOMAIN slab.slots
  PROVE  LET new == SlabInsert(slab, w) IN
         /\ new \in Slab /\ SlabSound(new) /\ FreeListComplete(new)
         /\ slab.next \notin Keys(slab)
         /\ Keys(new) = Keys(slab) \cup {slab.next}
         /\ new.slots[slab.next].waker = w
         /\ \A k \in Keys(slab) : new.slots[k] = slab.slots[k]
<1> DEFINE new == SlabInsert(slab, w)
           n == slab.next
           len == Len(slab.slots)
<1>1. /\ new.slots = Append(slab.slots, Occupied(w))
      /\ new.next = len + 2
      /\ new = [slots |-> new.slots, next |-> new.next]
  BY DEF SlabInsert
<1>2. n = End(slab) /\ n = len + 1 /\ n \notin Keys(slab) /\ len \in Nat
  BY SlabTyped DEF SlabSound, End, Unused, Keys
<1>3. Unused(slab) = {}
  <2>1. {n} \in SUBSET (Unused(slab) \cup {End(slab)})
    BY <1>2
  <2>2. {n} \cap Unused(slab) = {}
    BY DEF Unused
  <2>3. {n} = Unused(slab) \cup {End(slab)}
    BY <2>1, <2>2, FreeList
  <2> QED BY <2>2, <2>3
<1>4. /\ Occupied(w) \in Slot /\ Occupied(w).waker = w /\ w # NoTask
  BY StopSignalAssumption DEF Occupied, Slot
<1>5. /\ new.slots \in Seq(Slot) /\ DOMAIN new.slots = 1 .. len + 1
      /\ Len(new.slots) = len + 1
      /\ new.slots[n] = Occupied(w)
      /\ \A k \in 1 .. len : new.slots[k] = slab.slots[k]
  BY <1>1, <1>2, <1>4, SlabTyped
<1>6. DOMAIN slab.slots = 1 .. len
  BY SlabTyped
<1> HIDE DEF new, len
<1>7. 1 .. len + 1 = (1 .. len) \cup {n} /\ n \notin 1 .. len
  BY <1>2
<1>8. Keys(new) = Keys(slab) \cup {n}
  BY <1>4, <1>5, <1>6, <1>7 DEF Keys
<1>9. Unused(new) = {} /\ End(new) = len + 2
  <2>1. Unused(new) = {}
    BY <1>3, <1>5, <1>6, <1>7, <1>8 DEF Unused
  <2> QED BY <2>1, <1>2, <1>5 DEF End
<1>10. SlabSound(new)
  BY <1>1, <1>9 DEF SlabSound
<1>11. FreeListComplete(new)
  BY <1>1, <1>9, FreeList
<1>12. new \in Slab
  <2>1. new.next \in Nat \ {0}
    BY <1>1, <1>2
  <2> QED BY <1>1, <1>5, <2>1 DEF Slab
<1> QED BY <1>2, <1>4, <1>5, <1>6, <1>8, <1>10, <1>11, <1>12 DEF Keys, new

(* Slab::insert puts the waker into a slot that was not occupied and       *)
(* touches no other.                                                       *)
LEMMA Inserted ==
  ASSUME NEW slab \in Slab, SlabSound(slab), FreeListComplete(slab), NEW w \in Task
  PROVE  LET new == SlabInsert(slab, w) IN
         /\ new \in Slab /\ SlabSound(new) /\ FreeListComplete(new)
         /\ slab.next \notin Keys(slab)
         /\ Keys(new) = Keys(slab) \cup {slab.next}
         /\ new.slots[slab.next].waker = w
         /\ \A k \in Keys(slab) : new.slots[k] = slab.slots[k]
<1>1. CASE slab.next \in DOMAIN slab.slots
  BY <1>1, InsertReused
<1>2. CASE slab.next \notin DOMAIN slab.slots
  BY <1>2, InsertGrown
<1> QED BY <1>1, <1>2

(* Slab::remove vacates the slot of its key and touches no other.          *)
LEMMA Removed ==
  ASSUME NEW slab \in Slab, SlabSound(slab), FreeListComplete(slab), NEW key \in Nat
  PROVE  LET new == SlabRemove(slab, key) IN
         /\ new \in Slab /\ SlabSound(new) /\ FreeListComplete(new)
         /\ Keys(new) = Keys(slab) \ {key}
         /\ \A k \in Keys(new) : new.slots[k] = slab.slots[k]
<1> DEFINE new == SlabRemove(slab, key)
<1>1. CASE key \notin Keys(slab)
  BY <1>1 DEF SlabRemove
<1>2. CASE key \in Keys(slab)
  <2>1. /\ new.slots = [slab.slots EXCEPT ![key] = Vacant(slab.next)]
        /\ new.next = key
        /\ new = [slots |-> new.slots, next |-> new.next]
    BY <1>2 DEF SlabRemove
  <2>2. key \in DOMAIN slab.slots /\ key # slab.next /\ key \notin Unused(slab)
    BY <1>2, SlabTyped DEF Keys, Unused, SlabSound, End
  <2>3. /\ Vacant(slab.next) \in Slot /\ Vacant(slab.next).waker = NoTask
        /\ Vacant(slab.next).link = slab.next
    BY SlabTyped DEF Vacant, Slot
  <2>4. /\ new.slots \in Seq(Slot) /\ DOMAIN new.slots = DOMAIN slab.slots
        /\ Len(new.slots) = Len(slab.slots)
        /\ new.slots[key] = Vacant(slab.next)
        /\ \A k \in DOMAIN slab.slots \ {key} : new.slots[k] = slab.slots[k]
    BY <2>1, <2>2, <2>3, SlabTyped
  <2> HIDE DEF new
  <2>5. Keys(new) = Keys(slab) \ {key}
    BY <2>3, <2>4 DEF Keys
  <2>6. Unused(new) = Unused(slab) \cup {key} /\ End(new) = End(slab)
    BY <2>2, <2>4, <2>5 DEF Unused, End
  <2>7. key # End(slab)
    BY <2>2, SlabTyped DEF End
  <2>8. \A k \in Unused(slab) : new.slots[k] = slab.slots[k]
    BY <2>2, <2>4 DEF Unused
  <2>9. new.slots[key].link = slab.next
    BY <2>3, <2>4
  <2>10. SlabSound(new)
    BY <2>1, <2>2, <2>6, <2>7, <2>8, <2>9 DEF SlabSound
  <2>11. new \in Slab
    <3>1. new.next \in Nat \ {0}
      BY <2>1, <2>2, SlabTyped
    <3> QED BY <2>1, <2>4, <3>1 DEF Slab
  <2>12. FreeListComplete(new)
    <3> SUFFICES ASSUME NEW S \in SUBSET (Unused(new) \cup {End(new)}), new.next \in S,
                        \A k \in S \cap Unused(new) : new.slots[k].link \in S
                 PROVE  S = Unused(new) \cup {End(new)}
      BY FreeList
    <3>1. key \in S /\ slab.next \in S \ {key}
      BY <2>1, <2>2, <2>6, <2>9
    <3>2. S \ {key} \in SUBSET (Unused(slab) \cup {End(slab)})
      BY <2>6
    <3>3. \A k \in (S \ {key}) \cap Unused(slab) : slab.slots[k].link \in S \ {key}
      BY <2>2, <2>6, <2>7, <2>8 DEF SlabSound
    <3>4. S \ {key} = Unused(slab) \cup {End(slab)}
      BY <3>1, <3>2, <3>3, FreeList
    <3> QED BY <2>6, <3>1, <3>4
  <2> QED BY <2>4, <2>5, <2>10, <2>11, <2>12 DEF Keys, new
<1> QED BY <1>1, <1>2

-----------------------------------------------------------------------------
(* The invariant of the registrations.                                     *)

SlabsSound == \A s \in Shard : SlabSound(waiters[s])

(* A task polls what it registers for, and sleeps on its own registration; *)
(* shards are drained one at a time, and only latched ones.                *)
Standing ==
  /\ \A i \in Interrupt :
       /\ phase[i] = "none" => reg[i] = NoRegistration
       /\ phase[i] \in {"polling", "pending"} => task[i] \in Task
       /\ phase[i] = "pending" => reg[i].waker = task[i]
  /\ \A c \in Caller : call[c].pc = "drain" =>
       \A s \in call[c].shards : latched[s] /\ call[c].shards = {s}

(* The occupied slots of a shard are its registrations.                    *)
Exact(s) ==
  /\ Keys(waiters[s]) = {reg[i].key : i \in Registered(s)}
  /\ \A i \in Registered(s) :
       /\ waiters[s].slots[reg[i].key].waker = reg[i].waker
       /\ \A j \in Registered(s) : reg[i].key = reg[j].key => i = j
Emptied(s) == latched[s] /\ waiters[s] = EmptySlab

RegInv == TypeOK /\ SlabsSound /\ Standing /\ RegistrationsIntact

(* RegistrationsIntact, shard by shard.                                    *)
LEMMA IntactParts ==
  RegistrationsIntact <=>
    \A s \in Shard : FreeListComplete(waiters[s]) /\ (Emptied(s) \/ Exact(s))
BY DEF RegistrationsIntact, Emptied, Exact

(* The same after a step.                                                  *)
LEMMA IntactPartsNext ==
  RegistrationsIntact' <=>
    \A s \in Shard : FreeListComplete(waiters'[s]) /\ (Emptied(s)' \/ Exact(s)')
BY DEF RegistrationsIntact, Emptied, Exact, FreeListComplete, Keys

(* Registrations, spelled out.                                             *)
LEMMA RegistrationTyped ==
  ASSUME TypeOK, NEW i \in Interrupt
  PROVE  /\ reg[i].key \in Nat /\ reg[i].waker \in Task \cup {NoTask}
         /\ reg[i] = NoRegistration <=> reg[i].key = 0
         /\ reg[i] = NoRegistration <=> reg[i].waker = NoTask
         /\ reg[i] = NoRegistration <=> ~AnyRegistration(i)
<1>1. reg[i] \in Registration \cup {NoRegistration}
  BY DEF TypeOK
<1>2. CASE reg[i] = NoRegistration
  BY <1>2 DEF NoRegistration, AnyRegistration
<1>3. CASE reg[i] \in Registration
  BY <1>3, StopSignalAssumption DEF NoRegistration, Registration, AnyRegistration
<1> QED BY <1>1, <1>2, <1>3

(* An interrupt that exists is registered with its shard or not at all.    *)
LEMMA RegisteredIs ==
  ASSUME Standing, NEW s \in Shard
  PROVE  Registered(s) = {i \in Interrupt : on[i] = s /\ reg[i] # NoRegistration}
BY DEF Standing, Registered

(* The registrations at a shard after a step.                              *)
LEMMA RegisteredIsNext ==
  ASSUME Standing', NEW s \in Shard
  PROVE  Registered(s)' = {i \in Interrupt : on'[i] = s /\ reg'[i] # NoRegistration}
BY DEF Standing, Registered

(* Steps that touch no slab and no registration.                           *)
LEMMA IntactFrame ==
  ASSUME RegistrationsIntact, Standing, Standing', UNCHANGED <<waiters, reg>>,
         \A s \in Shard : latched[s] => latched'[s],
         \A i \in Interrupt : reg[i] # NoRegistration => on'[i] = on[i]
  PROVE  RegistrationsIntact'
<1>1. \A s \in Shard : Registered(s)' = Registered(s)
  BY RegisteredIs, RegisteredIsNext
<1>2. \A s \in Shard : Emptied(s) => Emptied(s)'
  BY DEF Emptied
<1>3. \A s \in Shard : Exact(s) => Exact(s)'
  BY <1>1 DEF Exact, Keys
<1> QED BY <1>2, <1>3, IntactParts, IntactPartsNext

-----------------------------------------------------------------------------

(* Nothing is registered at first.                                         *)
LEMMA RegInitial == Init => RegInv
<1> SUFFICES ASSUME Init PROVE RegInv
  OBVIOUS
<1>1. TypeOK
  <2>1. NotCalled \in [pc : CallerPc, todo : SUBSET Shard, shards : SUBSET Shard,
                       wakers : SUBSET Task, collect : BOOLEAN]
    BY DEF NotCalled, CallerPc
  <2>2. (CHOOSE s \in Shard : TRUE) \in Shard
    BY StopSignalAssumption
  <2> QED BY <2>1, <2>2, EmptySlabSound DEF Init, TypeOK, Phase, Watch
<1>2. SlabsSound
  BY EmptySlabSound DEF Init, SlabsSound
<1>3. Standing
  BY DEF Init, Standing, NotCalled
<1>4. \A s \in Shard : Registered(s) = {}
  BY DEF Init, Registered
<1>5. RegistrationsIntact
  BY <1>4, EmptySlabSound, IntactParts DEF Init, Exact
<1> QED BY <1>1, <1>2, <1>3, <1>5 DEF RegInv

(* Swansong::interrupt: a listener without a registration.                 *)
LEMMA NewInterruptReg ==
  ASSUME RegInv, NEW i \in Interrupt, NEW s \in Shard, NewInterrupt(i, s)
  PROVE  RegInv'
<1>1. TypeOK'
  BY DEF RegInv, TypeOK, NewInterrupt, signal, observers, Phase
<1>2. SlabsSound'
  BY DEF RegInv, SlabsSound, NewInterrupt, signal
<1>3. Standing'
  BY DEF RegInv, TypeOK, Standing, NewInterrupt, signal
<1>4. reg[i] = NoRegistration
  BY DEF RegInv, Standing, NewInterrupt
<1>5. RegistrationsIntact'
  BY <1>3, <1>4, IntactFrame DEF RegInv, TypeOK, NewInterrupt, signal
<1> QED BY <1>1, <1>2, <1>3, <1>5 DEF RegInv

(* A poll that starts moves no registration.                               *)
LEMMA BeginPollReg ==
  ASSUME RegInv, NEW i \in Interrupt, NEW k \in Task, BeginPoll(i, k)
  PROVE  RegInv'
<1>1. TypeOK'
  BY DEF RegInv, TypeOK, BeginPoll, signal, observers, Phase
<1>2. SlabsSound'
  BY DEF RegInv, SlabsSound, BeginPoll, signal
<1>3. Standing'
  BY DEF RegInv, TypeOK, Standing, BeginPoll, signal
<1>5. RegistrationsIntact'
  BY <1>3, IntactFrame DEF RegInv, BeginPoll, signal
<1> QED BY <1>1, <1>2, <1>3, <1>5 DEF RegInv

(* A value that is ready, a read or a write moves none.                    *)
LEMMA DelegatedReg ==
  ASSUME RegInv, NEW i \in Interrupt, Delegated(i)
  PROVE  RegInv'
<1>1. TypeOK'
  BY DEF RegInv, TypeOK, Delegated, signal, observers, Phase
<1>2. SlabsSound'
  BY DEF RegInv, SlabsSound, Delegated, signal
<1>3. Standing'
  BY DEF RegInv, TypeOK, Standing, Delegated, signal
<1>5. RegistrationsIntact'
  BY <1>3, IntactFrame DEF RegInv, Delegated, signal
<1> QED BY <1>1, <1>2, <1>3, <1>5 DEF RegInv

(* poll_stopped with a waker that would wake the task moves none.          *)
LEMMA ConfirmReg ==
  ASSUME RegInv, NEW i \in Interrupt, Confirm(i)
  PROVE  RegInv'
<1>1. TypeOK'
  BY DEF RegInv, TypeOK, Confirm, signal, observers, Phase
<1>2. SlabsSound'
  BY DEF RegInv, SlabsSound, Confirm, signal
<1>3. Standing'
  BY DEF RegInv, TypeOK, Standing, Confirm, WillWake, signal
<1>5. RegistrationsIntact'
  BY <1>3, IntactFrame DEF RegInv, Confirm, signal
<1> QED BY <1>1, <1>2, <1>3, <1>5 DEF RegInv

(* Observers touch nothing of the interrupts.                              *)
LEMMA ObserverReg ==
  ASSUME RegInv, UNCHANGED <<signal, interrupts, call>>,
         watch' \in [Observer -> Watch], heard' \in [Observer -> BOOLEAN]
  PROVE  RegInv'
<1>1. TypeOK'
  BY DEF RegInv, TypeOK, signal, interrupts
<1>2. SlabsSound'
  BY DEF RegInv, SlabsSound, signal
<1>3. Standing'
  BY DEF RegInv, TypeOK, Standing, signal, interrupts
<1>5. RegistrationsIntact'
  BY <1>3, IntactFrame DEF RegInv, signal, interrupts
<1> QED BY <1>1, <1>2, <1>3, <1>5 DEF RegInv

(* Observers have no registration.                                         *)
LEMMA WatchReg ==
  ASSUME RegInv, NEW o \in Observer,
         NewObserver(o) \/ Watching(o) \/ DropObserver(o)
  PROVE  RegInv'
<1>1. UNCHANGED <<signal, interrupts, call>>
  BY DEF NewObserver, Watching, DropObserver, Check, Listen, Recheck, Notified
<1>2. watch' \in [Observer -> Watch] /\ heard' \in [Observer -> BOOLEAN]
  BY DEF NewObserver, Watching, DropObserver, Check, Listen, Recheck, Notified,
         AfterListening, RegInv, TypeOK, Watch
<1> QED BY <1>1, <1>2, ObserverReg

-----------------------------------------------------------------------------
(* Callers.                                                                *)

CallState == [pc : CallerPc, todo : SUBSET Shard, shards : SUBSET Shard,
              wakers : SUBSET Task, collect : BOOLEAN]

(* A stop begins with all shards to latch.                                 *)
LEMMA LatchingTyped ==
  ASSUME NEW b \in BOOLEAN
  PROVE  /\ Latching(b) \in CallState /\ Latching(b).pc = "latch"
         /\ Latching(b).collect = b
BY DEF Latching, NotCalled, CallState, CallerPc

(* A call moves, and nothing of the interrupts changes but who was woken.  *)
LEMMA CallReg ==
  ASSUME RegInv, NEW c \in Caller, NEW x \in CallState,
         call' = [call EXCEPT ![c] = x],
         stopped' \in BOOLEAN, alive' \in BOOLEAN, latched' \in [Shard -> BOOLEAN],
         \A s \in Shard : latched[s] => latched'[s],
         UNCHANGED <<waiters, phase, on, reg, task>>,
         woken' \in [Interrupt -> BOOLEAN],
         watch' \in [Observer -> Watch], heard' \in [Observer -> BOOLEAN],
         x.pc = "drain" => \A s \in x.shards : latched'[s] /\ x.shards = {s}
  PROVE  RegInv'
<1>1. call' \in [Caller -> CallState]
  BY DEF RegInv, TypeOK, CallState
<1>2. TypeOK'
  BY <1>1 DEF RegInv, TypeOK, CallState
<1>3. SlabsSound'
  BY DEF RegInv, SlabsSound
<1>4. call[c] \in CallState /\ \A d \in Caller : call[d].shards \in SUBSET Shard
  BY DEF RegInv, TypeOK, CallState
<1>5. Standing'
  <2>1. \A d \in Caller : call'[d] = IF d = c THEN x ELSE call[d]
    BY DEF RegInv, TypeOK
  <2> QED BY <1>4, <2>1 DEF RegInv, Standing
<1>6. RegistrationsIntact'
  BY <1>5, IntactFrame DEF RegInv
<1> QED BY <1>2, <1>3, <1>5, <1>6 DEF RegInv

(* The record of a caller has the types of its fields.                     *)
LEMMA CallTyped ==
  ASSUME TypeOK, NEW c \in Caller
  PROVE  /\ call[c] \in CallState
         /\ call[c].pc \in CallerPc /\ call[c].todo \in SUBSET Shard
         /\ call[c].shards \in SUBSET Shard /\ call[c].wakers \in SUBSET Task
         /\ call[c].collect \in BOOLEAN
BY DEF TypeOK, CallState

(* shut_down() sets the node's bit, no registration moves.                 *)
LEMMA ShutDownReg ==
  ASSUME RegInv, NEW c \in Caller, ShutDown(c)
  PROVE  RegInv'
<1> DEFINE x == IF stopped THEN [call[c] EXCEPT !.pc = "returned"] ELSE Latching(FALSE)
<1>1. call[c] \in CallState
  BY CallTyped DEF RegInv
<1>2. x \in CallState /\ x.pc # "drain"
  <2>1. [call[c] EXCEPT !.pc = "returned"] \in CallState
        /\ [call[c] EXCEPT !.pc = "returned"].pc = "returned"
    BY <1>1 DEF CallState, CallerPc
  <2> QED BY <2>1, LatchingTyped
<1>3. call' = [call EXCEPT ![c] = x]
  BY DEF ShutDown
<1> HIDE DEF x
<1> QED BY <1>2, <1>3, CallReg DEF RegInv, TypeOK, ShutDown, interrupts, observers

(* Nor does one when the node is collected.                                *)
LEMMA CollectReg ==
  ASSUME RegInv, NEW c \in Caller, Collect(c)
  PROVE  RegInv'
<1> DEFINE x == Latching(TRUE)
<1>1. x \in CallState /\ x.pc # "drain"
  BY LatchingTyped
<1>2. call' = [call EXCEPT ![c] = x]
  BY DEF Collect
<1> HIDE DEF x
<1> QED BY <1>1, <1>2, CallReg DEF RegInv, TypeOK, Collect, interrupts, observers

(* The shard that is being latched.                                        *)
LEMMA LatchPick ==
  ASSUME TypeOK, NEW c \in Caller, Latch(c)
  PROVE  \E s \in call[c].todo :
           /\ s \in Shard
           /\ latched' = [latched EXCEPT ![s] = TRUE]
           /\ call' = [call EXCEPT ![c] =
                         [call[c] EXCEPT !.pc = "drain", !.shards = {s}]]
BY CallTyped DEF Latch

(* Setting the stop bit of a shard moves none.                             *)
LEMMA LatchReg ==
  ASSUME RegInv, NEW c \in Caller, Latch(c)
  PROVE  RegInv'
<1>1. PICK s \in Shard :
        /\ latched' = [latched EXCEPT ![s] = TRUE]
        /\ call' = [call EXCEPT ![c] = [call[c] EXCEPT !.pc = "drain", !.shards = {s}]]
  BY LatchPick DEF RegInv
<1> DEFINE x == [call[c] EXCEPT !.pc = "drain", !.shards = {s}]
<1>2. x \in CallState /\ x.pc = "drain" /\ x.shards = {s}
  BY CallTyped DEF RegInv, CallState, CallerPc
<1>3. /\ latched' \in [Shard -> BOOLEAN] /\ latched'[s]
      /\ \A t \in Shard : latched[t] => latched'[t]
  BY <1>1 DEF RegInv, TypeOK
<1>4. call' = [call EXCEPT ![c] = x]
  BY <1>1
<1> HIDE DEF x
<1>5. UNCHANGED <<stopped, alive, waiters, phase, on, reg, task, woken, watch, heard>>
  BY DEF Latch, interrupts, observers
<1> QED BY <1>2, <1>3, <1>4, <1>5, CallReg DEF RegInv, TypeOK

(* Waking moves none: the wakers are out of the slab.                      *)
LEMMA WakeReg ==
  ASSUME RegInv, NEW c \in Caller, Wake(c)
  PROVE  RegInv'
<1>1. PICK w \in call[c].wakers :
        /\ woken' = [i \in Interrupt |->
             woken[i] \/ (phase[i] \in {"polling", "pending"} /\ task[i] = w)]
        /\ call' = [call EXCEPT ![c].wakers = @ \ {w}]
  BY DEF Wake
<1> DEFINE x == [call[c] EXCEPT !.wakers = @ \ {w}]
<1>2. x \in CallState /\ x.pc = "wake"
  BY CallTyped DEF RegInv, CallState, CallerPc, Wake
<1>3. call' = [call EXCEPT ![c] = x]
  BY <1>1
<1>4. woken' \in [Interrupt -> BOOLEAN]
  BY <1>1 DEF RegInv, TypeOK
<1> HIDE DEF x
<1> QED BY <1>2, <1>3, <1>4, CallReg DEF RegInv, TypeOK, Wake, signal, observers

(* Nor does the stop as it goes from shard to shard.                       *)
LEMMA NextShardReg ==
  ASSUME RegInv, NEW c \in Caller, NextShard(c)
  PROVE  RegInv'
<1> DEFINE left == call[c].todo \ call[c].shards
           pc == IF left # {} THEN "latch"
                 ELSE IF call[c].collect THEN "returned" ELSE "notify"
           x == [call[c] EXCEPT !.pc = pc, !.todo = left, !.shards = {}]
<1>1. left \in SUBSET Shard /\ pc \in CallerPc /\ pc # "drain"
  BY CallTyped DEF RegInv, CallerPc
<1>2. call' = [call EXCEPT ![c] = x]
  BY DEF NextShard
<1> HIDE DEF left, pc
<1>3. x \in CallState /\ x.pc = pc
  BY <1>1, CallTyped DEF RegInv, CallState
<1> HIDE DEF x
<1> QED BY <1>1, <1>2, <1>3, CallReg, ZenonT(60)
        DEF RegInv, TypeOK, NextShard, signal, interrupts, observers

(* Nor does notifying stop_event.                                          *)
LEMMA NotifyReg ==
  ASSUME RegInv, NEW c \in Caller, Notify(c)
  PROVE  RegInv'
<1> DEFINE x == [call[c] EXCEPT !.pc = "returned"]
<1>1. x \in CallState /\ x.pc = "returned"
  BY CallTyped DEF RegInv, CallState, CallerPc
<1>2. call' = [call EXCEPT ![c] = x]
  BY DEF Notify
<1>3. heard' \in [Observer -> BOOLEAN]
  BY DEF RegInv, TypeOK, Notify
<1> HIDE DEF x
<1> QED BY <1>1, <1>2, <1>3, CallReg DEF RegInv, TypeOK, Notify, signal, interrupts

(* mem::take leaves an empty slab behind, of a shard that is latched.      *)
LEMMA DrainPick ==
  ASSUME RegInv, NEW c \in Caller, Drain(c)
  PROVE  \E s \in call[c].shards :
           /\ s \in Shard /\ latched[s] /\ call[c].shards = {s}
           /\ waiters' = [waiters EXCEPT ![s] = EmptySlab]
           /\ call' = [call EXCEPT ![c] = [call[c] EXCEPT !.pc = "wake",
                !.wakers = {waiters[s].slots[k].waker : k \in Keys(waiters[s])}]]
BY CallTyped DEF Drain, RegInv, Standing

(* What a drain takes out of a slab are wakers of tasks.                   *)
LEMMA DrainedTasks ==
  ASSUME NEW slab \in Slab
  PROVE  {slab.slots[k].waker : k \in Keys(slab)} \in SUBSET Task
BY SlabTyped DEF Keys

(* A drain leaves the latched shard an empty slab, and the keys of its     *)
(* listeners stale.                                                        *)
LEMMA DrainReg ==
  ASSUME RegInv, NEW c \in Caller, Drain(c)
  PROVE  RegInv'
<1>1. PICK s \in Shard :
        /\ latched[s]
        /\ waiters' = [waiters EXCEPT ![s] = EmptySlab]
        /\ call' = [call EXCEPT ![c] = [call[c] EXCEPT !.pc = "wake",
             !.wakers = {waiters[s].slots[k].waker : k \in Keys(waiters[s])}]]
  BY DrainPick, CallTyped DEF RegInv
<1> DEFINE tasks == {waiters[s].slots[k].waker : k \in Keys(waiters[s])}
           x == [call[c] EXCEPT !.pc = "wake", !.wakers = tasks]
<1>2. tasks \in SUBSET Task
  BY DrainedTasks DEF RegInv, TypeOK
<1>3. call' = [call EXCEPT ![c] = x]
  BY <1>1
<1> HIDE DEF tasks
<1>4. x \in CallState /\ x.pc = "wake"
  BY <1>2, CallTyped DEF RegInv, CallState, CallerPc
<1> HIDE DEF x
<1>5. UNCHANGED <<stopped, alive, latched, phase, on, reg, task, woken, watch, heard>>
  BY DEF Drain, interrupts, observers
<1>6. /\ waiters' \in [Shard -> Slab] /\ waiters'[s] = EmptySlab
      /\ \A t \in Shard \ {s} : waiters'[t] = waiters[t]
  BY <1>1, EmptySlabSound DEF RegInv, TypeOK
<1>7. TypeOK'
  BY <1>3, <1>4, <1>5, <1>6 DEF RegInv, TypeOK, CallState
<1>8. SlabsSound'
  BY <1>6, EmptySlabSound DEF RegInv, SlabsSound
<1>9. Standing'
  <2>1. \A d \in Caller : call'[d] = IF d = c THEN x ELSE call[d]
    BY <1>3 DEF RegInv, TypeOK
  <2> QED BY <1>4, <1>5, <2>1 DEF RegInv, Standing
<1>10. RegistrationsIntact'
  <2> SUFFICES ASSUME NEW t \in Shard
               PROVE  FreeListComplete(waiters'[t]) /\ (Emptied(t)' \/ Exact(t)')
    BY IntactPartsNext
  <2>1. CASE t = s
    BY <2>1, <1>1, <1>5, <1>6, EmptySlabSound DEF Emptied
  <2>2. CASE t # s
    <3>1. FreeListComplete(waiters[t]) /\ (Emptied(t) \/ Exact(t))
      BY IntactParts DEF RegInv
    <3>2. Registered(t)' = Registered(t)
      BY <1>5 DEF Registered
    <3> QED BY <2>2, <3>1, <3>2, <1>5, <1>6 DEF Emptied, Exact
  <2> QED BY <2>1, <2>2
<1> QED BY <1>7, <1>8, <1>9, <1>10 DEF RegInv

-----------------------------------------------------------------------------
(* Registrations come and go.                                              *)

(* The key of an interrupt's registration, in the slab of its shard.       *)
LEMMA OwnKey ==
  ASSUME RegInv, NEW i \in Interrupt, NEW s \in Shard, s = on[i], Exact(s)
  PROVE  /\ reg[i].key \in Keys(waiters[s]) <=> reg[i] # NoRegistration
         /\ \A j \in Registered(s) \ {i} : reg[j].key # reg[i].key
<1>1. TypeOK /\ Standing
  BY DEF RegInv
<1>2. i \in Registered(s) <=> reg[i] # NoRegistration
  BY <1>1, RegisteredIs
<1>3. CASE reg[i] # NoRegistration
  BY <1>2, <1>3 DEF Exact
<1>4. CASE reg[i] = NoRegistration
  <2>1. reg[i].key = 0 /\ \A j \in Registered(s) : reg[j].key # 0
    BY <1>1, <1>4, RegistrationTyped DEF Registered
  <2> QED BY <2>1, <1>4 DEF Exact
<1> QED BY <1>3, <1>4

(* The other shards, when one slab and one interrupt of its shard change.  *)
LEMMA OtherShards ==
  ASSUME RegInv, Standing', NEW i \in Interrupt, NEW s \in Shard, s = on[i],
         UNCHANGED <<latched, on>>,
         \A j \in Interrupt \ {i} : reg'[j] = reg[j],
         NEW t \in Shard \ {s}, waiters'[t] = waiters[t]
  PROVE  FreeListComplete(waiters'[t]) /\ (Emptied(t)' \/ Exact(t)')
<1>1. FreeListComplete(waiters[t]) /\ (Emptied(t) \/ Exact(t))
  BY IntactParts DEF RegInv
<1>2. Registered(t)' = Registered(t) /\ i \notin Registered(t)
  BY RegisteredIs, RegisteredIsNext DEF RegInv
<1>3. \A j \in Registered(t) : reg'[j] = reg[j]
  BY <1>2 DEF Registered
<1>4. Emptied(t) => Emptied(t)'
  BY DEF Emptied
<1>5. Exact(t) => Exact(t)'
  BY <1>2, <1>3 DEF Exact
<1> QED BY <1>1, <1>4, <1>5

(* poll_stopped that is not refused replaces the registration of the       *)
(* interrupt, and of no other.                                             *)
LEMMA RegisterReg ==
  ASSUME RegInv, NEW i \in Interrupt, Register(i)
  PROVE  RegInv'
<1> DEFINE s == on[i]
           slab == SlabRemove(waiters[s], reg[i].key)
           new == SlabInsert(slab, task[i])
           r == [key |-> slab.next, waker |-> task[i]]
<1>1. /\ s \in Shard /\ phase[i] = "polling" /\ task[i] \in Task /\ waiters[s] \in Slab
      /\ UNCHANGED <<stopped, alive, latched, on, task, woken, watch, heard, call>>
  BY DEF RegInv, TypeOK, Standing, Register, observers
<1>2. CASE latched[s]
  <2>1. phase' = [phase EXCEPT ![i] = "ended"] /\ UNCHANGED <<waiters, reg>>
    BY <1>2 DEF Register, Refused
  <2>2. TypeOK'
    BY <1>1, <2>1 DEF RegInv, TypeOK, Phase
  <2>3. SlabsSound'
    BY <2>1 DEF RegInv, SlabsSound
  <2>4. Standing'
    BY <1>1, <2>1 DEF RegInv, TypeOK, Standing
  <2>5. RegistrationsIntact'
    BY <1>1, <2>1, <2>4, IntactFrame DEF RegInv
  <2> QED BY <2>2, <2>3, <2>4, <2>5 DEF RegInv
<1>3. CASE ~latched[s]
  <2>1. /\ phase' = [phase EXCEPT ![i] = "pending"]
        /\ waiters' = [waiters EXCEPT ![s] = new]
        /\ reg' = [reg EXCEPT ![i] = r]
    BY <1>3 DEF Register, Refused
  <2>2. FreeListComplete(waiters[s]) /\ SlabSound(waiters[s]) /\ Exact(s)
    BY <1>1, <1>3, IntactParts DEF RegInv, SlabsSound, Emptied
  <2>3. reg[i].key \in Nat
    BY RegistrationTyped DEF RegInv
  <2>4. /\ slab \in Slab /\ SlabSound(slab) /\ FreeListComplete(slab)
        /\ Keys(slab) = Keys(waiters[s]) \ {reg[i].key}
        /\ \A k \in Keys(slab) : slab.slots[k] = waiters[s].slots[k]
    BY <1>1, <2>2, <2>3, Removed
  <2> HIDE DEF slab
  <2>5. /\ new \in Slab /\ SlabSound(new) /\ FreeListComplete(new)
        /\ slab.next \notin Keys(slab)
        /\ Keys(new) = Keys(slab) \cup {slab.next}
        /\ new.slots[slab.next].waker = task[i]
        /\ \A k \in Keys(slab) : new.slots[k] = slab.slots[k]
    BY <1>1, <2>4, Inserted
  <2>6. r \in Registration /\ r # NoRegistration
        /\ r.key = slab.next /\ r.waker = task[i]
    BY <1>1, <2>4, SlabTyped DEF Registration, NoRegistration
  <2> HIDE DEF new, r
  <2>7. /\ waiters' \in [Shard -> Slab] /\ waiters'[s] = new
        /\ \A t \in Shard \ {s} : waiters'[t] = waiters[t]
    BY <1>1, <2>1, <2>5 DEF RegInv, TypeOK
  <2>8. /\ reg' \in [Interrupt -> Registration \cup {NoRegistration}]
        /\ reg'[i] = r /\ \A j \in Interrupt \ {i} : reg'[j] = reg[j]
    BY <2>1, <2>6 DEF RegInv, TypeOK
  <2>9. /\ phase' \in [Interrupt -> Phase] /\ phase'[i] = "pending"
        /\ \A j \in Interrupt \ {i} : phase'[j] = phase[j]
    BY <2>1 DEF RegInv, TypeOK, Phase
  <2>10. TypeOK'
    BY <1>1, <2>7, <2>8, <2>9 DEF RegInv, TypeOK
  <2>11. SlabsSound'
    BY <2>5, <2>7 DEF RegInv, SlabsSound
  <2>12. Standing'
    BY <1>1, <2>6, <2>8, <2>9 DEF RegInv, Standing
  <2>13. Registered(s)' = Registered(s) \cup {i}
    BY <1>1, <2>6, <2>8, <2>12, RegisteredIs, RegisteredIsNext DEF RegInv
  <2>14. \A j \in Registered(s) \ {i} :
           /\ reg'[j] = reg[j] /\ reg[j].key \in Keys(slab)
           /\ new.slots[reg[j].key].waker = reg[j].waker
    <3> SUFFICES ASSUME NEW j \in Registered(s) \ {i}
                 PROVE  /\ reg'[j] = reg[j] /\ reg[j].key \in Keys(slab)
                        /\ new.slots[reg[j].key].waker = reg[j].waker
      OBVIOUS
    <3>1. reg[j].key # reg[i].key
      BY <1>1, <2>2, OwnKey
    <3>2. j \in Interrupt /\ reg[j].key \in Keys(waiters[s])
          /\ waiters[s].slots[reg[j].key].waker = reg[j].waker
      BY <2>2 DEF Exact, Registered
    <3> QED BY <3>1, <3>2, <2>4, <2>5, <2>8
  <2>15. Keys(slab) = {reg[j].key : j \in Registered(s) \ {i}}
    <3>1. Keys(waiters[s]) = {reg[j].key : j \in Registered(s)}
      BY <2>2 DEF Exact
    <3> QED BY <3>1, <2>4, <2>14
  <2>16. Keys(new) = {reg'[j].key : j \in Registered(s)'}
    BY <2>5, <2>6, <2>8, <2>13, <2>14, <2>15
  <2>17. \A j \in Registered(s)' : new.slots[reg'[j].key].waker = reg'[j].waker
    BY <2>5, <2>6, <2>8, <2>13, <2>14
  <2>18. \A j, k \in Registered(s)' : reg'[j].key = reg'[k].key => j = k
    <3> SUFFICES ASSUME NEW j \in Registered(s)', NEW k \in Registered(s)', j # k,
                        reg'[j].key = reg'[k].key
                 PROVE  FALSE
      OBVIOUS
    <3>1. CASE j # i /\ k # i
      BY <3>1, <2>2, <2>13, <2>14 DEF Exact
    <3>2. CASE j = i
      BY <3>2, <2>5, <2>6, <2>8, <2>13, <2>14
    <3>3. CASE k = i
      BY <3>3, <2>5, <2>6, <2>8, <2>13, <2>14
    <3> QED BY <3>1, <3>2, <3>3
  <2>19. Exact(s)'
    BY <2>7, <2>16, <2>17, <2>18, <1>1 DEF Exact
  <2>20. RegistrationsIntact'
    <3> SUFFICES ASSUME NEW t \in Shard
                 PROVE  FreeListComplete(waiters'[t]) /\ (Emptied(t)' \/ Exact(t)')
      BY IntactPartsNext
    <3>1. CASE t = s
      BY <3>1, <2>5, <2>7, <2>19, <1>1
    <3>2. CASE t # s
      BY <3>2, <1>1, <2>7, <2>8, <2>12, OtherShards
    <3> QED BY <3>1, <3>2
  <2> QED BY <2>10, <2>11, <2>12, <2>20 DEF RegInv
<1> QED BY <1>2, <1>3

(* Drop for StopListener removes the registration of the interrupt, and of *)
(* no other; from a slab that was drained, nothing.                        *)
LEMMA DropInterruptReg ==
  ASSUME RegInv, NEW i \in Interrupt, DropInterrupt(i)
  PROVE  RegInv'
<1> DEFINE s == on[i]
           new == SlabRemove(waiters[s], reg[i].key)
<1>1. /\ s \in Shard /\ waiters[s] \in Slab
      /\ UNCHANGED <<stopped, alive, latched, on, watch, heard, call>>
  BY DEF RegInv, TypeOK, DropInterrupt, observers
<1>2. FreeListComplete(waiters[s]) /\ SlabSound(waiters[s])
      /\ (Emptied(s) \/ Exact(s)) /\ reg[i].key \in Nat
  BY <1>1, IntactParts, RegistrationTyped DEF RegInv, SlabsSound
<1>3. /\ new \in Slab /\ SlabSound(new) /\ FreeListComplete(new)
      /\ Keys(new) = Keys(waiters[s]) \ {reg[i].key}
      /\ \A k \in Keys(new) : new.slots[k] = waiters[s].slots[k]
  BY <1>1, <1>2, Removed
<1>4. waiters[s] = EmptySlab => new = EmptySlab
  BY EmptySlabSound DEF SlabRemove
<1>5. waiters' = [waiters EXCEPT ![s] = new]
  BY DEF DropInterrupt
<1> HIDE DEF new
<1>6. /\ waiters' \in [Shard -> Slab] /\ waiters'[s] = new
      /\ \A t \in Shard \ {s} : waiters'[t] = waiters[t]
  BY <1>1, <1>3, <1>5 DEF RegInv, TypeOK
<1>7. /\ reg' \in [Interrupt -> Registration \cup {NoRegistration}]
      /\ reg'[i] = NoRegistration /\ \A j \in Interrupt \ {i} : reg'[j] = reg[j]
  BY DEF RegInv, TypeOK, DropInterrupt
<1>8. /\ phase' \in [Interrupt -> Phase] /\ phase'[i] = "none"
      /\ \A j \in Interrupt \ {i} : phase'[j] = phase[j]
  BY DEF RegInv, TypeOK, Phase, DropInterrupt
<1>9. /\ task' \in [Interrupt -> Task \cup {NoTask}]
      /\ \A j \in Interrupt \ {i} : task'[j] = task[j]
  BY DEF RegInv, TypeOK, DropInterrupt
<1>10. TypeOK'
  BY <1>1, <1>6, <1>7, <1>8, <1>9 DEF RegInv, TypeOK, DropInterrupt
<1>11. SlabsSound'
  BY <1>3, <1>6 DEF RegInv, SlabsSound
<1>12. Standing'
  BY <1>1, <1>7, <1>8, <1>9 DEF RegInv, Standing
<1>13. Emptied(s) => Emptied(s)'
  BY <1>1, <1>4, <1>6 DEF Emptied
<1>14. ASSUME Exact(s) PROVE Exact(s)'
  <2>1. Registered(s)' = Registered(s) \ {i}
    BY <1>1, <1>7, <1>12, RegisteredIs, RegisteredIsNext DEF RegInv
  <2>2. \A j \in Registered(s) \ {i} :
          reg'[j] = reg[j] /\ reg[j].key \in Keys(waiters[s]) /\ reg[j].key # reg[i].key
          /\ waiters[s].slots[reg[j].key].waker = reg[j].waker
    <3>1. \A j \in Registered(s) \ {i} : reg[j].key # reg[i].key
      BY <1>1, <1>14, OwnKey
    <3>2. \A j \in Registered(s) : j \in Interrupt
      BY DEF Registered
    <3>3. \A j \in Registered(s) :
            reg[j].key \in Keys(waiters[s])
            /\ waiters[s].slots[reg[j].key].waker = reg[j].waker
      BY <1>14 DEF Exact
    <3> QED BY <3>1, <3>2, <3>3, <1>7
  <2>3. Keys(new) = {reg[j].key : j \in Registered(s) \ {i}}
    <3>1. Keys(waiters[s]) = {reg[j].key : j \in Registered(s)}
      BY <1>14 DEF Exact
    <3> QED BY <3>1, <1>3, <2>2
  <2>4. Keys(new) = {reg'[j].key : j \in Registered(s)'}
    BY <2>1, <2>2, <2>3
  <2>5. \A j \in Registered(s)' : new.slots[reg'[j].key].waker = reg'[j].waker
    BY <1>3, <2>1, <2>2
  <2>6. \A j, k \in Registered(s)' : reg'[j].key = reg'[k].key => j = k
    BY <1>14, <2>1, <2>2 DEF Exact
  <2> QED BY <1>1, <1>6, <2>4, <2>5, <2>6 DEF Exact
<1>15. RegistrationsIntact'
  <2> SUFFICES ASSUME NEW t \in Shard
               PROVE  FreeListComplete(waiters'[t]) /\ (Emptied(t)' \/ Exact(t)')
    BY IntactPartsNext
  <2>1. CASE t = s
    BY <2>1, <1>1, <1>2, <1>3, <1>6, <1>13, <1>14
  <2>2. CASE t # s
    BY <2>2, <1>1, <1>6, <1>7, <1>12, OtherShards
  <2> QED BY <2>1, <2>2
<1> QED BY <1>10, <1>11, <1>12, <1>15 DEF RegInv

-----------------------------------------------------------------------------

(* The invariant of the registrations is inductive.                        *)
LEMMA RegNext == RegInv /\ [Next]_vars => RegInv'
<1> SUFFICES ASSUME RegInv, [Next]_vars PROVE RegInv'
  OBVIOUS
<1>1. CASE UNCHANGED vars
  <2>1. UNCHANGED <<signal, interrupts, call, watch, heard>>
    BY <1>1 DEF vars, observers
  <2> QED BY <2>1, ObserverReg DEF RegInv, TypeOK
<1>2. CASE Next
  BY <1>2, NewInterruptReg, BeginPollReg, DelegatedReg, ConfirmReg, RegisterReg,
     DropInterruptReg, WatchReg, ShutDownReg, CollectReg, LatchReg, DrainReg,
     WakeReg, NextShardReg, NotifyReg
     DEF Next, Polling, Stopping
<1> QED BY <1>1, <1>2

(* The registrations of listeners and the slabs of the shards agree, with  *)
(* free lists that are sound, however polls, drops, migrations and drains  *)
(* interleave.                                                             *)
THEOREM RegInvariant == Spec => []RegInv
BY RegInitial, RegNext, PTL DEF Spec

(* The type invariant of the stop signals.                                 *)
THEOREM SignalTyped == Spec => []TypeOK
<1>1. RegInv => TypeOK
  BY DEF RegInv
<1> QED BY <1>1, RegInvariant, PTL

(* The slab of a shard that accepts registrations holds exactly those of   *)
(* its interrupts, and its free list never loses or doubles a slot.        *)
THEOREM RegistrationsStayIntact == Spec => []RegistrationsIntact
<1>1. RegInv => RegistrationsIntact
  BY DEF RegInv
<1> QED BY <1>1, RegInvariant, PTL

-----------------------------------------------------------------------------
(* The stop event.                                                         *)

(* A stop that has yet to notify stop_event.                               *)
Underway(c) ==
  ~call[c].collect /\ call[c].pc \in {"latch", "drain", "wake", "notify"}

(* It stays so until it notifies.                                          *)
LEMMA UnderwayStays ==
  ASSUME TypeOK, NEW c \in Caller, Underway(c), Next, ~Notify(c)
  PROVE  Underway(c)'
<1>1. call[c] \in CallState /\ call \in [Caller -> CallState]
  BY CallTyped DEF TypeOK, CallState
<1>2. CASE UNCHANGED call
  BY <1>2 DEF Underway
<1>3. ASSUME NEW d \in Caller, d # c, NEW x, call' = [call EXCEPT ![d] = x]
      PROVE  Underway(c)'
  BY <1>1, <1>3 DEF Underway
<1>4. ASSUME NEW d \in Caller, ShutDown(d) \/ Collect(d) PROVE Underway(c)'
  <2>1. d # c
    BY <1>4 DEF ShutDown, Collect, Underway
  <2> QED BY <1>3, <1>4, <2>1 DEF ShutDown, Collect
<1>5. ASSUME NEW d \in Caller, Latch(d) PROVE Underway(c)'
  <2>1. PICK s \in call[d].todo :
          call' = [call EXCEPT ![d] = [call[d] EXCEPT !.pc = "drain", !.shards = {s}]]
    BY <1>5 DEF Latch
  <2>2. CASE d = c
    BY <1>1, <2>1, <2>2 DEF CallState, Underway
  <2> QED BY <1>3, <2>1, <2>2
<1>6. ASSUME NEW d \in Caller, Drain(d) PROVE Underway(c)'
  <2>1. PICK s \in call[d].shards :
          call' = [call EXCEPT ![d] = [call[d] EXCEPT !.pc = "wake",
                     !.wakers = {waiters[s].slots[k].waker : k \in Keys(waiters[s])}]]
    BY <1>6 DEF Drain
  <2>2. CASE d = c
    BY <1>1, <2>1, <2>2 DEF CallState, Underway
  <2> QED BY <1>3, <2>1, <2>2
<1>7. ASSUME NEW d \in Caller, Wake(d) PROVE Underway(c)'
  <2>1. PICK w : call' = [call EXCEPT ![d] = [call[d] EXCEPT !.wakers = @ \ {w}]]
    BY <1>7 DEF Wake
  <2>2. CASE d = c
    BY <1>1, <2>1, <2>2 DEF CallState, Underway
  <2> QED BY <1>3, <2>1, <2>2
<1>8. ASSUME NEW d \in Caller, NextShard(d) PROVE Underway(c)'
  <2>1. PICK left, pc :
          /\ pc = IF left # {} THEN "latch"
                  ELSE IF call[d].collect THEN "returned" ELSE "notify"
          /\ call' = [call EXCEPT ![d] =
               [call[d] EXCEPT !.pc = pc, !.todo = left, !.shards = {}]]
    BY <1>8 DEF NextShard
  <2>2. CASE d = c
    BY <1>1, <2>1, <2>2 DEF CallState, Underway
  <2> QED BY <1>3, <2>1, <2>2
<1>9. ASSUME NEW d \in Caller, Notify(d) PROVE Underway(c)'
  <2>1. d # c
    BY <1>9
  <2> QED BY <1>3, <1>9, <2>1 DEF Notify
<1>10. \/ UNCHANGED call
       \/ \E d \in Caller : \/ ShutDown(d) \/ Collect(d) \/ Latch(d) \/ Drain(d)
                            \/ Wake(d) \/ NextShard(d) \/ Notify(d)
  BY DEF Next, Polling, Stopping, Watching, NewInterrupt, BeginPoll, Delegated, Confirm,
         Register, DropInterrupt, NewObserver, Check, Listen, Recheck, Notified,
         DropObserver
<1> QED BY <1>2, <1>4, <1>5, <1>6, <1>7, <1>8, <1>9, <1>10

(* A ShuttingDown falls asleep only while the node runs.                   *)
LEMMA AsleepBefore ==
  ASSUME TypeOK, Next, NEW o \in Observer, watch'[o] = "asleep", ~heard'[o]
  PROVE  \/ ~stopped /\ ~stopped'
         \/ watch[o] = "asleep" /\ ~heard[o] /\ \A c \in Caller : ~Notify(c)
<1>1. CASE UNCHANGED <<watch, heard>>
  <2>1. ASSUME NEW c \in Caller, Notify(c) PROVE FALSE
    BY <1>1, <2>1 DEF Notify, TypeOK
  <2> QED BY <1>1, <2>1
<1>2. CASE \E p \in Observer : NewObserver(p) \/ Watching(p) \/ DropObserver(p)
  <2>1. PICK p \in Observer : NewObserver(p) \/ Watching(p) \/ DropObserver(p)
    BY <1>2
  <2>2. UNCHANGED <<stopped, call>>
    BY <2>1 DEF NewObserver, Watching, DropObserver, Check, Listen, Recheck, Notified,
                signal
  <2>3. ASSUME NEW c \in Caller, Notify(c) PROVE FALSE
    <3>1. call'[c].pc = "returned" /\ call[c].pc = "notify"
      BY <2>3, CallTyped DEF Notify, TypeOK, CallState
    <3> QED BY <2>2, <3>1
  <2>4. CASE p = o
    BY <2>1, <2>2, <2>4 DEF NewObserver, Watching, DropObserver, Check, Listen, Recheck,
                        Notified, AfterListening, TypeOK
  <2>5. CASE p # o
    <3>1. watch'[o] = watch[o] /\ heard'[o] = heard[o]
      BY <2>1, <2>5 DEF NewObserver, Watching, DropObserver, Check, Listen, Recheck,
                        Notified, AfterListening, TypeOK
    <3> QED BY <2>3, <3>1
  <2> QED BY <2>4, <2>5
<1>3. CASE \E c \in Caller : Notify(c)
  <2>1. watch[o] = "asleep"
    BY <1>3 DEF Notify
  <2>2. heard'[o] = (heard[o] \/ watch[o] \in {"listening", "asleep"})
    BY <1>3 DEF Notify
  <2> QED BY <2>1, <2>2
<1>4. \/ UNCHANGED <<watch, heard>>
      \/ \E p \in Observer : NewObserver(p) \/ Watching(p) \/ DropObserver(p)
      \/ \E c \in Caller : Notify(c)
  BY ZenonT(60) DEF Next, Polling, Stopping, NewInterrupt, BeginPoll, Delegated, Confirm, Register,
         DropInterrupt, ShutDown, Collect, Latch, Drain, Wake, NextShard, observers
<1> QED BY <1>1, <1>2, <1>3, <1>4

(* Only shut_down sets the stop bit, and it goes on to notify.             *)
LEMMA StopsUnderway ==
  ASSUME TypeOK, Next, ~stopped, stopped'
  PROVE  \E c \in Caller : Underway(c)'
<1>1. UNCHANGED stopped \/ \E c \in Caller : ShutDown(c)
  BY DEF Next, Polling, Stopping, Watching, NewInterrupt, BeginPoll, Delegated, Confirm,
         Register, DropInterrupt, NewObserver, Check, Listen, Recheck, Notified,
         DropObserver, Collect, Latch, Drain, Wake, NextShard, Notify, signal
<1>2. PICK c \in Caller : ShutDown(c)
  BY <1>1
<1>3. call'[c] = Latching(FALSE)
  BY <1>2 DEF ShutDown, TypeOK
<1> QED BY <1>3, LatchingTyped DEF Underway

(* No step makes an observer miss stop_event.                              *)
LEMMA StopEventNext ==
  TypeOK /\ NoLostStopEvent /\ [Next]_vars => NoLostStopEvent'
<1>1. ASSUME UNCHANGED vars PROVE NoLostStopEvent => NoLostStopEvent'
  BY <1>1 DEF vars, signal, observers, NoLostStopEvent
<1>2. ASSUME TypeOK, NoLostStopEvent, Next, NEW o \in Observer,
             watch'[o] = "asleep", stopped', ~heard'[o]
      PROVE  \E c \in Caller : Underway(c)'
  <2>1. CASE ~stopped
    BY <1>2, <2>1, StopsUnderway
  <2>2. CASE stopped
    <3>1. watch[o] = "asleep" /\ ~heard[o] /\ \A c \in Caller : ~Notify(c)
      BY <1>2, <2>2, AsleepBefore
    <3>2. PICK c \in Caller : Underway(c)
      BY <1>2, <2>2, <3>1 DEF NoLostStopEvent, Underway
    <3> QED BY <1>2, <3>1, <3>2, UnderwayStays
  <2> QED BY <2>1, <2>2
<1>3. ASSUME TypeOK, NoLostStopEvent, Next PROVE NoLostStopEvent'
  BY <1>2, <1>3 DEF NoLostStopEvent, Underway
<1> QED BY <1>1, <1>3

(* A ShuttingDown that sleeps although the node is stopped is notified, or *)
(* the stop has yet to notify it.                                          *)
THEOREM StopEventsArrive == Spec => []NoLostStopEvent
<1>1. Init => NoLostStopEvent
  BY DEF Init, NoLostStopEvent
<1> QED BY <1>1, StopEventNext, SignalTyped, PTL DEF Spec

-----------------------------------------------------------------------------
(* The wakes.                                                              *)

(* A sleeper whose wake is due has its own registration in the slab, until *)
(* it is drained.                                                          *)
LEMMA SleepersKey ==
  ASSUME RegInv, NEW i \in Interrupt, phase[i] = "pending", Exact(on[i])
  PROVE  /\ reg[i].key \in Keys(waiters[on[i]])
         /\ waiters[on[i]].slots[reg[i].key].waker = task[i]
<1>1. on[i] \in Shard /\ task[i] \in Task /\ reg[i].waker = task[i] /\ task[i] # NoTask
  BY StopSignalAssumption DEF RegInv, TypeOK, Standing
<1>2. reg[i] # NoRegistration
  BY <1>1, RegistrationTyped DEF RegInv
<1>3. i \in Registered(on[i])
  BY <1>1, <1>2 DEF Registered
<1> QED BY <1>1, <1>3 DEF Exact

(* What a due wake depends on.                                             *)
LEMMA WakeDueFrame ==
  ASSUME NEW i \in Interrupt, NEW c \in Caller, WakeDue(c, i), call'[c] = call[c],
         task'[i] = task[i], on'[i] = on[i], waiters'[on[i]] = waiters[on[i]]
  PROVE  WakeDue(c, i)'
BY DEF WakeDue

(* An interrupt that sleeps although its shard is latched, not yet woken.  *)
Asleep(i) == phase[i] = "pending" /\ latched[on[i]] /\ ~woken[i]

(* NoLostWake in terms of the caller who will wake.                        *)
LEMMA WakeDueIs == NoLostWake <=> \A i \in Interrupt : Asleep(i) => \E c \in Caller : WakeDue(c, i)
BY DEF NoLostWake, Asleep

(* The same after a step.                                                  *)
LEMMA WakeDueIsNext ==
  NoLostWake' <=> \A i \in Interrupt : Asleep(i)' => \E c \in Caller : WakeDue(c, i)'
BY DEF NoLostWake, Asleep

(* Polls: whoever falls asleep has seen its shard unlatched, under the     *)
(* lock or with its waker in place.                                        *)
LEMMA PollWakes ==
  ASSUME RegInv, NoLostWake, NEW j \in Interrupt,
         \/ \E s \in Shard : NewInterrupt(j, s)
         \/ \E k \in Task : BeginPoll(j, k)
         \/ Delegated(j) \/ Confirm(j),
         NEW i \in Interrupt, Asleep(i)'
  PROVE  \E c \in Caller : WakeDue(c, i)'
<1>1. /\ UNCHANGED <<latched, waiters, call>>
      /\ phase \in [Interrupt -> Phase] /\ task \in [Interrupt -> Task \cup {NoTask}]
      /\ on \in [Interrupt -> Shard] /\ woken \in [Interrupt -> BOOLEAN]
  BY DEF NewInterrupt, BeginPoll, Delegated, Confirm, RegInv, TypeOK, signal
<1>2. j # i
  <2>1. CASE \E s \in Shard : NewInterrupt(i, s)
    BY <1>1, <2>1 DEF NewInterrupt, Asleep
  <2>2. CASE \E k \in Task : BeginPoll(i, k)
    BY <1>1, <2>2 DEF BeginPoll, Asleep
  <2>3. CASE Delegated(i)
    BY <1>1, <2>3 DEF Delegated, Asleep
  <2>4. CASE Confirm(i)
    BY <1>1, <2>4 DEF Confirm, Asleep
  <2> QED BY <2>1, <2>2, <2>3, <2>4
<1>3. /\ phase'[i] = phase[i] /\ on'[i] = on[i] /\ task'[i] = task[i]
      /\ woken'[i] = woken[i]
  BY <1>1, <1>2 DEF NewInterrupt, BeginPoll, Delegated, Confirm
<1>4. Asleep(i)
  BY <1>1, <1>3 DEF Asleep
<1> QED BY <1>1, <1>3, <1>4, WakeDueIs, WakeDueFrame

(* A listener that registers looks at the stop bit under the lock, so that *)
(* it does not sleep behind a drain.                                       *)
LEMMA RegisterWakes ==
  ASSUME RegInv, NoLostWake, NEW j \in Interrupt, Register(j),
         NEW i \in Interrupt, Asleep(i)'
  PROVE  \E c \in Caller : WakeDue(c, i)'
<1>1. /\ UNCHANGED <<latched, call, on, task, woken>>
      /\ phase \in [Interrupt -> Phase] /\ waiters \in [Shard -> Slab]
      /\ on \in [Interrupt -> Shard]
  BY DEF Register, RegInv, TypeOK
<1>2. CASE latched[on[j]]
  <2>1. phase' = [phase EXCEPT ![j] = "ended"] /\ UNCHANGED waiters
    BY <1>2 DEF Register, Refused
  <2>2. Asleep(i)
    BY <1>1, <2>1 DEF Asleep
  <2> QED BY <1>1, <2>1, <2>2, WakeDueIs, WakeDueFrame
<1>3. CASE ~latched[on[j]]
  <2>1. PICK new :
          /\ phase' = [phase EXCEPT ![j] = "pending"]
          /\ waiters' = [waiters EXCEPT ![on[j]] = new]
    BY <1>3 DEF Register, Refused
  <2>2. on[i] # on[j] /\ i # j
    BY <1>1, <1>3 DEF Asleep
  <2>3. Asleep(i) /\ waiters'[on[i]] = waiters[on[i]]
    BY <1>1, <2>1, <2>2 DEF Asleep
  <2> QED BY <1>1, <2>3, WakeDueIs, WakeDueFrame
<1> QED BY <1>2, <1>3

(* A drop removes its own waker only.                                      *)
LEMMA DropWakes ==
  ASSUME RegInv, NoLostWake, NEW j \in Interrupt, DropInterrupt(j),
         NEW i \in Interrupt, Asleep(i)'
  PROVE  \E c \in Caller : WakeDue(c, i)'
<1> DEFINE s == on[j]
           new == SlabRemove(waiters[s], reg[j].key)
<1>1. /\ UNCHANGED <<latched, call, on>>
      /\ phase' = [phase EXCEPT ![j] = "none"] /\ task' = [task EXCEPT ![j] = NoTask]
      /\ woken' = [woken EXCEPT ![j] = FALSE]
      /\ waiters' = [waiters EXCEPT ![s] = new]
  BY DEF DropInterrupt
<1>2. /\ phase \in [Interrupt -> Phase] /\ task \in [Interrupt -> Task \cup {NoTask}]
      /\ on \in [Interrupt -> Shard] /\ woken \in [Interrupt -> BOOLEAN]
      /\ waiters \in [Shard -> Slab] /\ s \in Shard /\ on[i] \in Shard
  BY DEF RegInv, TypeOK
<1>3. /\ Asleep(i) /\ i # j /\ task'[i] = task[i] /\ on'[i] = on[i]
      /\ phase[i] = "pending"
  BY <1>1, <1>2 DEF Asleep
<1>4. PICK c \in Caller : WakeDue(c, i)
  BY <1>3, WakeDueIs
<1>5. CASE on[i] # s \/ call[c].pc # "drain"
  <2>1. CASE on[i] # s
    BY <1>1, <1>2, <1>3, <1>4, <2>1, WakeDueFrame
  <2>2. CASE call[c].pc # "drain"
    BY <1>1, <1>3, <1>4, <2>2 DEF WakeDue
  <2> QED BY <1>5, <2>1, <2>2
<1>6. CASE on[i] = s /\ call[c].pc = "drain"
  <2>1. on[i] \in call[c].shards /\ Keys(waiters[s]) # {}
    BY <1>4, <1>6 DEF WakeDue
  <2>2. Exact(s)
    BY <1>2, <2>1, EmptySlabSound, IntactParts DEF RegInv, Emptied
  <2>3. /\ reg[i].key \in Keys(waiters[s])
        /\ waiters[s].slots[reg[i].key].waker = task[i]
    BY <1>3, <1>6, <2>2, SleepersKey
  <2>4. reg[i] # NoRegistration
    BY <1>2, <1>6, <2>2, <2>3, OwnKey
  <2>5. i \in Registered(s)
    BY <1>3, <1>6, <2>4 DEF Registered
  <2>6. reg[i].key # reg[j].key
    BY <1>2, <1>3, <2>2, <2>5, OwnKey
  <2>7. FreeListComplete(waiters[s]) /\ SlabSound(waiters[s]) /\ reg[j].key \in Nat
    BY <1>2, IntactParts, RegistrationTyped DEF RegInv, SlabsSound
  <2>8. /\ Keys(new) = Keys(waiters[s]) \ {reg[j].key}
        /\ \A k \in Keys(new) : new.slots[k] = waiters[s].slots[k]
    BY <1>2, <2>7, Removed
  <2> HIDE DEF new
  <2>9. waiters'[s] = new
    BY <1>1, <1>2
  <2>10. reg[i].key \in Keys(waiters'[s])
         /\ waiters'[s].slots[reg[i].key].waker = task[i]
    BY <2>3, <2>6, <2>8, <2>9
  <2> QED BY <1>1, <1>3, <1>6, <2>1, <2>10 DEF WakeDue
<1> QED BY <1>5, <1>6

(* Steps of a call from which no wake is due.                              *)
LEMMA CallWakes ==
  ASSUME RegInv, NoLostWake, NEW d \in Caller,
         ShutDown(d) \/ Collect(d) \/ NextShard(d) \/ Notify(d),
         NEW i \in Interrupt, Asleep(i)'
  PROVE  \E c \in Caller : WakeDue(c, i)'
<1>1. UNCHANGED <<latched, waiters, phase, on, reg, task, woken>>
  BY DEF ShutDown, Collect, NextShard, Notify, signal, interrupts
<1>2. Asleep(i)
  BY <1>1 DEF Asleep
<1>3. PICK c \in Caller : WakeDue(c, i)
  BY <1>2, WakeDueIs
<1>4. ~WakeDue(d, i)
  BY DEF ShutDown, Collect, NextShard, Notify, WakeDue
<1>5. PICK x : call' = [call EXCEPT ![d] = x]
  BY DEF ShutDown, Collect, NextShard, Notify
<1>6. call'[c] = call[c]
  BY <1>3, <1>4, <1>5 DEF RegInv, TypeOK
<1> QED BY <1>1, <1>3, <1>6, WakeDueFrame

(* A shard is latched: what it has registered is about to be drained.      *)
LEMMA LatchWakes ==
  ASSUME RegInv, NoLostWake, NEW d \in Caller, Latch(d),
         NEW i \in Interrupt, Asleep(i)'
  PROVE  \E c \in Caller : WakeDue(c, i)'
<1>1. PICK s \in Shard :
        /\ latched' = [latched EXCEPT ![s] = TRUE]
        /\ call' = [call EXCEPT ![d] = [call[d] EXCEPT !.pc = "drain", !.shards = {s}]]
  BY LatchPick DEF RegInv
<1>2. UNCHANGED <<waiters, phase, on, reg, task, woken>>
  BY DEF Latch, interrupts
<1>3. on[i] \in Shard /\ phase[i] = "pending" /\ ~woken[i]
      /\ latched \in [Shard -> BOOLEAN]
  BY <1>2 DEF RegInv, TypeOK, Asleep
<1>4. CASE latched[on[i]]
  <2>1. PICK c \in Caller : WakeDue(c, i)
    BY <1>3, <1>4, WakeDueIs DEF Asleep
  <2>2. c # d
    BY <2>1 DEF Latch, WakeDue
  <2>3. call'[c] = call[c]
    BY <1>1, <2>2 DEF RegInv, TypeOK
  <2> QED BY <1>2, <2>1, <2>3, WakeDueFrame
<1>5. CASE ~latched[on[i]]
  <2>1. on[i] = s
    BY <1>1, <1>2, <1>3, <1>5 DEF Asleep
  <2>2. Exact(on[i])
    BY <1>3, <1>5, IntactParts DEF RegInv, Emptied
  <2>3. /\ reg[i].key \in Keys(waiters[on[i]])
        /\ waiters[on[i]].slots[reg[i].key].waker = task[i]
    BY <1>3, <2>2, SleepersKey
  <2>4. call'[d].pc = "drain" /\ call'[d].shards = {s}
    BY <1>1, CallTyped DEF RegInv, TypeOK, CallState
  <2> QED BY <1>2, <2>1, <2>3, <2>4 DEF WakeDue
<1> QED BY <1>4, <1>5

(* Draining a shard takes over the wakes that are due from it.             *)
LEMMA DrainWakes ==
  ASSUME RegInv, NoLostWake, NEW d \in Caller, Drain(d),
         NEW i \in Interrupt, Asleep(i)'
  PROVE  \E c \in Caller : WakeDue(c, i)'
<1>1. PICK s \in Shard :
        /\ call[d].shards = {s}
        /\ waiters' = [waiters EXCEPT ![s] = EmptySlab]
        /\ call' = [call EXCEPT ![d] = [call[d] EXCEPT !.pc = "wake",
             !.wakers = {waiters[s].slots[k].waker : k \in Keys(waiters[s])}]]
  BY DrainPick, CallTyped DEF RegInv
<1>2. UNCHANGED <<latched, phase, on, reg, task, woken>> /\ call[d].pc = "drain"
  BY DEF Drain, interrupts
<1>3. Asleep(i) /\ on[i] \in Shard
  BY <1>2 DEF Asleep, RegInv, TypeOK
<1>4. PICK c \in Caller : WakeDue(c, i)
  BY <1>3, WakeDueIs
<1>5. CASE call[c].pc = "drain" /\ on[i] = s
  <2>1. call'[d].pc = "wake" /\
        call'[d].wakers = {waiters[s].slots[k].waker : k \in Keys(waiters[s])}
    BY <1>1, CallTyped DEF RegInv, TypeOK, CallState
  <2>2. task[i] \in call'[d].wakers
    BY <1>4, <1>5, <2>1 DEF WakeDue
  <2> QED BY <1>2, <2>1, <2>2 DEF WakeDue
<1>6. CASE call[c].pc = "drain" /\ on[i] # s
  <2>1. c # d
    BY <1>1, <1>4, <1>6 DEF WakeDue
  <2>2. call'[c] = call[c] /\ waiters'[on[i]] = waiters[on[i]]
    BY <1>1, <1>3, <1>6, <2>1 DEF RegInv, TypeOK
  <2> QED BY <1>2, <1>4, <2>2, WakeDueFrame
<1>7. CASE call[c].pc # "drain"
  <2>1. call'[c] = call[c]
    BY <1>1, <1>2, <1>7 DEF RegInv, TypeOK
  <2> QED BY <1>2, <1>4, <1>7, <2>1 DEF WakeDue
<1> QED BY <1>5, <1>6, <1>7, SMTT(60)

(* A wake is delivered.                                                    *)
LEMMA WakeWakes ==
  ASSUME RegInv, NoLostWake, NEW d \in Caller, Wake(d),
         NEW i \in Interrupt, Asleep(i)'
  PROVE  \E c \in Caller : WakeDue(c, i)'
<1>1. PICK w \in call[d].wakers :
        /\ woken' = [j \in Interrupt |->
             woken[j] \/ (phase[j] \in {"polling", "pending"} /\ task[j] = w)]
        /\ call' = [call EXCEPT ![d] = [call[d] EXCEPT !.wakers = @ \ {w}]]
  BY DEF Wake
<1>2. UNCHANGED <<latched, waiters, phase, on, reg, task>> /\ call[d].pc = "wake"
  BY DEF Wake, signal
<1>3. phase[i] = "pending" /\ latched[on[i]] /\ ~woken'[i]
  BY <1>2 DEF Asleep
<1>4. woken'[i] = (woken[i] \/ (phase[i] \in {"polling", "pending"} /\ task[i] = w))
  BY <1>1
<1>5. ~woken[i] /\ task[i] # w
  BY <1>3, <1>4
<1>6. Asleep(i)
  BY <1>3, <1>5 DEF Asleep
<1>7. PICK c \in Caller : WakeDue(c, i)
  BY <1>6, WakeDueIs
<1>8. CASE c # d
  <2>1. call'[c] = call[c]
    BY <1>1, <1>8 DEF RegInv, TypeOK
  <2> QED BY <1>2, <1>7, <2>1, WakeDueFrame
<1>9. CASE c = d
  <2>1. call'[c].pc = "wake" /\ call'[c].wakers = call[c].wakers \ {w}
    BY <1>1, <1>2, <1>9, CallTyped DEF RegInv, TypeOK, CallState
  <2>2. task[i] \in call[c].wakers
    BY <1>2, <1>7, <1>9 DEF WakeDue
  <2> QED BY <1>2, <1>5, <2>1, <2>2 DEF WakeDue
<1> QED BY <1>8, <1>9

(* Steps of observers wake and latch nobody.                               *)
LEMMA ObserverWakes ==
  ASSUME NoLostWake, UNCHANGED <<signal, interrupts, call>>,
         NEW i \in Interrupt, Asleep(i)'
  PROVE  \E c \in Caller : WakeDue(c, i)'
<1>1. UNCHANGED <<latched, waiters, phase, on, task, woken, call>>
  BY DEF signal, interrupts
<1>2. Asleep(i)
  BY <1>1 DEF Asleep
<1> QED BY <1>1, <1>2, WakeDueIs, WakeDueFrame

(* No step makes a registered task miss its wake.                          *)
LEMMA WakeNext == RegInv /\ NoLostWake /\ [Next]_vars => NoLostWake'
<1> SUFFICES ASSUME RegInv, NoLostWake, [Next]_vars, NEW i \in Interrupt, Asleep(i)'
             PROVE  \E c \in Caller : WakeDue(c, i)'
  BY WakeDueIsNext
<1>1. CASE UNCHANGED vars
  <2>1. UNCHANGED <<signal, interrupts, call>>
    BY <1>1 DEF vars
  <2> QED BY <2>1, ObserverWakes
<1>2. CASE \E o \in Observer : NewObserver(o) \/ Watching(o) \/ DropObserver(o)
  <2>1. UNCHANGED <<signal, interrupts, call>>
    BY <1>2 DEF NewObserver, Watching, DropObserver, Check, Listen, Recheck, Notified
  <2> QED BY <2>1, ObserverWakes
<1>3. CASE \E c \in Caller : ShutDown(c) \/ Collect(c) \/ Stopping(c)
  BY <1>3, CallWakes, LatchWakes, DrainWakes, WakeWakes DEF Stopping
<1>4. CASE \E j \in Interrupt : \/ \E s \in Shard : NewInterrupt(j, s)
                                \/ \E k \in Task : BeginPoll(j, k)
                                \/ Polling(j) \/ DropInterrupt(j)
  BY <1>4, PollWakes, RegisterWakes, DropWakes DEF Polling
<1> QED BY <1>1, <1>2, <1>3, <1>4 DEF Next

(* An interrupt that sleeps although its shard is latched has a wake       *)
(* coming, to the task that polled it last: L1 and L4 of docs/invariants.  *)
THEOREM WakesArrive == Spec => []NoLostWake
<1>1. Init => NoLostWake
  BY DEF Init, NoLostWake
<1> QED BY <1>1, WakeNext, RegInvariant, PTL DEF Spec

=============================================================================
