----------------------------- MODULE StopSignal -----------------------------
(***************************************************************************)
(* How a stop reaches those who wait for it at one node: interrupts, which *)
(* register a waker on a shard (StopListener and the slab of wakers in     *)
(* shard.rs, polled by interrupt/future.rs and interrupt/stream.rs), and   *)
(* ShuttingDown futures, which listen on the node's stop_event.            *)
(*                                                                         *)
(* Atomicity: one step per access to a stop bit or to the event, and one   *)
(* per critical section of a shard's lock.  Keys of the slab start at 1.   *)
(***************************************************************************)
EXTENDS Naturals, Sequences, FiniteSets

CONSTANTS
  Shard,      \* the shards of the node
  Interrupt,  \* identities for interrupts; bounds how many are alive at once
  Task,       \* the tasks that poll them; a waker is the task that it wakes
  Observer,   \* identities for ShuttingDown futures
  Caller,     \* those who stop or collect the node, each at most once
  NoTask

ASSUME StopSignalAssumption ==
  /\ Shard # {} /\ IsFiniteSet(Shard)
  /\ NoTask \notin Task

VARIABLES
  stopped,    \* the stop bit of Inner::state
  alive,      \* whether the node's Inner exists
  latched,    \* the stop bit of each Shard::state
  waiters,    \* Registered::waiters of each shard
  phase,      \* of an interrupt: see Phase
  on,         \* the shard of its StopListener
  reg,        \* StopListener::registration
  task,       \* the task that polled it last
  woken,      \* that task was woken and has not polled it since
  watch,      \* of a ShuttingDown: see Watch
  heard,      \* its listener has been notified
  call        \* the progress of each caller

signal == <<stopped, alive, latched, waiters>>
interrupts == <<phase, on, reg, task, woken>>
observers == <<watch, heard>>
vars == <<signal, interrupts, observers, call>>

-----------------------------------------------------------------------------
(* Slab: values under stable keys, with a free list through vacant slots.  *)

Occupied(waker) == [waker |-> waker, link |-> 0]
Vacant(next) == [waker |-> NoTask, link |-> next]
Slot == [waker : Task \cup {NoTask}, link : Nat]
Slab == [slots : Seq(Slot), next : Nat \ {0}]

EmptySlab == [slots |-> <<>>, next |-> 1]
Keys(slab) == {k \in DOMAIN slab.slots : slab.slots[k].waker # NoTask}

SlabInsertStuck(slab, waker) ==
  IF slab.next \in DOMAIN slab.slots
  THEN [slab EXCEPT !.slots[slab.next] = Occupied(waker)]
  ELSE [slots |-> Append(slab.slots, Occupied(waker)), next |-> slab.next]
SlabInsert(slab, waker) ==
  IF slab.next \in DOMAIN slab.slots
  THEN [slots |-> [slab.slots EXCEPT ![slab.next] = Occupied(waker)],
        next  |-> slab.slots[slab.next].link]
  ELSE [slots |-> Append(slab.slots, Occupied(waker)),
        next  |-> Len(slab.slots) + 2]

RemoveUnchecked(slab, key) ==
  [slots |-> [slab.slots EXCEPT ![key] = Vacant(slab.next)], next |-> key]
SlabRemove(slab, key) ==
  IF key \in Keys(slab)
  THEN [slots |-> [slab.slots EXCEPT ![key] = Vacant(slab.next)],
        next  |-> key]
  ELSE slab

-----------------------------------------------------------------------------
(* Interrupts.                                                             *)

NoRegistration == [key |-> 0, waker |-> NoTask]
Registration == [key : Nat \ {0}, waker : Task]

(* "idle": exists and waits for nothing; "polling": the wrapped value is   *)
(* being polled; "pending": the last poll returned Pending; "ended": it    *)
(* returned the terminal value.                                            *)
Phase == {"none", "idle", "polling", "pending", "ended"}

NewInterrupt(i, s) ==
  /\ alive /\ phase[i] = "none"
  /\ phase' = [phase EXCEPT ![i] = "idle"]
  /\ on' = [on EXCEPT ![i] = s]
  /\ UNCHANGED <<signal, reg, task, woken, observers, call>>

(* The check that starts a poll, a read, a write or next().  The interrupt *)
(* may have moved to another task since the last one.                      *)
BeginPoll(i, k) ==
  /\ phase[i] \in {"idle", "pending"}
  /\ phase' = [phase EXCEPT ![i] = IF latched[on[i]] THEN "ended" ELSE "polling"]
  /\ task' = [task EXCEPT ![i] = k]
  /\ woken' = [woken EXCEPT ![i] = FALSE]
  /\ UNCHANGED <<signal, on, reg, observers, call>>

(* The wrapped value is ready; or it is a read, a write or an iterator,    *)
(* whose result is passed on without registering.                          *)
Delegated(i) ==
  /\ phase[i] = "polling"
  /\ phase' = [phase EXCEPT ![i] = "idle"]
  /\ UNCHANGED <<signal, on, reg, task, woken, observers, call>>

(* Waker::will_wake of the registered waker and the current task's.        *)
AnyRegistration(i) == reg[i] # NoRegistration
WillWake(i) == reg[i].waker = task[i]

(* poll_stopped of a task whose waker is registered takes no lock.         *)
Confirm(i) ==
  /\ phase[i] = "polling" /\ WillWake(i)
  /\ phase' = [phase EXCEPT ![i] = IF latched[on[i]] THEN "ended" ELSE "pending"]
  /\ UNCHANGED <<signal, on, reg, task, woken, observers, call>>

(* poll_stopped under the lock: the stop bit again, then the waker.        *)
RegisterUnchecked(s) == FALSE
Refused(s) == latched[s]

Register(i) ==
  LET s == on[i]
      slab == SlabRemove(waiters[s], reg[i].key) IN
  /\ phase[i] = "polling" /\ ~WillWake(i)
  /\ \/ /\ Refused(s)
        /\ phase' = [phase EXCEPT ![i] = "ended"]
        /\ UNCHANGED <<waiters, reg>>
     \/ /\ ~Refused(s)
        /\ phase' = [phase EXCEPT ![i] = "pending"]
        /\ waiters' = [waiters EXCEPT ![s] = SlabInsert(slab, task[i])]
        /\ reg' = [reg EXCEPT ![i] = [key |-> slab.next, waker |-> task[i]]]
  /\ UNCHANGED <<stopped, alive, latched, on, task, woken, observers, call>>

(* Drop for StopListener, from dropping the interrupt or from into_inner.  *)
DropInterrupt(i) ==
  /\ phase[i] \in {"idle", "pending", "ended"}
  /\ phase' = [phase EXCEPT ![i] = "none"]
  /\ waiters' = [waiters EXCEPT ![on[i]] = SlabRemove(@, reg[i].key)]
  /\ reg' = [reg EXCEPT ![i] = NoRegistration]
  /\ task' = [task EXCEPT ![i] = NoTask]
  /\ woken' = [woken EXCEPT ![i] = FALSE]
  /\ UNCHANGED <<stopped, alive, latched, on, observers, call>>

-----------------------------------------------------------------------------
(* ShuttingDown: poll and block have the same steps.                       *)

(* "new": at the head of the loop; "checked": found the node running;      *)
(* "listening": holds a listener; "asleep": waits for its notification.    *)
Watch == {"none", "new", "checked", "listening", "asleep", "done"}

NewObserver(o) ==
  /\ alive /\ watch[o] = "none"
  /\ watch' = [watch EXCEPT ![o] = "new"]
  /\ UNCHANGED <<signal, interrupts, heard, call>>

Check(o) ==
  /\ watch[o] = "new"
  /\ watch' = [watch EXCEPT ![o] = IF stopped THEN "done" ELSE "checked"]
  /\ UNCHANGED <<signal, interrupts, heard, call>>

Listen(o) ==
  /\ watch[o] = "checked"
  /\ watch' = [watch EXCEPT ![o] = "listening"]
  /\ heard' = [heard EXCEPT ![o] = FALSE]
  /\ UNCHANGED <<signal, interrupts, call>>

SleepAnyway == "asleep"
AfterListening == IF stopped THEN "done" ELSE "asleep"

Recheck(o) ==
  /\ watch[o] = "listening"
  /\ watch' = [watch EXCEPT ![o] = AfterListening]
  /\ UNCHANGED <<signal, interrupts, heard, call>>

Notified(o) ==
  /\ watch[o] = "asleep" /\ heard[o]
  /\ watch' = [watch EXCEPT ![o] = "new"]
  /\ UNCHANGED <<signal, interrupts, heard, call>>

DropObserver(o) ==
  /\ watch[o] \in {"new", "asleep", "done"}
  /\ watch' = [watch EXCEPT ![o] = "none"]
  /\ UNCHANGED <<signal, interrupts, heard, call>>

-----------------------------------------------------------------------------
(* Inner::stop and Drop for Inner.  A caller latches and drains the shards *)
(* in turn, waking what it drained; a stop then notifies stop_event.       *)

NotCalled == [pc |-> "ready", todo |-> {}, shards |-> {}, wakers |-> {},
              collect |-> FALSE]
Latching(collect) == [NotCalled EXCEPT !.pc = "latch", !.todo = Shard,
                                       !.collect = collect]
CallerPc == {"ready", "latch", "drain", "wake", "notify", "returned"}

ShutDown(c) ==
  /\ alive /\ call[c].pc = "ready"
  /\ stopped' = TRUE
  /\ call' = [call EXCEPT ![c] = IF stopped THEN [@ EXCEPT !.pc = "returned"]
                                            ELSE Latching(FALSE)]
  /\ UNCHANGED <<alive, latched, waiters, interrupts, observers>>

(* The last Arc<Inner> drops: nobody is inside shut_down and no            *)
(* ShuttingDown is left, but interrupts hold only their shards.            *)
Collect(c) ==
  /\ alive /\ call[c].pc = "ready"
  /\ \A d \in Caller : call[d].pc \in {"ready", "returned"}
  /\ \A o \in Observer : watch[o] = "none"
  /\ alive' = FALSE
  /\ call' = [call EXCEPT ![c] = Latching(TRUE)]
  /\ UNCHANGED <<stopped, latched, waiters, interrupts, observers>>

Latch(c) ==
  /\ call[c].pc = "latch"
  /\ \E s \in call[c].todo :
       /\ latched' = [latched EXCEPT ![s] = TRUE]
       /\ call' = [call EXCEPT ![c] = [@ EXCEPT !.pc = "drain", !.shards = {s}]]
  /\ UNCHANGED <<stopped, alive, waiters, interrupts, observers>>

(* mem::take of the slab, under the lock.                                  *)
Drain(c) ==
  /\ call[c].pc = "drain"
  /\ \E s \in call[c].shards :
       /\ waiters' = [waiters EXCEPT ![s] = EmptySlab]
       /\ call' = [call EXCEPT ![c] = [@ EXCEPT !.pc = "wake",
            !.wakers = {waiters[s].slots[k].waker : k \in Keys(waiters[s])}]]
  /\ UNCHANGED <<stopped, alive, latched, interrupts, observers>>

Wake(c) ==
  /\ call[c].pc = "wake"
  /\ \E w \in call[c].wakers :
       /\ woken' = [i \in Interrupt |->
            woken[i] \/ (phase[i] \in {"polling", "pending"} /\ task[i] = w)]
       /\ call' = [call EXCEPT ![c].wakers = @ \ {w}]
  /\ UNCHANGED <<signal, phase, on, reg, task, observers>>

NextShard(c) ==
  LET left == call[c].todo \ call[c].shards IN
  /\ call[c].pc = "wake" /\ call[c].wakers = {}
  /\ call' = [call EXCEPT ![c] = [@ EXCEPT
       !.pc = IF left # {} THEN "latch"
              ELSE IF call[c].collect THEN "returned" ELSE "notify",
       !.todo = left, !.shards = {}]]
  /\ UNCHANGED <<signal, interrupts, observers>>

Notify(c) ==
  /\ call[c].pc = "notify"
  /\ heard' = [o \in Observer |->
       heard[o] \/ watch[o] \in {"listening", "asleep"}]
  /\ call' = [call EXCEPT ![c].pc = "returned"]
  /\ UNCHANGED <<signal, interrupts, watch>>

-----------------------------------------------------------------------------

Init ==
  /\ stopped = FALSE /\ alive = TRUE
  /\ latched = [s \in Shard |-> FALSE]
  /\ waiters = [s \in Shard |-> EmptySlab]
  /\ phase = [i \in Interrupt |-> "none"]
  /\ on = [i \in Interrupt |-> CHOOSE s \in Shard : TRUE]
  /\ reg = [i \in Interrupt |-> NoRegistration]
  /\ task = [i \in Interrupt |-> NoTask]
  /\ woken = [i \in Interrupt |-> FALSE]
  /\ watch = [o \in Observer |-> "none"]
  /\ heard = [o \in Observer |-> FALSE]
  /\ call = [c \in Caller |-> NotCalled]

Stopping(c) == Latch(c) \/ Drain(c) \/ Wake(c) \/ NextShard(c) \/ Notify(c)
Polling(i) == Delegated(i) \/ Confirm(i) \/ Register(i)
Watching(o) == Check(o) \/ Listen(o) \/ Recheck(o) \/ Notified(o)

Next ==
  \/ \E i \in Interrupt :
       \/ \E s \in Shard : NewInterrupt(i, s)
       \/ \E k \in Task : BeginPoll(i, k)
       \/ Polling(i) \/ DropInterrupt(i)
  \/ \E o \in Observer : NewObserver(o) \/ Watching(o) \/ DropObserver(o)
  \/ \E c \in Caller : ShutDown(c) \/ Collect(c) \/ Stopping(c)

Spec == Init /\ [][Next]_vars

(* A caller finishes its stop; a poll returns; executors poll what they    *)
(* were woken for, and drive the futures that were notified.               *)
PollDue(i) == woken[i] /\ BeginPoll(i, task[i])

Fairness ==
  /\ \A c \in Caller : WF_vars(Stopping(c))
  /\ \A i \in Interrupt : WF_vars(Polling(i)) /\ WF_vars(PollDue(i))
  /\ \A o \in Observer : WF_vars(Watching(o))

FairSpec == Spec /\ Fairness

-----------------------------------------------------------------------------

(* The type invariant.                                                     *)
TypeOK ==
  /\ stopped \in BOOLEAN /\ alive \in BOOLEAN
  /\ latched \in [Shard -> BOOLEAN]
  /\ waiters \in [Shard -> Slab]
  /\ phase \in [Interrupt -> Phase]
  /\ on \in [Interrupt -> Shard]
  /\ reg \in [Interrupt -> Registration \cup {NoRegistration}]
  /\ task \in [Interrupt -> Task \cup {NoTask}]
  /\ woken \in [Interrupt -> BOOLEAN]
  /\ watch \in [Observer -> Watch]
  /\ heard \in [Observer -> BOOLEAN]
  /\ call \in [Caller -> [pc : CallerPc, todo : SUBSET Shard,
                          shards : SUBSET Shard, wakers : SUBSET Task,
                          collect : BOOLEAN]]

(* Every slot of a slab is occupied or on the free list, which leads from  *)
(* next_vacant through all the vacant slots to one past the end.           *)
FreeListComplete(slab) ==
  LET vacant == DOMAIN slab.slots \ Keys(slab)
      end == Len(slab.slots) + 1 IN
  \A S \in SUBSET (vacant \cup {end}) :
    (slab.next \in S /\ \A k \in S \cap vacant : slab.slots[k].link \in S)
      => S = vacant \cup {end}

Registered(s) ==
  {i \in Interrupt : phase[i] # "none" /\ on[i] = s /\ reg[i] # NoRegistration}

(* While a shard accepts registrations, its occupied slots are exactly the *)
(* registrations of its live interrupts, each with its own key and its     *)
(* latest waker, so that a drop or a replacement removes no other one and  *)
(* leaks none.  A drained shard stays empty: a stale key is simply absent. *)
RegistrationsIntact ==
  \A s \in Shard :
    /\ FreeListComplete(waiters[s])
    /\ \/ latched[s] /\ waiters[s] = EmptySlab
       \/ /\ Keys(waiters[s]) = {reg[i].key : i \in Registered(s)}
          /\ \A i \in Registered(s) :
               /\ waiters[s].slots[reg[i].key].waker = reg[i].waker
               /\ \A j \in Registered(s) : reg[i].key = reg[j].key => i = j

(* L1 and L4 of docs/invariants.md: an interrupt that sleeps although its  *)
(* shard is latched has a wake coming, to the task that polled it last.    *)
WakeDue(c, i) ==
  \/ /\ call[c].pc = "drain" /\ on[i] \in call[c].shards
     /\ \E k \in Keys(waiters[on[i]]) : waiters[on[i]].slots[k].waker = task[i]
  \/ call[c].pc = "wake" /\ task[i] \in call[c].wakers
NoLostWake ==
  \A i \in Interrupt : phase[i] = "pending" /\ latched[on[i]] /\ ~woken[i] =>
    \E c \in Caller : WakeDue(c, i)

(* A ShuttingDown that sleeps although the node is stopped is notified, or *)
(* the stop has yet to notify stop_event.                                  *)
NoLostStopEvent ==
  \A o \in Observer : watch[o] = "asleep" /\ stopped /\ ~heard[o] =>
    \E c \in Caller : /\ ~call[c].collect
                      /\ call[c].pc \in {"latch", "drain", "wake", "notify"}

(* L1 as clients see it, under FairSpec: an interrupt that is pending when *)
(* its node stops or is collected does not sleep on, it ends.              *)
InterruptsEnd ==
  \A i \in Interrupt :
    (phase[i] = "pending" /\ (stopped \/ ~alive))
      ~> phase[i] \in {"ended", "idle", "none"}

(* L3 for ShuttingDown, under FairSpec.                                    *)
ShuttingDownResolves ==
  \A o \in Observer :
    (watch[o] # "none" /\ stopped) ~> watch[o] \in {"done", "none"}

(* What docs/spec.md 3.5 says and the code does not do: once shut_down()   *)
(* has been called, any interrupt polled afterwards observes the stop.     *)
StopSeenAfterShutDown ==
  (\E c \in Caller : call[c].pc = "returned") =>
    \A i \in Interrupt : phase[i] \in {"idle", "pending"} => latched[on[i]]

=============================================================================
