--------------------------- MODULE GuardRegistry ---------------------------
(***************************************************************************)
(* Guard provenance under Swansong::with_guard_report: every guard owns an *)
(* Arc<GuardInfo>, of which the registry of its shard (guard.rs) keeps a   *)
(* Weak; guard_report() sweeps the registries, collects what is alive and  *)
(* aggregates it by creation site (guard_report.rs).                       *)
(*                                                                         *)
(* The info of a guard is named like the guard.  A registry entry is that  *)
(* name, or Dangling once the last Arc of the info has been dropped, which *)
(* takes no lock and so happens between any two steps of the others.       *)
(*                                                                         *)
(* The shards are those of one node, or of a subtree whose nodes stay: how *)
(* guard_report() finds its way through a subtree whose children come and  *)
(* go is in GuardCount.                                                    *)
(***************************************************************************)
EXTENDS Naturals, Sequences, FiniteSets, FiniteSetsExt

CONSTANTS
  Shard,     \* the shards that a report visits
  Guard,     \* identities for guards; bounds how many are alive at once
  Location,  \* creation sites
  Reporter,  \* those who call guard_report()
  MIN_SWEEP_THRESHOLD,
  Dangling

ASSUME RegistryAssumption ==
  /\ IsFiniteSet(Shard) /\ IsFiniteSet(Guard) /\ IsFiniteSet(Reporter)
  /\ Shard # {} /\ Location # {} /\ Dangling \notin Guard
  /\ MIN_SWEEP_THRESHOLD \in Nat \ {0}

VARIABLES
  guards,           \* GuardRegistry::guards of each shard
  sweep_threshold,  \* GuardRegistry::sweep_threshold of each shard
  phase,            \* of a guard: see Phase
  home, site,       \* its shard and its creation site
  pc,               \* of a reporter: see ReportPc
  todo,             \* the shards it has yet to visit; at most one is locked
  locked,
  infos,            \* the Arc<GuardInfo>s it has collected
  peak,             \* history: the most infos of a shard ever alive at once
  quiet             \* history: nothing was in flight since it began

registries == <<guards, sweep_threshold>>
provenance == <<phase, home, site>>
reports == <<pc, todo, locked, infos>>
history == <<peak, quiet>>
vars == <<registries, provenance, reports, history>>

(* "counted": counted by its shard, not recorded yet; "recorded": the      *)
(* reverse; "departed": uncounted, its info not dropped yet.               *)
Phase == {"none", "counted", "recorded", "live", "departed"}
ReportPc == {"idle", "sweep", "upgrade", "aggregate"}

Elements(seq) == {seq[i] : i \in DOMAIN seq}
HeldInfos == UNION {Elements(infos[r]) : r \in Reporter}
OwnedInfos == {g \in Guard : phase[g] \in {"recorded", "live", "departed"}}
InfosOf(s) == {g \in OwnedInfos \cup HeldInfos : home[g] = s}
Counted == {g \in Guard : phase[g] \in {"counted", "live"}}

-----------------------------------------------------------------------------
(* The registry of a shard.                                                *)

Owners(g) ==
  {r \in Reporter : g \in Elements(infos[r])} \cup ({g} \cap OwnedInfos)

(* What still upgrades, in its order.                                      *)
Alive(seq) ==
  LET kept[i \in 0 .. Len(seq)] ==
        IF i = 0 THEN <<>>
        ELSE IF seq[i] = Dangling THEN kept[i - 1]
        ELSE Append(kept[i - 1], seq[i])
  IN kept[Len(seq)]

SweepNothing(seq) == seq
SweepUnshared(seq) ==
  SelectSeq(seq, LAMBDA entry : entry # Dangling /\ Cardinality(Owners(entry)) > 1)
Sweep(seq) == Alive(seq)

SweepDue(s) ==
  Len(guards[s]) >= Max({sweep_threshold[s], MIN_SWEEP_THRESHOLD})

Swept(s) ==
  LET alive == Sweep(guards[s]) IN
  /\ guards' = [guards EXCEPT ![s] = alive]
  /\ sweep_threshold' = [sweep_threshold EXCEPT ![s] = 2 * Len(alive)]

(* Shard::provenance, under the shard's lock.                              *)
Registered(s, g) ==
  /\ s \notin UNION {locked[r] : r \in Reporter}
  /\ \/ /\ SweepDue(s)
        /\ LET alive == Sweep(guards[s]) IN
           /\ guards' = [guards EXCEPT ![s] = Append(alive, g)]
           /\ sweep_threshold' = [sweep_threshold EXCEPT ![s] = 2 * Len(alive)]
     \/ /\ ~SweepDue(s)
        /\ guards' = [guards EXCEPT ![s] = Append(@, g)]
        /\ UNCHANGED sweep_threshold

(* The Weaks of infos whose last Arc is dropped stop upgrading; nothing    *)
(* remembers where the guard was.                                          *)
AnyShard == CHOOSE s \in Shard : TRUE
AnyLocation == CHOOSE l \in Location : TRUE
Drop(gone) ==
  /\ guards' = [s \in Shard |-> [i \in DOMAIN guards[s] |->
       IF guards[s][i] \in gone THEN Dangling ELSE guards[s][i]]]
  /\ home' = [g \in Guard |-> IF g \in gone THEN AnyShard ELSE home[g]]
  /\ site' = [g \in Guard |-> IF g \in gone THEN AnyLocation ELSE site[g]]

-----------------------------------------------------------------------------
(* Guards.                                                                 *)

FreeGuard(g) == phase[g] = "none" /\ g \notin HeldInfos

Disturb == quiet' = [r \in Reporter |-> FALSE]
Peak(s, g) ==
  peak' = [peak EXCEPT ![s] = Max({@, Cardinality(InfosOf(s) \cup {g})})]

(* Guard::at_location records first and counts then; a clone does the same *)
(* with the shard and the site of the guard it is cloned from.             *)
Record(g, s, l) ==
  /\ FreeGuard(g)
  /\ phase' = [phase EXCEPT ![g] = "recorded"]
  /\ home' = [home EXCEPT ![g] = s]
  /\ site' = [site EXCEPT ![g] = l]
  /\ Registered(s, g)
  /\ Peak(s, g) /\ Disturb
  /\ UNCHANGED reports

CloneGuard(g, g2) == phase[g] = "live" /\ Record(g2, home[g], site[g])

Count(g) ==
  /\ phase[g] = "recorded"
  /\ phase' = [phase EXCEPT ![g] = "live"]
  /\ Disturb
  /\ UNCHANGED <<registries, home, site, reports, peak>>

(* Guard::for_shard on an arrived root shard counts first.                 *)
CountFirst(g, s, l) ==
  /\ FreeGuard(g)
  /\ phase' = [phase EXCEPT ![g] = "counted"]
  /\ home' = [home EXCEPT ![g] = s]
  /\ site' = [site EXCEPT ![g] = l]
  /\ Disturb
  /\ UNCHANGED <<registries, reports, peak>>

RecordLate(g) ==
  /\ phase[g] = "counted"
  /\ phase' = [phase EXCEPT ![g] = "live"]
  /\ Registered(home[g], g)
  /\ Peak(home[g], g) /\ Disturb
  /\ UNCHANGED <<home, site, reports>>

(* Drop for Guard uncounts it, then its fields drop, the info among them.  *)
Depart(g) ==
  /\ phase[g] = "live"
  /\ phase' = [phase EXCEPT ![g] = "departed"]
  /\ Disturb
  /\ UNCHANGED <<registries, home, site, reports, peak>>

DropInfo(g) ==
  /\ phase[g] = "departed"
  /\ phase' = [phase EXCEPT ![g] = "none"]
  /\ Drop({g} \ HeldInfos)
  /\ Disturb
  /\ UNCHANGED <<sweep_threshold, reports, peak>>

-----------------------------------------------------------------------------
(* Swansong::guard_report.                                                 *)

Begin(r) ==
  /\ pc[r] = "idle"
  /\ pc' = [pc EXCEPT ![r] = "sweep"]
  /\ todo' = [todo EXCEPT ![r] = Shard]
  /\ quiet' = [quiet EXCEPT ![r] =
       /\ \A g \in Guard : phase[g] \in {"none", "live"}
       /\ HeldInfos \subseteq OwnedInfos]
  /\ UNCHANGED <<registries, provenance, locked, infos, peak>>

(* Shard::guard_infos takes the lock, sweeps, and upgrades what is left;   *)
(* an info may be dropped in between.                                      *)
SweepShard(r) ==
  /\ pc[r] = "sweep"
  /\ \E s \in todo[r] :
       /\ s \notin UNION {locked[q] : q \in Reporter}
       /\ locked' = [locked EXCEPT ![r] = {s}]
       /\ Swept(s)
  /\ pc' = [pc EXCEPT ![r] = "upgrade"]
  /\ UNCHANGED <<provenance, todo, infos, history>>

AnyEntries(s) == guards[s]
Live(s) == Alive(guards[s])

Upgrade(r) ==
  /\ pc[r] = "upgrade"
  /\ \E s \in locked[r] :
       /\ infos' = [infos EXCEPT ![r] = @ \o Live(s)]
       /\ todo' = [todo EXCEPT ![r] = @ \ {s}]
       /\ pc' = [pc EXCEPT ![r] = IF todo[r] = {s} THEN "aggregate" ELSE "sweep"]
  /\ locked' = [locked EXCEPT ![r] = {}]
  /\ UNCHANGED <<registries, provenance, history>>

(* GuardReport::from_infos: one entry per creation site.                   *)
CountSites(seq) == [l \in {site[seq[i]] : i \in DOMAIN seq} |-> 1]
FromInfos(seq) ==
  [l \in {site[seq[i]] : i \in DOMAIN seq} |->
     Cardinality({i \in DOMAIN seq : site[seq[i]] = l})]

GuardCount(entries) == MapThenSumSet(LAMBDA l : entries[l], DOMAIN entries)

(* The report, FromInfos(infos[r]), is the caller's; the infos are dropped. *)
Aggregate(r) ==
  LET others == UNION {Elements(infos[q]) : q \in Reporter \ {r}} IN
  /\ pc[r] = "aggregate"
  /\ infos' = [infos EXCEPT ![r] = <<>>]
  /\ Drop(Elements(infos[r]) \ (OwnedInfos \cup others))
  /\ pc' = [pc EXCEPT ![r] = "idle"]
  /\ quiet' = [quiet EXCEPT ![r] = FALSE]
  /\ UNCHANGED <<sweep_threshold, phase, todo, locked, peak>>

-----------------------------------------------------------------------------

Init ==
  /\ guards = [s \in Shard |-> <<>>]
  /\ sweep_threshold = [s \in Shard |-> 0]
  /\ phase = [g \in Guard |-> "none"]
  /\ home = [g \in Guard |-> AnyShard]
  /\ site = [g \in Guard |-> AnyLocation]
  /\ pc = [r \in Reporter |-> "idle"]
  /\ todo = [r \in Reporter |-> {}]
  /\ locked = [r \in Reporter |-> {}]
  /\ infos = [r \in Reporter |-> <<>>]
  /\ peak = [s \in Shard |-> 0]
  /\ quiet = [r \in Reporter |-> FALSE]

Next ==
  \/ \E g \in Guard :
       \/ \E s \in Shard, l \in Location : Record(g, s, l) \/ CountFirst(g, s, l)
       \/ \E g2 \in Guard : CloneGuard(g, g2)
       \/ Count(g) \/ RecordLate(g) \/ Depart(g) \/ DropInfo(g)
  \/ \E r \in Reporter : Begin(r) \/ SweepShard(r) \/ Upgrade(r) \/ Aggregate(r)

Spec == Init /\ [][Next]_vars

-----------------------------------------------------------------------------

(* The type invariant: a report holds infos only, never a dangling entry.  *)
TypeOK ==
  /\ guards \in [Shard -> Seq(Guard \cup {Dangling})]
  /\ sweep_threshold \in [Shard -> Nat]
  /\ phase \in [Guard -> Phase]
  /\ home \in [Guard -> Shard]
  /\ site \in [Guard -> Location]
  /\ pc \in [Reporter -> ReportPc]
  /\ todo \in [Reporter -> SUBSET Shard]
  /\ locked \in [Reporter -> SUBSET Shard]
  /\ infos \in [Reporter -> Seq(Guard)]
  /\ peak \in [Shard -> Nat]
  /\ quiet \in [Reporter -> BOOLEAN]

(* What the sweeps bound: however registrations, drops and reports         *)
(* interleave, a registry never holds more than twice the infos that were  *)
(* ever alive at once on its shard, or the minimal threshold.  The comment *)
(* at guard.rs:57-59 claims more, a bound by the guards that are alive     *)
(* now; entries of dropped guards stay until a registration reaches the    *)
(* threshold or a report visits the shard, which may be never.             *)
RegistryBounded ==
  \A s \in Shard :
    Len(guards[s]) <= Max({MIN_SWEEP_THRESHOLD, 2 * peak[s]})

(* No info that is alive is ever swept, and none is registered twice.      *)
RegistryExact ==
  \A s \in Shard :
    /\ Elements(guards[s]) \ {Dangling} = InfosOf(s)
    /\ \A i, j \in DOMAIN guards[s] :
         guards[s][i] = guards[s][j] /\ guards[s][i] # Dangling => i = j

(* S5 for guard_report(): with no guard operation in flight, and no other  *)
(* report still holding the info of a dropped guard, the report has the    *)
(* sites that live guards were created at, each with the number of them,   *)
(* and its count is guard_count().                                         *)
LiveAt(l) == {g \in Counted : site[g] = l}
ReportExactWhenQuiet ==
  \A r \in Reporter : pc[r] = "aggregate" /\ quiet[r] =>
    LET report == FromInfos(infos[r]) IN
    /\ report = [l \in {site[g] : g \in Counted} |-> Cardinality(LiveAt(l))]
    /\ GuardCount(report) = Cardinality(Counted)

=============================================================================
