---------------------------- MODULE MCStopSignal ----------------------------
(* Instances of StopSignal for TLC; the sets are in the .cfg files.        *)
EXTENDS StopSignal, TLC

(* Interrupts, tasks and callers are interchangeable.  Shards are not:     *)
(* Init singles one out.                                                   *)
StopSymmetry ==
  Permutations(Interrupt) \cup Permutations(Task) \cup Permutations(Caller)

=============================================================================
