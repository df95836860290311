--------------------------- MODULE MCLockedCommands ---------------------------
(***************************************************************************)
(* LockedCommands for TLC: two processes on one host and one on another,   *)
(* over a shared directory.                                                *)
(***************************************************************************)
EXTENDS LockedCommands, TLC

CONSTANTS p1, p2, p3

TwoHosts == [p \in Procs |-> IF p = p3 THEN "b" ELSE "a"]

(* Either all three update tasks.yaml, or one applies a preset among others. *)
TasksOrPreset ==
  {[p \in Procs |-> "update"], [p \in Procs |-> IF p = p3 THEN "preset" ELSE "other"]}

SameHost == Permutations({p1, p2})

AllLockFaults == {"crash", "pid_reuse", "slow", "seize"}
=============================================================================
