---------------------------- MODULE LockedCommands ----------------------------
(***************************************************************************)
(* The commands that write: each takes the run lock (RunLock), works on    *)
(* the files it protects, tasks.yaml (TasksFile) or the tree of prompts    *)
(* and config.yaml (PresetApply), and gives the lock back                  *)
(* (withWriteCommandLock, packages/cli/src/index.ts).                      *)
(*                                                                         *)
(* What two commands do to the files at the same time is not followed: the *)
(* work goes on only as long as the exclusion is not in doubt.             *)
(***************************************************************************)
EXTENDS RunLock, TasksFile, PresetApply

CONSTANTS
    Mixes,      \* what commands run: a set of functions from Procs to Commands
    MaxCrashes  \* how many processes die (a bound)

ASSUME WritersAssumption == Writers = Procs

VARIABLE command  \* command[p]: what p does under the lock

vars == <<lockVars, tasksVars, presetVars, command>>

\* "other": works on files of its own (a log, a worktree).
Commands == {"update", "preset", "other"}

ASSUME MixesAssumption ==
    \A mix \in Mixes :
        /\ mix \in [Procs -> Commands]
        /\ \A p, q \in Procs : mix[p] = "preset" /\ mix[q] = "preset" => p = q

Crashed == {p \in Procs : at[p] \in {"dead", "reused"}}

Init ==
    /\ LockInit /\ TasksInit /\ PresetInit
    /\ command \in Mixes
    /\ (\A p \in Procs : command[p] # "preset") =>
          agentsBefore = "old" /\ configBefore = "old"  \* they do not matter

\* Mutant of UpdateTasks: the file is read before the lock is taken.
UpdateTasks_LoadsFirst(p) ==
    /\ command[p] = "update"
    /\ \/ InSection(p) /\ TasksStep(p)
       \/ at[p] = "mkdir" /\ Load(p)
    /\ UNCHANGED <<lockVars, presetVars, command>>

\* A command that finds tasks.yaml torn, or nothing to restore it from, ends.
UpdateTasks(p) ==
    /\ command[p] = "update" /\ InSection(p)
    /\ TasksStep(p)
    /\ UNCHANGED <<lockVars, presetVars, command>>

ApplyPreset(p) ==
    /\ command[p] = "preset" /\ InSection(p)
    /\ PresetStep
    /\ UNCHANGED <<lockVars, tasksVars, command>>

AtWork(p) == job[p] # "none" \/ (command[p] = "preset" /\ ~ApplyEnded)

EndCommand(p) ==
    /\ ~AtWork(p) /\ StartRelease(p)
    /\ UNCHANGED <<tasksVars, presetVars, command>>

Lock(p) ==
    /\ LockStep(p)
    /\ UNCHANGED <<tasksVars, presetVars, command>>

Surroundings ==
    /\ \/ Age
       \/ \E p \in Procs : \/ Cardinality(Crashed) < MaxCrashes /\ Crash(p)
                           \/ ReusePid(p)
    /\ UNCHANGED <<tasksVars, presetVars, command>>

\* Something else empties tasks.yaml while no command runs.
DamageTasks ==
    /\ Holders = {} /\ \A p \in Procs : command[p] = "update"
    /\ Damage
    /\ UNCHANGED <<lockVars, presetVars, command>>

Next ==
    /\ doubt = {}
    /\ \/ \E p \in Procs : \/ UpdateTasks(p) \/ ApplyPreset(p)
                           \/ EndCommand(p) \/ Lock(p)
       \/ Surroundings
       \/ DamageTasks

Spec == Init /\ [][Next]_vars

-----------------------------------------------------------------------------

TypeOK ==
    /\ {dir, seizing, aged} \subseteq BOOLEAN
    /\ {holder, tmp} \subseteq Tokens \cup {NoToken}
    /\ at \in [Procs -> Labels]
    /\ claim \in [Procs -> 0..MaxClaims]
    /\ tries \in [Procs -> 0..2]
    /\ seen \in [Procs -> Tokens \cup {NoToken}]
    /\ doubt \subseteq {"overlap", "slow", "changed"}
    /\ TasksTypeOK /\ PresetTypeOK
    /\ command \in [Procs -> Commands]

(* Two commands are never at work at the same time, as long as no two
   processes took over one abandoned lock at once, no process stood still for
   the grace period in the middle of taking or leaving the lock, and nobody
   forced a lock that had changed hands since the operator was asked.  *)
Exclusive == doubt = {} => Cardinality(Holders) <= 1

(* The lock is given back: a holder file that names a live process names its
   latest claim, and that process is at work, or about to leave.  A process
   that goes on (the server) never locks everybody out with a claim it has
   forgotten.  *)
HolderIsAtWork ==
    doubt = {} /\ holder # NoToken /\ Live(holder.proc) =>
        /\ holder = Mine(holder.proc)
        /\ at[holder.proc] \in {"held", "unseize", "rel_check", "rel_unlink"}

(* tasks.yaml destroyed from outside can be taken back to the last update or
   the one before it (to no file at all, before the second update), unless a
   crash cut off the copy to the backup as well.  *)
RestorableToPrevious ==
    path = Torn /\ ~(\E p \in Writers : at[p] # "held" /\ job[p] = "copying") =>
        bak \in {latest, AllButLast(latest)}

(* The abstract promise: commands one at a time, each on all that the earlier
   ones left, until the exclusion is first in doubt.  *)
Serial == INSTANCE SerialCommands WITH
            active <- Holders, ledger <- latest, destroyed <- path = Torn,
            doubtful <- doubt # {}

IsSerial == Serial!Spec
=============================================================================
