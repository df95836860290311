------------------------------- MODULE Worker -------------------------------
(***************************************************************************)
(* The process that carries a task: `autokit run` and the commands that    *)
(* start it (runProductionWorkflow, cli/src/executor.ts).                  *)
(*                                                                         *)
(* disk is the entry in tasks.yaml and mem the copy the process works on.  *)
(* pc says which workflow, and which wait inside it, the process is in.    *)
(* An external effect and the write that records it are two steps: the     *)
(* effect leaves dirty = TRUE and the process can only Save, or crash      *)
(* before it does.  The run lock admits one process, so there is one pc.   *)
(***************************************************************************)
EXTENDS TaskMachine

CONSTANTS
  MaxCrashes,   \* bound on the number of crashes
  Faults        \* what the surroundings may do wrong in a run

AllFaults == {"agent_pause", "agent_fail", "idle_agent", "base_moves",
              "human_push", "human_merge", "human_close", "tool_failure",
              "explicit_retry"}

ASSUME WorkerAssumption == MaxCrashes \in Nat /\ Faults \subseteq AllFaults

VARIABLES disk, mem, pc, dirty, crashes

workerVars == <<disk, mem, pc, dirty, crashes>>

Labels == {"idle", "exit", "loop", "plan", "plan_agent", "plan_write",
           "implement", "review", "supervise", "fix",
           "ci", "reserve", "reserved", "merge", "barrier",
           "clean", "force_remove", "retry"}

WorkerTypeOK ==
  /\ disk \in Task
  /\ mem \in Task
  /\ pc \in Labels
  /\ dirty \in BOOLEAN
  /\ crashes \in Nat

WorkerInit ==
  /\ disk = NewTask
  /\ mem = NewTask
  /\ pc = "idle"
  /\ dirty = FALSE
  /\ crashes = 0

At(label) == pc = label /\ ~dirty

(* The process changes its copy of the task and then writes it: the next step
   of the process is Save.  *)
Record(t, label) ==
  /\ mem' = t
  /\ pc' = label
  /\ dirty' = TRUE
  /\ UNCHANGED <<disk, crashes>>

(* A workflow returns its task to the loop of the executor, which writes it. *)
Return(t) == Record(t, "loop")

(* The process moves on without a write.  *)
Continue(t, label) ==
  /\ mem' = t
  /\ pc' = label
  /\ UNCHANGED <<disk, dirty, crashes>>

(* An exception leaves the workflow and the process: nothing is written.  *)
Throw ==
  /\ mem' = disk
  /\ pc' = "idle"
  /\ dirty' = FALSE
  /\ UNCHANGED <<disk, crashes>>

-----------------------------------------------------------------------------
(* persistTask: the whole entry is written at once.  *)
Save ==
  /\ dirty
  /\ disk' = mem
  /\ dirty' = FALSE
  /\ pc' = IF pc = "exit" THEN "idle" ELSE pc
  /\ UNCHANGED <<mem, crashes>>

(* `autokit run`: the first task that is neither merged nor failed is loaded.
   A paused one is loaded too, and the loop leaves it at once (Stop).  *)
Begin ==
  /\ At("idle")
  /\ disk.state \notin {"merged", "failed"}
  /\ Continue(disk, "loop")

(* isTerminalOrWaiting *)
Stop ==
  /\ At("loop")
  /\ mem.state \in {"merged", "failed", "paused"}
  /\ Continue(mem, "idle")

(* The process dies, or a git or gh call throws, between any two steps.  *)
Crash ==
  /\ pc # "idle"
  /\ crashes < MaxCrashes
  /\ crashes' = crashes + 1
  /\ mem' = disk
  /\ pc' = "idle"
  /\ dirty' = FALSE
  /\ UNCHANGED disk

(* Mutant of Resumable: any paused task is resumed.  *)
Resumable_AnyPaused(t) == t.state = "paused"

(* A half finished retry is not resumed: the command points to retry.  *)
Resumable(t) == t.state = "paused" /\ t.failure # "retry_cleanup_failed"

(* `autokit resume`: the resumed entry is written, then the workflow runs. *)
Resume ==
  /\ At("idle")
  /\ Resumable(disk)
  /\ disk' = ResumeTask(disk)
  /\ mem' = disk'
  /\ pc' = "loop"
  /\ UNCHANGED <<dirty, crashes>>

(* An agent phase that does not complete: the runner reports a limit or a
   question (the task pauses in its phase) or breaks its contract (it fails). *)
AgentStops ==
  \/ "agent_pause" \in Faults /\ Return(Pause(mem, "rate_limited"))
  \/ "agent_fail" \in Faults /\ Return(Fail(mem, "other"))
=============================================================================
