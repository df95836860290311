------------------------- MODULE DocumentedPromises -------------------------
(***************************************************************************)
(* What docs/SPEC.md promises about an issue and the code does not keep.   *)
(* Each statement is checked by a run of its own that ends in a            *)
(* counterexample; the README goes through them.  Statements that hold     *)
(* under fewer faults and fail under more are in IssuePipeline.            *)
(***************************************************************************)
EXTENDS IssuePipeline

(* A task resumed in the supervise subphase goes on reviewing: SPEC 5.1.3 maps
   supervise to "reviewing (supervise subphase)".  (runReviewSuperviseWorkflow)*)
ResumedSuperviseGoesOn ==
  [][pc = "loop" /\ mem.phase = "supervise" => mem'.state # "failed"]_vars

(* A plan fails with plan_max by the verdict that exceeds the rounds, never
   because the loop has run out of iterations: SPEC 5.1, E04 and the rule for
   all limits, by which max = N accepts N corrections.
   (runPlanningWorkflow, plan_verify_rejected)  *)
PlanMaxByVerdict == [][pc = "plan" => mem'.failure # "plan_max"]_vars

(* An interrupted implementation is taken up again wherever it stopped, and a
   user who keeps running the task gets it past this state: SPEC 7.3.1 lets a
   lost commit record be found by git status.  (runImplementWorkflow)  *)
ImplementingEnds == (disk.state = "implementing") ~> (disk.state # "implementing")

(* A fix whose push is refused is paused, so fixing is left: SPEC 7.8 step 4.
   (runFixWorkflow, rebaseOntoBase, pushBranch)  *)
FixingEnds == (disk.state = "fixing") ~> (disk.state # "fixing")

(* A retry skips a worktree that is not there: SPEC 6.2, step 2.
   (retryCleanupTask)  *)
RetrySkipsMissingWorktree ==
  [][pc = "retry" /\ mem.retry = {"pr_closed"} /\ ~worktree
       => mem'.failure # "retry_cleanup_failed"]_vars

(* A retried task gets a new branch from the next run and is implemented:
   SPEC 6.2, list of cleared fields.  (ensureWorktree)  *)
PlannedIsImplemented == (disk.state = "planned") ~> (disk.state # "planned")

(* Only with the remote branch gone does a forced detach declare a task
   merged: SPEC 6.2, cleanup steps 2 and 5.  (commandCleanupLocked)  *)
DetachDeletesBranch ==
  [][pc = "idle" /\ disk.state # "merged" /\ disk'.state = "merged" => remote = 0]_vars

(* A pull request merged by hand at the recorded head is cleaned up after when
   the paused task is resumed, unless its checks fail after all: SPEC 7.6.4,
   step 2.  (runCiWaitWorkflow)  *)
ManualMergeGetsCleaned ==
  (disk.failure = "manual_merge_required" /\ MergeConfirmed(disk))
    ~> (disk.state = "merged" \/ disk.failure = "ci_failure_max" \/ disk.origin = "ci")
=============================================================================
