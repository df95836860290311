------------------------------ MODULE Commands ------------------------------
(***************************************************************************)
(* The commands that repair a task: `autokit retry` (retryCleanupTask,     *)
(* core/src/retry-cleanup.ts) and `autokit cleanup --force-detach`.        *)
(* They hold the run lock, so they start only where no workflow runs.      *)
(***************************************************************************)
EXTENDS Repository

Unchanged == UNCHANGED repoVars

(* Mutant of RetryTarget: failed tasks alone.  *)
RetryTarget_FailedOnly(t) == t.state = "failed"

(* selectRetryTargets: an issue that is named is a target in any state.  *)
RetryTarget(t) ==
  \/ t.state = "failed"
  \/ t.failure = "retry_cleanup_failed"
  \/ "explicit_retry" \in Faults

RetryStart ==
  /\ At("idle")
  /\ RetryTarget(disk)
  /\ Continue([disk EXCEPT !.retrying = TRUE], "retry")
  /\ Unchanged

MarkRetry(t, step) == [t EXCEPT !.retry = @ \cup {step}]

(* Mutant of DueRetry: the steps run in any order.  *)
DueRetry_AnyOrder(step, earlier) == At("retry") /\ step \notin mem.retry

DueRetry(step, earlier) ==
  /\ At("retry")
  /\ earlier \subseteq mem.retry
  /\ step \notin mem.retry

RetryFails == Record(Pause(mem, "retry_cleanup_failed"), "exit") /\ Unchanged

(* gh pr close --delete-branch: an error for a merged pull request.  *)
ClosePullRequest ==
  /\ prState' = "CLOSED"
  /\ armed' = "off"
  /\ remote' = 0
  /\ ff' = TRUE
  /\ UNCHANGED <<worktree, local, edits, behind, commits, prSha, prs>>

RetryClosePr ==
  /\ DueRetry("pr_closed", {})
  /\ \/ /\ ~mem.pr \/ prState = "CLOSED"
        /\ Record(MarkRetry(mem, "pr_closed"), "retry")
        /\ Unchanged
     \/ /\ mem.pr /\ prState \in Unmerged
        /\ Record(MarkRetry(mem, "pr_closed"), "retry")
        /\ ClosePullRequest
     \/ /\ mem.pr /\ (prState = "MERGED" \/ "tool_failure" \in Faults)
        /\ RetryFails

(* git worktree remove --force fails where there is no worktree.  *)
RetryWorktree ==
  /\ DueRetry("worktree_removed", {"pr_closed"})
  /\ \/ /\ ~mem.named
        /\ Record(MarkRetry(mem, "worktree_removed"), "retry")
        /\ Unchanged
     \/ /\ mem.named /\ worktree
        /\ Record(MarkRetry(mem, "worktree_removed"), "retry")
        /\ RemoveWorktree
     \/ mem.named /\ ~worktree /\ RetryFails

DeleteLocalBranch ==
  /\ local' = 0
  /\ UNCHANGED <<worktree, edits, remote, ff, behind, commits, prVars>>

(* git branch -D fails where there is no branch and on the branch of a
   worktree.  *)
RetryBranch ==
  /\ DueRetry("branch_deleted", {"pr_closed", "worktree_removed"})
  /\ \/ /\ ~mem.named
        /\ Record(MarkRetry(mem, "branch_deleted"), "retry")
        /\ Unchanged
     \/ /\ mem.named /\ local # 0 /\ ~worktree
        /\ Record(MarkRetry(mem, "branch_deleted"), "retry")
        /\ DeleteLocalBranch
     \/ mem.named /\ (local = 0 \/ worktree) /\ RetryFails

RetryClear ==
  /\ DueRetry("fields_cleared", {"pr_closed", "worktree_removed", "branch_deleted"})
  /\ Record(MarkRetry(ClearRetryFields(mem), "fields_cleared"), "retry")
  /\ Unchanged

RetryQueue ==
  /\ At("retry")
  /\ mem.retry = RetrySteps
  /\ Record([mem EXCEPT !.state = "queued", !.retrying = FALSE, !.retry = {}], "exit")
  /\ Unchanged

RetryStep ==
  \/ RetryClosePr \/ RetryWorktree \/ RetryBranch \/ RetryClear \/ RetryQueue

-----------------------------------------------------------------------------
ForceDetachCandidate(t) ==
  \/ t.state = "cleaning"
  \/ t.state = "paused" /\ t.failure \in {"branch_delete_failed", "worktree_remove_failed"}

Detached(t) ==
  [Enter(t, "merged", "none") EXCEPT !.cleaning = CleaningSteps, !.removeTries = 0]

(* The task is declared merged; no branch and no worktree is removed.  *)
ForceDetach ==
  /\ At("idle")
  /\ ForceDetachCandidate(disk)
  /\ disk.pr /\ disk.head # 0
  /\ disk' = IF prState = "MERGED" /\ prSha = disk.head
             THEN Detached(disk)
             ELSE [disk EXCEPT !.state = "paused", !.failure = "merge_sha_mismatch"]
  /\ mem' = disk'
  /\ UNCHANGED <<pc, dirty, crashes>>
  /\ Unchanged
=============================================================================
