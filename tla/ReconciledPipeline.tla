-------------------------- MODULE ReconciledPipeline --------------------------
(***************************************************************************)
(* The pipeline beside reconcileTask: two programs that read the same      *)
(* checkpoints, the workflows when they run and reconcile.ts when it is    *)
(* asked, and need to draw the same conclusion from them.                  *)
(***************************************************************************)
EXTENDS IssuePipeline, Reconcile

(* The step of the workflow that an action of reconcileTask stands for.  *)
ImplementAction ==
  [agent_done |-> {"resume_session", "restart_phase"},
   commit_done |-> {"commit_after_agent"},
   push_done |-> {"push_after_commit"},
   pr_created |-> {"restore_pr_after_push"},
   head_sha_persisted |-> {"persist_head_after_pr"},
   after_sha |-> {"ready_pr_after_head"}]

FixAction ==
  [rebase_done |-> {"resume_session", "restart_phase"},
   agent_done |-> {"run_fix_after_rebase"},
   commit_done |-> {"commit_after_agent"},
   push_done |-> {"push_after_commit"},
   head_sha_persisted |-> {"observe_fix_head_after_push"},
   after_sha |-> {"advance_after_checkpoint"}]

Due(order, done) == {step \in {order[i] : i \in DOMAIN order} : FirstMissing(step, order, done)}

(* A caller that looks GitHub up, and one that does not.  A draft is OPEN. *)
GhView ==
  [state |-> IF prState \in Unmerged THEN "OPEN" ELSE prState, head |-> prSha]
Unseen == [state |-> "unseen", head |-> 0]

Seen ==
  {[pr |-> pr, ofBranch |-> pr, branchGone |-> remote = 0, worktreeGone |-> ~worktree,
    branchFailed |-> FALSE, worktreeFailed |-> FALSE] : pr \in {GhView, Unseen}}

(* git.base_sha is set by the step that begins to implement.  *)
KeptNow == {k \in Kept : k.based = (disk.implement # {})}

Orphaned(r) == r.task.failure = "pre_pr_active_orphan" /\ disk.failure # "pre_pr_active_orphan"

(* Whatever state a crash, a failure or a person leaves behind: the step that
   reconcileTask names is the very one the next run of the workflow takes; it
   sends a task to its cleanup only with the pull request merged at its head;
   and it gives no task up but one that is planned, one that has recorded
   nothing of its phase, and one that was pushed and has no open pull request. *)
ReconcileAgreesWithRun ==
  pc = "idle" /\ ~disk.retrying =>
    \A o \in Seen, k \in KeptNow :
      LET r == ReconcileTask(disk, k, o) IN
        /\ r.task.phase = "implement" /\ r.action \notin {"none", "resume_phase"} =>
             \E step \in Due(ImplementOrder, r.task.implement) :
               r.action \in ImplementAction[step]
        /\ r.task.phase = "fix" /\ r.action \notin {"none", "resume_phase"} =>
             \E step \in Due(FixOrder, r.task.fix) : r.action \in FixAction[step]
        /\ r.task.state = "cleaning" => MergeConfirmed(r.task)
        /\ Orphaned(r) => \/ disk.state = "planned"
                          \/ disk.phase = "implement" /\ "push_done" \in disk.implement
                               /\ prState \notin Unmerged
                          \/ disk.phase = "fix" /\ disk.fix = {}
                          \/ k.simple = "none" /\ disk.phase \notin {"implement", "fix"}
=============================================================================
