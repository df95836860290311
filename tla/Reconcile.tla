------------------------------ MODULE Reconcile ------------------------------
(***************************************************************************)
(* What a task found in tasks.yaml is to be done with, from its entry and  *)
(* from what is observed of its branch, worktree and pull request          *)
(* (reconcileTask, core/src/reconcile.ts).  Pure operators; no command     *)
(* calls reconcileTask, the executor goes by the checkpoints itself.       *)
(***************************************************************************)
EXTENDS TaskMachine

(* A pull request as gh shows it; "unseen" when nobody looked.  *)
PullRequest == [state: {"unseen", "NONE", "OPEN", "CLOSED", "MERGED"}, head: Nat]

Observation ==
  [pr: PullRequest, ofBranch: PullRequest,
   branchGone: BOOLEAN, worktreeGone: BOOLEAN,
   branchFailed: BOOLEAN, worktreeFailed: BOOLEAN]

(* What the entry holds besides Task: how far the checkpoint of a phase that
   only reads has come, a session of its provider, git.base_sha.  *)
Kept == [simple: {"none", "before", "after"}, session: BOOLEAN, based: BOOLEAN]

Result(t, action) == [task |-> t, action |-> action]
StopHere(t, code) == Result(Pause(t, code), "none")
Orphan(t) == StopHere(t, "pre_pr_active_orphan")

(* The furthest checkpoint comes first.  *)
After(step, action) == [step |-> step, action |-> action]

(* Mutant of ImplementPlan: a commit is taken for a push.  *)
ImplementPlan_NoPush ==
  <<After("after_sha", "advance_after_checkpoint"),
    After("head_sha_persisted", "ready_pr_after_head"),
    After("pr_created", "persist_head_after_pr"),
    After("commit_done", "restore_pr_after_push"),
    After("agent_done", "commit_after_agent")>>

ImplementPlan ==
  <<After("after_sha", "advance_after_checkpoint"),
    After("head_sha_persisted", "ready_pr_after_head"),
    After("pr_created", "persist_head_after_pr"),
    After("push_done", "restore_pr_after_push"),
    After("commit_done", "push_after_commit"),
    After("agent_done", "commit_after_agent")>>

FixPlan ==
  <<After("after_sha", "advance_after_checkpoint"),
    After("head_sha_persisted", "advance_after_checkpoint"),
    After("push_done", "observe_fix_head_after_push"),
    After("commit_done", "push_after_commit"),
    After("agent_done", "commit_after_agent"),
    After("rebase_done", "run_fix_after_rebase")>>

SimplePlan == <<After("after_sha", "advance_after_checkpoint")>>

Recorded(plan, done) == {i \in DOMAIN plan : plan[i].step \in done}
Furthest(plan, done) ==
  plan[CHOOSE i \in Recorded(plan, done) : \A j \in Recorded(plan, done) : i <= j]

ByCheckpoint(t, k, plan, done) ==
  CASE Recorded(plan, done) # {} -> Result(t, Furthest(plan, done).action)
    [] Recorded(plan, done) = {} /\ "before_sha" \in done ->
         Result(t, IF k.session THEN "resume_session" ELSE "restart_phase")
    [] OTHER -> Orphan(t)

SimpleDone(k) == {s \in {"before_sha", "after_sha"} :
                    k.simple = "after" \/ (k.simple = "before" /\ s = "before_sha")}

AgentCheckpoint(t, k) ==
  CASE t.phase \in {"none", "ci_wait", "merge"} -> Result(t, "none")
    [] t.phase = "implement" -> ByCheckpoint(t, k, ImplementPlan, t.implement)
    [] t.phase = "fix" -> ByCheckpoint(t, k, FixPlan, t.fix)
    [] OTHER -> ByCheckpoint(t, k, SimplePlan, SimpleDone(k))

-----------------------------------------------------------------------------
ReconcileCleaning(t, o) ==
  CASE o.branchFailed -> StopHere(t, "branch_delete_failed")
    [] ~o.branchFailed /\ o.worktreeFailed -> StopHere(t, "worktree_remove_failed")
    [] ~o.branchFailed /\ ~o.worktreeFailed /\ o.branchGone /\ o.worktreeGone ->
         Result(CleaningCompleted(t), "none")
    [] OTHER -> Result(t, "cleanup_remaining")

(* The branch was pushed and its pull request is looked for.  *)
FromBranch(t, pr) ==
  IF pr.state = "OPEN"
  THEN Result([t EXCEPT !.pr = TRUE, !.head = pr.head,
                        !.implement = @ \cup {"pr_created"}], "persist_head_after_pr")
  ELSE Orphan(t)

PrePrActive(t, k, o) ==
  CASE t.state = "planned" ->
         IF t.verified /\ t.phase = "none" /\ k.based
         THEN Result(ImplementStarted(t), "none") ELSE Orphan(t)
    [] t.state # "planned" /\ t.phase \in {"none", "ci_wait", "merge"} -> Orphan(t)
    [] t.state # "planned" /\ t.phase = "implement"
         /\ "push_done" \in t.implement /\ o.ofBranch.state # "unseen" ->
         FromBranch(t, o.ofBranch)
    [] OTHER -> AgentCheckpoint(t, k)

PrBacked(t, k, pr) ==
  CASE pr.state = "MERGED" ->
         IF t.head = 0 \/ pr.head = 0 \/ pr.head # t.head
         THEN StopHere(t, "merge_sha_mismatch")
         ELSE Result(PrMerged(t, pr.head), "cleanup_remaining")
    [] pr.state = "CLOSED" -> StopHere(t, "other")
    [] pr.state = "OPEN" /\ t.head # 0 /\ pr.head # t.head ->
         StopHere(t, "merge_sha_mismatch")
    [] pr.state = "OPEN" /\ ~(t.head # 0 /\ pr.head # t.head)
         /\ t.phase \in {"ci_wait", "merge"} -> Result(t, "resume_phase")
    [] OTHER -> AgentCheckpoint(t, k)

ReconcileTask(t, k, o) ==
  CASE t.state = "cleaning" -> ReconcileCleaning(t, o)
    [] t.state # "cleaning" /\ t.pr /\ o.pr.state # "unseen" -> PrBacked(t, k, o.pr)
    [] ~t.pr /\ t.state \in {"planning", "planned", "implementing", "reviewing"} ->
         PrePrActive(t, k, o)
    [] OTHER -> Result(t, "none")
=============================================================================
