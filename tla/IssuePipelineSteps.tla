------------------------- MODULE IssuePipelineSteps -------------------------
(***************************************************************************)
(* What the steps of IssuePipeline do to a copy of the task, in memory or  *)
(* on disk, and to the repository beside it; and two invariants of the     *)
(* copies that rest on that: each agrees with the repository it describes. *)
(*                                                                         *)
(* Each step is a move of the copy and a move of the repository.  That a   *)
(* move keeps a copy in order is shown once for each group of transitions, *)
(* whatever process, command or crash makes it.                            *)
(***************************************************************************)
EXTENDS IssuePipelineInvariant

-----------------------------------------------------------------------------
(* What a step of the pipeline does to a copy of the task, and to the        *)
(* repository beside it.                                                     *)

(* The repository as the task sees it: there is a worktree or not, and what is
   pushed is the task's own or not.  *)
Tree == IF worktree THEN 1 ELSE 0
Own == IF ff \/ "human_push" \notin Faults THEN 1 ELSE 0

View ==
  [state |-> prState, sha |-> prSha, local |-> local, remote |-> remote,
   tree |-> Tree, reviewed |-> reviewed, own |-> Own]

Unconfirmed == {"branch_delete_failed", "worktree_remove_failed"}

(* The task stops: an agent, a limit, GitHub or a tool says so.  An
   implementation fails before it has pushed anything.  *)
StopMove(t, u) ==
  \E code \in FailureCodes \ {"none", "retry_cleanup_failed"} :
    \/ /\ t.state \in Active \ {"planned"}
       /\ code \in Unconfirmed => t.state = "cleaning"
       /\ u = Pause(t, code)
    \/ /\ t.state \in Active \ {"cleaning", "queued", "planned"}
       /\ t.state = "implementing" => "push_done" \notin t.implement
       /\ u = Fail(t, code)

PlanMove(t, u) ==
  \/ t.state = "queued" /\ u = RunStarted(t)
  \/ /\ t.state = "planning"
     /\ u \in {PlanCompleted(t), PlanFixCompleted(t), PlanVerifyAccepted(t),
               PlanVerifyRejected(t)}

ImplementDue(t, step) == FirstMissing(step, ImplementOrder, t.implement)
FixDue(t, step) == FirstMissing(step, FixOrder, t.fix)

ImplementMove(t, u, v) ==
  \/ t.state = "planned" /\ t.named /\ u = ImplementStarted(t)
  \/ /\ t.state = "implementing"
     /\ \/ \E step \in {"agent_done", "commit_done"} :
             ImplementDue(t, step) /\ u = MarkImplement(t, step)
        \/ /\ ImplementDue(t, "push_done") /\ {"agent_done", "commit_done"} \subseteq t.implement
           /\ v.remote = v.local /\ v.remote # 0
           /\ u = MarkImplement(t, "push_done")
        \/ /\ ImplementDue(t, "pr_created") /\ "push_done" \in t.implement /\ v.state # "NONE"
           /\ u \in {[MarkImplement(t, "pr_created") EXCEPT !.pr = TRUE],
                     [[MarkImplement(t, "pr_created") EXCEPT !.pr = TRUE] EXCEPT !.head = v.sha]}
        \/ /\ ImplementDue(t, "head_sha_persisted")
           /\ {"push_done", "pr_created"} \subseteq t.implement
           /\ u = [MarkImplement(t, "head_sha_persisted") EXCEPT !.head = v.sha]
        \/ /\ ImplementDue(t, "after_sha") /\ {"push_done", "head_sha_persisted"} \subseteq t.implement
           /\ v.state \in Unmerged
           /\ u = PrReady(t, t.head)

ReviewMove(t, u, v) ==
  /\ t.state = "reviewing"
  /\ \/ u \in {ReviewCompleted(t), SuperviseAccept(t)}
     \/ /\ v.reviewed = v.local
        /\ u \in {SuperviseClean(t), SuperviseClean(ReviewCompleted(t))}

FixMove(t, u, v) ==
  /\ t.state = "fixing"
  /\ \/ \E step \in {"before_sha", "rebase_done", "agent_done", "commit_done"} :
          FixDue(t, step) /\ u = MarkFix(t, step)
     \/ /\ FixDue(t, "push_done") /\ {"rebase_done", "commit_done"} \subseteq t.fix
        /\ v.remote = v.local
        /\ u = MarkFix(t, "push_done")
     \/ /\ FixDue(t, "head_sha_persisted") /\ "push_done" \in t.fix
        /\ u = [MarkFix(t, "head_sha_persisted") EXCEPT !.head = v.sha]
     \/ /\ FixDue(t, "after_sha") /\ {"push_done", "head_sha_persisted"} \subseteq t.fix
        /\ u = FixPushed(MarkFix(t, "after_sha"))

MergeMove(t, u) ==
  \/ t.state = "ci_waiting" /\ u \in {CiFailed(t), AutoMergeReserved(t)}
  \/ t.state = "merging" /\ u = Enter(t, "cleaning", "none")
  \/ /\ t.state = "cleaning"
     /\ \/ \E step \in CleaningSteps : u = MarkCleaning(t, step)
        \/ u = WorktreeRemoved(t)
        \/ \E n \in Nat : u = [t EXCEPT !.removeTries = n]
        \/ u = CleaningCompleted(t)

Queued(t) == [t EXCEPT !.state = "queued", !.retrying = FALSE, !.retry = {}]

RetryMove(t, u, v) ==
  /\ t.retrying
  /\ \/ (~t.pr \/ v.state \notin Unmerged) /\ u = MarkRetry(t, "pr_closed")
     \/ /\ "pr_closed" \in t.retry /\ (~t.named \/ v.tree = 0)
        /\ u = MarkRetry(t, "worktree_removed")
     \/ /\ {"pr_closed", "worktree_removed"} \subseteq t.retry /\ (~t.named \/ v.local = 0)
        /\ u = MarkRetry(t, "branch_deleted")
     \/ /\ {"pr_closed", "worktree_removed", "branch_deleted"} \subseteq t.retry
        /\ u = MarkRetry(ClearRetryFields(t), "fields_cleared")
     \/ t.retry = RetrySteps /\ u = Queued(t)
     \/ /\ ~(RetrySteps \subseteq t.retry)
        /\ u = Pause(t, "retry_cleanup_failed")

TaskMove(t, u, v) ==
  \/ StopMove(t, u) \/ PlanMove(t, u) \/ ImplementMove(t, u, v) \/ ReviewMove(t, u, v)
  \/ FixMove(t, u, v) \/ MergeMove(t, u) \/ RetryMove(t, u, v)

(* What a command makes of the task on disk.  *)
CommandMove(t, u) ==
  \/ Resumable(t) /\ u = ResumeTask(t)
  \/ RetryTarget(t) /\ u = [t EXCEPT !.retrying = TRUE]
  \/ /\ ForceDetachCandidate(t)
     /\ \/ u = Detached(t)
        \/ /\ t.state = "paused" \/ t.retrying
           /\ u = [t EXCEPT !.state = "paused", !.failure = "merge_sha_mismatch"]

(* The checkpoints are recorded in their order, as far as it matters here.  *)
Marks(t) ==
  /\ "push_done" \in t.implement => {"agent_done", "commit_done"} \subseteq t.implement
  /\ "head_sha_persisted" \in t.implement =>
       {"push_done", "pr_created"} \subseteq t.implement /\ t.head # 0
  /\ "push_done" \in t.fix => {"rebase_done", "commit_done"} \subseteq t.fix
  /\ "head_sha_persisted" \in t.fix => "push_done" \in t.fix

(* A step that is due is not recorded, and those before it are.  *)
LEMMA DueFacts ==
  ASSUME NEW done
  PROVE  /\ \A step : FirstMissing(step, ImplementOrder, done) \/ FirstMissing(step, FixOrder, done)
                        => step \notin done
         /\ FirstMissing("push_done", ImplementOrder, done) => {"agent_done", "commit_done"} \subseteq done
         /\ FirstMissing("pr_created", ImplementOrder, done) => "push_done" \in done
         /\ FirstMissing("head_sha_persisted", ImplementOrder, done)
              => {"push_done", "pr_created"} \subseteq done
         /\ FirstMissing("after_sha", ImplementOrder, done)
              => {"push_done", "head_sha_persisted"} \subseteq done
         /\ FirstMissing("push_done", FixOrder, done) => {"rebase_done", "commit_done"} \subseteq done
         /\ FirstMissing("head_sha_persisted", FixOrder, done) => "push_done" \in done
         /\ FirstMissing("after_sha", FixOrder, done)
              => {"push_done", "head_sha_persisted"} \subseteq done
<1>1. /\ DOMAIN ImplementOrder = 1 .. 7
      /\ ImplementOrder[1] = "before_sha" /\ ImplementOrder[2] = "agent_done"
      /\ ImplementOrder[3] = "commit_done" /\ ImplementOrder[4] = "push_done"
      /\ ImplementOrder[5] = "pr_created" /\ ImplementOrder[6] = "head_sha_persisted"
      /\ ImplementOrder[7] = "after_sha"
  BY DEF ImplementOrder
<1>2. /\ DOMAIN FixOrder = 1 .. 7
      /\ FixOrder[1] = "before_sha" /\ FixOrder[2] = "rebase_done"
      /\ FixOrder[3] = "agent_done" /\ FixOrder[4] = "commit_done"
      /\ FixOrder[5] = "push_done" /\ FixOrder[6] = "head_sha_persisted"
      /\ FixOrder[7] = "after_sha"
  BY DEF FixOrder
<1>3. \A step : FirstMissing(step, ImplementOrder, done) \/ FirstMissing(step, FixOrder, done)
                  => step \notin done
  BY DEF FirstMissing
<1>4. /\ FirstMissing("push_done", ImplementOrder, done) => {"agent_done", "commit_done"} \subseteq done
      /\ FirstMissing("pr_created", ImplementOrder, done) => "push_done" \in done
      /\ FirstMissing("head_sha_persisted", ImplementOrder, done)
           => {"push_done", "pr_created"} \subseteq done
      /\ FirstMissing("after_sha", ImplementOrder, done)
           => {"push_done", "head_sha_persisted"} \subseteq done
  BY <1>1 DEF FirstMissing
<1>5. /\ FirstMissing("push_done", FixOrder, done) => {"rebase_done", "commit_done"} \subseteq done
      /\ FirstMissing("head_sha_persisted", FixOrder, done) => "push_done" \in done
      /\ FirstMissing("after_sha", FixOrder, done)
           => {"push_done", "head_sha_persisted"} \subseteq done
  BY <1>2 DEF FirstMissing
<1> QED
  BY <1>3, <1>4, <1>5

-----------------------------------------------------------------------------
(* Every step makes one of these moves, or leaves the two copies as they are,
   each of them possibly in the place of the other.  *)

CopiesMove ==
  \/ mem' \in {mem, disk} /\ disk' \in {mem, disk}
  \/ disk' = disk /\ TaskMove(mem, mem', View')
  \/ disk' \in {disk, mem'} /\ CommandMove(disk, mem')

(* What a workflow returns or records.  *)
LEMMA MoveMade ==
  ASSUME NEW u, NEW label, Record(u, label) \/ Return(u) \/ Continue(u, label),
         u = mem \/ TaskMove(mem, u, View')
  PROVE  CopiesMove
  BY DEF Record, Return, Continue, CopiesMove

LEMMA CodesKnown ==
  /\ {"rate_limited", "other", "plan_max", "pre_pr_active_orphan", "rebase_conflict",
      "ci_timeout", "merge_sha_mismatch", "branch_protection", "manual_merge_required",
      "merge_timeout", "branch_delete_failed", "worktree_remove_failed"}
       \subseteq FailureCodes \ {"none", "retry_cleanup_failed"}
  /\ "other" \notin Unconfirmed
  /\ {"planning", "implementing", "reviewing", "fixing", "ci_waiting", "merging"}
       \subseteq Active \ {"cleaning", "queued", "planned"}
  /\ {"planning", "implementing", "reviewing", "fixing", "ci_waiting", "merging", "cleaning"}
       \subseteq Active
  BY DEF FailureCodes, Unconfirmed, Active

(* The stops of the workflows.  *)
LEMMA StopsMade ==
  /\ mem.state \in {"planning", "implementing", "reviewing", "fixing", "ci_waiting", "merging"} =>
       \A code \in {"rate_limited", "other", "pre_pr_active_orphan", "rebase_conflict",
                    "ci_timeout", "merge_sha_mismatch", "branch_protection",
                    "manual_merge_required", "merge_timeout"} :
         TaskMove(mem, Pause(mem, code), View')
  /\ mem.state = "cleaning" =>
       \A code \in Unconfirmed : TaskMove(mem, Pause(mem, code), View')
  /\ mem.state \in {"planning", "reviewing", "fixing", "ci_waiting", "merging"} =>
       \A code \in {"other", "plan_max", "ci_timeout"} :
         TaskMove(mem, Fail(mem, code), View')
  /\ mem.state = "implementing" /\ "push_done" \notin mem.implement =>
       TaskMove(mem, Fail(mem, "other"), View')
  BY CodesKnown DEF TaskMove, StopMove, Unconfirmed

LEMMA PlanningMoves ==
  ASSUME IInv, PlanningStep
  PROVE  CopiesMove
<1>1. Fits(mem, pc)
  BY DEF IInv, WorkerInv
<1>2. \A u : PlanMove(mem, u) => TaskMove(mem, u, View')
  BY DEF TaskMove
<1>3. ASSUME PlanEnter PROVE CopiesMove
  BY <1>2, <1>3, MoveMade DEF PlanEnter, PlanMove
<1>4. ASSUME At("plan") \/ At("plan_agent") PROVE mem.state = "planning"
  BY <1>1, <1>4 DEF At, Fits
<1>5. PlanPhaseStart \/ PlanWrite => CopiesMove
  BY MoveMade DEF PlanPhaseStart, PlanWrite
<1>6. PlannerWrites \/ VerifierAccepts \/ VerifierRejects => CopiesMove
  BY <1>2, <1>4, MoveMade DEF PlannerWrites, VerifierAccepts, VerifierRejects, PlanMove
<1>7. PlanAgentStops \/ PlanLoopExhausted => CopiesMove
  BY <1>4, StopsMade, MoveMade DEF PlanAgentStops, PlanLoopExhausted
<1> QED
  BY <1>3, <1>5, <1>6, <1>7 DEF PlanningStep

LEMMA ImplementMoves ==
  ASSUME IInv, Marks(mem), ImplementStep
  PROVE  CopiesMove
<1>1. Fits(mem, pc) /\ RepositoryTypeOK
  BY DEF IInv, WorkerInv
<1>2. \A u : ImplementMove(mem, u, View') => TaskMove(mem, u, View')
  BY DEF TaskMove
<1>3. ASSUME NEW step, DueImplement(step)
      PROVE  /\ mem.state = "implementing" /\ ImplementDue(mem, step)
             /\ FirstMissing(step, ImplementOrder, mem.implement)
  BY <1>1, <1>3 DEF DueImplement, ImplementDue, At, Fits
<1>4. Throw => CopiesMove
  BY DEF Throw, CopiesMove
<1>5. ImplementEnter => CopiesMove
  BY <1>2, <1>4, MoveMade DEF ImplementEnter, ImplementMove
<1>6. ImplementAgentEdits => CopiesMove
  BY DEF ImplementAgentEdits, workerVars, CopiesMove
<1>7. ImplementAgentDone => CopiesMove
  BY <1>2, <1>3, MoveMade DEF ImplementAgentDone, ImplementMove
<1>8. ImplementAgentStops => CopiesMove
  <2> SUFFICES ASSUME ImplementAgentStops PROVE CopiesMove
    OBVIOUS
  <2>1. /\ mem.state = "implementing" /\ AgentStops
        /\ FirstMissing("agent_done", ImplementOrder, mem.implement)
    BY <1>3 DEF ImplementAgentStops
  <2>2. "push_done" \notin mem.implement
    BY <2>1, DueFacts DEF Marks
  <2> QED
    BY <2>1, <2>2, StopsMade, MoveMade DEF AgentStops
<1>9. ImplementCommit => CopiesMove
  BY <1>2, <1>3, <1>4, MoveMade DEF ImplementCommit, ImplementMove
<1>10. ImplementPush => CopiesMove
  <2>1. CASE Record(MarkImplement(mem, "push_done"), "implement") /\ Repo(PushBranch) /\ DueImplement("push_done")
    <3>1. View'.remote = View'.local /\ View'.remote # 0
      BY <2>1 DEF Repo, PushBranch, MayPush, View
    <3> QED
      BY <1>2, <1>3, <2>1, <3>1, DueFacts, MoveMade DEF ImplementMove
  <2> QED
    BY <1>4, <2>1 DEF ImplementPush
<1>11. ImplementPr => CopiesMove
  <2> SUFFICES ASSUME ImplementPr PROVE CopiesMove
    OBVIOUS
  <2> DEFINE t == [MarkImplement(mem, "pr_created") EXCEPT !.pr = TRUE]
  <2>1. /\ mem.state = "implementing" /\ ImplementDue(mem, "pr_created")
        /\ "push_done" \in mem.implement
    BY <1>3, DueFacts DEF ImplementPr
  <2>2. CASE prState = "NONE" /\ Record(t, "implement") /\ Repo(CreateDraft)
    <3>1. View'.state = "DRAFT"
      BY <2>2 DEF Repo, CreateDraft, View
    <3> QED
      BY <1>2, <2>1, <2>2, <3>1, MoveMade DEF ImplementMove
  <2>3. CASE prState \in Unmerged /\ Record([t EXCEPT !.head = prSha], "implement") /\ NoEffect
    <3>1. View'.state # "NONE" /\ View'.sha = prSha
      BY <2>3 DEF NoEffect, repoVars, prVars, View, Unmerged
    <3> QED
      BY <1>2, <2>1, <2>3, <3>1, MoveMade DEF ImplementMove
  <2>4. CASE Return(Pause(mem, "pre_pr_active_orphan"))
    BY <2>1, <2>4, StopsMade, MoveMade
  <2> QED
    BY <2>2, <2>3, <2>4 DEF ImplementPr
<1>12. ImplementHead => CopiesMove
  <2>1. ASSUME ImplementHead PROVE View'.sha = prSha
    BY <2>1 DEF ImplementHead, NoEffect, repoVars, prVars, View
  <2> QED
    BY <1>2, <1>3, <2>1, DueFacts, MoveMade DEF ImplementHead, ImplementMove
<1>13. ImplementReady => CopiesMove
  <2>1. CASE /\ DueImplement("after_sha")
             /\ Record(PrReady(mem, mem.head), "loop") /\ Repo(MarkReady)
    <3>1. View'.state \in Unmerged
      BY <2>1 DEF Repo, MarkReady, View, Unmerged
    <3> QED
      BY <1>2, <1>3, <2>1, <3>1, DueFacts, MoveMade DEF ImplementMove
  <2> QED
    BY <1>4, <2>1 DEF ImplementReady
<1> QED
  BY <1>5, <1>6, <1>7, <1>8, <1>9, <1>10, <1>11, <1>12, <1>13 DEF ImplementStep

LEMMA ReviewMoves ==
  ASSUME IInv, ReviewStep
  PROVE  CopiesMove
<1>1. Fits(mem, pc)
  BY DEF IInv, WorkerInv
<1>2. \A u : ReviewMove(mem, u, View') => TaskMove(mem, u, View')
  BY DEF TaskMove
<1>3. ASSUME At("review") \/ At("supervise") PROVE mem.state = "reviewing"
  BY <1>1, <1>3 DEF At, Fits
<1>4. ReviewEnter => CopiesMove
  BY StopsMade, MoveMade DEF ReviewEnter
<1>5. ReviewClean \/ SuperviseRejectsAll => CopiesMove
  <2>1. reviewed' = local /\ UNCHANGED repoVars => View'.reviewed = View'.local
    BY DEF View, repoVars, gitVars
  <2> QED
    BY <1>2, <1>3, <2>1, MoveMade DEF ReviewClean, SuperviseRejectsAll, ReviewMove
<1>6. ReviewFinds \/ SuperviseAccepts => CopiesMove
  BY <1>2, <1>3, MoveMade DEF ReviewFinds, SuperviseAccepts, ReviewMove
<1>7. ReviewerStops => CopiesMove
  BY <1>3, StopsMade, MoveMade DEF ReviewerStops, AgentStops
<1> QED
  BY <1>4, <1>5, <1>6, <1>7 DEF ReviewStep

LEMMA FixMoves ==
  ASSUME IInv, FixStep
  PROVE  CopiesMove
<1>1. Fits(mem, pc)
  BY DEF IInv, WorkerInv
<1>2. \A u : FixMove(mem, u, View') => TaskMove(mem, u, View')
  BY DEF TaskMove
<1>3. ASSUME NEW step, DueFix(step)
      PROVE  /\ mem.state = "fixing" /\ FixDue(mem, step)
             /\ FirstMissing(step, FixOrder, mem.fix)
  BY <1>1, <1>3 DEF DueFix, FixDue, At, Fits
<1>4. Throw => CopiesMove
  BY DEF Throw, CopiesMove
<1>5. FixEnter => CopiesMove
  BY MoveMade DEF FixEnter
<1>6. FixAgentEdits => CopiesMove
  BY DEF FixAgentEdits, workerVars, CopiesMove
<1>7. FixBefore \/ FixAgentDone => CopiesMove
  BY <1>2, <1>3, MoveMade DEF FixBefore, FixAgentDone, FixMove
<1>8. FixRebase => CopiesMove
  BY <1>2, <1>3, StopsMade, MoveMade DEF FixRebase, FixMove
<1>9. FixAgentStops => CopiesMove
  BY <1>3, StopsMade, MoveMade DEF FixAgentStops, AgentStops
<1>10. FixCommit => CopiesMove
  BY <1>2, <1>3, <1>4, MoveMade DEF FixCommit, FixMove
<1>11. FixPush => CopiesMove
  <2>1. CASE Record(MarkFix(mem, "push_done"), "fix") /\ Repo(PushBranch) /\ DueFix("push_done")
    <3>1. View'.remote = View'.local
      BY <2>1 DEF Repo, PushBranch, View
    <3> QED
      BY <1>2, <1>3, <2>1, <3>1, DueFacts, MoveMade DEF FixMove
  <2> QED
    BY <1>4, <2>1 DEF FixPush
<1>12. FixHead => CopiesMove
  <2>1. ASSUME FixHead PROVE View'.sha = prSha
    BY <2>1 DEF FixHead, NoEffect, repoVars, prVars, View
  <2> QED
    BY <1>2, <1>3, <2>1, DueFacts, MoveMade DEF FixHead, FixMove
<1>13. FixDone => CopiesMove
  BY <1>2, <1>3, DueFacts, MoveMade DEF FixDone, FixMove
<1> QED
  BY <1>5, <1>6, <1>7, <1>8, <1>9, <1>10, <1>11, <1>12, <1>13 DEF FixStep

LEMMA MergingMoves ==
  ASSUME IInv, MergingStep
  PROVE  CopiesMove
<1>1. Fits(mem, pc) /\ mem \in Task
  BY DEF IInv, WorkerInv, WorkerTypeOK
<1>2. \A u : MergeMove(mem, u) => TaskMove(mem, u, View')
  BY DEF TaskMove
<1>3. /\ At("ci") \/ At("reserve") \/ At("reserved") => mem.state = "ci_waiting"
      /\ At("merge") => mem.state = "merging"
      /\ At("clean") \/ At("force_remove") => mem.state = "cleaning"
  BY <1>1 DEF At, Fits
<1>4. Throw => CopiesMove
  BY DEF Throw, CopiesMove
<1>5. CiStep => CopiesMove
  <2>1. CiEnter \/ CiHeadMismatch \/ CiBlocked \/ CiPassed => CopiesMove
    BY <1>3, StopsMade, MoveMade DEF CiEnter, CiHeadMismatch, CiBlocked, CiPassed
  <2>2. CiTimesOut => CopiesMove
    BY <1>3, StopsMade, MoveMade DEF CiTimesOut, CiTimeout
  <2>3. CiChecksFail => CopiesMove
    BY <1>2, <1>3, MoveMade DEF CiChecksFail, MergeMove
  <2>4. CiReserve => CopiesMove
    BY <1>4, MoveMade DEF CiReserve
  <2>5. CiRecheck => CopiesMove
    BY <1>2, <1>3, StopsMade, MoveMade DEF CiRecheck, MergeMove
  <2> QED
    BY <2>1, <2>2, <2>3, <2>4, <2>5 DEF CiStep
<1>6. MergeStep => CopiesMove
  <2>1. MergeEnter \/ Barrier => CopiesMove
    BY MoveMade DEF MergeEnter, Barrier
  <2>2. MergeTimesOut \/ MergeSeesClosed \/ MergeBlocked => CopiesMove
    BY <1>3, StopsMade, MoveMade DEF MergeTimesOut, MergeSeesClosed, MergeBlocked, StopMerge
  <2>3. MergeSeesMerged => CopiesMove
    BY <1>2, <1>3, StopsMade, MoveMade DEF MergeSeesMerged, StopMerge, PrMerged, MergeMove
  <2> QED
    BY <2>1, <2>2, <2>3 DEF MergeStep
<1>7. CleanStep => CopiesMove
  <2>1. CleanEnter => CopiesMove
    BY MoveMade DEF CleanEnter
  <2>2. CleanGrace \/ CleanBranch => CopiesMove
    BY <1>2, <1>3, StopsMade, MoveMade DEF CleanGrace, CleanBranch, MergeMove, CleaningSteps, Unconfirmed
  <2>3. CleanWorktree => CopiesMove
    <3>1. (IF mem.removeTries < RemoveMax THEN mem.removeTries + 1 ELSE RemoveMax) \in Nat
      BY <1>1, MergingAssumption DEF Task
    <3> QED
      BY <1>2, <1>3, <3>1, MoveMade DEF CleanWorktree, MergeMove
  <2>4. CleanForce \/ CleanDone => CopiesMove
    BY <1>2, <1>3, StopsMade, MoveMade DEF CleanForce, CleanDone, MergeMove, Unconfirmed
  <2> QED
    BY <2>1, <2>2, <2>3, <2>4 DEF CleanStep
<1> QED
  BY <1>5, <1>6, <1>7 DEF MergingStep

LEMMA RetryMoves ==
  ASSUME IInv, RetryStep
  PROVE  CopiesMove
<1>1. Fits(mem, pc) /\ WorkerInv
  BY DEF IInv, WorkerInv
<1>2. \A u : RetryMove(mem, u, View') => TaskMove(mem, u, View')
  BY DEF TaskMove
<1>3. At("retry") => mem.retrying
  BY <1>1 DEF At, Fits
<1>4. ASSUME At("retry"), NEW step \in RetrySteps, step \notin mem.retry, RetryFails
      PROVE  CopiesMove
  BY <1>2, <1>3, <1>4, MoveMade DEF RetryFails, RetryMove
<1>5. {"pr_closed", "worktree_removed", "branch_deleted"} \subseteq RetrySteps
  BY DEF RetrySteps
<1>6. RetryClosePr => CopiesMove
  <2> SUFFICES ASSUME RetryClosePr PROVE CopiesMove
    OBVIOUS
  <2>1. At("retry") /\ "pr_closed" \notin mem.retry
    BY DEF RetryClosePr, DueRetry
  <2>2. CASE (~mem.pr \/ prState = "CLOSED") /\ Record(MarkRetry(mem, "pr_closed"), "retry") /\ Unchanged
    <3>1. View'.state = prState
      BY <2>2 DEF Unchanged, repoVars, prVars, View
    <3> QED
      BY <1>2, <1>3, <2>1, <2>2, <3>1, MoveMade DEF RetryMove, Unmerged
  <2>3. CASE Record(MarkRetry(mem, "pr_closed"), "retry") /\ ClosePullRequest
    <3>1. View'.state = "CLOSED"
      BY <2>3 DEF ClosePullRequest, View
    <3> QED
      BY <1>2, <1>3, <2>1, <2>3, <3>1, MoveMade DEF RetryMove, Unmerged
  <2> QED
    BY <1>4, <1>5, <2>1, <2>2, <2>3 DEF RetryClosePr
<1>7. RetryWorktree => CopiesMove
  <2> SUFFICES ASSUME RetryWorktree PROVE CopiesMove
    OBVIOUS
  <2>1. At("retry") /\ "worktree_removed" \notin mem.retry /\ "pr_closed" \in mem.retry
    BY DEF RetryWorktree, DueRetry
  <2>2. RemoveWorktree => View'.tree = 0
    BY DEF RemoveWorktree, View, Tree
  <2> QED
    BY <1>2, <1>3, <1>4, <1>5, <2>1, <2>2, MoveMade DEF RetryWorktree, RetryMove
<1>8. RetryBranch => CopiesMove
  <2> SUFFICES ASSUME RetryBranch PROVE CopiesMove
    OBVIOUS
  <2>1. /\ At("retry") /\ "branch_deleted" \notin mem.retry
        /\ {"pr_closed", "worktree_removed"} \subseteq mem.retry
    BY DEF RetryBranch, DueRetry
  <2>2. DeleteLocalBranch => View'.local = 0
    BY DEF DeleteLocalBranch, View
  <2> QED
    BY <1>2, <1>3, <1>4, <1>5, <2>1, <2>2, MoveMade DEF RetryBranch, RetryMove
<1>9. RetryClear \/ RetryQueue => CopiesMove
  BY <1>2, <1>3, MoveMade DEF RetryClear, RetryQueue, RetryMove, DueRetry, Queued
<1> QED
  BY <1>6, <1>7, <1>8, <1>9 DEF RetryStep

LEMMA CommandMoves ==
  ASSUME IInv, RunAgain \/ ResumeAgain \/ RepairStep
  PROVE  CopiesMove
<1>1. Good(disk, prState, prSha)
  BY DEF IInv, WorkerInv
<1>2. RunAgain => CopiesMove
  BY DEF RunAgain, Begin, Continue, CopiesMove
<1>3. ResumeAgain => CopiesMove
  BY DEF ResumeAgain, Resume, CopiesMove, CommandMove
<1>4. RetryStart => CopiesMove
  BY DEF RetryStart, Continue, CopiesMove, CommandMove
<1>5. ForceDetach => CopiesMove
  <2>1. disk.state = "cleaning" /\ ~disk.retrying => prState = "MERGED" /\ prSha = disk.head
    BY <1>1 DEF Good, Confirmed, InCleanup
  <2> QED
    BY <2>1 DEF ForceDetach, ForceDetachCandidate, CopiesMove, CommandMove
<1> QED
  BY <1>2, <1>3, <1>4, <1>5 DEF RepairStep

LEMMA EveryMove ==
  ASSUME IInv, Marks(mem), [Next]_vars
  PROVE  CopiesMove
<1>1. UNCHANGED workerVars => CopiesMove
  BY DEF workerVars, CopiesMove
<1>2. Save \/ Stop \/ Crash => CopiesMove
  BY DEF Save, Stop, Crash, Continue, CopiesMove
<1>3. ProcessStep => CopiesMove
  BY <1>2, PlanningMoves, ImplementMoves, ReviewMoves, FixMoves, MergingMoves, RetryMoves
  DEF ProcessStep, DeliveryStep
<1> QED
  BY <1>1, <1>2, <1>3, CommandMoves DEF Next, vars, CrashStep, SurroundingsStep
-----------------------------------------------------------------------------
(* The first invariant of a copy, whatever the faults.  *)

(* Where a task is, or goes on when it is resumed.  *)
Place(t) == IF t.state = "paused" THEN t.prev ELSE t.state

AfterPr == BeforeMerge \cup {"cleaning"}

PhasesAt ==
  [planning |-> {"plan", "plan_verify", "plan_fix"}, implementing |-> {"implement"},
   reviewing |-> {"review", "supervise"}, fixing |-> {"fix"}, ci_waiting |-> {"ci_wait"},
   merging |-> {"merge"}, cleaning |-> {"none"}]

(* What the guards of the workflows ask for is there, in the state the task is
   in and in the one it was paused in.  *)
PhaseOf(t) ==
  ~t.retrying =>
    /\ Place(t) \in DOMAIN PhasesAt => t.phase \in PhasesAt[Place(t)]
    /\ Place(t) \in AfterPr \cup {"implementing"} => t.named
    /\ Place(t) \in BeforeMerge => t.head # 0
    /\ Place(t) = "planned" => t.phase = "none" /\ t.verified

(* The failures that a forced detach looks for are those of the cleanup.  *)
DetachOf(t) == t.state = "paused" /\ t.failure \in Unconfirmed => t.prev = "cleaning"

(* A pull request is there once it was created, and a branch once pushed.  *)
PrSeen(t, v) ==
  /\ "push_done" \in t.implement /\ v.state = "NONE" => v.remote # 0
  /\ "pr_created" \in t.implement => v.state # "NONE"
  /\ t.state \in AfterPr \/ t.prev \in AfterPr => v.state # "NONE"

PrHasHead(v) == v.state # "NONE" => v.sha # 0

CopyOK(t, v) == Marks(t) /\ PhaseOf(t) /\ DetachOf(t) /\ PrSeen(t, v)

LEMMA PlacesKnown ==
  /\ DOMAIN PhasesAt = {"planning", "implementing", "reviewing", "fixing", "ci_waiting",
                        "merging", "cleaning"}
  /\ PhasesAt["planning"] = {"plan", "plan_verify", "plan_fix"}
  /\ PhasesAt["implementing"] = {"implement"} /\ PhasesAt["reviewing"] = {"review", "supervise"}
  /\ PhasesAt["fixing"] = {"fix"} /\ PhasesAt["ci_waiting"] = {"ci_wait"}
  /\ PhasesAt["merging"] = {"merge"} /\ PhasesAt["cleaning"] = {"none"}
  BY DEF PhasesAt

(* Stops.  *)
LEMMA StopKeepsCopy ==
  ASSUME NEW t \in Task, NEW u, NEW v, CopyOK(t, v), StopMove(t, u)
  PROVE  CopyOK(u, v)
<1>1. PICK code \in FailureCodes \ {"none", "retry_cleanup_failed"} :
        \/ /\ t.state \in Active
           /\ code \in Unconfirmed => t.state = "cleaning"
           /\ u = Pause(t, code)
        \/ /\ t.state \in Active \ {"cleaning", "queued", "planned"}
           /\ u = Fail(t, code)
  BY DEF StopMove
<1>2. CASE t.state \in Active /\ u = Pause(t, code) /\ (code \in Unconfirmed => t.state = "cleaning")
  <2>1. u = [t EXCEPT !.state = "paused", !.failure = code, !.prev = t.state]
    BY <1>2 DEF Pause, Active
  <2>2. /\ u.state = "paused" /\ u.failure = code /\ u.prev = t.state /\ u.phase = t.phase
        /\ u.named = t.named /\ u.head = t.head /\ u.implement = t.implement /\ u.fix = t.fix
        /\ u.retrying = t.retrying /\ u.verified = t.verified
    BY <2>1 DEF Task
  <2>3. Place(u) = Place(t)
    BY <1>2, <2>2 DEF Place, Active
  <2>4. Marks(u) /\ DetachOf(u) /\ PrSeen(u, v)
    BY <1>2, <2>2 DEF CopyOK, Marks, DetachOf, PrSeen, AfterPr, BeforeMerge
  <2>5. PhaseOf(u)
    BY <2>2, <2>3 DEF CopyOK, PhaseOf
  <2> QED
    BY <2>4, <2>5 DEF CopyOK
<1>3. CASE u = Fail(t, code)
  <2>1. /\ u.state = "failed" /\ u.prev = t.prev
        /\ u.implement = t.implement /\ u.fix = t.fix /\ u.head = t.head /\ u.retrying = t.retrying
    BY <1>3 DEF Task, Fail
  <2> QED
    BY <2>1, PlacesKnown
    DEF CopyOK, Marks, DetachOf, PrSeen, PhaseOf, Place, AfterPr, BeforeMerge
<1> QED
  BY <1>1, <1>2, <1>3

LEMMA PlanKeepsCopy ==
  ASSUME NEW t \in Task, NEW u, NEW v, CopyOK(t, v), PlanMove(t, u)
  PROVE  CopyOK(u, v)
<1> USE DEF CopyOK, Marks, DetachOf, PrSeen, PhaseOf, Place, AfterPr, BeforeMerge
<1>1. CASE t.state = "queued" /\ u = RunStarted(t)
  <2>1. /\ u.state = "planning" /\ u.phase = "plan" /\ u.prev = t.prev
        /\ u.implement = t.implement /\ u.fix = t.fix /\ u.head = t.head /\ u.retrying = t.retrying
    BY <1>1 DEF Task, RunStarted, Enter
  <2> QED
    BY <2>1, PlacesKnown
<1>2. CASE t.state = "planning" /\ u \in {PlanCompleted(t), PlanFixCompleted(t)}
  <2>1. /\ u.state = "planning" /\ u.phase = "plan_verify" /\ u.prev = t.prev
        /\ u.implement = t.implement /\ u.fix = t.fix /\ u.head = t.head /\ u.retrying = t.retrying
    BY <1>2 DEF Task, PlanCompleted, PlanFixCompleted, Enter
  <2> QED
    BY <2>1, PlacesKnown
<1>3. CASE u = PlanVerifyAccepted(t)
  <2>1. /\ u.state = "planned" /\ u.prev = t.prev /\ u.phase = "none" /\ u.verified
        /\ u.implement = t.implement /\ u.fix = t.fix /\ u.head = t.head /\ u.retrying = t.retrying
    BY <1>3 DEF Task, PlanVerifyAccepted, Enter
  <2> QED
    BY <2>1, PlacesKnown
<1>4. CASE t.state = "planning" /\ u = PlanVerifyRejected(t)
  <2>1. /\ u.state \in {"failed", "planning"} /\ u.prev = t.prev
        /\ u.state = "planning" => u.phase = "plan_fix"
        /\ u.implement = t.implement /\ u.fix = t.fix /\ u.head = t.head /\ u.retrying = t.retrying
    BY <1>4 DEF Task, PlanVerifyRejected, Enter, Fail
  <2> QED
    BY <2>1, PlacesKnown
<1> QED
  BY <1>1, <1>2, <1>3, <1>4 DEF PlanMove

LEMMA ImplementKeepsCopy ==
  ASSUME NEW t \in Task, NEW u, NEW v, CopyOK(t, v), PrHasHead(v), ImplementMove(t, u, v)
  PROVE  CopyOK(u, v)
<1>1. CASE t.state = "planned" /\ t.named /\ u = ImplementStarted(t)
  <2>1. /\ u.state = "implementing" /\ u.phase = "implement" /\ u.prev = t.prev
        /\ u.named = t.named /\ u.head = t.head
        /\ u.implement = t.implement \cup {"before_sha"} /\ u.fix = t.fix
        /\ u.retrying = t.retrying
    BY <1>1 DEF Task, ImplementStarted, Enter
  <2> QED
    BY <1>1, <2>1, PlacesKnown
    DEF CopyOK, Marks, DetachOf, PrSeen, PhaseOf, Place, AfterPr, BeforeMerge
<1>2. ASSUME t.state = "implementing", NEW step, NEW head, NEW pr,
             u.state = "implementing", u.phase = t.phase, u.prev = t.prev,
             u.named = t.named, u.head = head, u.implement = t.implement \cup {step},
             u.fix = t.fix, u.retrying = t.retrying,
             step = "push_done" => {"agent_done", "commit_done"} \subseteq t.implement /\ v.remote # 0,
             step = "pr_created" => v.state # "NONE",
             step = "head_sha_persisted" => {"push_done", "pr_created"} \subseteq t.implement,
             \/ head = t.head /\ step # "head_sha_persisted"
             \/ v.state # "NONE" /\ head = v.sha
      PROVE  CopyOK(u, v)
  BY <1>2, PlacesKnown
  DEF CopyOK, Marks, DetachOf, PrSeen, PhaseOf, Place, AfterPr, BeforeMerge, PrHasHead
<1>3. ASSUME t.state = "implementing", NEW step \in {"agent_done", "commit_done"},
             u = MarkImplement(t, step)
      PROVE  CopyOK(u, v)
  BY <1>2, <1>3 DEF Task, MarkImplement
<1>4. CASE /\ t.state = "implementing" /\ {"agent_done", "commit_done"} \subseteq t.implement
           /\ v.remote # 0 /\ u = MarkImplement(t, "push_done")
  BY <1>2, <1>4 DEF Task, MarkImplement
<1>5. CASE /\ t.state = "implementing" /\ v.state # "NONE"
           /\ u = [MarkImplement(t, "pr_created") EXCEPT !.pr = TRUE]
  BY <1>2, <1>5 DEF Task, MarkImplement
<1>6. CASE /\ t.state = "implementing" /\ v.state # "NONE"
           /\ u = [[MarkImplement(t, "pr_created") EXCEPT !.pr = TRUE] EXCEPT !.head = v.sha]
  BY <1>2, <1>6 DEF Task, MarkImplement
<1>7. CASE /\ t.state = "implementing" /\ {"push_done", "pr_created"} \subseteq t.implement
           /\ u = [MarkImplement(t, "head_sha_persisted") EXCEPT !.head = v.sha]
  <2>1. v.state # "NONE"
    BY <1>7 DEF CopyOK, PrSeen
  <2> QED
    BY <1>2, <1>7, <2>1 DEF Task, MarkImplement
<1>8. CASE /\ t.state = "implementing" /\ {"push_done", "head_sha_persisted"} \subseteq t.implement
           /\ v.state \in Unmerged /\ u = PrReady(t, t.head)
  <2>1. /\ u.state = "reviewing" /\ u.phase = "review" /\ u.prev = t.prev
        /\ u.named = t.named /\ u.head = t.head
        /\ u.implement = t.implement \cup {"after_sha"} /\ u.fix = t.fix
        /\ u.retrying = t.retrying
    BY <1>8 DEF Task, PrReady, Enter
  <2>2. v.state # "NONE"
    BY <1>8 DEF Unmerged
  <2> QED
    BY <1>8, <2>1, <2>2, PlacesKnown
    DEF CopyOK, Marks, DetachOf, PrSeen, PhaseOf, Place, AfterPr, BeforeMerge
<1> QED
  BY <1>1, <1>3, <1>4, <1>5, <1>6, <1>7, <1>8 DEF ImplementMove

LEMMA ReviewKeepsCopy ==
  ASSUME NEW t \in Task, NEW u, NEW v, CopyOK(t, v), ReviewMove(t, u, v)
  PROVE  CopyOK(u, v)
<1> USE DEF CopyOK, Marks, DetachOf, PrSeen, PhaseOf, Place, AfterPr, BeforeMerge
<1>1. t.state = "reviewing"
  BY DEF ReviewMove
<1>2. CASE u = ReviewCompleted(t)
  <2>1. /\ u.state = "reviewing" /\ u.phase = "supervise" /\ u.prev = t.prev
        /\ u.named = t.named /\ u.head = t.head
        /\ u.implement = t.implement /\ u.fix = t.fix /\ u.retrying = t.retrying
    BY <1>1, <1>2 DEF Task, ReviewCompleted, Enter
  <2> QED
    BY <1>1, <2>1, PlacesKnown
<1>3. CASE u = SuperviseAccept(t)
  <2>1. /\ \/ u.state = "failed" /\ u.fix = t.fix
           \/ u.state = "fixing" /\ u.phase = "fix" /\ u.fix = {}
        /\ u.prev = t.prev /\ u.named = t.named /\ u.head = t.head
        /\ u.implement = t.implement /\ u.retrying = t.retrying
    BY <1>3 DEF Task, SuperviseAccept, Enter, Fail
  <2> QED
    BY <1>1, <2>1, PlacesKnown
<1>4. CASE u \in {SuperviseClean(t), SuperviseClean(ReviewCompleted(t))}
  <2>1. /\ u.state = "ci_waiting" /\ u.phase = "ci_wait" /\ u.prev = t.prev
        /\ u.named = t.named /\ u.head = t.head
        /\ u.implement = t.implement /\ u.fix = t.fix /\ u.retrying = t.retrying
    BY <1>4 DEF Task, SuperviseClean, ReviewCompleted, Enter
  <2> QED
    BY <1>1, <2>1, PlacesKnown
<1> QED
  BY <1>2, <1>3, <1>4 DEF ReviewMove

LEMMA FixKeepsCopy ==
  ASSUME NEW t \in Task, NEW u, NEW v, CopyOK(t, v), PrHasHead(v), FixMove(t, u, v)
  PROVE  CopyOK(u, v)
<1>1. t.state = "fixing" /\ v.state # "NONE" /\ v.sha # 0
  BY DEF FixMove, CopyOK, PrSeen, AfterPr, BeforeMerge, PrHasHead
<1>2. ASSUME NEW step, NEW head,
             u.state = "fixing", u.phase = t.phase, u.prev = t.prev,
             u.named = t.named, u.head = head, u.implement = t.implement,
             u.fix = t.fix \cup {step}, u.retrying = t.retrying,
             step = "push_done" => {"rebase_done", "commit_done"} \subseteq t.fix,
             step = "head_sha_persisted" => "push_done" \in t.fix,
             head \in {t.head, v.sha}
      PROVE  CopyOK(u, v)
  BY <1>1, <1>2, PlacesKnown
  DEF CopyOK, Marks, DetachOf, PrSeen, PhaseOf, Place, AfterPr, BeforeMerge
<1>3. ASSUME NEW step \in {"before_sha", "rebase_done", "agent_done", "commit_done"},
             u = MarkFix(t, step)
      PROVE  CopyOK(u, v)
  BY <1>1, <1>2, <1>3 DEF Task, MarkFix
<1>4. CASE {"rebase_done", "commit_done"} \subseteq t.fix /\ u = MarkFix(t, "push_done")
  BY <1>1, <1>2, <1>4 DEF Task, MarkFix
<1>5. CASE "push_done" \in t.fix /\ u = [MarkFix(t, "head_sha_persisted") EXCEPT !.head = v.sha]
  BY <1>1, <1>2, <1>5 DEF Task, MarkFix
<1>6. CASE u = FixPushed(MarkFix(t, "after_sha"))
  <2>1. /\ u.state = "reviewing" /\ u.phase = "review" /\ u.prev = t.prev
        /\ u.named = t.named /\ u.head = t.head
        /\ u.implement = t.implement /\ u.fix = t.fix \cup {"after_sha"}
        /\ u.retrying = t.retrying
    BY <1>6 DEF Task, FixPushed, MarkFix, Enter
  <2> QED
    BY <1>1, <2>1, PlacesKnown
    DEF CopyOK, Marks, DetachOf, PrSeen, PhaseOf, Place, AfterPr, BeforeMerge
<1> QED
  BY <1>3, <1>4, <1>5, <1>6 DEF FixMove

LEMMA MergeKeepsCopy ==
  ASSUME NEW t \in Task, NEW u, NEW v, CopyOK(t, v), MergeMove(t, u)
  PROVE  CopyOK(u, v)
<1> USE DEF CopyOK, Marks, DetachOf, PrSeen, PhaseOf, Place, AfterPr, BeforeMerge
<1>1. CASE t.state = "ci_waiting" /\ u = CiFailed(t)
  <2>1. /\ \/ u.state = "failed" /\ u.fix = t.fix
           \/ u.state = "fixing" /\ u.phase = "fix" /\ u.fix = {}
        /\ u.prev = t.prev /\ u.named = t.named /\ u.head = t.head
        /\ u.implement = t.implement /\ u.retrying = t.retrying
    BY <1>1 DEF Task, CiFailed, Enter, Fail
  <2> QED
    BY <1>1, <2>1, PlacesKnown
<1>2. CASE t.state = "ci_waiting" /\ u = AutoMergeReserved(t)
  <2>1. /\ u.state = "merging" /\ u.phase = "merge" /\ u.prev = t.prev
        /\ u.named = t.named /\ u.head = t.head
        /\ u.implement = t.implement /\ u.fix = t.fix /\ u.retrying = t.retrying
    BY <1>2 DEF Task, AutoMergeReserved, Enter
  <2> QED
    BY <1>2, <2>1, PlacesKnown
<1>3. CASE t.state = "merging" /\ u = Enter(t, "cleaning", "none")
  <2>1. /\ u.state = "cleaning" /\ u.phase = "none" /\ u.prev = t.prev
        /\ u.named = t.named /\ u.head = t.head
        /\ u.implement = t.implement /\ u.fix = t.fix /\ u.retrying = t.retrying
    BY <1>3 DEF Task, Enter
  <2> QED
    BY <1>3, <2>1, PlacesKnown
<1>4. CASE /\ t.state = "cleaning"
           /\ \/ \E step \in CleaningSteps : u = MarkCleaning(t, step)
              \/ u = WorktreeRemoved(t)
              \/ \E n \in Nat : u = [t EXCEPT !.removeTries = n]
  <2>1. /\ u.state = t.state /\ u.phase = t.phase /\ u.prev = t.prev
        /\ u.named = t.named /\ u.head = t.head
        /\ u.implement = t.implement /\ u.fix = t.fix /\ u.retrying = t.retrying
    BY <1>4 DEF Task, MarkCleaning, WorktreeRemoved
  <2> QED
    BY <1>4, <2>1, PlacesKnown
<1>5. CASE u = CleaningCompleted(t)
  <2>1. /\ u.state = "merged" /\ u.prev = t.prev /\ u.head = t.head
        /\ u.implement = t.implement /\ u.fix = t.fix /\ u.retrying = t.retrying
    BY <1>5 DEF Task, CleaningCompleted, Enter
  <2> QED
    BY <2>1, PlacesKnown
<1> QED
  BY <1>1, <1>2, <1>3, <1>4, <1>5 DEF MergeMove

(* A retry asks for nothing but the order of the checkpoints, and forgets them
   together with the head and the pull request.  *)
LEMMA RetryKeepsCopy ==
  ASSUME NEW t \in Task, NEW u, NEW v, CopyOK(t, v), RetryMove(t, u, v)
  PROVE  CopyOK(u, v)
<1> USE DEF CopyOK, Marks, DetachOf, PrSeen, PhaseOf, Place, AfterPr, BeforeMerge
<1>1. t.retrying
  BY DEF RetryMove
<1>2. ASSUME NEW step, u = MarkRetry(t, step) PROVE CopyOK(u, v)
  <2>1. /\ u.state = t.state /\ u.failure = t.failure /\ u.prev = t.prev /\ u.head = t.head
        /\ u.implement = t.implement /\ u.fix = t.fix /\ u.retrying = t.retrying
    BY <1>2 DEF Task, MarkRetry
  <2> QED
    BY <1>1, <2>1
<1>3. ASSUME u = MarkRetry(ClearRetryFields(t), "fields_cleared") PROVE CopyOK(u, v)
  <2>1. /\ u.state = t.state /\ u.failure = "none" /\ u.prev = "none" /\ u.head = 0
        /\ u.implement = {} /\ u.fix = {} /\ u.retrying = t.retrying
    BY <1>3 DEF Task, MarkRetry, ClearRetryFields
  <2>2. "none" \notin Unconfirmed
    BY DEF Unconfirmed
  <2> QED
    BY <1>1, <2>1, <2>2
<1>4. ASSUME u = Queued(t) PROVE CopyOK(u, v)
  <2>1. /\ u.state = "queued" /\ u.prev = t.prev /\ u.head = t.head
        /\ u.implement = t.implement /\ u.fix = t.fix
    BY <1>4 DEF Task, Queued
  <2> QED
    BY <2>1, PlacesKnown
<1>5. ASSUME u = Pause(t, "retry_cleanup_failed") PROVE CopyOK(u, v)
  <2>1. /\ u.head = t.head /\ u.implement = t.implement /\ u.fix = t.fix
        /\ u.retrying = t.retrying
        /\ u = t \/ (/\ u.failure = "retry_cleanup_failed" /\ u.state = "paused"
                     /\ u.prev = IF t.state \in Active THEN t.state ELSE t.prev)
    BY <1>5 DEF Task, Pause
  <2>2. "retry_cleanup_failed" \notin Unconfirmed
    BY DEF Unconfirmed
  <2> QED
    BY <1>1, <2>1, <2>2
<1> QED
  BY <1>2, <1>3, <1>4, <1>5 DEF RetryMove

LEMMA CommandKeepsCopy ==
  ASSUME NEW t \in Task, NEW u, NEW v, CopyOK(t, v), CommandMove(t, u)
  PROVE  CopyOK(u, v)
<1> USE DEF CopyOK, Marks, DetachOf, PrSeen, PhaseOf, AfterPr, BeforeMerge
<1>1. CASE Resumable(t) /\ u = ResumeTask(t)
  <2>1. /\ u.state = (IF t.prev = "none" THEN t.state ELSE t.prev)
        /\ u.failure = "none" /\ u.prev = t.prev /\ u.phase = t.phase
        /\ u.named = t.named /\ u.head = t.head
        /\ u.implement = t.implement /\ u.fix = t.fix /\ u.retrying = t.retrying
        /\ u.verified = t.verified
    BY <1>1 DEF Task, ResumeTask
  <2>2. t.state = "paused" /\ t.prev # "paused" /\ "none" \notin Unconfirmed
    BY <1>1 DEF Resumable, Task, Active, Unconfirmed
  <2>3. Place(u) = Place(t)
    BY <2>1, <2>2 DEF Place
  <2> QED
    BY <2>1, <2>2, <2>3
<1>2. CASE u = [t EXCEPT !.retrying = TRUE]
  <2>1. /\ u.state = t.state /\ u.failure = t.failure /\ u.prev = t.prev /\ u.head = t.head
        /\ u.implement = t.implement /\ u.fix = t.fix /\ u.retrying
    BY <1>2 DEF Task
  <2> QED
    BY <2>1
<1>3. CASE u = Detached(t)
  <2>1. /\ u.state = "merged" /\ u.prev = t.prev /\ u.head = t.head
        /\ u.implement = t.implement /\ u.fix = t.fix
    BY <1>3 DEF Task, Detached, Enter
  <2> QED
    BY <2>1, PlacesKnown DEF Place
<1>4. CASE /\ t.state = "paused" \/ t.retrying
           /\ u = [t EXCEPT !.state = "paused", !.failure = "merge_sha_mismatch"]
  <2>1. /\ u.state = "paused" /\ u.failure = "merge_sha_mismatch" /\ u.prev = t.prev
        /\ u.phase = t.phase /\ u.named = t.named /\ u.head = t.head
        /\ u.implement = t.implement /\ u.fix = t.fix /\ u.retrying = t.retrying
        /\ u.verified = t.verified
    BY <1>4 DEF Task
  <2>2. "merge_sha_mismatch" \notin Unconfirmed
    BY DEF Unconfirmed
  <2> QED
    BY <1>4, <2>1, <2>2 DEF Place
<1> QED
  BY <1>1, <1>2, <1>3, <1>4 DEF CommandMove

(* Every move keeps a copy in order, against the repository it leaves.  *)
LEMMA MovesKeepCopy ==
  ASSUME NEW t \in Task, NEW u, NEW v, CopyOK(t, v), PrHasHead(v)
  PROVE  /\ TaskMove(t, u, v) => CopyOK(u, v)
         /\ CommandMove(t, u) => CopyOK(u, v)
  BY StopKeepsCopy, PlanKeepsCopy, ImplementKeepsCopy, ReviewKeepsCopy, FixKeepsCopy,
     MergeKeepsCopy, RetryKeepsCopy, CommandKeepsCopy
  DEF TaskMove

-----------------------------------------------------------------------------
(* What a step does to the repository, as a copy of the task sees it.  *)

(* Two views agree, apart from these fields.  *)
Same(v, w, fields) ==
  /\ w.state = v.state \/ "state" \in fields
  /\ w.sha = v.sha \/ "sha" \in fields
  /\ w.local = v.local \/ "local" \in fields
  /\ w.remote = v.remote \/ "remote" \in fields
  /\ w.tree = v.tree \/ "tree" \in fields
  /\ w.reviewed = v.reviewed \/ "reviewed" \in fields
  /\ w.own = v.own \/ "own" \in fields

(* A workflow changes it in the state it works on, before the step is
   recorded.  *)
WorkMove(t, v, w) ==
  \/ /\ (t.state \in {"planned", "implementing"} /\ t.named) \/ t.state = "fixing"
     /\ Same(v, w, {"tree", "local", "own"})
     /\ w.tree = 1 /\ w.local = IF v.local = 0 THEN 1 ELSE v.local
     /\ w.own = v.own \/ (w.own = 1 => v.remote = 0)
  \/ /\ \/ t.state = "implementing" /\ "commit_done" \notin t.implement
        \/ t.state = "fixing" /\ ~({"rebase_done", "commit_done"} \subseteq t.fix)
     /\ Same(v, w, {"local", "own"})
  \/ /\ \/ t.state = "implementing" /\ "push_done" \notin t.implement
        \/ t.state = "fixing" /\ "push_done" \notin t.fix
     /\ Same(v, w, {"remote", "sha"})
     /\ v.local # 0 /\ w.remote = v.local
     /\ w.sha = IF v.state \in Unmerged THEN v.local ELSE v.sha
  \/ /\ t.state = "implementing" /\ "push_done" \in t.implement
     /\ Same(v, w, {"state", "sha"})
     /\ v.state = "NONE" /\ w.state = "DRAFT" /\ w.sha = v.remote
  \/ Same(v, w, {"state"}) /\ v.state \in Unmerged /\ w.state = "OPEN"
  \/ Same(v, w, {"reviewed"}) /\ w.reviewed = v.local

(* The cleanup and a retry take away what was made.  *)
SweepMove(t, v, w) ==
  \/ t.state = "cleaning" /\ Same(v, w, {"remote", "own"}) /\ w.remote = 0
  \/ Same(v, w, {"tree"}) /\ w.tree = 0
  \/ /\ Same(v, w, {"state", "remote", "own"})
     /\ v.state \in Unmerged /\ w.state = "CLOSED" /\ w.remote = 0
  \/ /\ t.retrying \/ RetryTarget(t)
     /\ Same(v, w, {"local"}) /\ w.local = 0

(* Somebody pushes, merges or closes.  *)
OutsideMove(v, w) ==
  /\ v.state \in Unmerged
  /\ \/ /\ Same(v, w, {"remote", "sha", "own"})
        /\ w.remote # 0 /\ w.sha = w.remote /\ w.own = 0
     \/ Same(v, w, {"state"}) /\ w.state \in {"MERGED", "CLOSED"}

ViewMove(t, v, w) ==
  Same(v, w, {}) \/ WorkMove(t, v, w) \/ SweepMove(t, v, w) \/ OutsideMove(v, w)

(* Outside a workflow that has something to write, and in a retry that has
   nothing written yet, the copy of the process is the one on disk.  *)
Synced ==
  /\ pc \in {"idle", "loop", "implement", "review", "supervise", "fix", "ci", "reserve",
             "reserved", "merge", "clean", "force_remove"} /\ ~dirty => mem = disk
  /\ pc = "retry" /\ ~dirty => mem = [disk EXCEPT !.retrying = TRUE]
  /\ pc = "retry" => disk.retrying \/ RetryTarget(disk)

LEMMA FlagsKept == (UNCHANGED worktree => Tree' = Tree) /\ (UNCHANGED ff => Own' = Own)
<1>1. UNCHANGED worktree => Tree' = Tree
  BY DEF Tree
<1>2. UNCHANGED ff => Own' = Own
  BY DEF Own
<1> QED
  BY <1>1, <1>2

LEMMA FlagsSet ==
  /\ worktree' = TRUE => Tree' = 1
  /\ worktree' = FALSE => Tree' = 0
  /\ ff' = TRUE => Own' = 1
  /\ "human_push" \in Faults /\ ff' = FALSE => Own' = 0
<1>1. (worktree' = TRUE => Tree' = 1) /\ (worktree' = FALSE => Tree' = 0)
  BY DEF Tree
<1>2. (ff' = TRUE => Own' = 1) /\ ("human_push" \in Faults /\ ff' = FALSE => Own' = 0)
  BY DEF Own
<1> QED
  BY <1>1, <1>2

LEMMA EffectFlags ==
  /\ UNCHANGED repoVars \/ UNCHANGED gitVars \/ EditFiles \/ CommitEdits \/ PushBranch
     \/ CreateDraft \/ MarkReady \/ Disarm \/ DeleteLocalBranch \/ BaseMoves
     \/ (\E state : EndPullRequest(state)) \/ StopTakesEffect
       => Tree' = Tree /\ Own' = Own
  /\ AddWorktree => Tree' = 1 /\ (Own' = Own \/ (Own' = 1 => remote = 0))
  /\ RebaseBranch => Tree' = Tree
  /\ DeleteRemote \/ ClosePullRequest => Tree' = Tree /\ Own' = 1
  /\ RemoveWorktree => Tree' = 0 /\ Own' = Own
  /\ HumanPush => Tree' = Tree /\ Own' = 0
<1>1. /\ UNCHANGED repoVars \/ UNCHANGED gitVars => UNCHANGED worktree /\ UNCHANGED ff
      /\ EditFiles \/ CommitEdits \/ PushBranch => UNCHANGED worktree /\ UNCHANGED ff
      /\ CreateDraft \/ MarkReady \/ Disarm => UNCHANGED worktree /\ UNCHANGED ff
      /\ DeleteLocalBranch \/ BaseMoves \/ StopTakesEffect => UNCHANGED worktree /\ UNCHANGED ff
  BY DEF repoVars, gitVars, EditFiles, CommitEdits, PushBranch, CreateDraft, MarkReady,
         Disarm, DeleteLocalBranch, BaseMoves, StopTakesEffect
<1>2. \A state : EndPullRequest(state) => UNCHANGED worktree /\ UNCHANGED ff
  BY DEF EndPullRequest, gitVars
<1>3. AddWorktree => worktree' = TRUE /\ (UNCHANGED ff \/ ff' = (remote = 0))
  BY DEF AddWorktree
<1>4. RebaseBranch => UNCHANGED worktree
  BY DEF RebaseBranch, repoVars, gitVars
<1>5. DeleteRemote \/ ClosePullRequest => UNCHANGED worktree /\ ff' = TRUE
  BY DEF DeleteRemote, ClosePullRequest
<1>6. RemoveWorktree => worktree' = FALSE /\ UNCHANGED ff
  BY DEF RemoveWorktree
<1>7. HumanPush => UNCHANGED worktree /\ ff' = FALSE /\ "human_push" \in Faults
  BY DEF HumanPush
<1>8. UNCHANGED worktree /\ UNCHANGED ff => Tree' = Tree /\ Own' = Own
  BY FlagsKept
<1>9. /\ UNCHANGED repoVars \/ UNCHANGED gitVars \/ EditFiles \/ CommitEdits \/ PushBranch
         \/ CreateDraft \/ MarkReady \/ Disarm \/ DeleteLocalBranch \/ BaseMoves
         \/ (\E state : EndPullRequest(state)) \/ StopTakesEffect
           => Tree' = Tree /\ Own' = Own
  BY <1>1, <1>2, <1>8
<1>10. ff' = (remote = 0) => Own' = Own \/ (Own' = 1 => remote = 0)
  BY DEF Own
<1>11. AddWorktree => Tree' = 1 /\ (Own' = Own \/ (Own' = 1 => remote = 0))
  BY <1>3, <1>10, FlagsKept, FlagsSet
<1> QED
  BY <1>4, <1>5, <1>6, <1>7, <1>9, <1>11, FlagsKept, FlagsSet

(* The fields of the view, now and after a step.  *)
LEMMA Fields ==
  /\ View.state = prState /\ View.sha = prSha /\ View.local = local /\ View.remote = remote
  /\ View.tree = Tree /\ View.reviewed = reviewed /\ View.own = Own
  /\ View'.state = prState' /\ View'.sha = prSha' /\ View'.local = local'
  /\ View'.remote = remote' /\ View'.tree = Tree' /\ View'.reviewed = reviewed'
  /\ View'.own = Own'
  BY DEF View

(* The effects of the workflows.  *)
LEMMA ViewEffects ==
  /\ UNCHANGED repoVars \/ Disarm => UNCHANGED <<prState, prSha, local, remote>> /\ Tree' = Tree /\ Own' = Own
  /\ AddWorktree =>
       /\ UNCHANGED <<prState, prSha, remote>> /\ Tree' = 1
       /\ Own' = Own \/ (Own' = 1 => remote = 0)
       /\ local' = IF local = 0 THEN 1 ELSE local
  /\ EditFiles => UNCHANGED <<prState, prSha, local, remote>> /\ Tree' = Tree /\ Own' = Own
  /\ CommitEdits \/ RebaseBranch => UNCHANGED <<prState, prSha, remote>> /\ Tree' = Tree
  /\ PushBranch =>
       /\ UNCHANGED <<prState, local>> /\ Tree' = Tree /\ Own' = Own
       /\ local # 0 /\ remote' = local
       /\ prSha' = IF prState \in Unmerged THEN local ELSE prSha
  /\ CreateDraft =>
       /\ UNCHANGED <<local, remote>> /\ Tree' = Tree /\ Own' = Own
       /\ prState' = "DRAFT" /\ prSha' = remote
  /\ MarkReady =>
       /\ UNCHANGED <<prSha, local, remote>> /\ Tree' = Tree /\ Own' = Own
       /\ prState \in Unmerged /\ prState' = "OPEN"
<1>1. UNCHANGED repoVars \/ Disarm => UNCHANGED <<prState, prSha, local, remote>>
  BY DEF Disarm, repoVars, gitVars, prVars
<1>2. AddWorktree => /\ UNCHANGED <<prState, prSha, remote>>
                     /\ local' = IF local = 0 THEN 1 ELSE local
  BY DEF AddWorktree, prVars
<1>3. EditFiles => UNCHANGED <<prState, prSha, local, remote>>
  BY DEF EditFiles, prVars
<1>4. CommitEdits \/ RebaseBranch => UNCHANGED <<prState, prSha, remote>>
  BY DEF CommitEdits, RebaseBranch, repoVars, gitVars, prVars
<1>5. PushBranch =>
        /\ UNCHANGED <<prState, local>> /\ local # 0 /\ remote' = local
        /\ prSha' = IF prState \in Unmerged THEN local ELSE prSha
  BY DEF PushBranch, MayPush
<1>6. CreateDraft => UNCHANGED <<local, remote>> /\ prState' = "DRAFT" /\ prSha' = remote
  BY DEF CreateDraft, gitVars
<1>7. MarkReady =>
        UNCHANGED <<prSha, local, remote>> /\ prState \in Unmerged /\ prState' = "OPEN"
  BY DEF MarkReady, gitVars
<1>8. /\ UNCHANGED repoVars \/ Disarm \/ EditFiles \/ PushBranch \/ CreateDraft \/ MarkReady
           => Tree' = Tree /\ Own' = Own
      /\ AddWorktree => Tree' = 1 /\ (Own' = Own \/ (Own' = 1 => remote = 0))
      /\ CommitEdits \/ RebaseBranch => Tree' = Tree
  BY EffectFlags
<1> QED
  BY <1>1, <1>2, <1>3, <1>4, <1>5, <1>6, <1>7, <1>8

(* The effects of the cleanup and of a retry, and what others do.  *)
LEMMA ViewSweeps ==
  /\ DeleteRemote => UNCHANGED <<prState, prSha, local>> /\ Tree' = Tree /\ remote' = 0
  /\ RemoveWorktree => UNCHANGED <<prState, prSha, local, remote>> /\ Own' = Own /\ Tree' = 0
  /\ ClosePullRequest =>
       UNCHANGED <<prSha, local>> /\ Tree' = Tree /\ prState' = "CLOSED" /\ remote' = 0
  /\ DeleteLocalBranch =>
       UNCHANGED <<prState, prSha, remote>> /\ Tree' = Tree /\ Own' = Own /\ local' = 0
<1>1. DeleteRemote => UNCHANGED <<prState, prSha, local>> /\ remote' = 0
  BY DEF DeleteRemote, prVars
<1>2. RemoveWorktree => UNCHANGED <<prState, prSha, local, remote>>
  BY DEF RemoveWorktree, prVars
<1>3. ClosePullRequest => UNCHANGED <<prSha, local>> /\ prState' = "CLOSED" /\ remote' = 0
  BY DEF ClosePullRequest
<1>4. DeleteLocalBranch => UNCHANGED <<prState, prSha, remote>> /\ local' = 0
  BY DEF DeleteLocalBranch, prVars
<1>5. /\ DeleteRemote \/ ClosePullRequest => Tree' = Tree
      /\ RemoveWorktree => Tree' = 0 /\ Own' = Own
      /\ DeleteLocalBranch => Tree' = Tree /\ Own' = Own
  BY EffectFlags
<1> QED
  BY <1>1, <1>2, <1>3, <1>4, <1>5

LEMMA ViewOutside ==
  ASSUME RepositoryTypeOK, UNCHANGED deliveryVars, RepositoryStep
  PROVE  Same(View, View', {}) \/ OutsideMove(View, View')
<1> USE Fields DEF deliveryVars
<1>1. CASE BaseMoves \/ StopTakesEffect
  <2>1. UNCHANGED <<prState, prSha, local, remote>>
    BY <1>1 DEF BaseMoves, StopTakesEffect, gitVars, prVars
  <2>2. Tree' = Tree /\ Own' = Own
    BY <1>1, EffectFlags
  <2> QED
    BY <2>1, <2>2 DEF Same
<1>2. CASE HumanPush
  <2>1. commits + 1 # 0
    BY DEF RepositoryTypeOK, CountsOK
  <2>2. /\ prState \in Unmerged /\ UNCHANGED <<prState, local>>
        /\ remote' = commits + 1 /\ prSha' = commits + 1
    BY <1>2 DEF HumanPush
  <2>3. Tree' = Tree /\ Own' = 0
    BY <1>2, EffectFlags
  <2> QED
    BY <2>1, <2>2, <2>3 DEF Same, OutsideMove
<1>3. ASSUME NEW state \in {"MERGED", "CLOSED"}, EndPullRequest(state), prState \in Unmerged
      PROVE  OutsideMove(View, View')
  <2>1. prState' = state /\ UNCHANGED <<prSha, local, remote>>
    BY <1>3 DEF EndPullRequest, gitVars
  <2>2. Tree' = Tree /\ Own' = Own
    BY <1>3, EffectFlags
  <2> QED
    BY <1>3, <2>1, <2>2 DEF Same, OutsideMove
<1>4. CASE HumanMerge \/ HumanClose \/ AutoMergeFires
  BY <1>3, <1>4 DEF HumanMerge, HumanClose, AutoMergeFires, Unmerged
<1> QED
  BY <1>1, <1>2, <1>4 DEF RepositoryStep

StepSeen == \A t \in {mem, disk} : ViewMove(t, View, View')

LEMMA QuietSeen ==
  /\ UNCHANGED <<repoVars, deliveryVars>> => Same(View, View', {})
  /\ Disarm /\ UNCHANGED deliveryVars => Same(View, View', {})
  /\ Same(View, View', {}) => StepSeen
<1>1. UNCHANGED repoVars \/ Disarm => UNCHANGED <<prState, prSha, local, remote>> /\ Tree' = Tree /\ Own' = Own
  BY ViewEffects
<1>2. UNCHANGED deliveryVars => UNCHANGED reviewed
  BY DEF deliveryVars
<1>3. (UNCHANGED repoVars \/ Disarm) /\ UNCHANGED deliveryVars => Same(View, View', {})
  BY <1>1, <1>2, Fields DEF Same
<1> QED
  BY <1>3 DEF StepSeen, ViewMove

(* The effects of the workflows on the repository, in the terms of the moves. *)
LEMMA WorkSeen ==
  ASSUME UNCHANGED deliveryVars
  PROVE  /\ ((mem.state \in {"planned", "implementing"} /\ mem.named) \/ mem.state = "fixing")
              /\ EnsureWorktree => Same(View, View', {}) \/ WorkMove(mem, View, View')
         /\ EditFiles => Same(View, View', {})
         /\ (\/ mem.state = "implementing" /\ "commit_done" \notin mem.implement
             \/ mem.state = "fixing" /\ ~({"rebase_done", "commit_done"} \subseteq mem.fix))
              /\ (CommitEdits \/ RebaseBranch) => WorkMove(mem, View, View')
         /\ (\/ mem.state = "implementing" /\ "push_done" \notin mem.implement
             \/ mem.state = "fixing" /\ "push_done" \notin mem.fix)
              /\ PushBranch => WorkMove(mem, View, View')
         /\ mem.state = "implementing" /\ "push_done" \in mem.implement /\ prState = "NONE"
              /\ CreateDraft => WorkMove(mem, View, View')
         /\ MarkReady => WorkMove(mem, View, View')
<1>0. UNCHANGED reviewed
  BY DEF deliveryVars
<1> USE <1>0, Fields DEF Same
<1>1. ASSUME (mem.state \in {"planned", "implementing"} /\ mem.named) \/ mem.state = "fixing",
             EnsureWorktree
      PROVE  Same(View, View', {}) \/ WorkMove(mem, View, View')
  BY <1>1, ViewEffects DEF EnsureWorktree, WorkMove
<1>2. EditFiles => Same(View, View', {})
  BY ViewEffects
<1>3. ASSUME \/ mem.state = "implementing" /\ "commit_done" \notin mem.implement
             \/ mem.state = "fixing" /\ ~({"rebase_done", "commit_done"} \subseteq mem.fix),
             CommitEdits \/ RebaseBranch
      PROVE  WorkMove(mem, View, View')
  BY <1>3, ViewEffects DEF WorkMove
<1>4. ASSUME \/ mem.state = "implementing" /\ "push_done" \notin mem.implement
             \/ mem.state = "fixing" /\ "push_done" \notin mem.fix,
             PushBranch
      PROVE  WorkMove(mem, View, View')
  BY <1>4, ViewEffects DEF WorkMove
<1>5. ASSUME mem.state = "implementing", "push_done" \in mem.implement,
             prState = "NONE", CreateDraft
      PROVE  WorkMove(mem, View, View')
  BY <1>5, ViewEffects DEF WorkMove
<1>6. MarkReady => WorkMove(mem, View, View')
  BY ViewEffects DEF WorkMove
<1> QED
  BY <1>1, <1>2, <1>3, <1>4, <1>5, <1>6

LEMMA ImplementSeen ==
  ASSUME IInv, Synced, ImplementStep
  PROVE  StepSeen
<1>1. Fits(mem, pc)
  BY DEF IInv, WorkerInv
<1>2. ASSUME NEW step, DueImplement(step)
      PROVE  /\ mem = disk /\ mem.state = "implementing" /\ step \notin mem.implement
             /\ step = "pr_created" => "push_done" \in mem.implement
  BY <1>1, <1>2, DueFacts DEF DueImplement, At, Fits, Synced
<1>3. mem = disk /\ WorkMove(mem, View, View') => StepSeen
  BY DEF StepSeen, ViewMove
<1>4. NoEffect \/ Repo(EditFiles) => StepSeen
  BY QuietSeen, WorkSeen DEF NoEffect, Repo
<1>5. ImplementEnter => StepSeen
  <2>1. ImplementEnter => mem = disk /\ mem.state \in {"planned", "implementing"}
    BY DEF ImplementEnter, At, Synced
  <2> QED
    BY <1>3, <1>4, <2>1, QuietSeen, WorkSeen DEF ImplementEnter, Repo
<1>6. ImplementAgentEdits \/ ImplementAgentDone \/ ImplementAgentStops \/ ImplementHead => StepSeen
  BY <1>4 DEF ImplementAgentEdits, ImplementAgentDone, ImplementAgentStops, ImplementHead
<1>7. ImplementCommit => StepSeen
  BY <1>2, <1>3, <1>4, WorkSeen DEF ImplementCommit, Repo
<1>8. ImplementPush => StepSeen
  BY <1>2, <1>3, <1>4, WorkSeen DEF ImplementPush, Repo
<1>9. ImplementPr => StepSeen
  BY <1>2, <1>3, <1>4, WorkSeen DEF ImplementPr, Repo
<1>10. ImplementReady => StepSeen
  BY <1>2, <1>3, <1>4, WorkSeen DEF ImplementReady, Repo
<1> QED
  BY <1>5, <1>6, <1>7, <1>8, <1>9, <1>10 DEF ImplementStep

LEMMA ReviewSeen ==
  ASSUME ReviewStep
  PROVE  StepSeen
<1>1. NoEffect => StepSeen
  BY QuietSeen DEF NoEffect
<1>2. reviewed' = local /\ UNCHANGED repoVars => StepSeen
  <2>1. UNCHANGED repoVars => UNCHANGED <<prState, prSha, local, remote>> /\ Tree' = Tree /\ Own' = Own
    BY ViewEffects
  <2>2. reviewed' = local /\ UNCHANGED repoVars => Same(View, View', {"reviewed"}) /\ View'.reviewed = View.local
    BY <2>1, Fields DEF Same
  <2> QED
    BY <2>2 DEF StepSeen, ViewMove, WorkMove
<1> QED
  BY <1>1, <1>2
  DEF ReviewStep, ReviewEnter, ReviewClean, ReviewFinds, SuperviseAccepts,
      SuperviseRejectsAll, ReviewerStops

LEMMA FixSeen ==
  ASSUME IInv, Marks(mem), Synced, FixStep
  PROVE  StepSeen
<1>1. Fits(mem, pc)
  BY DEF IInv, WorkerInv
<1>2. ASSUME NEW step, DueFix(step)
      PROVE  mem = disk /\ mem.state = "fixing" /\ step \notin mem.fix
  BY <1>1, <1>2, DueFacts DEF DueFix, At, Fits, Synced
<1>3. mem = disk /\ WorkMove(mem, View, View') => StepSeen
  BY DEF StepSeen, ViewMove
<1>4. NoEffect \/ Repo(EditFiles) => StepSeen
  BY QuietSeen, WorkSeen DEF NoEffect, Repo
<1>5. FixEnter => StepSeen
  <2>1. FixEnter => mem = disk /\ mem.state = "fixing"
    BY DEF FixEnter, At, Synced
  <2> QED
    BY <1>3, <1>4, <2>1, QuietSeen, WorkSeen DEF FixEnter, Repo
<1>6. FixBefore \/ FixAgentEdits \/ FixAgentDone \/ FixAgentStops \/ FixHead \/ FixDone => StepSeen
  BY <1>4 DEF FixBefore, FixAgentEdits, FixAgentDone, FixAgentStops, FixHead, FixDone
<1>7. FixRebase => StepSeen
  BY <1>2, <1>3, <1>4, WorkSeen DEF FixRebase, Repo
<1>8. FixCommit => StepSeen
  BY <1>2, <1>3, <1>4, WorkSeen DEF FixCommit, Repo
<1>9. FixPush => StepSeen
  BY <1>2, <1>3, <1>4, WorkSeen DEF FixPush, Repo
<1> QED
  BY <1>5, <1>6, <1>7, <1>8, <1>9 DEF FixStep

LEMMA MergingSeen ==
  ASSUME IInv, Synced, MergingStep, UNCHANGED deliveryVars
  PROVE  StepSeen
<1>1. Fits(mem, pc) /\ UNCHANGED reviewed
  BY DEF IInv, WorkerInv, deliveryVars
<1>2. Quiet \/ Disarm => StepSeen
  BY QuietSeen DEF Quiet
<1>3. ASSUME mem = disk, mem.state = "cleaning", DeleteRemote PROVE StepSeen
  BY <1>1, <1>3, Fields, ViewSweeps DEF StepSeen, ViewMove, SweepMove, Same
<1>4. RemoveWorktree => StepSeen
  BY <1>1, Fields, ViewSweeps DEF StepSeen, ViewMove, SweepMove, Same
<1>5. UNCHANGED <<gitVars, prState, prSha, prs>> => StepSeen
  <2>1. UNCHANGED gitVars => UNCHANGED <<local, remote>>
    BY DEF gitVars
  <2>2. UNCHANGED gitVars => Tree' = Tree /\ Own' = Own
    BY EffectFlags
  <2>3. UNCHANGED <<gitVars, prState, prSha, prs>> => Same(View, View', {})
    BY <1>1, <2>1, <2>2, Fields DEF Same
  <2> QED
    BY <2>3, QuietSeen
<1>6. CiStep => StepSeen
  BY <1>2, <1>5 DEF CiStep, CiEnter, CiTimesOut, CiChecksFail, CiHeadMismatch, CiBlocked,
       CiPassed, CiReserve, CiRecheck
<1>7. MergeStep => StepSeen
  BY <1>2 DEF MergeStep, MergeEnter, MergeTimesOut, MergeSeesMerged, MergeSeesClosed,
       MergeBlocked, Barrier, StopMerge
<1>8. At("clean") => mem = disk /\ mem.state = "cleaning"
  BY <1>1 DEF At, Synced, Fits
<1>9. CleanStep => StepSeen
  BY <1>2, <1>3, <1>4, <1>8 DEF CleanStep, CleanEnter, CleanGrace, CleanBranch, CleanWorktree,
       CleanForce, CleanDone
<1> QED
  BY <1>6, <1>7, <1>9 DEF MergingStep

LEMMA RetrySeen ==
  ASSUME IInv, Synced, RetryStep, UNCHANGED deliveryVars
  PROVE  StepSeen
<1>1. UNCHANGED reviewed
  BY DEF deliveryVars
<1>2. At("retry") => /\ mem.retrying
                     /\ disk.retrying \/ RetryTarget(disk)
  BY DEF IInv, WorkerInv, At, Fits, Synced
<1>3. Unchanged => StepSeen
  BY QuietSeen DEF Unchanged
<1>4. RemoveWorktree => StepSeen
  BY <1>1, Fields, ViewSweeps DEF StepSeen, ViewMove, SweepMove, Same
<1>5. prState \in Unmerged /\ ClosePullRequest => StepSeen
  BY <1>1, Fields, ViewSweeps DEF StepSeen, ViewMove, SweepMove, Same
<1>6. At("retry") /\ DeleteLocalBranch => StepSeen
  BY <1>1, <1>2, Fields, ViewSweeps DEF StepSeen, ViewMove, SweepMove, Same
<1> QED
  BY <1>3, <1>4, <1>5, <1>6
  DEF RetryStep, RetryClosePr, RetryWorktree, RetryBranch, RetryClear, RetryQueue, RetryFails, DueRetry

LEMMA EveryEffect ==
  ASSUME IInv, Marks(mem), Synced, [Next]_vars
  PROVE  StepSeen
<1>1. UNCHANGED <<repoVars, deliveryVars>> => StepSeen
  BY QuietSeen
<1>2. ProcessStep => StepSeen
  BY <1>1, ImplementSeen, ReviewSeen, FixSeen, MergingSeen, RetrySeen
  DEF ProcessStep, DeliveryStep
<1>3. SurroundingsStep => StepSeen
  BY ViewOutside, QuietSeen DEF SurroundingsStep, IInv, StepSeen, ViewMove
<1>4. RepairStep => StepSeen
  BY <1>1 DEF RepairStep, RetryStart, ForceDetach, Unchanged
<1> QED
  BY <1>1, <1>2, <1>3, <1>4 DEF Next, vars, RunAgain, ResumeAgain, CrashStep

-----------------------------------------------------------------------------
(* The copy of the process is the one on disk, step by step.  *)

LEMMA SyncedMoves ==
  ASSUME IInv, Synced
  PROVE  /\ \A t, label : Record(t, label) /\ label # "retry" => Synced'
         /\ \A t : Record(t, "retry") /\ pc = "retry" => Synced'
         /\ \A label : Continue(mem, label) /\ mem = disk /\ label # "retry" => Synced'
         /\ \A t, label : Continue(t, label) /\ label \in {"plan", "plan_agent", "plan_write", "barrier"}
              => Synced'
         /\ Throw => Synced'
         /\ UNCHANGED <<disk, mem, pc, dirty>> => Synced'
<1>1. /\ \A t, label : Record(t, label) /\ label # "retry" => Synced'
      /\ \A t : Record(t, "retry") /\ pc = "retry" => Synced'
  BY DEF Record, Synced, RetryTarget
<1>2. /\ \A label : Continue(mem, label) /\ mem = disk /\ label # "retry" => Synced'
      /\ \A t, label : Continue(t, label) /\ label \in {"plan", "plan_agent", "plan_write", "barrier"}
           => Synced'
  BY DEF Continue, Synced, RetryTarget
<1>3. Throw => Synced'
  BY DEF Throw, Synced, RetryTarget
<1>4. UNCHANGED <<disk, mem, pc, dirty>> => Synced'
  BY DEF Synced, RetryTarget
<1> QED
  BY <1>1, <1>2, <1>3, <1>4

LEMMA DeliverySynced ==
  ASSUME IInv, Synced, DeliveryStep
  PROVE  Synced'
<1> USE SyncedMoves
<1>1. /\ At("loop") \/ At("implement") \/ At("review") \/ At("fix") => mem = disk
      /\ \A step : DueImplement(step) \/ DueFix(step) => mem = disk
  BY DEF At, Synced, DueImplement, DueFix
<1>2. AgentStops => Synced'
  BY DEF AgentStops, Return
<1>3. UNCHANGED workerVars => Synced'
  BY DEF workerVars
<1>4. ImplementStep => Synced'
  BY <1>1, <1>2, <1>3
  DEF ImplementStep, ImplementEnter, ImplementAgentEdits, ImplementAgentDone,
      ImplementAgentStops, ImplementCommit, ImplementPush, ImplementPr,
      ImplementHead, ImplementReady, Return
<1>5. ReviewStep => Synced'
  BY <1>1, <1>2
  DEF ReviewStep, ReviewEnter, ReviewClean, ReviewFinds, SuperviseAccepts,
      SuperviseRejectsAll, ReviewerStops, Return
<1>6. FixStep => Synced'
  BY <1>1, <1>2, <1>3
  DEF FixStep, FixEnter, FixBefore, FixRebase, FixAgentEdits, FixAgentDone,
      FixAgentStops, FixCommit, FixPush, FixHead, FixDone, Return
<1> QED
  BY <1>4, <1>5, <1>6 DEF DeliveryStep

LEMMA MergingSynced ==
  ASSUME IInv, Synced, MergingStep
  PROVE  Synced'
<1> USE SyncedMoves
<1>1. At("loop") \/ At("ci") \/ At("reserve") \/ At("merge") \/ At("clean") => mem = disk
  BY DEF At, Synced
<1>2. CiStep => Synced'
  BY <1>1 DEF CiStep, CiEnter, CiTimesOut, CiChecksFail, CiHeadMismatch, CiBlocked,
       CiPassed, CiReserve, CiRecheck, Return
<1>3. MergeStep => Synced'
  BY <1>1 DEF MergeStep, MergeEnter, MergeTimesOut, MergeSeesMerged, MergeSeesClosed,
       MergeBlocked, Barrier, StopMerge, Return
<1>4. CleanStep => Synced'
  BY <1>1 DEF CleanStep, CleanEnter, CleanGrace, CleanBranch, CleanWorktree, CleanForce,
       CleanDone, Return
<1> QED
  BY <1>2, <1>3, <1>4 DEF MergingStep

LEMMA SyncedKept ==
  ASSUME IInv, Synced, [Next]_vars
  PROVE  Synced'
<1> USE SyncedMoves
<1>1. UNCHANGED workerVars => Synced'
  BY DEF workerVars
<1>2. Save => Synced'
  <2>1. CASE Save /\ pc = "retry"
    <3>1. mem \in Task /\ mem.retrying /\ mem.retrying \in BOOLEAN
      BY <2>1 DEF IInv, WorkerInv, WorkerTypeOK, Fits, Task
    <3>2. mem = [mem EXCEPT !.retrying = TRUE]
      BY <3>1 DEF Task
    <3>3. disk' = mem /\ mem' = mem /\ pc' = "retry" /\ ~dirty'
      BY <2>1 DEF Save
    <3> QED
      BY <3>1, <3>2, <3>3 DEF Synced
  <2>2. CASE Save /\ pc # "retry"
    BY <2>2 DEF Save, Synced
  <2> QED
    BY <2>1, <2>2
<1>3. Stop \/ Begin => Synced'
  BY DEF Stop, Begin, At, Continue, Synced
<1>4. PlanningStep => Synced'
  BY DEF PlanningStep, PlanEnter, PlanPhaseStart, PlannerWrites, VerifierAccepts,
         VerifierRejects, PlanAgentStops, PlanLoopExhausted, PlanWrite, Return
<1>5. RetryStep => Synced'
  BY DEF RetryStep, RetryClosePr, RetryWorktree, RetryBranch, RetryClear, RetryQueue,
         RetryFails, DueRetry, At
<1>6. ProcessStep => Synced'
  BY <1>2, <1>3, <1>4, <1>5, DeliverySynced, MergingSynced DEF ProcessStep
<1>7. Resume \/ ForceDetach => Synced'
  BY DEF Resume, ForceDetach, At, Synced
<1>8. RetryStart => Synced'
  BY DEF RetryStart, At, Continue, Synced, RetryTarget
<1>9. Crash => Synced'
  BY DEF Crash, Synced
<1> QED
  BY <1>1, <1>3, <1>6, <1>7, <1>8, <1>9
  DEF Next, RunAgain, ResumeAgain, RepairStep, CrashStep, SurroundingsStep, vars

-----------------------------------------------------------------------------
(* The first invariant of the copies, and what it gives.  *)

CopiesInv == Synced /\ PrHasHead(View) /\ CopyOK(mem, View) /\ CopyOK(disk, View)

(* What happens to the repository leaves a copy in order.  *)
LEMMA ViewKeepsCopy ==
  ASSUME NEW t, NEW v, NEW w, CopyOK(t, v), PrHasHead(v), ViewMove(t, v, w)
  PROVE  CopyOK(t, w) /\ PrHasHead(w)
<1> USE DEF CopyOK, PrSeen, PrHasHead, Same, Unmerged, AfterPr, BeforeMerge
<1>1. Same(v, w, {}) \/ SweepMove(t, v, w) \/ OutsideMove(v, w) => CopyOK(t, w) /\ PrHasHead(w)
  BY DEF SweepMove, OutsideMove
<1>2. WorkMove(t, v, w) => CopyOK(t, w) /\ PrHasHead(w)
  BY DEF WorkMove
<1> QED
  BY <1>1, <1>2 DEF ViewMove

LEMMA InitCopies == Init => CopiesInv
<1> SUFFICES ASSUME Init PROVE CopiesInv
  OBVIOUS
<1>1. mem = NewTask /\ disk = NewTask /\ prState = "NONE" /\ pc = "idle"
  BY DEF Init, WorkerInit, RepositoryInit
<1>2. View.state = "NONE"
  BY <1>1 DEF View
<1>3. CopyOK(NewTask, View)
  BY <1>2, PlacesKnown
  DEF NewTask, CopyOK, Marks, PhaseOf, DetachOf, PrSeen, Place, AfterPr, BeforeMerge
<1> QED
  BY <1>1, <1>2, <1>3 DEF CopiesInv, PrHasHead, Synced

LEMMA NextCopies == IInv /\ CopiesInv /\ [Next]_vars => CopiesInv'
<1> SUFFICES ASSUME IInv, CopiesInv, [Next]_vars PROVE CopiesInv'
  OBVIOUS
<1>1. mem \in Task /\ disk \in Task
  BY DEF IInv, WorkerInv, WorkerTypeOK
<1>2. Synced'
  BY SyncedKept DEF CopiesInv
<1>3. StepSeen /\ CopiesMove
  BY EveryEffect, EveryMove DEF CopiesInv, CopyOK
<1>4. CopyOK(mem, View') /\ CopyOK(disk, View') /\ PrHasHead(View')
  BY <1>3, ViewKeepsCopy DEF CopiesInv, StepSeen
<1>5. CopyOK(mem', View') /\ CopyOK(disk', View')
  BY <1>1, <1>3, <1>4, MovesKeepCopy DEF CopiesMove
<1> QED
  BY <1>2, <1>4, <1>5 DEF CopiesInv

LEMMA CopiesInvariance == Spec => [](IInv /\ CopiesInv)
<1>1. Init => IInv /\ CopiesInv
  BY InitIInv, InitCopies
<1>2. IInv /\ CopiesInv /\ [Next]_vars => IInv' /\ CopiesInv'
  BY NextIInv, NextCopies
<1> QED
  BY <1>1, <1>2, PTL DEF Spec

-----------------------------------------------------------------------------
(* The second invariant, of a task that is retried only when it has failed or
   a retry of it was not finished: no retry of a task that is named by its
   issue number and at work.  *)

(* A retry is of a failed task, or of one that an earlier retry has paused; it
   clears the entry when everything else is done, and begins with no pull
   request it does not know of.  *)
RetryShape(t) ==
  /\ t.retrying =>
       \/ t.state = "failed"
       \/ /\ t.state = "paused"
          /\ t.failure = "retry_cleanup_failed" \/ "fields_cleared" \in t.retry
  /\ t.failure = "retry_cleanup_failed" => t.retrying
  /\ t.retry # {} => t.retrying
  /\ t.prev # "planned"
  /\ "fields_cleared" \in t.retry =>
       /\ t.retry = RetrySteps /\ t.implement = {} /\ ~t.named /\ ~t.pr
       /\ t.failure = "none" /\ t.prev = "none"
  /\ Place(t) \in {"queued", "planning", "planned"} /\ ~t.retrying => t.implement = {}
  /\ t.state = "failed" \/ t.retrying => ("push_done" \in t.implement => t.pr)

(* What a retry has taken away is gone, and no pull request is forgotten.  *)
Swept(t, v) ==
  /\ v.state \in Unmerged => t.pr \/ "push_done" \in t.implement
  /\ ~t.named => v.tree = 0 /\ v.local = 0
  /\ "pr_closed" \in t.retry => v.state \notin Unmerged
  /\ "worktree_removed" \in t.retry => v.tree = 0
  /\ "branch_deleted" \in t.retry => v.local = 0

(* What the checkpoints and the states say of the branch, as long as nobody
   else has pushed to it.  *)
Claims(t, v) ==
  v.own = 1 /\ ~t.retrying /\ v.state \in {"NONE"} \cup Unmerged =>
    /\ Place(t) = "implementing" /\ "push_done" \in t.implement => v.remote = v.local
    /\ Place(t) = "implementing" /\ "head_sha_persisted" \in t.implement => t.head = v.sha
    /\ Place(t) = "fixing" /\ "push_done" \in t.fix => v.remote = v.local
    /\ Place(t) = "fixing" /\ "head_sha_persisted" \in t.fix => t.head = v.sha
    /\ Place(t) \in {"reviewing", "ci_waiting", "merging"} => v.remote = v.local /\ t.head = v.sha
    /\ Place(t) \in {"ci_waiting", "merging"} => v.reviewed = v.local

(* An unmerged pull request is at the head of its branch.  *)
Published(v) == v.state \in Unmerged => v.sha = v.remote /\ v.remote # 0

BranchOK(t, v) == RetryShape(t) /\ Swept(t, v) /\ Claims(t, v)

(* The facts about one copy and the repository that the lemmas start from.  *)
InOrder(t, v) ==
  CopyOK(t, v) /\ Good(t, v.state, v.sha) /\ BranchOK(t, v) /\ Published(v)

LEMMA ActiveIsNotRetried ==
  ASSUME NEW t \in Task, RetryShape(t), t.state \in Active
  PROVE  ~t.retrying /\ t.retry = {} /\ Place(t) = t.state
  BY DEF RetryShape, Active, Place

LEMMA ViewKeepsBranch ==
  ASSUME "explicit_retry" \notin Faults,
         NEW t \in Task, NEW v, NEW w, InOrder(t, v), ViewMove(t, v, w)
  PROVE  BranchOK(t, w) /\ Published(w)
<1>1. RetryShape(t)
  BY DEF InOrder, BranchOK
<1>2. CASE Same(v, w, {})
  BY <1>2 DEF Same, InOrder, BranchOK, Swept, Claims, Published
<1>3. CASE WorkMove(t, v, w)
  <2>1. ASSUME (t.state \in {"planned", "implementing"} /\ t.named) \/ t.state = "fixing",
               Same(v, w, {"tree", "local", "own"}),
               w.tree = 1, w.local = IF v.local = 0 THEN 1 ELSE v.local,
               w.own = v.own \/ (w.own = 1 => v.remote = 0)
        PROVE  BranchOK(t, w) /\ Published(w)
    <3>1. ~t.retrying /\ t.retry = {} /\ Place(t) = t.state
      BY <1>1, <2>1, ActiveIsNotRetried DEF Active
    <3>2. t.named
      BY <2>1, <3>1 DEF InOrder, CopyOK, PhaseOf, AfterPr, BeforeMerge
    <3>3. Published(w) /\ Swept(t, w)
      BY <2>1, <3>1, <3>2 DEF Same, InOrder, BranchOK, Swept, Published
    <3>4. Claims(t, w)
      <4>1. t.state = "fixing" => v.state # "NONE"
        BY DEF InOrder, CopyOK, PrSeen, AfterPr, BeforeMerge
      <4>2. "push_done" \in t.implement /\ v.state \in {"NONE"} \cup Unmerged => v.remote # 0
        BY DEF InOrder, CopyOK, PrSeen, Published
      <4>3. t.state = "fixing" /\ v.state \in {"NONE"} \cup Unmerged => v.remote # 0
        BY <4>1 DEF InOrder, Published
      <4>4. "head_sha_persisted" \in t.implement => "push_done" \in t.implement
        BY DEF InOrder, CopyOK, Marks
      <4>5. CASE w.own = v.own
        BY <2>1, <3>1, <4>2, <4>3, <4>5 DEF Same, InOrder, BranchOK, Claims
      <4>6. CASE w.own = 1 => v.remote = 0
        BY <2>1, <3>1, <4>2, <4>3, <4>4, <4>6 DEF Same, Claims
      <4> QED
        BY <2>1, <4>5, <4>6
    <3> QED
      BY <1>1, <3>3, <3>4 DEF BranchOK
  <2>2. ASSUME \/ t.state = "implementing" /\ "commit_done" \notin t.implement
               \/ t.state = "fixing" /\ ~({"rebase_done", "commit_done"} \subseteq t.fix),
               Same(v, w, {"local", "own"})
        PROVE  BranchOK(t, w) /\ Published(w)
    <3>1. ~t.retrying /\ t.retry = {} /\ Place(t) = t.state
      BY <1>1, <2>2, ActiveIsNotRetried DEF Active
    <3>2. t.named
      BY <2>2, <3>1 DEF InOrder, CopyOK, PhaseOf, AfterPr, BeforeMerge
    <3>3. /\ t.state = "implementing" =>
               "push_done" \notin t.implement /\ "head_sha_persisted" \notin t.implement
          /\ t.state = "fixing" => "push_done" \notin t.fix /\ "head_sha_persisted" \notin t.fix
      BY <2>2 DEF InOrder, CopyOK, Marks
    <3>4. Published(w) /\ Swept(t, w) /\ Claims(t, w)
      BY <2>2, <3>1, <3>2, <3>3 DEF Same, InOrder, BranchOK, Swept, Claims, Published
    <3> QED
      BY <1>1, <3>4 DEF BranchOK
  <2>3. ASSUME \/ t.state = "implementing" /\ "push_done" \notin t.implement
               \/ t.state = "fixing" /\ "push_done" \notin t.fix,
               Same(v, w, {"remote", "sha"}), v.local # 0, w.remote = v.local,
               w.sha = IF v.state \in Unmerged THEN v.local ELSE v.sha
        PROVE  BranchOK(t, w) /\ Published(w)
    <3>1. ~t.retrying /\ t.retry = {} /\ Place(t) = t.state
      BY <1>1, <2>3, ActiveIsNotRetried DEF Active
    <3>2. /\ t.state = "implementing" => "head_sha_persisted" \notin t.implement
          /\ t.state = "fixing" => "head_sha_persisted" \notin t.fix
      BY <2>3 DEF InOrder, CopyOK, Marks
    <3>3. Published(w) /\ Swept(t, w) /\ Claims(t, w)
      BY <2>3, <3>1, <3>2 DEF Same, InOrder, BranchOK, Swept, Claims, Published
    <3> QED
      BY <1>1, <3>3 DEF BranchOK
  <2>4. ASSUME t.state = "implementing", "push_done" \in t.implement,
               Same(v, w, {"state", "sha"}), v.state = "NONE", w.state = "DRAFT",
               w.sha = v.remote
        PROVE  BranchOK(t, w) /\ Published(w)
    <3>1. ~t.retrying /\ t.retry = {} /\ Place(t) = t.state
      BY <1>1, <2>4, ActiveIsNotRetried DEF Active
    <3>2. "head_sha_persisted" \notin t.implement /\ v.remote # 0
      BY <2>4 DEF InOrder, CopyOK, Marks, PrSeen
    <3>3. Published(w) /\ Swept(t, w) /\ Claims(t, w)
      BY <2>4, <3>1, <3>2 DEF Same, InOrder, BranchOK, Swept, Claims, Published
    <3> QED
      BY <1>1, <3>3 DEF BranchOK
  <2>5. ASSUME Same(v, w, {"state"}), v.state \in Unmerged, w.state = "OPEN"
        PROVE  BranchOK(t, w) /\ Published(w)
    BY <2>5 DEF Same, InOrder, BranchOK, Swept, Claims, Published, Unmerged
  <2>6. ASSUME Same(v, w, {"reviewed"}), w.reviewed = v.local
        PROVE  BranchOK(t, w) /\ Published(w)
    BY <2>6 DEF Same, InOrder, BranchOK, Swept, Claims, Published
  <2> QED
    BY <1>3, <2>1, <2>2, <2>3, <2>4, <2>5, <2>6 DEF WorkMove
<1>4. CASE SweepMove(t, v, w)
  <2>1. ASSUME t.state = "cleaning", Same(v, w, {"remote", "own"})
        PROVE  BranchOK(t, w) /\ Published(w)
    <3>1. ~t.retrying
      BY <1>1, <2>1, ActiveIsNotRetried DEF Active
    <3>2. v.state = "MERGED"
      BY <2>1, <3>1 DEF InOrder, Good, Confirmed, InCleanup
    <3> QED
      BY <2>1, <3>2 DEF Same, InOrder, BranchOK, Swept, Claims, Published, Unmerged
  <2>2. ASSUME Same(v, w, {"tree"}), w.tree = 0
        PROVE  BranchOK(t, w) /\ Published(w)
    BY <2>2 DEF Same, InOrder, BranchOK, Swept, Claims, Published
  <2>3. ASSUME Same(v, w, {"state", "remote", "own"}), w.state = "CLOSED"
        PROVE  BranchOK(t, w) /\ Published(w)
    BY <2>3 DEF Same, InOrder, BranchOK, Swept, Claims, Published, Unmerged
  <2>4. ASSUME t.retrying \/ RetryTarget(t), Same(v, w, {"local"}), w.local = 0
        PROVE  BranchOK(t, w) /\ Published(w)
    <3>1. t.retrying \/ t.state = "failed"
      BY <1>1, <2>4 DEF RetryTarget, RetryShape
    <3>2. Claims(t, w)
      BY <3>1 DEF Claims, Place
    <3> QED
      BY <2>4, <3>2 DEF Same, InOrder, BranchOK, Swept, Published
  <2> QED
    BY <1>4, <2>1, <2>2, <2>3, <2>4 DEF SweepMove
<1>5. CASE OutsideMove(v, w)
  BY <1>5 DEF OutsideMove, Same, InOrder, BranchOK, Swept, Claims, Published, Unmerged
<1> QED
  BY <1>2, <1>3, <1>4, <1>5 DEF ViewMove

-----------------------------------------------------------------------------
(* The moves keep the second invariant of a copy.  *)

LEMMA StopKeepsBranch ==
  ASSUME NEW t \in Task, NEW u, NEW v, InOrder(t, v), StopMove(t, u)
  PROVE  BranchOK(u, v)
<1>1. PICK code \in FailureCodes \ {"none", "retry_cleanup_failed"} :
        \/ t.state \in Active \ {"planned"} /\ u = Pause(t, code)
        \/ /\ t.state \in Active \ {"cleaning", "queued", "planned"}
           /\ t.state = "implementing" => "push_done" \notin t.implement
           /\ u = Fail(t, code)
  BY DEF StopMove
<1>2. ~t.retrying /\ t.retry = {} /\ Place(t) = t.state
  BY <1>1, ActiveIsNotRetried DEF InOrder, BranchOK
<1>3. CASE t.state \in Active \ {"planned"} /\ u = Pause(t, code)
  <2>1. u = [t EXCEPT !.state = "paused", !.failure = code, !.prev = t.state]
    BY <1>3 DEF Pause, Active
  <2>2. /\ u.state = "paused" /\ u.failure = code /\ u.prev = t.state /\ u.named = t.named
        /\ u.pr = t.pr /\ u.head = t.head /\ u.implement = t.implement /\ u.fix = t.fix
        /\ u.retrying = t.retrying /\ u.retry = t.retry
    BY <2>1 DEF Task
  <2>3. Place(u) = Place(t)
    BY <1>2, <2>2 DEF Place
  <2> QED
    BY <1>2, <1>3, <2>2, <2>3 DEF InOrder, BranchOK, RetryShape, Swept, Claims
<1>4. CASE /\ t.state \in Active \ {"cleaning", "queued", "planned"}
           /\ t.state = "implementing" => "push_done" \notin t.implement
           /\ u = Fail(t, code)
  <2>1. /\ u.state = "failed" /\ u.failure = code /\ u.prev = t.prev /\ u.named = t.named
        /\ u.pr = t.pr /\ u.implement = t.implement
        /\ u.retrying = t.retrying /\ u.retry = t.retry
    BY <1>4 DEF Fail, Task
  <2>2. "push_done" \in t.implement => t.pr
    BY <1>2, <1>4 DEF InOrder, Good, KnowsPr, BeforeMerge, BranchOK, RetryShape, Active
  <2>3. Place(u) = "failed"
    BY <2>1 DEF Place
  <2> QED
    BY <1>2, <2>1, <2>2, <2>3 DEF InOrder, BranchOK, RetryShape, Swept, Claims
<1> QED
  BY <1>1, <1>3, <1>4

(* A move between two active states, or to merged: what is left to show are
   the claims of the new state.  *)
LEMMA ActiveMove ==
  ASSUME NEW t \in Task, NEW u, NEW v, InOrder(t, v), t.state \in Active,
         u.state \in Active \cup {"merged"}, u.failure = t.failure, u.named = t.named,
         u.retrying = t.retrying, u.retry = t.retry, t.implement \subseteq u.implement,
         u.prev = t.prev, t.pr => u.pr,
         u.state \in {"queued", "planning", "planned"} => u.implement = {}
  PROVE  /\ RetryShape(u) /\ Swept(u, v) /\ ~t.retrying
         /\ Place(t) = t.state /\ Place(u) = u.state
<1>1. ~t.retrying /\ t.retry = {} /\ Place(t) = t.state
  BY ActiveIsNotRetried DEF InOrder, BranchOK
<1>2. u.state # "paused" /\ u.state # "failed" /\ Place(u) = u.state
  BY DEF Active, Place
<1>3. RetryShape(u)
  BY <1>1, <1>2 DEF InOrder, BranchOK, RetryShape
<1>4. Swept(u, v)
  BY <1>1 DEF InOrder, BranchOK, Swept
<1> QED
  BY <1>1, <1>2, <1>3, <1>4

LEMMA PlanKeepsBranch ==
  ASSUME NEW t \in Task, NEW u, NEW v, InOrder(t, v), PlanMove(t, u)
  PROVE  BranchOK(u, v)
<1>1. t.state \in {"queued", "planning"} /\ t.state \in Active
  BY DEF PlanMove, Active
<1>2. ~t.retrying /\ t.retry = {} /\ Place(t) = t.state /\ t.implement = {}
  BY <1>1, ActiveIsNotRetried DEF InOrder, BranchOK, RetryShape
<1>3. CASE u \in {RunStarted(t), PlanCompleted(t), PlanFixCompleted(t), PlanVerifyAccepted(t)}
           /\ u.state \in {"planning", "planned"}
  <2>1. /\ u.failure = t.failure /\ u.named = t.named /\ u.pr = t.pr
        /\ u.implement = t.implement /\ u.retrying = t.retrying /\ u.retry = t.retry
        /\ u.prev = t.prev
    BY <1>3 DEF Task, RunStarted, PlanCompleted, PlanFixCompleted, PlanVerifyAccepted, Enter
  <2>2. u.state \in Active
    BY <1>3 DEF Active
  <2> QED
    BY <1>1, <1>2, <1>3, <2>1, <2>2, ActiveMove DEF BranchOK, Claims
<1>4. CASE t.state = "planning" /\ u = PlanVerifyRejected(t)
  <2>1. /\ u.state \in {"failed", "planning"} /\ u.named = t.named /\ u.pr = t.pr
        /\ u.failure \in {t.failure, "plan_max"}
        /\ u.implement = t.implement /\ u.retrying = t.retrying /\ u.retry = t.retry
        /\ u.prev = t.prev
    BY <1>4 DEF Task, PlanVerifyRejected, Enter, Fail
  <2>2. Place(u) = u.state
    BY <2>1 DEF Place
  <2> QED
    BY <1>1, <1>2, <2>1, <2>2 DEF InOrder, BranchOK, RetryShape, Swept, Claims
<1>5. /\ t.state = "queued" => RunStarted(t).state = "planning"
      /\ PlanVerifyAccepted(t).state = "planned"
      /\ t.state = "planning" => /\ PlanCompleted(t).state = "planning"
                                 /\ PlanFixCompleted(t).state = "planning"
  BY DEF Task, RunStarted, PlanCompleted, PlanFixCompleted, PlanVerifyAccepted, Enter
<1> QED
  BY <1>3, <1>4, <1>5 DEF PlanMove

LEMMA ImplementKeepsBranch ==
  ASSUME NEW t \in Task, NEW u, NEW v, InOrder(t, v), ImplementMove(t, u, v)
  PROVE  BranchOK(u, v)
<1>1. t.state \in {"planned", "implementing"} /\ t.state \in Active
  BY DEF ImplementMove, Active
<1>2. ~t.retrying /\ t.retry = {} /\ Place(t) = t.state
  BY <1>1, ActiveIsNotRetried DEF InOrder, BranchOK
<1>3. CASE t.state = "planned" /\ u = ImplementStarted(t)
  <2>1. /\ u.state = "implementing" /\ u.failure = t.failure /\ u.named = t.named /\ u.pr = t.pr
        /\ u.implement = t.implement \cup {"before_sha"}
        /\ u.retrying = t.retrying /\ u.retry = t.retry
        /\ u.prev = t.prev
    BY <1>3 DEF Task, ImplementStarted, Enter
  <2>2. t.implement = {}
    BY <1>2, <1>3 DEF InOrder, BranchOK, RetryShape
  <2> QED
    BY <1>1, <2>1, <2>2, ActiveMove DEF BranchOK, Claims, Active
<1>4. ASSUME t.state = "implementing", NEW step, NEW head, NEW pr,
             u.state = "implementing", u.failure = t.failure, u.named = t.named,
             u.implement = t.implement \cup {step}, u.head = head, t.pr => u.pr,
             u.retrying = t.retrying, u.retry = t.retry, u.prev = t.prev,
             step = "push_done" => v.remote = v.local,
             (head = t.head /\ step # "head_sha_persisted") \/ head = v.sha
      PROVE  BranchOK(u, v)
  <2>1. /\ RetryShape(u) /\ Swept(u, v) /\ ~t.retrying
        /\ Place(t) = "implementing" /\ Place(u) = "implementing"
    BY <1>1, <1>4, ActiveMove DEF Active
  <2>2. Claims(u, v)
    BY <1>4, <2>1 DEF InOrder, BranchOK, Claims
  <2> QED
    BY <2>1, <2>2 DEF BranchOK
<1>5. ASSUME NEW step \in {"agent_done", "commit_done"}, t.state = "implementing",
             u = MarkImplement(t, step)
      PROVE  BranchOK(u, v)
  BY <1>4, <1>5 DEF Task, MarkImplement
<1>6. CASE t.state = "implementing" /\ v.remote = v.local /\ u = MarkImplement(t, "push_done")
  BY <1>4, <1>6 DEF Task, MarkImplement
<1>7. CASE t.state = "implementing" /\ u = [MarkImplement(t, "pr_created") EXCEPT !.pr = TRUE]
  <2>1. u.pr
    BY <1>7 DEF Task, MarkImplement
  <2> QED
    BY <1>4, <1>7, <2>1 DEF Task, MarkImplement
<1>8. CASE /\ t.state = "implementing"
           /\ u = [[MarkImplement(t, "pr_created") EXCEPT !.pr = TRUE] EXCEPT !.head = v.sha]
  <2>1. u.pr
    BY <1>8 DEF Task, MarkImplement
  <2> QED
    BY <1>4, <1>8, <2>1 DEF Task, MarkImplement
<1>9. CASE /\ t.state = "implementing"
           /\ u = [MarkImplement(t, "head_sha_persisted") EXCEPT !.head = v.sha]
  BY <1>4, <1>9 DEF Task, MarkImplement
<1>10. CASE /\ t.state = "implementing"
            /\ {"push_done", "head_sha_persisted"} \subseteq t.implement
            /\ u = PrReady(t, t.head)
  <2>1. /\ u.state = "reviewing" /\ u.failure = t.failure /\ u.named = t.named /\ u.pr = t.pr
        /\ u.head = t.head /\ u.implement = t.implement \cup {"after_sha"}
        /\ u.retrying = t.retrying /\ u.retry = t.retry
        /\ u.prev = t.prev
    BY <1>10 DEF Task, PrReady, Enter
  <2>2. RetryShape(u) /\ Swept(u, v) /\ Place(u) = "reviewing"
    BY <1>1, <2>1, ActiveMove DEF Active
  <2>3. Claims(u, v)
    BY <1>2, <1>10, <2>1, <2>2 DEF InOrder, BranchOK, Claims
  <2> QED
    BY <2>2, <2>3 DEF BranchOK
<1> QED
  BY <1>3, <1>5, <1>6, <1>7, <1>8, <1>9, <1>10 DEF ImplementMove

LEMMA ReviewKeepsBranch ==
  ASSUME NEW t \in Task, NEW u, NEW v, InOrder(t, v), ReviewMove(t, u, v)
  PROVE  BranchOK(u, v)
<1>1. t.state = "reviewing" /\ t.state \in Active
  BY DEF ReviewMove, Active
<1>2. ~t.retrying /\ t.retry = {} /\ Place(t) = t.state /\ t.pr
  BY <1>1, ActiveIsNotRetried DEF InOrder, BranchOK, Good, KnowsPr, BeforeMerge
<1>3. CASE u = ReviewCompleted(t)
  <2>1. /\ u.state = "reviewing" /\ u.failure = t.failure /\ u.named = t.named /\ u.pr = t.pr
        /\ u.head = t.head /\ u.implement = t.implement
        /\ u.retrying = t.retrying /\ u.retry = t.retry
        /\ u.prev = t.prev
    BY <1>1, <1>3 DEF Task, ReviewCompleted, Enter
  <2>2. RetryShape(u) /\ Swept(u, v) /\ Place(u) = "reviewing"
    BY <1>1, <2>1, ActiveMove DEF Active
  <2> QED
    BY <1>1, <1>2, <2>1, <2>2 DEF InOrder, BranchOK, Claims
<1>4. CASE u = SuperviseAccept(t)
  <2>1. CASE u = Fail(t, "review_max")
    <3>1. /\ u.state = "failed" /\ u.failure = "review_max" /\ u.named = t.named /\ u.pr = t.pr
          /\ u.implement = t.implement /\ u.retrying = t.retrying /\ u.retry = t.retry
          /\ u.prev = t.prev
      BY <2>1 DEF Task, Fail
    <3> QED
      BY <1>2, <3>1 DEF InOrder, BranchOK, RetryShape, Swept, Claims, Place
  <2>2. CASE u # Fail(t, "review_max")
    <3>1. /\ u.state = "fixing" /\ u.fix = {}
          /\ u.failure = t.failure /\ u.named = t.named /\ u.pr = t.pr
          /\ u.implement = t.implement /\ u.retrying = t.retrying /\ u.retry = t.retry
          /\ u.prev = t.prev
      BY <1>4, <2>2 DEF Task, SuperviseAccept, Enter
    <3>2. RetryShape(u) /\ Swept(u, v) /\ Place(u) = "fixing"
      BY <1>1, <3>1, ActiveMove DEF Active
    <3> QED
      BY <3>1, <3>2 DEF BranchOK, Claims
  <2> QED
    BY <2>1, <2>2
<1>5. CASE v.reviewed = v.local /\ u \in {SuperviseClean(t), SuperviseClean(ReviewCompleted(t))}
  <2>1. /\ u.state = "ci_waiting" /\ u.failure = t.failure /\ u.named = t.named /\ u.pr = t.pr
        /\ u.head = t.head /\ u.implement = t.implement
        /\ u.retrying = t.retrying /\ u.retry = t.retry
        /\ u.prev = t.prev
    BY <1>5 DEF Task, SuperviseClean, ReviewCompleted, Enter
  <2>2. RetryShape(u) /\ Swept(u, v) /\ Place(u) = "ci_waiting"
    BY <1>1, <2>1, ActiveMove DEF Active
  <2> QED
    BY <1>1, <1>2, <1>5, <2>1, <2>2 DEF InOrder, BranchOK, Claims
<1> QED
  BY <1>3, <1>4, <1>5 DEF ReviewMove

LEMMA FixKeepsBranch ==
  ASSUME NEW t \in Task, NEW u, NEW v, InOrder(t, v), FixMove(t, u, v)
  PROVE  BranchOK(u, v)
<1>1. t.state = "fixing" /\ t.state \in Active
  BY DEF FixMove, Active
<1>2. ~t.retrying /\ Place(t) = t.state
  BY <1>1, ActiveIsNotRetried DEF InOrder, BranchOK
<1>3. ASSUME NEW step, NEW head, u.state = "fixing", u.failure = t.failure, u.named = t.named,
             u.pr = t.pr, u.implement = t.implement, u.fix = t.fix \cup {step}, u.head = head,
             u.retrying = t.retrying, u.retry = t.retry, u.prev = t.prev,
             step = "push_done" => v.remote = v.local,
             (head = t.head /\ step # "head_sha_persisted") \/ head = v.sha
      PROVE  BranchOK(u, v)
  <2>1. RetryShape(u) /\ Swept(u, v) /\ Place(u) = "fixing"
    BY <1>1, <1>3, ActiveMove DEF Active
  <2>2. Claims(u, v)
    BY <1>1, <1>2, <1>3, <2>1 DEF InOrder, BranchOK, Claims
  <2> QED
    BY <2>1, <2>2 DEF BranchOK
<1>4. ASSUME NEW step \in {"before_sha", "rebase_done", "agent_done", "commit_done"},
             u = MarkFix(t, step)
      PROVE  BranchOK(u, v)
  BY <1>1, <1>3, <1>4 DEF Task, MarkFix
<1>5. CASE v.remote = v.local /\ u = MarkFix(t, "push_done")
  BY <1>1, <1>3, <1>5 DEF Task, MarkFix
<1>6. CASE u = [MarkFix(t, "head_sha_persisted") EXCEPT !.head = v.sha]
  BY <1>1, <1>3, <1>6 DEF Task, MarkFix
<1>7. CASE {"push_done", "head_sha_persisted"} \subseteq t.fix /\ u = FixPushed(MarkFix(t, "after_sha"))
  <2>1. /\ u.state = "reviewing" /\ u.failure = t.failure /\ u.named = t.named /\ u.pr = t.pr
        /\ u.head = t.head /\ u.implement = t.implement
        /\ u.retrying = t.retrying /\ u.retry = t.retry
        /\ u.prev = t.prev
    BY <1>7 DEF Task, FixPushed, MarkFix, Enter
  <2>2. RetryShape(u) /\ Swept(u, v) /\ Place(u) = "reviewing"
    BY <1>1, <2>1, ActiveMove DEF Active
  <2> QED
    BY <1>1, <1>2, <1>7, <2>1, <2>2 DEF InOrder, BranchOK, Claims
<1> QED
  BY <1>4, <1>5, <1>6, <1>7 DEF FixMove

LEMMA MergeKeepsBranch ==
  ASSUME NEW t \in Task, NEW u, NEW v, InOrder(t, v), MergeMove(t, u)
  PROVE  BranchOK(u, v)
<1>1. t.state \in {"ci_waiting", "merging", "cleaning"} /\ t.state \in Active
  BY DEF MergeMove, Active
<1>2. ~t.retrying /\ t.retry = {} /\ Place(t) = t.state /\ t.pr
  BY <1>1, ActiveIsNotRetried
  DEF InOrder, BranchOK, Good, KnowsPr, Confirmed, InCleanup, BeforeMerge
<1>3. CASE t.state = "ci_waiting" /\ u = CiFailed(t)
  <2>1. CASE u = Fail(t, "ci_failure_max")
    <3>1. /\ u.state = "failed" /\ u.failure = "ci_failure_max" /\ u.named = t.named
          /\ u.pr = t.pr /\ u.implement = t.implement
          /\ u.retrying = t.retrying /\ u.retry = t.retry
          /\ u.prev = t.prev
      BY <2>1 DEF Task, Fail
    <3> QED
      BY <1>2, <3>1 DEF InOrder, BranchOK, RetryShape, Swept, Claims, Place
  <2>2. CASE u # Fail(t, "ci_failure_max")
    <3>1. /\ u.state = "fixing" /\ u.fix = {}
          /\ u.failure = t.failure /\ u.named = t.named /\ u.pr = t.pr
          /\ u.implement = t.implement /\ u.retrying = t.retrying /\ u.retry = t.retry
          /\ u.prev = t.prev
      BY <1>3, <2>2 DEF Task, CiFailed, Enter
    <3>2. RetryShape(u) /\ Swept(u, v) /\ Place(u) = "fixing"
      BY <1>1, <3>1, ActiveMove DEF Active
    <3> QED
      BY <3>1, <3>2 DEF BranchOK, Claims
  <2> QED
    BY <2>1, <2>2
<1>4. CASE t.state = "ci_waiting" /\ u = AutoMergeReserved(t)
  <2>1. /\ u.state = "merging" /\ u.failure = t.failure /\ u.named = t.named /\ u.pr = t.pr
        /\ u.head = t.head /\ u.implement = t.implement
        /\ u.retrying = t.retrying /\ u.retry = t.retry
        /\ u.prev = t.prev
    BY <1>4 DEF Task, AutoMergeReserved, Enter
  <2>2. RetryShape(u) /\ Swept(u, v) /\ Place(u) = "merging"
    BY <1>1, <2>1, ActiveMove DEF Active
  <2> QED
    BY <1>2, <1>4, <2>1, <2>2 DEF InOrder, BranchOK, Claims
<1>5. ASSUME u.state \in {"cleaning", "merged"}, u.failure = t.failure, u.named = t.named,
             u.pr = t.pr, u.implement = t.implement, u.retrying = t.retrying, u.retry = t.retry,
             u.prev = t.prev
      PROVE  BranchOK(u, v)
  <2>1. RetryShape(u) /\ Swept(u, v) /\ Place(u) = u.state
    BY <1>1, <1>5, ActiveMove DEF Active
  <2> QED
    BY <1>5, <2>1 DEF BranchOK, Claims
<1>6. CASE u = Enter(t, "cleaning", "none")
  BY <1>5, <1>6 DEF Task, Enter
<1>7. CASE /\ t.state = "cleaning"
           /\ \/ \E step \in CleaningSteps : u = MarkCleaning(t, step)
              \/ u = WorktreeRemoved(t)
              \/ \E n \in Nat : u = [t EXCEPT !.removeTries = n]
  BY <1>5, <1>7 DEF Task, MarkCleaning, WorktreeRemoved
<1>8. CASE u = CleaningCompleted(t)
  BY <1>5, <1>8 DEF Task, CleaningCompleted, Enter
<1> QED
  BY <1>3, <1>4, <1>6, <1>7, <1>8 DEF MergeMove

(* A retry clears the entry when the pull request is closed and worktree and
   branch are gone, and queues what is then a new task.  *)
LEMMA RetryKeepsBranch ==
  ASSUME NEW t \in Task, NEW u, NEW v, InOrder(t, v), RetryMove(t, u, v)
  PROVE  BranchOK(u, v)
<1>1. t.retrying /\ RetryShape(t) /\ Swept(t, v) /\ t.retry \subseteq RetrySteps
  BY DEF RetryMove, InOrder, BranchOK, Task
<1>2. {"pr_closed", "worktree_removed", "branch_deleted"} \subseteq RetrySteps \ {"fields_cleared"}
  BY DEF RetrySteps
<1>3. ASSUME NEW step \in {"pr_closed", "worktree_removed", "branch_deleted"},
             u = MarkRetry(t, step),
             step = "pr_closed" => v.state \notin Unmerged,
             step = "worktree_removed" => v.tree = 0,
             step = "branch_deleted" => v.local = 0
      PROVE  BranchOK(u, v)
  <2>1. /\ u.state = t.state /\ u.failure = t.failure /\ u.prev = t.prev /\ u.named = t.named
        /\ u.pr = t.pr /\ u.implement = t.implement /\ u.retrying = t.retrying
        /\ u.retry = t.retry \cup {step}
    BY <1>3 DEF Task, MarkRetry
  <2>2. step \in RetrySteps /\ step # "fields_cleared"
    BY <1>2, <1>3
  <2>3. RetryShape(u)
    BY <1>1, <2>1, <2>2 DEF RetryShape
  <2>4. Swept(u, v) /\ Claims(u, v)
    BY <1>1, <1>3, <2>1 DEF Swept, Claims
  <2> QED
    BY <2>3, <2>4 DEF BranchOK
<1>4. CASE (~t.pr \/ v.state \notin Unmerged) /\ u = MarkRetry(t, "pr_closed")
  <2>1. v.state \notin Unmerged
    BY <1>1, <1>4 DEF RetryShape, Swept
  <2> QED
    BY <1>3, <1>4, <2>1
<1>5. CASE (~t.named \/ v.tree = 0) /\ u = MarkRetry(t, "worktree_removed")
  BY <1>1, <1>3, <1>5 DEF Swept
<1>6. CASE (~t.named \/ v.local = 0) /\ u = MarkRetry(t, "branch_deleted")
  BY <1>1, <1>3, <1>6 DEF Swept
<1>7. CASE /\ {"pr_closed", "worktree_removed", "branch_deleted"} \subseteq t.retry
           /\ u = MarkRetry(ClearRetryFields(t), "fields_cleared")
  <2>1. /\ u.state = t.state /\ u.failure = "none" /\ u.prev = "none" /\ ~u.named
        /\ ~u.pr /\ u.implement = {} /\ u.retrying = t.retrying
        /\ u.retry = t.retry \cup {"fields_cleared"}
    BY <1>7 DEF Task, MarkRetry, ClearRetryFields
  <2>2. u.retry = RetrySteps
    BY <1>1, <1>7, <2>1 DEF RetrySteps
  <2>3. t.state \in {"failed", "paused"}
    BY <1>1 DEF RetryShape
  <2>4. RetryShape(u)
    BY <1>1, <2>1, <2>2, <2>3 DEF RetryShape
  <2>5. Swept(u, v) /\ Claims(u, v)
    BY <1>1, <1>7, <2>1 DEF Swept, Claims
  <2> QED
    BY <2>4, <2>5 DEF BranchOK
<1>8. CASE t.retry = RetrySteps /\ u = Queued(t)
  <2>1. /\ u.state = "queued" /\ u.failure = t.failure /\ u.named = t.named
        /\ u.pr = t.pr /\ u.implement = t.implement /\ ~u.retrying /\ u.retry = {}
        /\ u.prev = t.prev
    BY <1>8 DEF Task, Queued
  <2>2. /\ {"pr_closed", "worktree_removed", "branch_deleted", "fields_cleared"} \subseteq t.retry
        /\ t.implement = {} /\ t.failure = "none" /\ t.prev = "none"
    BY <1>1, <1>8 DEF RetrySteps, RetryShape
  <2>3. RetryShape(u)
    BY <2>1, <2>2 DEF RetryShape
  <2>4. Swept(u, v) /\ Claims(u, v)
    BY <1>1, <2>1, <2>2 DEF Swept, Claims, Place
  <2> QED
    BY <2>3, <2>4 DEF BranchOK
<1>9. CASE ~(RetrySteps \subseteq t.retry) /\ u = Pause(t, "retry_cleanup_failed")
  <2>1. "fields_cleared" \notin t.retry
    BY <1>1, <1>9 DEF RetryShape
  <2>2. CASE u = t
    BY <2>2 DEF InOrder
  <2>3. CASE u # t
    <3>1. /\ u.state = "paused" /\ u.failure = "retry_cleanup_failed" /\ u.named = t.named
          /\ u.pr = t.pr /\ u.implement = t.implement
          /\ u.retrying = t.retrying /\ u.retry = t.retry
      BY <1>9, <2>3 DEF Task, Pause
    <3>2. t.state \notin Active
      BY <1>1 DEF RetryShape, Active
    <3>3. u.prev = t.prev
      BY <1>9, <2>3, <3>2 DEF Task, Pause
    <3>4. RetryShape(u)
      BY <1>1, <2>1, <3>1, <3>3 DEF RetryShape
    <3> QED
      BY <1>1, <3>1, <3>4 DEF Swept, Claims, BranchOK
  <2> QED
    BY <2>2, <2>3
<1> QED
  BY <1>4, <1>5, <1>6, <1>7, <1>8, <1>9 DEF RetryMove

LEMMA CommandKeepsBranch ==
  ASSUME "explicit_retry" \notin Faults,
         NEW t \in Task, NEW u, NEW v, InOrder(t, v), CommandMove(t, u)
  PROVE  BranchOK(u, v)
<1>1. RetryShape(t) /\ Swept(t, v) /\ Claims(t, v)
  BY DEF InOrder, BranchOK
<1>2. CASE Resumable(t) /\ u = ResumeTask(t)
  <2>1. /\ u.state = (IF t.prev = "none" THEN t.state ELSE t.prev)
        /\ u.failure = "none" /\ u.prev = t.prev /\ u.named = t.named /\ u.pr = t.pr
        /\ u.head = t.head /\ u.implement = t.implement /\ u.fix = t.fix
        /\ u.retrying = t.retrying /\ u.retry = t.retry
    BY <1>2 DEF Task, ResumeTask
  <2>2. t.state = "paused" /\ t.failure # "retry_cleanup_failed" /\ t.prev \in Active \cup {"none"}
    BY <1>2 DEF Resumable, Task
  <2>3. t.prev # "paused" /\ t.prev # "failed"
    BY <2>2 DEF Active
  <2>4. Place(u) = Place(t)
    BY <2>1, <2>2, <2>3 DEF Place
  <2>5. t.retrying => t.prev = "none" /\ "fields_cleared" \in t.retry
    BY <1>1, <2>2 DEF RetryShape
  <2>6. RetryShape(u)
    BY <1>1, <2>1, <2>2, <2>3, <2>4, <2>5 DEF RetryShape
  <2> QED
    BY <1>1, <2>1, <2>4, <2>6 DEF Swept, Claims, BranchOK
<1>3. CASE RetryTarget(t) /\ u = [t EXCEPT !.retrying = TRUE]
  <2>1. /\ u.state = t.state /\ u.failure = t.failure /\ u.prev = t.prev /\ u.named = t.named
        /\ u.pr = t.pr /\ u.implement = t.implement /\ u.retrying /\ u.retry = t.retry
    BY <1>3 DEF Task
  <2>2. t.state = "failed" \/ t.retrying
    BY <1>1, <1>3 DEF RetryTarget, RetryShape
  <2>3. RetryShape(u)
    BY <1>1, <2>1, <2>2 DEF RetryShape
  <2> QED
    BY <1>1, <2>1, <2>3 DEF Swept, Claims, BranchOK
<1>4. ASSUME ForceDetachCandidate(t) PROVE ~t.retrying /\ t.retry = {} /\ t.state \in {"cleaning", "paused"}
  <2>1. t.state = "cleaning" => ~t.retrying
    BY <1>1, ActiveIsNotRetried DEF Active
  <2>2. t.state = "paused" => ~t.retrying
    BY <1>1, <1>4 DEF ForceDetachCandidate, RetryShape
  <2> QED
    BY <1>1, <1>4, <2>1, <2>2 DEF ForceDetachCandidate, RetryShape
<1>5. CASE ForceDetachCandidate(t) /\ u = Detached(t)
  <2>1. /\ u.state = "merged" /\ u.failure = t.failure /\ u.named = t.named
        /\ u.pr = t.pr /\ u.implement = t.implement
        /\ u.retrying = t.retrying /\ u.retry = t.retry
        /\ u.prev = t.prev
    BY <1>5 DEF Task, Detached, Enter
  <2>2. RetryShape(u)
    BY <1>1, <1>4, <1>5, <2>1 DEF RetryShape, Place
  <2> QED
    BY <1>1, <2>1, <2>2 DEF Swept, Claims, Place, BranchOK
<1>6. CASE /\ ForceDetachCandidate(t)
           /\ t.state = "paused" \/ t.retrying
           /\ u = [t EXCEPT !.state = "paused", !.failure = "merge_sha_mismatch"]
  <2>1. /\ u.state = "paused" /\ u.failure = "merge_sha_mismatch" /\ u.prev = t.prev
        /\ u.named = t.named /\ u.pr = t.pr /\ u.head = t.head
        /\ u.implement = t.implement /\ u.fix = t.fix
        /\ u.retrying = t.retrying /\ u.retry = t.retry
    BY <1>6 DEF Task
  <2>2. t.state = "paused" /\ Place(u) = Place(t)
    BY <1>4, <1>6, <2>1 DEF Place
  <2>3. RetryShape(u)
    BY <1>1, <1>4, <1>6, <2>1, <2>2 DEF RetryShape
  <2> QED
    BY <1>1, <2>1, <2>2, <2>3 DEF Swept, Claims, BranchOK
<1> QED
  BY <1>2, <1>3, <1>5, <1>6 DEF CommandMove

(* Every step of a workflow and of a retry, and every command.  *)
LEMMA MovesKeepBranch ==
  ASSUME NEW t \in Task, NEW u, NEW v, InOrder(t, v)
  PROVE  /\ TaskMove(t, u, v) => BranchOK(u, v)
         /\ CommandMove(t, u) /\ "explicit_retry" \notin Faults => BranchOK(u, v)
<1>1. ASSUME TaskMove(t, u, v) PROVE BranchOK(u, v)
  BY <1>1, StopKeepsBranch, PlanKeepsBranch, ImplementKeepsBranch, ReviewKeepsBranch,
     FixKeepsBranch, MergeKeepsBranch, RetryKeepsBranch DEF TaskMove
<1>2. ASSUME CommandMove(t, u), "explicit_retry" \notin Faults PROVE BranchOK(u, v)
  BY <1>2, CommandKeepsBranch
<1> QED
  BY <1>1, <1>2

BranchInv ==
  /\ BranchOK(mem, View) /\ BranchOK(disk, View) /\ Published(View)
  /\ HalfRetriedNeverRuns

(* How the process comes to write a plan, and to wait for the reservation to
   go: by a decision of the planning workflow, and by a pause of the CI wait or
   of the merge.  *)
LEMMA DecisionsMade ==
  ASSUME [Next]_vars
  PROVE  /\ pc' = "plan_write" =>
              \/ pc = "plan_write" /\ mem' = mem
              \/ /\ pc \in {"plan", "plan_agent"}
                 /\ \/ mem' \in {PlanVerifyAccepted(mem), PlanVerifyRejected(mem)}
                    \/ \E code : mem' \in {Pause(mem, code), Fail(mem, code)}
         /\ pc' = "barrier" =>
              \/ pc = "barrier" /\ mem' = mem
              \/ pc \in {"reserved", "merge"} /\ \E code : mem' = Pause(mem, code)
<1>1. PlanningStep /\ pc' = "plan_write" =>
        /\ pc \in {"plan", "plan_agent"}
        /\ mem' \in {PlanVerifyAccepted(mem), PlanVerifyRejected(mem),
                     Pause(mem, "rate_limited"), Fail(mem, "other"), Fail(mem, "plan_max")}
  BY DEF PlanningStep, PlanEnter, PlanPhaseStart, PlannerWrites, VerifierAccepts,
         VerifierRejects, PlanAgentStops, PlanLoopExhausted, PlanWrite, Return, Record,
         Continue, At
<1>2. MergeStep /\ pc' = "barrier" =>
        /\ pc = "merge"
        /\ mem' \in {Pause(mem, "merge_timeout"), Pause(mem, "merge_sha_mismatch"),
                     Pause(mem, "other"), Pause(mem, "branch_protection")}
  <2>1. MergeSeesMerged /\ ~HeadMatches =>
          pc = "merge" /\ mem' = Pause(mem, "merge_sha_mismatch")
    BY DEF MergeSeesMerged, StopMerge, Continue, At, HeadMatches, PrMerged
  <2>2. MergeSeesMerged /\ HeadMatches => pc' = "loop"
    BY DEF MergeSeesMerged, Return, Record
  <2> QED
    BY <2>1, <2>2 DEF MergeStep, MergeEnter, MergeTimesOut, MergeSeesClosed,
       MergeBlocked, Barrier, StopMerge, Return, Record, Continue, At
<1>3. CiStep /\ pc' = "barrier" => pc = "reserved" /\ mem' = Pause(mem, "merge_sha_mismatch")
  BY DEF CiStep, CiEnter, CiTimesOut, CiChecksFail, CiHeadMismatch, CiBlocked, CiPassed,
         CiReserve, CiRecheck, Return, Record, Continue, Throw, At
<1>4. CleanStep \/ RetryStep => pc' \notin {"plan_write", "barrier"}
  BY DEF CleanStep, CleanEnter, CleanGrace, CleanBranch, CleanWorktree, CleanForce,
         CleanDone, RetryStep, RetryClosePr, RetryWorktree, RetryBranch, RetryClear,
         RetryQueue, RetryFails, Return, Record, Continue
<1>5. DeliveryStep => pc' \notin {"plan_write", "barrier"}
  <2>1. ImplementStep => pc' \notin {"plan_write", "barrier"}
    BY DEF ImplementStep, ImplementEnter, ImplementAgentEdits, ImplementAgentDone,
           ImplementAgentStops, ImplementCommit, ImplementPush, ImplementPr, ImplementHead,
           ImplementReady, AgentStops, DueImplement, At, workerVars, Return, Record,
           Continue, Throw
  <2>2. ReviewStep \/ FixStep => pc' \notin {"plan_write", "barrier"}
    BY DEF ReviewStep, ReviewEnter, ReviewClean, ReviewFinds, SuperviseAccepts,
           SuperviseRejectsAll, ReviewerStops, FixStep, FixEnter, FixBefore, FixRebase,
           FixAgentEdits, FixAgentDone, FixAgentStops, FixCommit, FixPush, FixHead,
           FixDone, AgentStops, DueFix, At, workerVars, Return, Record, Continue, Throw
  <2> QED
    BY <2>1, <2>2 DEF DeliveryStep
<1>6. /\ PlanningStep => pc' # "barrier"
      /\ CiStep => pc' # "plan_write"
      /\ MergeStep => pc' # "plan_write"
  <2>1. PlanningStep => pc' # "barrier"
    BY DEF PlanningStep, PlanEnter, PlanPhaseStart, PlannerWrites, VerifierAccepts,
           VerifierRejects, PlanAgentStops, PlanLoopExhausted, PlanWrite, Return, Record,
           Continue
  <2>2. CiStep => pc' # "plan_write"
    BY DEF CiStep, CiEnter, CiTimesOut, CiChecksFail, CiHeadMismatch, CiBlocked, CiPassed,
           CiReserve, CiRecheck, Return, Record, Continue, Throw
  <2>3. MergeStep => pc' # "plan_write"
    BY DEF MergeStep, MergeEnter, MergeTimesOut, MergeSeesMerged, MergeSeesClosed,
           MergeBlocked, Barrier, StopMerge, Return, Record, Continue
  <2> QED
    BY <2>1, <2>2, <2>3
<1>7. Save \/ UNCHANGED workerVars => mem' = mem /\ (pc' = pc \/ pc' = "idle")
  BY DEF Save, workerVars
<1>8. Stop \/ Begin \/ Resume \/ RetryStart \/ ForceDetach \/ Crash
        => pc' \notin {"plan_write", "barrier"}
  BY DEF Stop, Begin, Resume, RetryStart, ForceDetach, Crash, At, Continue
<1> QED
  BY <1>1, <1>2, <1>3, <1>4, <1>5, <1>6, <1>7, <1>8
  DEF Next, ProcessStep, MergingStep, RunAgain, ResumeAgain, RepairStep, CrashStep,
      SurroundingsStep, vars

(* The workflows that decide before they return or wait are in a state that no
   retry is in.  *)
LEMMA HalfRetriedKept ==
  ASSUME IInv, IInv', RetryShape(mem), RetryShape(mem'), HalfRetriedNeverRuns, [Next]_vars
  PROVE  HalfRetriedNeverRuns'
<1>1. mem \in Task /\ mem' \in Task /\ Fits(mem, pc) /\ Fits(mem', pc') /\ pc' \in Labels
  BY DEF IInv, WorkerInv, WorkerTypeOK
<1>2. /\ mem.state \in Active => ~mem.retrying
      /\ mem'.state \in Active => ~mem'.retrying
  BY <1>1, ActiveIsNotRetried
<1>3. pc' \notin {"idle", "exit", "loop", "retry", "plan_write", "barrier"} => ~mem'.retrying
  BY <1>1, <1>2 DEF Labels, Fits, Active
<1>4. ASSUME pc' \in {"plan_write", "barrier"} PROVE ~mem'.retrying
  <2>1. pc \in {"plan", "plan_agent", "reserved", "merge", "plan_write", "barrier"}
    BY <1>4, DecisionsMade
  <2>2. ~mem.retrying
    BY <2>1 DEF HalfRetriedNeverRuns
  <2>3. \A u \in {PlanVerifyAccepted(mem), PlanVerifyRejected(mem)} : u.retrying = mem.retrying
    BY <1>1 DEF PlanVerifyAccepted, PlanVerifyRejected, Fail, Enter, Task
  <2>4. \A code : Pause(mem, code).retrying = mem.retrying /\ Fail(mem, code).retrying = mem.retrying
    BY <1>1 DEF Pause, Fail, Task
  <2> QED
    BY <1>4, <2>2, <2>3, <2>4, DecisionsMade
<1> QED
  BY <1>3, <1>4 DEF HalfRetriedNeverRuns

LEMMA InitBranch == Init => BranchInv
<1> SUFFICES ASSUME Init PROVE BranchInv
  OBVIOUS
<1>1. /\ mem = NewTask /\ disk = NewTask /\ pc = "idle" /\ prState = "NONE"
      /\ worktree = FALSE /\ local = 0
  BY DEF Init, WorkerInit, RepositoryInit
<1>2. View.state = "NONE" /\ View.tree = 0 /\ View.local = 0
  BY <1>1 DEF View, Tree
<1>3. RetryShape(NewTask) /\ Swept(NewTask, View) /\ Claims(NewTask, View)
  BY <1>2 DEF NewTask, RetryShape, Swept, Claims, Place, Unmerged
<1> QED
  BY <1>1, <1>2, <1>3
  DEF BranchInv, BranchOK, Published, HalfRetriedNeverRuns, NewTask, Unmerged

LEMMA NextBranch ==
  ASSUME "explicit_retry" \notin Faults
  PROVE  IInv /\ CopiesInv /\ BranchInv /\ [Next]_vars => BranchInv'
<1> SUFFICES ASSUME IInv, CopiesInv, BranchInv, [Next]_vars PROVE BranchInv'
  OBVIOUS
<1>1. mem \in Task /\ disk \in Task /\ mem' \in Task /\ disk' \in Task /\ IInv'
  BY NextIInv DEF IInv, WorkerInv, WorkerTypeOK
<1>2. StepSeen /\ CopiesMove
  BY EveryEffect, EveryMove DEF CopiesInv, CopyOK
<1>3. InOrder(mem, View) /\ InOrder(disk, View)
  BY Fields DEF InOrder, CopiesInv, BranchInv, IInv, WorkerInv
<1>4. ASSUME NEW t \in Task, InOrder(t, View), ViewMove(t, View, View')
      PROVE  InOrder(t, View')
  <2>1. CopyOK(t, View') /\ BranchOK(t, View') /\ Published(View')
    BY <1>4, ViewKeepsCopy, ViewKeepsBranch DEF InOrder, CopiesInv
  <2>2. View.state = "MERGED" => View'.state = "MERGED" /\ View'.sha = View.sha
    BY <1>4 DEF ViewMove, WorkMove, SweepMove, OutsideMove, Same, Unmerged
  <2>3. Good(t, View'.state, View'.sha)
    BY <1>4, <2>2, GoodStable DEF InOrder
  <2> QED
    BY <2>1, <2>3 DEF InOrder
<1>5. InOrder(mem, View') /\ InOrder(disk, View')
  BY <1>1, <1>2, <1>3, <1>4 DEF StepSeen
<1>6. BranchOK(mem', View') /\ BranchOK(disk', View')
  <2>1. BranchOK(mem, View') /\ BranchOK(disk, View')
    BY <1>5 DEF InOrder
  <2>2. ASSUME TaskMove(mem, mem', View') PROVE BranchOK(mem', View')
    BY <1>1, <1>5, <2>2, MovesKeepBranch
  <2>3. ASSUME CommandMove(disk, mem') PROVE BranchOK(mem', View')
    BY <1>1, <1>5, <2>3, MovesKeepBranch
  <2> QED
    BY <1>2, <2>1, <2>2, <2>3 DEF CopiesMove
<1>7. HalfRetriedNeverRuns'
  BY <1>1, <1>3, <1>6, HalfRetriedKept DEF InOrder, BranchOK, BranchInv
<1>8. Published(View')
  BY <1>5 DEF InOrder
<1> QED
  BY <1>6, <1>7, <1>8 DEF BranchInv

LEMMA BranchInvariance ==
  ASSUME "explicit_retry" \notin Faults
  PROVE  Spec => [](IInv /\ CopiesInv /\ BranchInv)
<1>1. Init => IInv /\ CopiesInv /\ BranchInv
  BY InitIInv, InitCopies, InitBranch
<1>2. IInv /\ CopiesInv /\ BranchInv /\ [Next]_vars => IInv' /\ CopiesInv' /\ BranchInv'
  BY NextIInv, NextCopies, NextBranch
<1> QED
  BY <1>1, <1>2, PTL DEF Spec
=============================================================================
