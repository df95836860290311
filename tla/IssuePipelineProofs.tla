------------------------ MODULE IssuePipelineProofs ------------------------
(***************************************************************************)
(* Theorems about IssuePipeline, for every choice of the constants: the    *)
(* safety invariants and action properties of its runs, from the three     *)
(* invariants of IssuePipelineInvariant and IssuePipelineSteps, one that   *)
(* holds until the process is interrupted and one of the checkpoints.      *)
(***************************************************************************)
EXTENDS IssuePipelineSteps, ReconciledPipeline

(* Every variable keeps its type: whatever sequence of runs, resumes, retries,
   crashes and answers of GitHub, tasks.yaml holds a well-formed entry.  *)
THEOREM TypeCorrect == Spec => []TypeOK
<1>1. IInv => TypeOK
  BY DEF IInv, WorkerInv, TypeOK
<1> QED
  BY <1>1, Invariance, PTL

(* The merge gate: no task is cleaning, or merged, or waits to go on cleaning
   unless its pull request is merged at the very head it recorded.
   (pr_merged, runMergeWorkflow, commandCleanupLocked)  *)
THEOREM MergeGate == Spec => []CleaningMeansMerged
<1>1. IInv => CleaningMeansMerged
  BY DEF IInv, WorkerInv, Good, Confirmed, CleaningMeansMerged, MergeConfirmed
<1> QED
  BY <1>1, Invariance, PTL

-----------------------------------------------------------------------------
(* What deletes a branch or a worktree.  *)
Deletion == (remote # 0 /\ remote' = 0) \/ (worktree /\ ~worktree')

(* A push, of the process or of somebody else, leaves a remote branch; only
   the effects of the cleanup and of a retry delete anything.  *)
LEMMA EffectsKeep ==
  ASSUME RepositoryTypeOK
  PROVE  /\ EnsureWorktree => ~Deletion
         /\ EditFiles => ~Deletion
         /\ CommitEdits => ~Deletion
         /\ RebaseBranch => ~Deletion
         /\ PushBranch => ~Deletion
         /\ CreateDraft => ~Deletion
         /\ MarkReady => ~Deletion
         /\ Disarm => ~Deletion
         /\ RepositoryStep => ~Deletion
         /\ UNCHANGED repoVars => ~Deletion
<1> USE DEF Deletion, repoVars, gitVars
<1>1. /\ EnsureWorktree => ~Deletion
      /\ EditFiles => ~Deletion
      /\ CommitEdits => ~Deletion
      /\ RebaseBranch => ~Deletion
      /\ UNCHANGED repoVars => ~Deletion
  BY DEF EnsureWorktree, AddWorktree, EditFiles, CommitEdits, RebaseBranch
<1>2. PushBranch => ~Deletion
  BY DEF PushBranch, MayPush
<1>3. /\ CreateDraft => ~Deletion
      /\ MarkReady => ~Deletion
      /\ Disarm => ~Deletion
  BY DEF CreateDraft, MarkReady, Disarm
<1>4. RepositoryStep => ~Deletion
  <2>1. commits + 1 # 0
    BY DEF RepositoryTypeOK, CountsOK
  <2> QED
    BY <2>1 DEF RepositoryStep, BaseMoves, HumanPush, HumanMerge, HumanClose,
         AutoMergeFires, EndPullRequest, StopTakesEffect
<1> QED
  BY <1>1, <1>2, <1>3, <1>4

(* The delivery workflows delete nothing.  *)
LEMMA DeliveryDeletesNothing ==
  ASSUME RepositoryTypeOK, DeliveryStep
  PROVE  ~Deletion
<1>1. NoEffect => ~Deletion
  BY EffectsKeep DEF NoEffect
<1>2. ImplementStep => ~Deletion
  BY <1>1, EffectsKeep
  DEF ImplementStep, ImplementEnter, ImplementAgentEdits, ImplementAgentDone,
      ImplementAgentStops, ImplementCommit, ImplementPush, ImplementPr,
      ImplementHead, ImplementReady, Repo
<1>3. ReviewStep => ~Deletion
  BY <1>1, EffectsKeep
  DEF ReviewStep, ReviewEnter, ReviewClean, ReviewFinds, SuperviseAccepts,
      SuperviseRejectsAll, ReviewerStops
<1>4. FixStep => ~Deletion
  BY <1>1, EffectsKeep
  DEF FixStep, FixEnter, FixBefore, FixRebase, FixAgentEdits, FixAgentDone,
      FixAgentStops, FixCommit, FixPush, FixHead, FixDone, Repo
<1> QED
  BY <1>2, <1>3, <1>4 DEF DeliveryStep

(* Waiting for checks and for the merge deletes nothing, and the cleanup works
   on a task that is cleaning.  (runCleaningWorkflow)  *)
LEMMA MergingDeletes ==
  ASSUME IInv, MergingStep, Deletion
  PROVE  prState = "MERGED" \/ mem.retrying
<1>1. RepositoryTypeOK /\ Fits(mem, pc) /\ Good(mem, prState, prSha)
  BY DEF IInv, WorkerInv
<1>2. Quiet => ~Deletion
  BY <1>1, EffectsKeep DEF Quiet
<1>3. CiStep => ~Deletion
  <2>1. CiReserve => ~Deletion
    BY <1>2 DEF CiReserve, gitVars, Deletion
  <2> QED
    BY <1>1, <1>2, <2>1, EffectsKeep
    DEF CiStep, CiEnter, CiTimesOut, CiChecksFail, CiHeadMismatch, CiBlocked, CiPassed, CiRecheck
<1>4. MergeStep => ~Deletion
  BY <1>1, <1>2, EffectsKeep
  DEF MergeStep, MergeEnter, MergeTimesOut, MergeSeesMerged, MergeSeesClosed,
      MergeBlocked, Barrier, StopMerge
<1>5. CleanStep /\ Deletion => At("clean") \/ At("force_remove")
  BY <1>2 DEF CleanStep, CleanEnter, CleanGrace, CleanBranch, CleanWorktree, CleanForce, CleanDone
<1>6. At("clean") \/ At("force_remove") => mem.state = "cleaning"
  BY <1>1 DEF At, Fits
<1>7. mem.state = "cleaning" => prState = "MERGED" \/ mem.retrying
  BY <1>1 DEF Good, Confirmed, InCleanup
<1> QED
  BY <1>3, <1>4, <1>5, <1>6, <1>7 DEF MergingStep

(* The remote branch and the worktree of an issue are deleted only once its
   pull request is merged, or by a retry: no run, resume, detach or crash, and
   no answer of GitHub, loses unmerged work.
   (runCleaningWorkflow, retryCleanupTask)  *)
THEOREM NothingLost == Spec => DeletesOnlyMerged
<1>1. IInv /\ [Next]_vars =>
        [(remote # 0 /\ remote' = 0) \/ (worktree /\ ~worktree')
           => prState = "MERGED" \/ mem.retrying]_vars
  <2> SUFFICES ASSUME IInv, Next, Deletion
               PROVE  prState = "MERGED" \/ mem.retrying
    BY DEF Deletion
  <2>1. RepositoryTypeOK /\ Fits(mem, pc)
    BY DEF IInv, WorkerInv
  <2>2. UNCHANGED repoVars => FALSE
    BY <2>1, EffectsKeep
  <2>3. DeliveryStep => FALSE
    BY <2>1, DeliveryDeletesNothing
  <2>4. RepositoryStep => FALSE
    BY <2>1, EffectsKeep
  <2>5. RetryStep => mem.retrying
    <3>1. RetryStep => At("retry")
      BY DEF RetryStep, RetryClosePr, RetryWorktree, RetryBranch, RetryClear, RetryQueue, DueRetry
    <3> QED
      BY <2>1, <3>1 DEF At, Fits
  <2>6. RepairStep => FALSE
    BY <2>2 DEF RepairStep, RetryStart, ForceDetach, Unchanged
  <2>7. ProcessStep => prState = "MERGED" \/ mem.retrying
    BY <2>2, <2>3, <2>5, MergingDeletes DEF ProcessStep
  <2> QED
    BY <2>2, <2>4, <2>6, <2>7 DEF Next, RunAgain, ResumeAgain, CrashStep, SurroundingsStep
<1> QED
  BY <1>1, Invariance, PTL DEF Spec, DeletesOnlyMerged

-----------------------------------------------------------------------------
(* From the agreement of the copies with the repository.  *)

(* But for a task stopped in the supervisor and one that was retried and
   planned again, no workflow refuses a task that the executor hands to it,
   through stops, resumes, forced detaches and crashes at any step: the phase,
   the path, the pull request and the head that the workflow of its state asks
   for were written with the state.
   (runProductionWorkflow, the guards of the workflows)  *)
LEMMA AcceptedInPlace ==
  ASSUME NEW t \in Task, PhaseOf(t), KnowsPr(t), ~t.retrying, t.state # "paused"
  PROVE  Accepted(t) \/ StoppedInSupervise(t) \/ RetriedAndPlanned(t)
<1>1. Place(t) = t.state
  BY DEF Place
<1>2. /\ t.state = "planned" => t.phase = "none" /\ t.verified
      /\ t.state = "planned" /\ ~RetriedAndPlanned(t) => t.named
  BY <1>1 DEF PhaseOf, RetriedAndPlanned
<1>3. t.state = "reviewing" => t.named /\ (t.phase = "review" \/ StoppedInSupervise(t))
  BY <1>1, PlacesKnown DEF PhaseOf, AfterPr, BeforeMerge, StoppedInSupervise
<1>4. /\ t.state = "planning" => t.phase \in {"plan", "plan_verify", "plan_fix"}
      /\ t.state = "implementing" => t.phase = "implement" /\ t.named
      /\ t.state = "fixing" => t.phase = "fix" /\ t.named
      /\ t.state = "ci_waiting" => t.phase = "ci_wait" /\ t.head # 0
      /\ t.state = "merging" => t.phase = "merge" /\ t.head # 0
      /\ t.state = "cleaning" => t.phase = "none" /\ t.named
  BY <1>1, PlacesKnown DEF PhaseOf, AfterPr, BeforeMerge
<1>5. t.state \in {"fixing", "ci_waiting", "merging"} => t.pr
  BY DEF KnowsPr, BeforeMerge
<1> QED
  BY <1>2, <1>3, <1>4, <1>5 DEF Accepted

THEOREM NoTaskIsRefused == Spec => []GuardsAccept
<1>1. IInv /\ CopiesInv => GuardsAccept
  <2> SUFFICES ASSUME IInv, CopiesInv, ~mem.retrying
               PROVE  Accepted(mem) \/ StoppedInSupervise(mem) \/ RetriedAndPlanned(mem)
    BY DEF GuardsAccept
  <2>1. mem \in Task /\ PhaseOf(mem) /\ KnowsPr(mem)
    BY DEF CopiesInv, CopyOK, IInv, WorkerInv, WorkerTypeOK, Good
  <2>2. mem.state = "paused" => Accepted(mem)
    BY DEF Accepted
  <2> QED
    BY <2>1, <2>2, AcceptedInPlace
<1> QED
  BY <1>1, CopiesInvariance, PTL

-----------------------------------------------------------------------------
(* The number of pull requests of a branch.  *)

(* A step makes none, or the first one.  *)
NoneMade == prs' = prs /\ (prState' = "NONE" <=> prState = "NONE")
FirstMade == prState = "NONE" /\ prState' = "DRAFT" /\ prs' = prs + 1

LEMMA PullRequestMoves ==
  ASSUME [Next]_vars
  PROVE  NoneMade \/ FirstMade
<1>1. RepositoryStep => NoneMade
  BY DEF RepositoryStep, BaseMoves, HumanPush, HumanMerge, HumanClose, AutoMergeFires,
         StopTakesEffect, EndPullRequest, prVars, Unmerged, NoneMade
<1>2. /\ EnsureWorktree \/ EditFiles \/ CommitEdits \/ RebaseBranch \/ PushBranch
         \/ MarkReady \/ Disarm \/ DeleteRemote \/ RemoveWorktree \/ DeleteLocalBranch
         \/ UNCHANGED repoVars \/ (ClosePullRequest /\ prState \in Unmerged)
           => NoneMade
      /\ CreateDraft /\ prState = "NONE" => FirstMade
  BY DEF EnsureWorktree, AddWorktree, EditFiles, CommitEdits, RebaseBranch, PushBranch,
         CreateDraft, MarkReady, Disarm, DeleteRemote, RemoveWorktree, ClosePullRequest,
         DeleteLocalBranch, repoVars, gitVars, prVars, Unmerged, NoneMade, FirstMade
<1>3. DeliveryStep => NoneMade \/ FirstMade
  <2>1. ImplementStep => NoneMade \/ FirstMade
    BY <1>2 DEF Repo, NoEffect, ImplementStep, ImplementEnter,
       ImplementAgentEdits, ImplementAgentDone, ImplementAgentStops, ImplementCommit,
       ImplementPush, ImplementPr, ImplementHead, ImplementReady
  <2>2. ReviewStep \/ FixStep => NoneMade
    BY <1>2 DEF Repo, NoEffect, ReviewStep, ReviewEnter, ReviewClean, ReviewFinds,
       SuperviseAccepts, SuperviseRejectsAll, ReviewerStops, FixStep, FixEnter, FixBefore,
       FixRebase, FixAgentEdits, FixAgentDone, FixAgentStops, FixCommit, FixPush, FixHead,
       FixDone
  <2> QED
    BY <2>1, <2>2 DEF DeliveryStep
<1>4. RetryStep => NoneMade
  BY <1>2 DEF Unchanged, RetryStep, RetryClosePr, RetryWorktree, RetryBranch, RetryClear,
     RetryQueue, RetryFails
<1>5. RunAgain \/ ResumeAgain \/ RepairStep \/ CrashStep => NoneMade
  BY <1>2 DEF RunAgain, ResumeAgain, RepairStep, RetryStart, ForceDetach, Unchanged,
     CrashStep
<1>6. CiReserve => NoneMade
  BY <1>2 DEF CiReserve, Quiet, NoneMade
<1>7. MergingStep => NoneMade
  BY <1>2, <1>6 DEF Quiet, StopMerge, MergingStep, CiStep, CiEnter, CiTimesOut, CiChecksFail,
     CiHeadMismatch, CiBlocked, CiPassed, CiRecheck, MergeStep, MergeEnter,
     MergeTimesOut, MergeSeesMerged, MergeSeesClosed, MergeBlocked, Barrier, CleanStep,
     CleanEnter, CleanGrace, CleanBranch, CleanWorktree, CleanForce, CleanDone
<1>8. UNCHANGED vars => NoneMade
  BY <1>2 DEF vars
<1> QED
  BY <1>1, <1>2, <1>3, <1>4, <1>5, <1>7, <1>8 DEF Next, ProcessStep, SurroundingsStep

(* One branch never gets a second pull request, neither beside a first that is
   open nor after one that is closed or merged, whatever crashes between the
   call of gh and the write of its number.  (restoreOrCreatePrAfterPush)  *)
THEOREM NoSecondPullRequest == Spec => []OnePullRequest
<1> DEFINE Counted == prs = IF prState = "NONE" THEN 0 ELSE 1
<1>1. Init => Counted
  BY DEF Init, RepositoryInit
<1>2. Counted /\ [Next]_vars => Counted'
  BY PullRequestMoves DEF NoneMade, FirstMade
<1>3. Counted => OnePullRequest
  BY DEF OnePullRequest
<1> QED
  BY <1>1, <1>2, <1>3, PTL DEF Spec

(* A task whose retry was begun and not finished is carried by no workflow,
   if retries take only what `autokit retry` without an issue takes: failed
   tasks and those whose earlier retry failed.  With an issue it takes a task
   in any state, and the statement is false.
   (commandResumeLocked, selectRetryTargets, retryCleanupTask)  *)
THEOREM HalfRetriedTasksRest ==
  ASSUME "explicit_retry" \notin Faults
  PROVE  Spec => []HalfRetriedNeverRuns
<1>1. BranchInv => HalfRetriedNeverRuns
  BY DEF BranchInv
<1> QED
  BY <1>1, BranchInvariance, PTL

(* From review to merge the recorded head, the local branch, the remote branch
   and the open pull request are one commit, through rebases, crashes between
   an effect and its record, resumes and retries, as long as nobody else has
   pushed, and as long as no retry names an issue.
   (runImplementWorkflow, runFixWorkflow)  *)
THEOREM RecordedHeadIsPublished ==
  ASSUME "explicit_retry" \notin Faults
  PROVE  Spec => []HeadIsPublished
<1>1. IInv /\ CopiesInv /\ BranchInv => HeadIsPublished
  <2> SUFFICES ASSUME IInv, CopiesInv, BranchInv,
                      disk.state \in {"reviewing", "ci_waiting", "merging"},
                      prState \in Unmerged, ff
               PROVE  disk.head = local /\ remote = local /\ prSha = local
    BY DEF HeadIsPublished
  <2>1. disk \in Task /\ disk.state \in Active
    BY DEF IInv, WorkerInv, WorkerTypeOK, Active
  <2>2. ~disk.retrying /\ Place(disk) = disk.state
    BY <2>1, ActiveIsNotRetried DEF BranchInv, BranchOK
  <2>3. View.own = 1
    BY DEF View, Own
  <2>4. remote = local /\ disk.head = prSha
    BY <2>2, <2>3, Fields DEF BranchInv, BranchOK, Claims
  <2>5. prSha = remote
    BY Fields DEF BranchInv, Published
  <2> QED
    BY <2>4, <2>5
<1> QED
  BY <1>1, BranchInvariance, PTL

(* A retry that queues its task again has left nothing of the earlier attempt:
   no worktree, no local branch, and no pull request that could still merge.
   Like HalfRetriedTasksRest it assumes that no retry names an issue: a paused
   task that is named can be resumed half-way, and retried again with steps
   already recorded.  (selectRetryTargets, retryCleanupTask)  *)
THEOREM RetryLeavesNothing ==
  ASSUME "explicit_retry" \notin Faults
  PROVE  Spec => RetriedStartsAfresh
<1>1. IInv /\ CopiesInv /\ BranchInv /\ [Next]_vars =>
        [pc = "retry" /\ pc' = "exit" /\ ~mem'.retrying
           => ~worktree /\ local = 0 /\ prState \notin Unmerged]_vars
  <2> SUFFICES ASSUME IInv, CopiesInv, BranchInv, Next,
                      pc = "retry", pc' = "exit", ~mem'.retrying
               PROVE  ~worktree /\ local = 0 /\ prState \notin Unmerged
    BY DEF vars, workerVars
  <2>1. RetryStep
    BY DEF Next, ProcessStep, Save, Stop, RunAgain, Begin, ResumeAgain, Resume, RepairStep,
           RetryStart, ForceDetach, CrashStep, Crash, SurroundingsStep, workerVars,
           PlanningStep, PlanEnter, PlanPhaseStart, PlannerWrites, VerifierAccepts,
           VerifierRejects, PlanAgentStops, PlanLoopExhausted, PlanWrite,
           DeliveryStep, ImplementStep, ImplementEnter, ImplementAgentEdits,
           ImplementAgentDone, ImplementAgentStops, ImplementCommit, ImplementPush,
           ImplementPr, ImplementHead, ImplementReady, DueImplement, ReviewStep, ReviewEnter,
           ReviewClean, ReviewFinds, SuperviseAccepts, SuperviseRejectsAll, ReviewerStops,
           FixStep, FixEnter, FixBefore, FixRebase, FixAgentEdits, FixAgentDone,
           FixAgentStops, FixCommit, FixPush, FixHead, FixDone, DueFix,
           MergingStep, CiStep, CiEnter, CiTimesOut, CiChecksFail, CiHeadMismatch, CiBlocked,
           CiPassed, CiReserve, CiRecheck, MergeStep, MergeEnter, MergeTimesOut,
           MergeSeesMerged, MergeSeesClosed, MergeBlocked, Barrier, CleanStep, CleanEnter,
           CleanGrace, CleanBranch, CleanWorktree, CleanForce, CleanDone, At
  <2>2. mem \in Task /\ mem.retrying
    BY DEF IInv, WorkerInv, WorkerTypeOK, Fits
  <2>3. Pause(mem, "retry_cleanup_failed").retrying = mem.retrying
    BY <2>2 DEF Pause, Task
  <2>4. ~RetryFails
    BY <2>2, <2>3 DEF RetryFails, Record
  <2>5. mem.retry = RetrySteps
    BY <2>1, <2>4 DEF RetryStep, RetryClosePr, RetryWorktree, RetryBranch, RetryClear,
       RetryQueue, Record
  <2>6. Swept(mem, View) /\ mem.retry = RetrySteps
    BY <2>5 DEF BranchInv, BranchOK
  <2>7. View.state \notin Unmerged /\ View.tree = 0 /\ View.local = 0
    BY <2>6 DEF Swept, RetrySteps
  <2> QED
    BY <2>7, Fields DEF Tree
<1> QED
  BY <1>1, BranchInvariance, PTL DEF Spec, RetriedStartsAfresh

(* What a step does to the reservation: one is made by reserveAutoMerge alone,
   and while there is one an open pull request stays open.  *)
ReservationGoes ==
  \/ armed' = "off"
  \/ /\ armed # "off" /\ armed' \in {armed, "stopping"}
     /\ prState' \in {prState, "OPEN"} \/ prState = "NONE"

LEMMA ReservationMoves ==
  ASSUME [Next]_vars
  PROVE  \/ CiReserve /\ prState = "OPEN" /\ HeadMatches /\ prState' = "OPEN"
         \/ ReservationGoes
<1>1. RepositoryStep => ReservationGoes
  BY DEF RepositoryStep, BaseMoves, HumanPush, HumanMerge, HumanClose, AutoMergeFires,
         StopTakesEffect, EndPullRequest, prVars, ReservationGoes
<1>2. /\ EnsureWorktree \/ EditFiles \/ CommitEdits \/ RebaseBranch \/ PushBranch
         \/ MarkReady \/ Disarm \/ DeleteRemote \/ RemoveWorktree \/ ClosePullRequest
         \/ DeleteLocalBranch \/ UNCHANGED repoVars \/ (CreateDraft /\ prState = "NONE")
           => ReservationGoes
  BY DEF EnsureWorktree, AddWorktree, EditFiles, CommitEdits, RebaseBranch, PushBranch,
         CreateDraft, MarkReady, Disarm, DeleteRemote, RemoveWorktree, ClosePullRequest,
         DeleteLocalBranch, repoVars, gitVars, prVars, ReservationGoes
<1>3. DeliveryStep => ReservationGoes
  <2>1. ImplementStep => ReservationGoes
    BY <1>2 DEF Repo, NoEffect, ImplementStep, ImplementEnter,
       ImplementAgentEdits, ImplementAgentDone, ImplementAgentStops, ImplementCommit,
       ImplementPush, ImplementPr, ImplementHead, ImplementReady
  <2>2. ReviewStep \/ FixStep => ReservationGoes
    BY <1>2 DEF Repo, NoEffect, ReviewStep, ReviewEnter, ReviewClean, ReviewFinds,
       SuperviseAccepts, SuperviseRejectsAll, ReviewerStops, FixStep, FixEnter, FixBefore,
       FixRebase, FixAgentEdits, FixAgentDone, FixAgentStops, FixCommit, FixPush, FixHead,
       FixDone
  <2> QED
    BY <2>1, <2>2 DEF DeliveryStep
<1>4. RetryStep => ReservationGoes
  BY <1>2 DEF Unchanged, RetryStep, RetryClosePr, RetryWorktree, RetryBranch, RetryClear,
     RetryQueue, RetryFails
<1>5. RunAgain \/ ResumeAgain \/ RepairStep \/ CrashStep => ReservationGoes
  BY <1>2 DEF RunAgain, ResumeAgain, RepairStep, RetryStart, ForceDetach, Unchanged,
     CrashStep
<1>6. CiReserve => \/ CiReserve /\ prState = "OPEN" /\ HeadMatches /\ prState' = "OPEN"
                   \/ ReservationGoes
  BY <1>2 DEF CiReserve, Quiet
<1>7. MergingStep => CiReserve \/ ReservationGoes
  BY <1>2 DEF Quiet, StopMerge, MergingStep, CiStep, CiEnter, CiTimesOut, CiChecksFail,
     CiHeadMismatch, CiBlocked, CiPassed, CiRecheck, MergeStep, MergeEnter,
     MergeTimesOut, MergeSeesMerged, MergeSeesClosed, MergeBlocked, Barrier, CleanStep,
     CleanEnter, CleanGrace, CleanBranch, CleanWorktree, CleanForce, CleanDone
<1>8. UNCHANGED vars => ReservationGoes
  BY <1>2 DEF vars
<1> QED
  BY <1>1, <1>2, <1>3, <1>4, <1>5, <1>6, <1>7, <1>8 DEF Next, ProcessStep, SurroundingsStep

(* A reservation is made only for the head that the last review without
   accepted findings saw, over any number of crashes, unless somebody else has
   pushed and as long as no retry names an issue.  (fix_pushed,
   reserveAutoMerge)  *)
THEOREM OnlyReviewedHeadsAreReserved ==
  ASSUME "explicit_retry" \notin Faults
  PROVE  Spec => ReservedHeadWasReviewed
<1>1. IInv /\ CopiesInv /\ BranchInv /\ [Next]_vars =>
        [armed # "on" /\ armed' = "on" /\ ff => prSha = reviewed]_vars
  <2> SUFFICES ASSUME IInv, CopiesInv, BranchInv, Next, armed # "on", armed' = "on", ff
               PROVE  prSha = reviewed
    BY DEF vars, repoVars, prVars
  <2>1. CiReserve /\ prState = "OPEN"
    BY ReservationMoves DEF ReservationGoes
  <2>2. mem \in Task /\ mem.state = "ci_waiting" /\ mem.state \in Active
    BY <2>1 DEF IInv, WorkerInv, WorkerTypeOK, Fits, CiReserve, At, Active
  <2>3. ~mem.retrying /\ Place(mem) = "ci_waiting"
    BY <2>2, ActiveIsNotRetried DEF BranchInv, BranchOK
  <2>4. View.own = 1 /\ View.state \in Unmerged
    BY <2>1, Fields DEF Own, Unmerged
  <2>5. View.remote = View.local /\ View.reviewed = View.local
    BY <2>3, <2>4 DEF BranchInv, BranchOK, Claims
  <2>6. View.sha = View.remote
    BY <2>4 DEF BranchInv, Published
  <2> QED
    BY <2>5, <2>6, Fields
<1> QED
  BY <1>1, BranchInvariance, PTL DEF Spec, ReservedHeadWasReviewed

-----------------------------------------------------------------------------
(* The third invariant, of a process that has not been interrupted yet: it is
   the one that a crash between an effect and its record breaks.  *)

PlanLabels == {"plan", "plan_agent", "plan_write"}

(* The states in which the plan file is read.  *)
Filed == {"planned", "implementing", "reviewing", "fixing", "ci_waiting", "merging",
          "cleaning", "merged"}

(* A plan was written for the task: it is being verified, or was accepted.  *)
HasPlan(t) ==
  \/ Place(t) = "planning" /\ t.phase = "plan_verify"
  \/ t.state \in Filed \/ t.prev \in Filed

PlanKept ==
  /\ pc \in PlanLabels =>
       /\ disk.state \in {"queued", "planning"} /\ mem.prev \notin Filed
       /\ HasPlan(mem) => held \/ planFile = "newest"
  /\ pc \notin PlanLabels /\ HasPlan(mem) => planFile = "newest"
  /\ disk.state \in Filed => planFile = "newest"

(* A task rests where it can be taken up again, or a retry is to be tried
   again; a task before its plan has been no further, and one that has failed
   is in no phase.  *)
Resting(t) ==
  /\ t.state = "paused" /\ "fields_cleared" \notin t.retry
       => t.prev # "none" \/ t.failure = "retry_cleanup_failed"
  /\ "fields_cleared" \in t.retry => t.retry = RetrySteps /\ t.prev = "none"
  /\ t.state \in {"queued", "planning"} => t.prev \notin Filed
  /\ t.state = "failed" => t.phase = "none"

ComesToRest ==
  /\ pc \in {"idle", "plan", "plan_write"} => ~dirty
  /\ pc = "idle" => mem.state # "cleaning"
  /\ pc = "exit" => mem.state \in {"paused", "queued"}
  /\ "fields_cleared" \in mem.retry => pc = "retry"
  /\ Resting(mem)

ReservationKept ==
  armed # "off" =>
    /\ prState = "OPEN"
    /\ pc \in {"reserved", "barrier"} \/ (mem.state = "merging" /\ pc \in {"loop", "merge"})

(* A process that waits for the reservation to go has paused its task.  *)
StoppedAtBarrier ==
  pc = "barrier" => mem.state = "paused" /\ mem.prev \in {"ci_waiting", "merging"}

CalmInv == PlanKept /\ ComesToRest /\ ReservationKept

(* The transitions from planned on: none goes back before the plan, and a
   pause remembers the state.  *)
WorkedOn(t, u) ==
  /\ u.retry = t.retry
  /\ u.state \notin {"queued", "planning"}
  /\ u.state = "paused" => u.prev = t.state
  /\ u.state = "failed" => u.phase = "none"

LEMMA WorkOperators ==
  ASSUME NEW t \in Task, t.state \in Filed \ {"merged"}
  PROVE  /\ \A code : WorkedOn(t, Pause(t, code)) /\ WorkedOn(t, Fail(t, code))
         /\ WorkedOn(t, ImplementStarted(t))
         /\ \A step, head :
              /\ WorkedOn(t, MarkImplement(t, step))
              /\ WorkedOn(t, [MarkImplement(t, step) EXCEPT !.pr = TRUE])
              /\ WorkedOn(t, [MarkImplement(t, step) EXCEPT !.head = head])
              /\ WorkedOn(t, [[MarkImplement(t, step) EXCEPT !.pr = TRUE] EXCEPT !.head = head])
              /\ WorkedOn(t, MarkFix(t, step))
              /\ WorkedOn(t, [MarkFix(t, step) EXCEPT !.head = head])
              /\ WorkedOn(t, FixPushed(MarkFix(t, step)))
              /\ WorkedOn(t, PrReady(t, head))
              /\ WorkedOn(t, PrMerged(t, head))
              /\ WorkedOn(t, MarkCleaning(t, step))
              /\ WorkedOn(t, [t EXCEPT !.removeTries = head])
         /\ WorkedOn(t, ReviewCompleted(t)) /\ WorkedOn(t, SuperviseAccept(t))
         /\ WorkedOn(t, SuperviseClean(t)) /\ WorkedOn(t, SuperviseClean(ReviewCompleted(t)))
         /\ WorkedOn(t, CiFailed(t)) /\ WorkedOn(t, CiTimeout(t))
         /\ WorkedOn(t, AutoMergeReserved(t))
         /\ WorkedOn(t, WorktreeRemoved(t)) /\ WorkedOn(t, CleaningCompleted(t))
<1> USE DEF WorkedOn, Task, Filed
<1>1. t.state \in Active
  BY DEF Active
<1>2. \A code : WorkedOn(t, Pause(t, code)) /\ WorkedOn(t, Fail(t, code))
  BY <1>1 DEF Pause, Fail
<1>3. WorkedOn(t, ImplementStarted(t))
  BY DEF ImplementStarted, Enter
<1>4. ASSUME NEW step, NEW head
      PROVE  /\ WorkedOn(t, MarkImplement(t, step))
             /\ WorkedOn(t, [MarkImplement(t, step) EXCEPT !.pr = TRUE])
             /\ WorkedOn(t, [MarkImplement(t, step) EXCEPT !.head = head])
             /\ WorkedOn(t, [[MarkImplement(t, step) EXCEPT !.pr = TRUE] EXCEPT !.head = head])
  BY DEF MarkImplement
<1>5. ASSUME NEW step, NEW head
      PROVE  /\ WorkedOn(t, MarkFix(t, step))
             /\ WorkedOn(t, [MarkFix(t, step) EXCEPT !.head = head])
             /\ WorkedOn(t, FixPushed(MarkFix(t, step)))
  BY DEF MarkFix, FixPushed, Enter
<1>6. ASSUME NEW step, NEW head
      PROVE  /\ WorkedOn(t, PrReady(t, head))
             /\ WorkedOn(t, MarkCleaning(t, step))
             /\ WorkedOn(t, [t EXCEPT !.removeTries = head])
  BY DEF PrReady, MarkCleaning, Enter
<1>7. ASSUME NEW head PROVE WorkedOn(t, PrMerged(t, head))
  BY <1>2 DEF PrMerged, Enter
<1>8. /\ WorkedOn(t, ReviewCompleted(t)) /\ WorkedOn(t, SuperviseAccept(t))
      /\ WorkedOn(t, SuperviseClean(t)) /\ WorkedOn(t, SuperviseClean(ReviewCompleted(t)))
  BY <1>2 DEF ReviewCompleted, SuperviseAccept, SuperviseClean, Enter
<1>9. /\ WorkedOn(t, CiFailed(t)) /\ WorkedOn(t, CiTimeout(t))
      /\ WorkedOn(t, AutoMergeReserved(t))
  BY <1>2 DEF CiFailed, CiTimeout, AutoMergeReserved, Enter
<1>10. WorkedOn(t, WorktreeRemoved(t)) /\ WorkedOn(t, CleaningCompleted(t))
  BY DEF WorktreeRemoved, MarkCleaning, CleaningCompleted, Enter
<1> QED
  BY <1>2, <1>3, <1>4, <1>5, <1>6, <1>7, <1>8, <1>9, <1>10

(* A step of a workflow after planning.  *)
WorkGoesOn ==
  /\ mem' = mem \/ (mem.state \in Filed /\ WorkedOn(mem, mem'))
  /\ {pc, pc'} \cap (PlanLabels \cup {"exit", "retry"}) = {} /\ pc # "idle"
  /\ pc' = "idle" => ~dirty' /\ mem' = mem /\ mem.state # "cleaning"
  /\ disk' = disk

LEMMA WorkRecorded ==
  ASSUME NEW u, NEW label, Record(u, label) \/ Continue(u, label),
         {pc, label} \cap (PlanLabels \cup {"exit", "retry", "idle"}) = {},
         u = mem \/ (mem.state \in Filed /\ WorkedOn(mem, u))
  PROVE  WorkGoesOn
  BY DEF Record, Continue, WorkGoesOn

LEMMA WorkThrown ==
  ASSUME Throw, mem = disk, mem.state # "cleaning",
         pc \notin PlanLabels \cup {"exit", "retry", "idle"}
  PROVE  WorkGoesOn
  BY DEF Throw, WorkGoesOn, PlanLabels

LEMMA DeliveryGoesOn ==
  ASSUME IInv, Synced, DeliveryStep
  PROVE  WorkGoesOn
<1> USE DEF PlanLabels, Filed
<1>1. mem \in Task /\ Fits(mem, pc)
  BY DEF IInv, WorkerInv, WorkerTypeOK
<1>2. ASSUME mem.state \in {"planned", "implementing", "reviewing", "fixing"},
             NEW code
      PROVE  WorkedOn(mem, Pause(mem, code)) /\ WorkedOn(mem, Fail(mem, code))
  BY <1>1, <1>2, WorkOperators
<1>3. ASSUME NEW step, DueImplement(step)
      PROVE  mem.state = "implementing" /\ pc = "implement" /\ mem = disk
  BY <1>1, <1>3 DEF DueImplement, At, Fits, Synced
<1>4. ASSUME NEW step, DueFix(step)
      PROVE  mem.state = "fixing" /\ pc = "fix" /\ mem = disk
  BY <1>1, <1>4 DEF DueFix, At, Fits, Synced
<1>5. ASSUME ImplementStep PROVE WorkGoesOn
  <2>1. ImplementEnter => WorkGoesOn
    <3> SUFFICES ASSUME ImplementEnter PROVE WorkGoesOn
      OBVIOUS
    <3>1. pc = "loop" /\ mem.state \in {"planned", "implementing"} /\ mem = disk
      BY DEF ImplementEnter, At, Synced
    <3>2. WorkedOn(mem, ImplementStarted(mem))
      BY <1>1, <3>1, WorkOperators
    <3> QED
      BY <3>1, <3>2, WorkRecorded, WorkThrown DEF ImplementEnter
  <2>2. ImplementAgentEdits => WorkGoesOn
    BY <1>3 DEF ImplementAgentEdits, workerVars, WorkGoesOn
  <2>3. ImplementAgentDone \/ ImplementCommit \/ ImplementPush => WorkGoesOn
    <3>1. mem.state = "implementing" => \A step : WorkedOn(mem, MarkImplement(mem, step))
      BY <1>1, WorkOperators
    <3> QED
      BY <1>3, <3>1, WorkRecorded, WorkThrown
      DEF ImplementAgentDone, ImplementCommit, ImplementPush
  <2>4. ImplementAgentStops => WorkGoesOn
    BY <1>2, <1>3, WorkRecorded DEF ImplementAgentStops, AgentStops, Return
  <2>5. ImplementPr => WorkGoesOn
    <3> SUFFICES ASSUME ImplementPr PROVE WorkGoesOn
      OBVIOUS
    <3> DEFINE t == [MarkImplement(mem, "pr_created") EXCEPT !.pr = TRUE]
    <3>1. mem.state = "implementing" /\ pc = "implement"
      BY <1>3 DEF ImplementPr
    <3>2. /\ WorkedOn(mem, t) /\ WorkedOn(mem, [t EXCEPT !.head = prSha])
          /\ WorkedOn(mem, Pause(mem, "pre_pr_active_orphan"))
      BY <1>1, <3>1, WorkOperators
    <3>3. \/ Record(t, "implement") \/ Record([t EXCEPT !.head = prSha], "implement")
          \/ Record(Pause(mem, "pre_pr_active_orphan"), "loop")
      BY DEF ImplementPr, Return
    <3> HIDE DEF t
    <3> QED
      BY <3>1, <3>2, <3>3, WorkRecorded
  <2>6. ImplementHead \/ ImplementReady => WorkGoesOn
    <3>1. mem.state = "implementing" => \A step, head :
            /\ WorkedOn(mem, [MarkImplement(mem, step) EXCEPT !.head = head])
            /\ WorkedOn(mem, PrReady(mem, head))
      BY <1>1, WorkOperators
    <3> QED
      BY <1>3, <3>1, WorkRecorded, WorkThrown DEF ImplementHead, ImplementReady
  <2> QED
    BY <1>5, <2>1, <2>2, <2>3, <2>4, <2>5, <2>6 DEF ImplementStep
<1>6. ASSUME ReviewStep PROVE WorkGoesOn
  <2>1. At("review") \/ At("supervise") => mem.state = "reviewing" /\ pc \in {"review", "supervise"}
    BY <1>1 DEF At, Fits
  <2>2. mem.state = "reviewing" =>
          /\ WorkedOn(mem, ReviewCompleted(mem)) /\ WorkedOn(mem, SuperviseAccept(mem))
          /\ WorkedOn(mem, SuperviseClean(mem))
          /\ WorkedOn(mem, SuperviseClean(ReviewCompleted(mem)))
    BY <1>1, WorkOperators
  <2>3. ReviewEnter => WorkGoesOn
    BY <1>2, WorkRecorded DEF ReviewEnter, At, Return
  <2>4. ReviewClean \/ ReviewFinds \/ SuperviseAccepts \/ SuperviseRejectsAll => WorkGoesOn
    BY <2>1, <2>2, WorkRecorded
    DEF ReviewClean, ReviewFinds, SuperviseAccepts, SuperviseRejectsAll, Return
  <2>5. ReviewerStops => WorkGoesOn
    BY <1>2, <2>1, WorkRecorded DEF ReviewerStops, AgentStops, Return
  <2> QED
    BY <1>6, <2>3, <2>4, <2>5 DEF ReviewStep
<1>7. ASSUME FixStep PROVE WorkGoesOn
  <2>1. mem.state = "fixing" => \A step, head :
          /\ WorkedOn(mem, MarkFix(mem, step))
          /\ WorkedOn(mem, [MarkFix(mem, step) EXCEPT !.head = head])
          /\ WorkedOn(mem, FixPushed(MarkFix(mem, step)))
    BY <1>1, WorkOperators
  <2>2. FixEnter => WorkGoesOn
    BY WorkRecorded DEF FixEnter, At
  <2>3. FixBefore \/ FixAgentDone \/ FixCommit \/ FixPush \/ FixHead \/ FixDone => WorkGoesOn
    BY <1>4, <2>1, WorkRecorded, WorkThrown
    DEF FixBefore, FixAgentDone, FixCommit, FixPush, FixHead, FixDone
  <2>4. FixAgentEdits => WorkGoesOn
    BY <1>4 DEF FixAgentEdits, workerVars, WorkGoesOn
  <2>5. FixRebase \/ FixAgentStops => WorkGoesOn
    BY <1>2, <1>4, <2>1, WorkRecorded DEF FixRebase, FixAgentStops, AgentStops, Return
  <2> QED
    BY <1>7, <2>2, <2>3, <2>4, <2>5 DEF FixStep
<1> QED
  BY <1>5, <1>6, <1>7 DEF DeliveryStep

LEMMA MergingGoesOn ==
  ASSUME IInv, Synced, MergingStep
  PROVE  WorkGoesOn
<1> USE DEF PlanLabels, Filed
<1>1. mem \in Task /\ Fits(mem, pc)
  BY DEF IInv, WorkerInv, WorkerTypeOK
<1>2. ASSUME mem.state \in {"ci_waiting", "merging", "cleaning"}, NEW code
      PROVE  WorkedOn(mem, Pause(mem, code)) /\ WorkedOn(mem, Fail(mem, code))
  BY <1>1, <1>2, WorkOperators
<1>3. /\ At("ci") \/ At("reserve") \/ At("reserved") =>
           mem.state = "ci_waiting" /\ pc \in {"ci", "reserve", "reserved"}
      /\ At("merge") => mem.state = "merging" /\ pc = "merge"
      /\ At("clean") \/ At("force_remove") =>
           mem.state = "cleaning" /\ pc \in {"clean", "force_remove"}
  BY <1>1 DEF At, Fits
<1>4. ASSUME CiStep PROVE WorkGoesOn
  <2>1. mem.state = "ci_waiting" =>
          /\ WorkedOn(mem, CiFailed(mem)) /\ WorkedOn(mem, CiTimeout(mem))
          /\ WorkedOn(mem, AutoMergeReserved(mem))
    BY <1>1, WorkOperators
  <2>2. CiEnter \/ CiTimesOut \/ CiChecksFail \/ CiHeadMismatch \/ CiBlocked \/ CiPassed
          => WorkGoesOn
    BY <1>2, <1>3, <2>1, WorkRecorded
    DEF CiEnter, CiTimesOut, CiChecksFail, CiHeadMismatch, CiBlocked, CiPassed, Return, At
  <2>3. CiReserve => WorkGoesOn
    <3>1. At("reserve") => mem = disk
      BY DEF At, Synced
    <3> QED
      BY <1>3, <3>1, WorkRecorded, WorkThrown DEF CiReserve
  <2>4. CiRecheck => WorkGoesOn
    BY <1>2, <1>3, <2>1, WorkRecorded DEF CiRecheck, Return
  <2> QED
    BY <1>4, <2>2, <2>3, <2>4 DEF CiStep
<1>5. ASSUME MergeStep PROVE WorkGoesOn
  <2>1. mem.state = "merging" => WorkedOn(mem, PrMerged(mem, prSha))
    BY <1>1, WorkOperators
  <2>2. MergeEnter \/ Barrier => WorkGoesOn
    BY WorkRecorded DEF MergeEnter, Barrier, Return, At
  <2>3. MergeTimesOut \/ MergeSeesMerged \/ MergeSeesClosed \/ MergeBlocked => WorkGoesOn
    BY <1>2, <1>3, <2>1, WorkRecorded
    DEF MergeTimesOut, MergeSeesMerged, MergeSeesClosed, MergeBlocked, StopMerge, Return
  <2> QED
    BY <1>5, <2>2, <2>3 DEF MergeStep
<1>6. ASSUME CleanStep PROVE WorkGoesOn
  <2>1. mem.state = "cleaning" =>
          /\ \A step, n : /\ WorkedOn(mem, MarkCleaning(mem, step))
                          /\ WorkedOn(mem, [mem EXCEPT !.removeTries = n])
          /\ WorkedOn(mem, WorktreeRemoved(mem)) /\ WorkedOn(mem, CleaningCompleted(mem))
    BY <1>1, WorkOperators
  <2>2. CleanEnter \/ CleanGrace \/ CleanBranch \/ CleanDone => WorkGoesOn
    BY <1>2, <1>3, <2>1, WorkRecorded
    DEF CleanEnter, CleanGrace, CleanBranch, CleanDone, Return, At
  <2>3. CleanWorktree \/ CleanForce => WorkGoesOn
    BY <1>2, <1>3, <2>1, WorkRecorded DEF CleanWorktree, CleanForce, Return
  <2> QED
    BY <1>6, <2>2, <2>3 DEF CleanStep
<1> QED
  BY <1>4, <1>5, <1>6 DEF MergingStep

LEMMA WorkKeepsCalm ==
  ASSUME CalmInv, WorkGoesOn, UNCHANGED planVars
  PROVE  PlanKept' /\ ComesToRest'
<1>1. pc \notin PlanLabels /\ pc' \notin PlanLabels
  BY DEF WorkGoesOn
<1>2. "fields_cleared" \notin mem.retry
  BY DEF CalmInv, ComesToRest, WorkGoesOn
<1>3. Resting(mem') /\ mem'.retry = mem.retry
  BY <1>2 DEF CalmInv, ComesToRest, Resting, WorkGoesOn, WorkedOn, Filed
<1>4. ComesToRest'
  BY <1>2, <1>3 DEF CalmInv, ComesToRest, WorkGoesOn, PlanLabels
<1>5. HasPlan(mem') => HasPlan(mem)
  BY DEF WorkGoesOn, HasPlan
<1>6. PlanKept'
  BY <1>1, <1>5 DEF CalmInv, PlanKept, WorkGoesOn, planVars
<1> QED
  BY <1>4, <1>6

(* The steps of a retry.  *)
LEMMA RetryRests ==
  ASSUME NEW t \in Task, Resting(t)
  PROVE  /\ \A step \in RetrySteps \ {"fields_cleared"} :
              LET u == MarkRetry(t, step) IN Resting(u) /\ (HasPlan(u) => HasPlan(t))
         /\ {"pr_closed", "worktree_removed", "branch_deleted"} \subseteq t.retry =>
              LET u == MarkRetry(ClearRetryFields(t), "fields_cleared")
              IN  Resting(u) /\ (HasPlan(u) => HasPlan(t))
         /\ "fields_cleared" \notin t.retry =>
              LET u == Pause(t, "retry_cleanup_failed")
              IN  /\ Resting(u) /\ (HasPlan(u) => HasPlan(t))
                  /\ u.state = "paused" /\ u.retry = t.retry
         /\ t.retry = RetrySteps =>
              /\ Resting(Queued(t)) /\ ~HasPlan(Queued(t))
              /\ Queued(t).state = "queued" /\ Queued(t).retry = {}
<1> USE DEF Resting, HasPlan, Place
<1>1. ASSUME NEW step \in RetrySteps \ {"fields_cleared"}
      PROVE  LET u == MarkRetry(t, step) IN Resting(u) /\ (HasPlan(u) => HasPlan(t))
  <2> DEFINE u == MarkRetry(t, step)
  <2>1. /\ u.state = t.state /\ u.phase = t.phase /\ u.prev = t.prev /\ u.failure = t.failure
        /\ u.retry = t.retry \cup {step}
    BY DEF MarkRetry, Task
  <2> HIDE DEF u
  <2>2. Resting(u) /\ (HasPlan(u) => HasPlan(t))
    BY <2>1
  <2> QED
    BY <2>2 DEF u
<1>2. ASSUME {"pr_closed", "worktree_removed", "branch_deleted"} \subseteq t.retry
      PROVE  LET u == MarkRetry(ClearRetryFields(t), "fields_cleared")
             IN  Resting(u) /\ (HasPlan(u) => HasPlan(t))
  <2> DEFINE u == MarkRetry(ClearRetryFields(t), "fields_cleared")
  <2>1. /\ u.state = t.state /\ u.phase = "none" /\ u.prev = "none"
        /\ u.retry = t.retry \cup {"fields_cleared"}
    BY DEF MarkRetry, ClearRetryFields, Task
  <2>2. u.retry = RetrySteps
    BY <1>2, <2>1 DEF Task, RetrySteps
  <2> HIDE DEF u
  <2>3. Resting(u) /\ (HasPlan(u) => HasPlan(t))
    BY <2>1, <2>2 DEF Filed, RetrySteps
  <2> QED
    BY <2>3 DEF u
<1>3. ASSUME "fields_cleared" \notin t.retry
      PROVE  LET u == Pause(t, "retry_cleanup_failed")
             IN  /\ Resting(u) /\ (HasPlan(u) => HasPlan(t))
                 /\ u.state = "paused" /\ u.retry = t.retry
  <2> DEFINE u == Pause(t, "retry_cleanup_failed")
  <2>1. CASE t.state = "paused" /\ t.failure # "none"
    BY <1>3, <2>1 DEF Pause
  <2>2. CASE ~(t.state = "paused" /\ t.failure # "none")
    <3>1. /\ u.state = "paused" /\ u.phase = t.phase /\ u.retry = t.retry
          /\ u.failure = "retry_cleanup_failed"
          /\ u.prev = IF t.state \in Active THEN t.state ELSE t.prev
      BY <2>2 DEF Pause, Task
    <3> HIDE DEF u
    <3>2. Resting(u) /\ (HasPlan(u) => HasPlan(t))
      BY <1>3, <3>1 DEF Active, Filed, Task, States
    <3> QED
      BY <3>1, <3>2 DEF u
  <2> QED
    BY <2>1, <2>2
<1>4. ASSUME t.retry = RetrySteps
      PROVE  /\ Resting(Queued(t)) /\ ~HasPlan(Queued(t))
             /\ Queued(t).state = "queued" /\ Queued(t).retry = {}
  <2>1. t.prev = "none"
    BY <1>4 DEF RetrySteps
  <2>2. Queued(t).state = "queued" /\ Queued(t).prev = t.prev /\ Queued(t).retry = {}
    BY DEF Queued, Task
  <2> QED
    BY <2>1, <2>2 DEF Filed
<1> QED
  BY <1>1, <1>2, <1>3, <1>4

LEMMA RetryKeepsCalm ==
  ASSUME IInv, CalmInv, RetryStep, UNCHANGED planVars
  PROVE  PlanKept' /\ ComesToRest'
<1>1. mem \in Task /\ Resting(mem)
  BY DEF IInv, WorkerInv, WorkerTypeOK, CalmInv, ComesToRest
<1>2. ASSUME NEW u, NEW label, Record(u, label), Resting(u), HasPlan(u) => HasPlan(mem),
             pc = "retry",
             \/ label = "retry"
             \/ /\ label = "exit" /\ "fields_cleared" \notin u.retry
                /\ u.state \in {"paused", "queued"}
      PROVE  PlanKept' /\ ComesToRest'
  <2>1. mem' = u /\ pc' = label /\ dirty' /\ disk' = disk
    BY <1>2 DEF Record
  <2>2. pc \notin PlanLabels /\ pc' \notin PlanLabels
    BY <1>2, <2>1 DEF PlanLabels
  <2>3. ComesToRest'
    BY <1>2, <2>1 DEF ComesToRest
  <2>4. PlanKept'
    BY <1>2, <2>1, <2>2 DEF CalmInv, PlanKept, planVars
  <2> QED
    BY <2>3, <2>4
<1>3. ASSUME NEW step \in RetrySteps \ {"fields_cleared"}, step \notin mem.retry, At("retry"),
             Record(MarkRetry(mem, step), "retry") \/ RetryFails
      PROVE  PlanKept' /\ ComesToRest'
  <2>1. "fields_cleared" \notin mem.retry
    BY <1>1, <1>3 DEF Resting
  <2>2. CASE Record(MarkRetry(mem, step), "retry")
    BY <1>1, <1>2, <1>3, <2>2, RetryRests DEF At
  <2>3. CASE RetryFails
    BY <1>1, <1>2, <1>3, <2>1, <2>3, RetryRests DEF At, RetryFails
  <2> QED
    BY <1>3, <2>2, <2>3
<1>4. RetryClosePr \/ RetryWorktree \/ RetryBranch => PlanKept' /\ ComesToRest'
  BY <1>3 DEF RetryClosePr, RetryWorktree, RetryBranch, DueRetry, RetrySteps
<1>5. RetryClear => PlanKept' /\ ComesToRest'
  BY <1>1, <1>2, RetryRests DEF RetryClear, DueRetry, At
<1>6. RetryQueue => PlanKept' /\ ComesToRest'
  BY <1>1, <1>2, RetryRests DEF RetryQueue, Queued, At
<1> QED
  BY <1>4, <1>5, <1>6 DEF RetryStep

(* The commands start where the process rests.  *)
LEMMA CommandKeepsCalm ==
  ASSUME IInv, CopiesInv, CalmInv,
         Begin \/ Resume \/ RetryStart \/ ForceDetach, UNCHANGED planVars
  PROVE  PlanKept' /\ ComesToRest'
<1>1. /\ pc = "idle" /\ ~dirty /\ mem = disk /\ mem \in Task
      /\ Resting(mem) /\ "fields_cleared" \notin mem.retry /\ mem.state # "cleaning"
      /\ DetachOf(mem)
  BY DEF Begin, Resume, RetryStart, ForceDetach, At, CopiesInv, Synced, CopyOK,
     CalmInv, ComesToRest, IInv, WorkerInv, WorkerTypeOK
<1>2. pc \notin PlanLabels /\ "none" \notin Filed /\ "paused" \notin Filed
  BY <1>1 DEF PlanLabels, Filed
<1>3. ASSUME NEW u, mem' = u, pc' \in {"idle", "loop", "retry"}, pc' = "idle" => ~dirty',
             Resting(u), HasPlan(u) => HasPlan(mem), u.retry = mem.retry,
             pc' = "idle" => u.state # "cleaning", disk' \in {disk, u}
      PROVE  PlanKept' /\ ComesToRest'
  <2>1. ComesToRest'
    BY <1>1, <1>3 DEF ComesToRest
  <2>2. u.state \in Filed => HasPlan(mem)
    BY <1>3 DEF HasPlan
  <2>3. PlanKept'
    BY <1>1, <1>2, <1>3, <2>2 DEF CalmInv, PlanKept, planVars, PlanLabels
  <2> QED
    BY <2>1, <2>3
<1>4. Begin => PlanKept' /\ ComesToRest'
  BY <1>1, <1>3 DEF Begin, Continue
<1>5. ASSUME Resume PROVE PlanKept' /\ ComesToRest'
  <2> DEFINE u == ResumeTask(mem)
  <2>1. mem' = u /\ disk' = u /\ pc' = "loop"
    BY <1>1, <1>5 DEF Resume
  <2>2. mem.state = "paused" /\ mem.prev # "none" /\ mem.prev \in Active
    BY <1>1, <1>5 DEF Resume, Resumable, Resting, Task
  <2>3. /\ u.state = mem.prev /\ u.prev = mem.prev /\ u.phase = mem.phase
        /\ u.retry = mem.retry
    BY <1>1, <2>2 DEF ResumeTask, Task
  <2> HIDE DEF u
  <2>4. Resting(u)
    BY <1>1, <2>2, <2>3 DEF Resting, Filed, Active
  <2>5. HasPlan(u) => HasPlan(mem)
    BY <2>2, <2>3 DEF HasPlan, Place, Active
  <2> QED
    BY <1>3, <2>1, <2>3, <2>4, <2>5
<1>6. ASSUME RetryStart PROVE PlanKept' /\ ComesToRest'
  <2> DEFINE u == [mem EXCEPT !.retrying = TRUE]
  <2>1. mem' = u /\ disk' = disk /\ pc' = "retry"
    BY <1>1, <1>6 DEF RetryStart, Continue
  <2>2. /\ u.state = mem.state /\ u.prev = mem.prev /\ u.phase = mem.phase
        /\ u.retry = mem.retry /\ u.failure = mem.failure
    BY <1>1 DEF Task
  <2> HIDE DEF u
  <2>3. Resting(u) /\ (HasPlan(u) => HasPlan(mem))
    BY <1>1, <2>2 DEF Resting, HasPlan, Place
  <2> QED
    BY <1>3, <2>1, <2>2, <2>3
<1>7. ASSUME ForceDetach PROVE PlanKept' /\ ComesToRest'
  <2>1. mem.state = "paused" /\ mem.prev = "cleaning"
    BY <1>1, <1>7 DEF ForceDetach, ForceDetachCandidate, DetachOf, Unconfirmed
  <2>2. HasPlan(mem)
    BY <2>1 DEF HasPlan, Filed
  <2>3. mem' = disk' /\ pc' = "idle" /\ ~dirty'
    BY <1>1, <1>7 DEF ForceDetach
  <2>4. CASE mem' = Detached(mem)
    <3> DEFINE u == Detached(mem)
    <3>1. u.state = "merged" /\ u.retry = mem.retry
      BY <1>1 DEF Detached, Enter, Task
    <3> HIDE DEF u
    <3>2. Resting(u)
      BY <1>1, <3>1 DEF Resting
    <3> QED
      BY <1>3, <2>2, <2>3, <2>4, <3>1, <3>2 DEF u
  <2>5. CASE mem' = [mem EXCEPT !.state = "paused", !.failure = "merge_sha_mismatch"]
    <3> DEFINE u == [mem EXCEPT !.state = "paused", !.failure = "merge_sha_mismatch"]
    <3>1. u.state = "paused" /\ u.retry = mem.retry /\ u.prev = "cleaning"
      BY <1>1, <2>1 DEF Task
    <3> HIDE DEF u
    <3>2. Resting(u)
      BY <1>1, <3>1 DEF Resting
    <3> QED
      BY <1>3, <2>2, <2>3, <2>5, <3>1, <3>2 DEF u
  <2> QED
    BY <1>1, <1>7, <2>4, <2>5 DEF ForceDetach
<1> QED
  BY <1>4, <1>5, <1>6, <1>7

LEMMA PlanningKeepsCalm ==
  ASSUME IInv, CopiesInv, CalmInv, PlanningStep
  PROVE  PlanKept' /\ ComesToRest'
<1>1. mem \in Task /\ Fits(mem, pc) /\ held \in BOOLEAN
  BY DEF IInv, WorkerInv, WorkerTypeOK, PlanningTypeOK
<1>2. /\ "fields_cleared" \notin mem.retry /\ Resting(mem)
  BY DEF CalmInv, ComesToRest, PlanningStep, PlanEnter, PlanPhaseStart, PlannerWrites,
     VerifierAccepts, VerifierRejects, PlanAgentStops, PlanLoopExhausted, PlanWrite, At
<1>3. pc \in {"plan", "plan_agent"} =>
        /\ mem.state = "planning" /\ mem.prev \notin Filed
        /\ disk.state \in {"queued", "planning"} /\ disk.state \notin Filed
  BY <1>1 DEF Fits, CalmInv, PlanKept, PlanLabels, Filed
<1>4. ASSUME NEW u, mem' = u, disk' = disk, pc' \in PlanLabels,
             pc' \in {"plan", "plan_write"} => ~dirty',
             disk.state \in {"queued", "planning"}, u.prev \notin Filed,
             HasPlan(u) => held' \/ planFile' = "newest", Resting(u), u.retry = mem.retry
      PROVE  PlanKept' /\ ComesToRest'
  <2>1. ComesToRest'
    BY <1>2, <1>4 DEF ComesToRest, PlanLabels
  <2>2. PlanKept'
    BY <1>4 DEF PlanKept, Filed
  <2> QED
    BY <2>1, <2>2
<1>5. ASSUME PlanEnter PROVE PlanKept' /\ ComesToRest'
  <2> DEFINE u == IF mem.state = "queued" THEN RunStarted(mem) ELSE mem
  <2>1. /\ pc = "loop" /\ ~dirty /\ mem = disk /\ mem.state \in {"queued", "planning"}
        /\ mem' = u /\ disk' = disk /\ pc' = "plan" /\ ~dirty' /\ planFile' = planFile
    BY <1>5 DEF PlanEnter, At, Continue, CopiesInv, Synced
  <2>2. mem.prev \notin Filed
    BY <1>2, <2>1 DEF Resting
  <2>3. u.prev = mem.prev /\ u.retry = mem.retry /\ u.state = "planning"
    BY <1>1, <2>1 DEF RunStarted, Enter, Task
  <2>4. Resting(u)
    BY <1>2, <2>2, <2>3 DEF Resting
  <2>5. HasPlan(u) => planFile = "newest"
    <3>1. CASE mem.state = "queued"
      <4>1. u.phase = "plan"
        BY <1>1, <3>1 DEF RunStarted, Enter, Task
      <4> QED
        BY <2>2, <2>3, <4>1 DEF HasPlan, Filed
    <3>2. CASE mem.state = "planning"
      <4>1. u = mem
        BY <3>2
      <4> QED
        BY <2>1, <4>1 DEF CalmInv, PlanKept, PlanLabels
    <3> QED
      BY <2>1, <3>1, <3>2
  <2> HIDE DEF u
  <2> QED
    BY <1>4, <2>1, <2>2, <2>3, <2>4, <2>5 DEF PlanLabels
<1>6. ASSUME PlanPhaseStart PROVE PlanKept' /\ ComesToRest'
  <2>1. /\ pc = "plan" /\ mem' = mem /\ disk' = disk /\ pc' = "plan_agent"
        /\ held' = held /\ planFile' = planFile
    BY <1>6 DEF PlanPhaseStart, At, Record, planVars
  <2>2. HasPlan(mem) => held \/ planFile = "newest"
    BY <2>1 DEF CalmInv, PlanKept, PlanLabels
  <2> QED
    BY <1>2, <1>3, <1>4, <2>1, <2>2 DEF PlanLabels
<1>7. ASSUME PlannerWrites PROVE PlanKept' /\ ComesToRest'
  <2> DEFINE u == IF mem.phase = "plan" THEN PlanCompleted(mem) ELSE PlanFixCompleted(mem)
  <2>1. /\ pc = "plan_agent" /\ mem' = u /\ disk' = disk /\ pc' = "plan" /\ ~dirty'
        /\ held'
    BY <1>7 DEF PlannerWrites, At, Continue
  <2>2. u.prev = mem.prev /\ u.retry = mem.retry /\ u.state = mem.state
    BY <1>1 DEF PlanCompleted, PlanFixCompleted, Enter, Task
  <2> HIDE DEF u
  <2>3. Resting(u)
    BY <1>2, <1>3, <2>1, <2>2 DEF Resting
  <2> QED
    BY <1>3, <1>4, <2>1, <2>2, <2>3 DEF PlanLabels
<1>8. ASSUME VerifierAccepts PROVE PlanKept' /\ ComesToRest'
  <2> DEFINE u == PlanVerifyAccepted(mem)
  <2>1. /\ pc = "plan_agent" /\ mem' = u /\ disk' = disk /\ pc' = "plan_write" /\ ~dirty'
        /\ held' = held /\ planFile' = planFile /\ mem.phase = "plan_verify"
    BY <1>8 DEF VerifierAccepts, At, Continue, planVars
  <2>2. u.prev = mem.prev /\ u.retry = mem.retry /\ u.state = "planned"
    BY <1>1 DEF PlanVerifyAccepted, Enter, Task
  <2> HIDE DEF u
  <2>3. held \/ planFile = "newest"
    BY <1>3, <2>1 DEF HasPlan, Place, CalmInv, PlanKept, PlanLabels
  <2>4. Resting(u)
    BY <1>2, <2>2 DEF Resting
  <2> QED
    BY <1>3, <1>4, <2>1, <2>2, <2>3, <2>4 DEF PlanLabels
<1>9. ASSUME VerifierRejects PROVE PlanKept' /\ ComesToRest'
  <2> DEFINE u == PlanVerifyRejected(mem)
  <2>1. /\ pc = "plan_agent" /\ mem' = u /\ disk' = disk /\ pc' \in {"plan", "plan_write"}
        /\ ~dirty'
    BY <1>9 DEF VerifierRejects, At, Continue
  <2>2. /\ u.prev = mem.prev /\ u.retry = mem.retry
        /\ \/ u.state = "failed" /\ u.phase = "none"
           \/ u.state = mem.state /\ u.phase = "plan_fix"
    BY <1>1 DEF PlanVerifyRejected, Fail, Enter, Task
  <2> HIDE DEF u
  <2>3. Resting(u) /\ ~HasPlan(u)
    BY <1>2, <1>3, <2>1, <2>2 DEF Resting, HasPlan, Place, Filed
  <2> QED
    BY <1>3, <1>4, <2>1, <2>2, <2>3 DEF PlanLabels
<1>10. ASSUME PlanAgentStops \/ PlanLoopExhausted PROVE PlanKept' /\ ComesToRest'
  <2>1. /\ pc \in {"plan", "plan_agent"} /\ disk' = disk /\ pc' = "plan_write" /\ ~dirty'
        /\ held' = held /\ planFile' = planFile
        /\ mem' \in {Pause(mem, "rate_limited"), Fail(mem, "other"), Fail(mem, "plan_max")}
    BY <1>10 DEF PlanAgentStops, PlanLoopExhausted, At, Continue, planVars
  <2>2. HasPlan(mem) => held \/ planFile = "newest"
    BY <2>1 DEF CalmInv, PlanKept, PlanLabels
  <2>3. CASE mem' = Pause(mem, "rate_limited")
    <3> DEFINE u == Pause(mem, "rate_limited")
    <3>1. /\ u.state = "paused" /\ u.prev = "planning" /\ u.phase = mem.phase
          /\ u.retry = mem.retry
      BY <1>1, <1>3, <2>1 DEF Pause, Task, Active
    <3> HIDE DEF u
    <3>2. Resting(u) /\ (HasPlan(u) => HasPlan(mem)) /\ u.prev \notin Filed
      BY <1>2, <1>3, <2>1, <3>1 DEF Resting, HasPlan, Place, Filed
    <3> QED
      BY <1>3, <1>4, <2>1, <2>2, <2>3, <3>1, <3>2 DEF PlanLabels, u
  <2>4. ASSUME NEW code, mem' = Fail(mem, code) PROVE PlanKept' /\ ComesToRest'
    <3> DEFINE u == Fail(mem, code)
    <3>1. u.state = "failed" /\ u.prev = mem.prev /\ u.phase = "none" /\ u.retry = mem.retry
      BY <1>1 DEF Fail, Task
    <3> HIDE DEF u
    <3>2. Resting(u) /\ ~HasPlan(u)
      BY <1>2, <1>3, <2>1, <3>1 DEF Resting, HasPlan, Place, Filed
    <3> QED
      BY <1>3, <1>4, <2>1, <2>4, <3>1, <3>2 DEF PlanLabels, u
  <2> QED
    BY <2>1, <2>3, <2>4
<1>11. ASSUME PlanWrite PROVE PlanKept' /\ ComesToRest'
  <2>1. /\ pc = "plan_write" /\ mem' = mem /\ disk' = disk /\ pc' = "loop"
        /\ planFile' = IF held THEN "newest" ELSE planFile
    BY <1>11 DEF PlanWrite, At, Return, Record
  <2>2. /\ disk.state \in {"queued", "planning"}
        /\ HasPlan(mem) => held \/ planFile = "newest"
    BY <2>1 DEF CalmInv, PlanKept, PlanLabels
  <2>3. PlanKept'
    BY <2>1, <2>2 DEF PlanKept, PlanLabels, Filed
  <2>4. ComesToRest'
    BY <1>2, <2>1 DEF ComesToRest
  <2> QED
    BY <2>3, <2>4
<1> QED
  BY <1>5, <1>6, <1>7, <1>8, <1>9, <1>10, <1>11 DEF PlanningStep

(* A reservation is made, confirmed, waited for and dropped by the CI wait and
   the merge workflow; no other workflow and no command starts while there is
   one.  (disableAutoMergeAndWait)  *)
LEMMA ReservationStays ==
  ASSUME IInv, CalmInv, Next, ~Crash
  PROVE  ReservationKept'
<1>1. Fits(mem, pc) /\ mem \in Task
  BY DEF IInv, WorkerInv, WorkerTypeOK
<1>2. ReservationGoes /\ armed = "off" => ReservationKept'
  BY DEF ReservationGoes, ReservationKept
<1>3. ReservationGoes /\ pc' = pc /\ mem' = mem => ReservationKept'
  BY DEF ReservationGoes, ReservationKept, CalmInv
<1>4. \/ CiReserve /\ prState = "OPEN" /\ HeadMatches /\ prState' = "OPEN"
      \/ ReservationGoes
  BY ReservationMoves
<1>5. CiReserve => ReservationKept'
  <2>1. CiReserve /\ pc' = "reserved" /\ prState' = "OPEN" => ReservationKept'
    BY DEF ReservationKept
  <2>2. CiReserve => armed = "off"
    BY <1>1 DEF CiReserve, At, Fits, ReservationKept, CalmInv
  <2> QED
    BY <1>2, <1>4, <2>1, <2>2 DEF CiReserve, Continue
<1>6. ~CiReserve => ReservationGoes
  BY <1>4
<1>7. ASSUME PlanningStep \/ DeliveryStep \/ CleanStep \/ RetryStep PROVE armed = "off"
  <2>1. /\ PlanningStep => \/ pc \in PlanLabels
                           \/ pc = "loop" /\ mem.state \in {"queued", "planning"}
        /\ DeliveryStep =>
             \/ pc \in {"implement", "review", "supervise", "fix"}
             \/ /\ pc = "loop"
                /\ mem.state \in {"planned", "implementing", "reviewing", "fixing"}
        /\ CleanStep => \/ pc \in {"clean", "force_remove"}
                        \/ pc = "loop" /\ mem.state = "cleaning"
        /\ RetryStep => pc = "retry"
    <3>1. PlanningStep => \/ pc \in PlanLabels
                          \/ pc = "loop" /\ mem.state \in {"queued", "planning"}
      BY DEF PlanningStep, PlanEnter, PlanPhaseStart, PlannerWrites, VerifierAccepts,
             VerifierRejects, PlanAgentStops, PlanLoopExhausted, PlanWrite, At, PlanLabels
    <3>2. DeliveryStep =>
             \/ pc \in {"implement", "review", "supervise", "fix"}
             \/ /\ pc = "loop"
                /\ mem.state \in {"planned", "implementing", "reviewing", "fixing"}
      BY DEF DeliveryStep, ImplementStep, ImplementEnter, ImplementAgentEdits,
             ImplementAgentDone, ImplementAgentStops, ImplementCommit, ImplementPush,
             ImplementPr, ImplementHead, ImplementReady, DueImplement, ReviewStep,
             ReviewEnter, ReviewClean, ReviewFinds, SuperviseAccepts, SuperviseRejectsAll,
             ReviewerStops, FixStep, FixEnter, FixBefore, FixRebase, FixAgentEdits,
             FixAgentDone, FixAgentStops, FixCommit, FixPush, FixHead, FixDone, DueFix, At
    <3>3. /\ CleanStep => \/ pc \in {"clean", "force_remove"}
                          \/ pc = "loop" /\ mem.state = "cleaning"
          /\ RetryStep => pc = "retry"
      BY DEF CleanStep, CleanEnter, CleanGrace, CleanBranch, CleanWorktree, CleanForce,
             CleanDone, RetryStep, RetryClosePr, RetryWorktree, RetryBranch, RetryClear,
             RetryQueue, DueRetry, At
    <3> QED
      BY <3>1, <3>2, <3>3
  <2> QED
    BY <1>7, <2>1 DEF CalmInv, ReservationKept, PlanLabels
<1>8. ASSUME CiStep, ~CiReserve PROVE ReservationKept'
  <2>1. pc = "reserved" \/ armed = "off"
    BY <1>1, <1>8 DEF CiStep, CiEnter, CiTimesOut, CiChecksFail, CiHeadMismatch, CiBlocked,
       CiPassed, CiRecheck, At, Fits, CalmInv, ReservationKept
  <2>2. CASE pc = "reserved"
    <3>1. CiRecheck
      BY <1>8, <2>2 DEF CiStep, CiEnter, CiTimesOut, CiChecksFail, CiHeadMismatch, CiBlocked,
         CiPassed, At
    <3>2. armed # "off" => prState = "OPEN"
      BY DEF CalmInv, ReservationKept
    <3>3. CASE Return(AutoMergeReserved(mem)) /\ Quiet
      <4>1. AutoMergeReserved(mem).state = "merging"
        BY <1>1 DEF AutoMergeReserved, Enter, Task
      <4>2. mem'.state = "merging" /\ pc' = "loop" /\ armed' = armed /\ prState' = prState
        BY <3>3, <4>1 DEF Return, Record, Quiet, repoVars, prVars
      <4> QED
        BY <3>2, <4>2 DEF ReservationKept
    <3>4. CASE Continue(Pause(mem, "merge_sha_mismatch"), "barrier") /\ Disarm
      BY <3>2, <3>4 DEF Continue, Disarm, ReservationKept
    <3> QED
      BY <3>1, <3>3, <3>4 DEF CiRecheck
  <2> QED
    BY <1>2, <1>6, <1>8, <2>1, <2>2
<1>9. ASSUME MergeStep PROVE ReservationKept'
  <2>1. armed # "off" => prState = "OPEN"
    BY DEF CalmInv, ReservationKept
  <2>2. ASSUME NEW t, StopMerge(t) PROVE ReservationKept'
    BY <2>1, <2>2 DEF StopMerge, Continue, Disarm, ReservationKept
  <2>3. MergeEnter => ReservationKept'
    BY <2>1 DEF MergeEnter, Continue, Quiet, repoVars, prVars, ReservationKept
  <2>4. MergeSeesMerged => ReservationKept'
    BY <2>1, <2>2 DEF MergeSeesMerged, Quiet, repoVars, prVars, ReservationKept
  <2>5. Barrier => ReservationKept'
    BY DEF Barrier, Quiet, repoVars, prVars, ReservationKept
  <2> QED
    BY <1>9, <2>2, <2>3, <2>4, <2>5
    DEF MergeStep, MergeTimesOut, MergeSeesClosed, MergeBlocked
<1>10. ASSUME Save, UNCHANGED repoVars PROVE ReservationKept'
  <2>1. mem' = mem /\ pc' \in {pc, "idle"} /\ (pc' # pc => pc = "exit")
    BY <1>10 DEF Save
  <2> QED
    BY <1>10, <2>1 DEF CalmInv, ReservationKept, repoVars, prVars
<1>11. Stop \/ Begin \/ Resume \/ RetryStart \/ ForceDetach => armed = "off"
  BY DEF Stop, Begin, Resume, RetryStart, ForceDetach, At, CalmInv, ReservationKept
<1>12. SurroundingsStep => ReservationKept'
  <2>1. SurroundingsStep /\ CiReserve => FALSE
    BY DEF SurroundingsStep, workerVars, CiReserve, Continue, Throw, At
  <2> QED
    BY <1>3, <1>6, <2>1 DEF SurroundingsStep, workerVars
<1>13. ProcessStep => ReservationKept'
  BY <1>2, <1>5, <1>6, <1>7, <1>8, <1>9, <1>10, <1>11 DEF ProcessStep, MergingStep
<1>14. RunAgain \/ ResumeAgain \/ RepairStep => ReservationKept'
  BY <1>2, <1>5, <1>6, <1>11 DEF RunAgain, ResumeAgain, RepairStep
<1> QED
  BY <1>12, <1>13, <1>14 DEF Next, CrashStep

(* Only a crash counts as one.  *)
LEMMA CrashesCounted ==
  ASSUME IInv, [Next]_vars, crashes' = 0
  PROVE  crashes = 0 /\ ~Crash
<1>1. crashes \in Nat
  BY DEF IInv, WorkerInv, WorkerTypeOK
<1>2. Crash => crashes' # 0
  BY <1>1 DEF Crash
<1>3. PlanningStep => crashes' = crashes
  BY DEF PlanningStep, PlanEnter, PlanPhaseStart, PlannerWrites, VerifierAccepts,
         VerifierRejects, PlanAgentStops, PlanLoopExhausted, PlanWrite, Return, Record,
         Continue
<1>4. DeliveryStep => crashes' = crashes
  BY DEF DeliveryStep, ImplementStep, ImplementEnter, ImplementAgentEdits,
         ImplementAgentDone, ImplementAgentStops, ImplementCommit, ImplementPush,
         ImplementPr, ImplementHead, ImplementReady, ReviewStep, ReviewEnter, ReviewClean,
         ReviewFinds, SuperviseAccepts, SuperviseRejectsAll, ReviewerStops, FixStep,
         FixEnter, FixBefore, FixRebase, FixAgentEdits, FixAgentDone, FixAgentStops,
         FixCommit, FixPush, FixHead, FixDone, AgentStops, workerVars, Return, Record,
         Continue, Throw
<1>5. MergingStep => crashes' = crashes
  BY DEF MergingStep, CiStep, CiEnter, CiTimesOut, CiChecksFail, CiHeadMismatch, CiBlocked,
         CiPassed, CiReserve, CiRecheck, MergeStep, MergeEnter, MergeTimesOut,
         MergeSeesMerged, MergeSeesClosed, MergeBlocked, StopMerge, Barrier, CleanStep,
         CleanEnter, CleanGrace, CleanBranch, CleanWorktree, CleanForce, CleanDone, Return,
         Record, Continue, Throw
<1>6. RetryStep => crashes' = crashes
  BY DEF RetryStep, RetryClosePr, RetryWorktree, RetryBranch, RetryClear, RetryQueue,
         RetryFails, Record
<1>7. Save \/ Stop \/ Begin \/ Resume \/ RetryStart \/ ForceDetach \/ UNCHANGED workerVars
        => crashes' = crashes
  BY DEF Save, Stop, Begin, Resume, RetryStart, ForceDetach, Continue, workerVars
<1> QED
  BY <1>2, <1>3, <1>4, <1>5, <1>6, <1>7
  DEF Next, ProcessStep, RunAgain, ResumeAgain, RepairStep, CrashStep, SurroundingsStep, vars

LEMMA NextCalm ==
  ASSUME IInv, CopiesInv, CalmInv, [Next]_vars, ~Crash
  PROVE  CalmInv'
<1>1. ASSUME UNCHANGED <<workerVars, planVars>> PROVE PlanKept' /\ ComesToRest'
  <2>1. /\ pc' = pc /\ dirty' = dirty /\ mem' = mem /\ disk' = disk
        /\ held' = held /\ planFile' = planFile
    BY <1>1 DEF workerVars, planVars
  <2> QED
    BY <2>1 DEF CalmInv, PlanKept, ComesToRest
<1>2. ASSUME Save, UNCHANGED planVars PROVE PlanKept' /\ ComesToRest'
  <2>1. /\ dirty /\ mem' = mem /\ disk' = mem /\ ~dirty'
        /\ pc' = IF pc = "exit" THEN "idle" ELSE pc
        /\ held' = held /\ planFile' = planFile
    BY <1>2 DEF Save, planVars
  <2>2. pc \in PlanLabels => mem.state = "planning"
    BY <2>1 DEF IInv, WorkerInv, Fits, CalmInv, ComesToRest, PlanLabels
  <2>3. mem.state \in Filed => HasPlan(mem) /\ mem.state # "planning"
    BY DEF HasPlan, Filed
  <2>4. ComesToRest'
    BY <2>1 DEF CalmInv, ComesToRest
  <2>5. PlanKept'
    BY <2>1, <2>2, <2>3 DEF CalmInv, PlanKept, PlanLabels
  <2> QED
    BY <2>4, <2>5
<1>3. ASSUME Stop, UNCHANGED planVars PROVE PlanKept' /\ ComesToRest'
  <2>1. /\ ~dirty' /\ pc = "loop" /\ pc' = "idle" /\ mem' = mem /\ disk' = disk
        /\ mem.state # "cleaning" /\ held' = held /\ planFile' = planFile
    BY <1>3 DEF Stop, At, Continue, planVars
  <2> QED
    BY <2>1 DEF CalmInv, PlanKept, ComesToRest, PlanLabels
<1>4. ASSUME ProcessStep PROVE PlanKept' /\ ComesToRest'
  BY <1>2, <1>3, <1>4, PlanningKeepsCalm, DeliveryGoesOn, MergingGoesOn, WorkKeepsCalm,
     RetryKeepsCalm
  DEF ProcessStep, CopiesInv
<1>5. RunAgain \/ ResumeAgain \/ RepairStep => PlanKept' /\ ComesToRest'
  BY CommandKeepsCalm DEF RunAgain, ResumeAgain, RepairStep
<1>6. SurroundingsStep \/ UNCHANGED vars => PlanKept' /\ ComesToRest'
  BY <1>1 DEF SurroundingsStep, vars
<1>7. PlanKept' /\ ComesToRest'
  BY <1>4, <1>5, <1>6 DEF Next, CrashStep
<1>8. ReservationKept'
  <2>1. UNCHANGED vars => ReservationKept'
    BY DEF vars, workerVars, repoVars, prVars, CalmInv, ReservationKept
  <2> QED
    BY <2>1, ReservationStays
<1> QED
  BY <1>7, <1>8 DEF CalmInv

LEMMA InitCalm == Init => CalmInv
<1> SUFFICES ASSUME Init PROVE CalmInv
  OBVIOUS
<1>1. /\ mem = NewTask /\ disk = NewTask /\ pc = "idle" /\ ~dirty /\ armed = "off"
  BY DEF Init, WorkerInit, RepositoryInit
<1>2. /\ NewTask.state = "queued" /\ NewTask.prev = "none" /\ NewTask.retry = {}
  BY DEF NewTask
<1> QED
  BY <1>1, <1>2
  DEF CalmInv, PlanKept, ComesToRest, ReservationKept, Resting, HasPlan, Place, Filed, PlanLabels

LEMMA CalmInvariance == Spec => [](IInv /\ CopiesInv /\ (crashes = 0 => CalmInv))
<1>1. Init => IInv /\ CopiesInv /\ (crashes = 0 => CalmInv)
  BY InitIInv, InitCopies, InitCalm
<1>2. IInv /\ CopiesInv /\ (crashes = 0 => CalmInv) /\ [Next]_vars =>
        IInv' /\ CopiesInv' /\ (crashes = 0 => CalmInv)'
  BY NextIInv, NextCopies, NextCalm, CrashesCounted
<1> QED
  BY <1>1, <1>2, PTL DEF Spec

(* Until the process is interrupted, a reservation belongs to a process that is
   about to confirm it, to a task that waits for the merge, or is being
   switched off: every way out of the merge, timeouts, rejected heads, closed
   and blocked pull requests, waits until GitHub has dropped it.
   (disableAutoMergeAndWait)  *)
THEOREM NoReservationIsLeftBehind == Spec => [](crashes = 0 => ReservationHeld)
<1>1. CalmInv => ReservationHeld
  BY DEF CalmInv, ReservationKept, ReservationHeld
<1> QED
  BY <1>1, CalmInvariance, PTL

(* What a task that a workflow has paused is resumed to.  *)
LEMMA CalmRest ==
  ASSUME IInv, CopiesInv, CalmInv, pc = "idle", disk.state = "paused",
         disk.failure # "retry_cleanup_failed"
  PROVE  LET t == ResumeTask(disk) IN
           /\ disk \in Task /\ disk.prev \in Active /\ t \in Task
           /\ t.state = disk.prev /\ t.prev = disk.prev /\ t.phase = disk.phase
           /\ t.named = disk.named /\ t.pr = disk.pr /\ t.head = disk.head
           /\ t.verified = disk.verified /\ t.implement = disk.implement
           /\ t.retrying = disk.retrying
<1>1. disk \in Task /\ mem = disk
  BY DEF IInv, WorkerInv, WorkerTypeOK, CopiesInv, Synced, CalmInv, ComesToRest
<1>2. disk.prev \in Active
  BY <1>1 DEF CalmInv, ComesToRest, Resting, Task
<1>3. ResumeTask(disk) = [disk EXCEPT !.state = disk.prev, !.failure = "none"]
  BY <1>2 DEF ResumeTask, Active
<1>4. ResumeTask(disk) \in Task
  <2>1. disk.failure \in FailureCodes
    BY <1>1 DEF Task
  <2> QED
    BY <1>1, <2>1, StopTypes
<1> DEFINE t == ResumeTask(disk)
<1>5. t \in Task
  BY <1>4
<1>6. t.state = disk.prev /\ t.prev = disk.prev /\ t.phase = disk.phase
  BY <1>1, <1>3 DEF Task
<1>7. t.head = disk.head /\ t.implement = disk.implement
  BY <1>1, <1>3 DEF Task
<1>8. t.named = disk.named /\ t.pr = disk.pr
  BY <1>1, <1>3 DEF Task
<1>9. t.verified = disk.verified /\ t.retrying = disk.retrying
  BY <1>1, <1>3 DEF Task
<1> HIDE DEF t
<1>10. /\ disk \in Task /\ disk.prev \in Active /\ t \in Task
      /\ t.state = disk.prev /\ t.prev = disk.prev /\ t.phase = disk.phase
      /\ t.named = disk.named /\ t.pr = disk.pr /\ t.head = disk.head
      /\ t.verified = disk.verified /\ t.implement = disk.implement
      /\ t.retrying = disk.retrying
  BY <1>1, <1>2, <1>5, <1>6, <1>7, <1>8, <1>9
<1> QED
  BY <1>10 DEF t

(* Until the process is interrupted, a task left paused or failed is one that
   a command takes up: a retry, or a resume into an active state whose workflow
   accepts it or finds it stopped in the supervisor.  That the command gets it
   any further is not said.  (pauseWithFailure, commandResumeLocked,
   selectRetryTargets)  *)
THEOREM NoTaskIsStuck == Spec => [](crashes = 0 => WayOut)
<1>1. CASE "explicit_retry" \in Faults
  <2>1. WayOut
    BY <1>1 DEF WayOut, RetryTarget
  <2> QED
    BY <2>1, PTL
<1>2. CASE "explicit_retry" \notin Faults
  <2>1. IInv /\ CopiesInv /\ BranchInv /\ CalmInv => WayOut
    <3> SUFFICES ASSUME IInv, CopiesInv, BranchInv, CalmInv, pc = "idle",
                        disk.state = "paused", disk.failure # "retry_cleanup_failed"
                 PROVE  /\ Resumable(disk) /\ ResumeTask(disk).state \in Active
                        /\ \/ Accepted(ResumeTask(disk))
                           \/ StoppedInSupervise(ResumeTask(disk))
      BY DEF WayOut, RetryTarget
    <3> DEFINE t == ResumeTask(disk)
    <3>1. /\ disk \in Task /\ disk.prev \in Active /\ t \in Task
          /\ t.state = disk.prev /\ t.prev = disk.prev /\ t.phase = disk.phase
          /\ t.named = disk.named /\ t.pr = disk.pr /\ t.head = disk.head
          /\ t.verified = disk.verified /\ t.implement = disk.implement
          /\ t.retrying = disk.retrying
      BY CalmRest
    <3>2. ~disk.retrying /\ disk.prev # "planned"
      <4>1. RetryShape(disk) /\ mem = disk
        BY DEF BranchInv, BranchOK, CopiesInv, Synced, CalmInv, ComesToRest
      <4>2. "fields_cleared" \notin disk.retry
        BY <4>1 DEF CalmInv, ComesToRest
      <4> QED
        BY <4>1, <4>2 DEF RetryShape
    <3>3. Place(disk) = disk.prev /\ Place(t) = disk.prev /\ t.state # "paused"
      BY <3>1 DEF Place, Active
    <3>4. PhaseOf(disk) /\ KnowsPr(disk)
      BY DEF CopiesInv, CopyOK, IInv, WorkerInv, Good
    <3>5. PhaseOf(t) /\ KnowsPr(t)
      <4> HIDE DEF t
      <4>1. PhaseOf(t)
        BY <3>1, <3>3, <3>4 DEF PhaseOf
      <4>2. KnowsPr(t)
        BY <3>1, <3>3, <3>4 DEF KnowsPr
      <4> QED
        BY <4>1, <4>2
    <3>6. Accepted(t) \/ StoppedInSupervise(t)
      <4> HIDE DEF t
      <4>1. ~RetriedAndPlanned(t)
        BY <3>1, <3>2 DEF RetriedAndPlanned
      <4> QED
        BY <3>1, <3>2, <3>3, <3>5, <4>1, AcceptedInPlace
    <3> QED
      BY <3>1, <3>6 DEF Resumable
  <2> QED
    BY <1>2, <2>1, BranchInvariance, CalmInvariance, PTL
<1> QED
  BY <1>1, <1>2

(* Until the process is interrupted, the verifier judges the newest plan: from
   memory, or from the file after a pause.  (runPlanningWorkflow, writePlan) *)
THEOREM VerifierReadsTheNewestPlan == Spec => [](crashes = 0 => VerifierHasThePlan)
<1>1. IInv /\ CalmInv => VerifierHasThePlan
  BY DEF IInv, WorkerInv, Fits, CalmInv, PlanKept, PlanLabels, HasPlan, Place,
     VerifierHasThePlan
<1> QED
  BY <1>1, CalmInvariance, PTL

(* Until the process is interrupted, the plan that the implementer, the
   reviewer and the fixer read from the file is the newest one, after any
   number of pauses, rejections and retries.  (writePlan, buildPrompt)  *)
THEOREM NewestPlanIsRead == Spec => [](crashes = 0 => FiledPlanIsNewest)
<1>1. CalmInv => FiledPlanIsNewest
  BY DEF CalmInv, PlanKept, Filed, FiledPlanIsNewest
<1> QED
  BY <1>1, CalmInvariance, PTL

LEMMA BarrierKept ==
  ASSUME IInv, StoppedAtBarrier, [Next]_vars
  PROVE  StoppedAtBarrier'
<1>1. mem \in Task /\ Fits(mem, pc)
  BY DEF IInv, WorkerInv, WorkerTypeOK
<1>2. ASSUME pc \in {"reserved", "merge"}, NEW code
      PROVE  /\ Pause(mem, code).state = "paused"
             /\ Pause(mem, code).prev \in {"ci_waiting", "merging"}
  BY <1>1, <1>2 DEF Fits, Pause, Task, Active
<1> QED
  BY <1>2, DecisionsMade DEF StoppedAtBarrier

LEMMA ReservedInvariance ==
  ASSUME {"explicit_retry", "human_push"} \cap Faults = {}
  PROVE  Spec => [](IInv /\ CopiesInv /\ BranchInv /\ (crashes = 0 => CalmInv) /\ StoppedAtBarrier)
<1>1. "explicit_retry" \notin Faults
  OBVIOUS
<1>2. Init => StoppedAtBarrier
  BY DEF Init, WorkerInit, StoppedAtBarrier
<1>3. IInv /\ StoppedAtBarrier /\ [Next]_vars => StoppedAtBarrier'
  BY BarrierKept
<1>4. Spec => [](IInv /\ CopiesInv /\ BranchInv)
  BY <1>1, BranchInvariance
<1>5. Spec => [](crashes = 0 => CalmInv)
  BY CalmInvariance, PTL
<1> QED
  BY <1>2, <1>3, <1>4, <1>5, PTL DEF Spec

(* Until the process is interrupted, whatever GitHub may merge on its own has
   passed a review without accepted findings, fixes of CI failures included.
   (fix_pushed, reserveAutoMerge)  *)
THEOREM NothingUnreviewedMayMerge ==
  ASSUME {"explicit_retry", "human_push"} \cap Faults = {}
  PROVE  Spec => [](crashes = 0 => ArmedHeadWasReviewed)
<1>1. IInv /\ BranchInv /\ CalmInv /\ StoppedAtBarrier => ArmedHeadWasReviewed
  <2> SUFFICES ASSUME IInv, BranchInv, CalmInv, StoppedAtBarrier,
                      armed # "off", prState = "OPEN"
               PROVE  prSha = reviewed
    BY DEF ArmedHeadWasReviewed
  <2>1. mem \in Task /\ Fits(mem, pc) /\ RetryShape(mem)
    BY DEF IInv, WorkerInv, WorkerTypeOK, BranchInv, BranchOK
  <2>2. Place(mem) \in {"ci_waiting", "merging"}
    BY <2>1 DEF CalmInv, ReservationKept, Fits, StoppedAtBarrier, Place
  <2>3. ~mem.retrying
    <3>1. pc \in {"reserved", "barrier"} => ~mem.retrying
      BY DEF BranchInv, HalfRetriedNeverRuns
    <3>2. mem.state = "merging" => ~mem.retrying
      BY <2>1, ActiveIsNotRetried DEF Active
    <3> QED
      BY <3>1, <3>2 DEF CalmInv, ReservationKept
  <2>4. View.own = 1 /\ View.state \in Unmerged
    BY Fields DEF Own, Unmerged
  <2>5. View.remote = View.local /\ View.reviewed = View.local
    BY <2>2, <2>3, <2>4 DEF BranchInv, BranchOK, Claims
  <2>6. View.sha = View.remote
    BY <2>4 DEF BranchInv, Published
  <2> QED
    BY <2>5, <2>6, Fields
<1> QED
  BY <1>1, ReservedInvariance, PTL

-----------------------------------------------------------------------------
(* The checkpoints as reconcileTask reads them.  *)

(* Steps are recorded in their order, without a gap.  *)
InSequence(order, done) ==
  \A i \in DOMAIN order : order[i] \in done => \A j \in 1 .. i - 1 : order[j] \in done

BeforeWork == {"queued", "planning", "planned"}

(* An implementation begins with its first checkpoint and ends with its last,
   a fix ends with its last; a retry that has cleared the entry has cleared the
   path as well, without which no implementation begins.  *)
CheckpointsOK(t) ==
  /\ InSequence(ImplementOrder, t.implement) /\ InSequence(FixOrder, t.fix)
  /\ ~t.named => t.implement = {} /\ t.phase # "implement"
  /\ "fields_cleared" \in t.retry => ~t.named
  /\ t.phase = "fix" => "after_sha" \notin t.fix
  /\ ~t.retrying /\ t.phase = "implement" =>
       "before_sha" \in t.implement /\ "after_sha" \notin t.implement
  /\ ~t.retrying /\ Place(t) \in BeforeWork => "after_sha" \notin t.implement

(* The two orders, step by step.  *)
LEMMA Orders ==
  /\ DOMAIN ImplementOrder = 1 .. 7
  /\ ImplementOrder[1] = "before_sha" /\ ImplementOrder[2] = "agent_done"
  /\ ImplementOrder[3] = "commit_done" /\ ImplementOrder[4] = "push_done"
  /\ ImplementOrder[5] = "pr_created" /\ ImplementOrder[6] = "head_sha_persisted"
  /\ ImplementOrder[7] = "after_sha"
  /\ DOMAIN FixOrder = 1 .. 7
  /\ FixOrder[1] = "before_sha" /\ FixOrder[2] = "rebase_done"
  /\ FixOrder[3] = "agent_done" /\ FixOrder[4] = "commit_done"
  /\ FixOrder[5] = "push_done" /\ FixOrder[6] = "head_sha_persisted"
  /\ FixOrder[7] = "after_sha"
  BY DEF ImplementOrder, FixOrder

LEMMA DueInSequence ==
  ASSUME NEW order, NEW done, NEW step, InSequence(order, done), FirstMissing(step, order, done),
         DOMAIN order \subseteq Nat,
         \A i, j \in DOMAIN order : order[i] = order[j] => i = j
  PROVE  InSequence(order, done \cup {step})
<1>1. PICK i \in DOMAIN order : order[i] = step /\ \A j \in 1 .. i - 1 : order[j] \in done
  BY DEF FirstMissing
<1>2. ASSUME NEW k \in DOMAIN order, order[k] \in done \cup {step}, NEW j \in 1 .. k - 1
      PROVE  order[j] \in done \cup {step}
  <2>1. CASE order[k] = step
    BY <1>1, <1>2, <2>1
  <2>2. CASE order[k] \in done
    BY <1>2, <2>2 DEF InSequence
  <2> QED
    BY <1>2, <2>1, <2>2
<1> QED
  BY <1>2 DEF InSequence

LEMMA DueInOrder ==
  ASSUME NEW done, NEW step
  PROVE  /\ InSequence(ImplementOrder, done) /\ FirstMissing(step, ImplementOrder, done)
              => InSequence(ImplementOrder, done \cup {step})
         /\ InSequence(FixOrder, done) /\ FirstMissing(step, FixOrder, done)
              => InSequence(FixOrder, done \cup {step})
<1>1. \A i, j \in DOMAIN ImplementOrder : ImplementOrder[i] = ImplementOrder[j] => i = j
  BY Orders
<1>2. \A i, j \in DOMAIN FixOrder : FixOrder[i] = FixOrder[j] => i = j
  BY Orders
<1>3. DOMAIN ImplementOrder \subseteq Nat /\ DOMAIN FixOrder \subseteq Nat
  BY Orders
<1> QED
  BY <1>1, <1>2, <1>3, DueInSequence

(* An order with nothing recorded, and what is due in one after its first
   step.  *)
LEMMA NothingRecorded == InSequence(ImplementOrder, {}) /\ InSequence(FixOrder, {})
  BY DEF InSequence

LEMMA DueAfterFirst ==
  ASSUME NEW done, NEW step
  PROVE  /\ step # "before_sha" /\ FirstMissing(step, ImplementOrder, done) => "before_sha" \in done
         /\ InSequence(ImplementOrder, done) => InSequence(ImplementOrder, done \cup {"before_sha"})
<1>1. step # "before_sha" /\ FirstMissing(step, ImplementOrder, done) => "before_sha" \in done
  BY Orders DEF FirstMissing
<1>2. InSequence(ImplementOrder, done) => InSequence(ImplementOrder, done \cup {"before_sha"})
  BY Orders DEF InSequence
<1> QED
  BY <1>1, <1>2

(* A move that records no step, except that it may begin a fix.  *)
LEMMA QuietKeepsCheckpoints ==
  ASSUME NEW t, NEW u, CheckpointsOK(t),
         u.implement = t.implement, u.named = t.named, u.fix = t.fix \/ u.fix = {},
         u.phase \in {t.phase} \cup (Phases \ {"implement", "fix"}) \/ (u.phase = "fix" /\ u.fix = {}),
         t.retrying => u.retrying,
         "fields_cleared" \in u.retry => "fields_cleared" \in t.retry,
         u.retrying \/ (Place(u) \in BeforeWork => Place(t) \in BeforeWork)
  PROVE  CheckpointsOK(u)
  BY NothingRecorded DEF CheckpointsOK

LEMMA StopPlanKeepCheckpoints ==
  ASSUME NEW t \in Task, NEW u, CheckpointsOK(t), StopMove(t, u) \/ PlanMove(t, u)
  PROVE  CheckpointsOK(u)
<1> USE DEF Phases, BeforeWork, Place
<1>1. ASSUME NEW code, t.state \in Active, u = Pause(t, code) PROVE CheckpointsOK(u)
  <2>1. u = [t EXCEPT !.state = "paused", !.failure = code, !.prev = t.state]
    BY <1>1 DEF Pause, Active
  <2>2. /\ u.state = "paused" /\ u.prev = t.state /\ u.phase = t.phase /\ u.named = t.named
        /\ u.implement = t.implement /\ u.fix = t.fix
        /\ u.retrying = t.retrying /\ u.retry = t.retry
    BY <2>1 DEF Task
  <2> QED
    BY <1>1, <2>2, QuietKeepsCheckpoints DEF Active
<1>2. ASSUME NEW code, u = Fail(t, code) PROVE CheckpointsOK(u)
  <2>1. /\ u.state = "failed" /\ u.phase = "none" /\ u.named = t.named
        /\ u.implement = t.implement /\ u.fix = t.fix
        /\ u.retrying = t.retrying /\ u.retry = t.retry
    BY <1>2 DEF Task, Fail
  <2> QED
    BY <2>1, QuietKeepsCheckpoints
<1>3. ASSUME t.state \in {"queued", "planning"}, NEW phase \in {"plan", "plan_verify", "plan_fix"},
             u.state = "planning", u.phase = phase, u.named = t.named,
             u.implement = t.implement, u.fix = t.fix,
             u.retrying = t.retrying, u.retry = t.retry
      PROVE  CheckpointsOK(u)
  BY <1>3, QuietKeepsCheckpoints
<1>4. ASSUME t.state = "queued", u = RunStarted(t) PROVE CheckpointsOK(u)
  BY <1>3, <1>4 DEF Task, RunStarted, Enter
<1>5. ASSUME t.state = "planning", u \in {PlanCompleted(t), PlanFixCompleted(t)}
      PROVE  CheckpointsOK(u)
  BY <1>3, <1>5 DEF Task, PlanCompleted, PlanFixCompleted, Enter
<1>6. ASSUME t.state = "planning", u = PlanVerifyAccepted(t) PROVE CheckpointsOK(u)
  <2>1. /\ u.state = "planned" /\ u.phase = "none" /\ u.named = t.named
        /\ u.implement = t.implement /\ u.fix = t.fix
        /\ u.retrying = t.retrying /\ u.retry = t.retry
    BY <1>6 DEF Task, PlanVerifyAccepted, Enter
  <2> QED
    BY <1>6, <2>1, QuietKeepsCheckpoints
<1>7. ASSUME t.state = "planning", u = PlanVerifyRejected(t) PROVE CheckpointsOK(u)
  <2>1. CASE t.planRound + 1 > PlanMax
    BY <1>2, <1>7, <2>1 DEF PlanVerifyRejected
  <2>2. CASE ~(t.planRound + 1 > PlanMax)
    <3>1. /\ u.state = "planning" /\ u.phase = "plan_fix" /\ u.named = t.named
          /\ u.implement = t.implement /\ u.fix = t.fix
          /\ u.retrying = t.retrying /\ u.retry = t.retry
      BY <1>7, <2>2 DEF Task, PlanVerifyRejected, Enter
    <3> QED
      BY <1>3, <1>7, <3>1
  <2> QED
    BY <2>1, <2>2
<1> QED
  BY <1>1, <1>2, <1>4, <1>5, <1>6, <1>7 DEF StopMove, PlanMove

LEMMA ImplementKeepsCheckpoints ==
  ASSUME NEW t \in Task, NEW u, NEW v, CheckpointsOK(t), ImplementMove(t, u, v)
  PROVE  CheckpointsOK(u)
<1> USE DEF BeforeWork, Place
<1>1. ASSUME t.state = "planned", t.named, u = ImplementStarted(t) PROVE CheckpointsOK(u)
  <2>1. /\ u.state = "implementing" /\ u.phase = "implement" /\ u.named = t.named
        /\ u.implement = t.implement \cup {"before_sha"} /\ u.fix = t.fix
        /\ u.retrying = t.retrying /\ u.retry = t.retry
    BY <1>1 DEF Task, ImplementStarted, Enter
  <2>2. InSequence(ImplementOrder, u.implement)
    BY <2>1, DueAfterFirst DEF CheckpointsOK
  <2> QED
    BY <1>1, <2>1, <2>2 DEF CheckpointsOK
<1>2. ASSUME NEW step, step \notin {"before_sha", "after_sha"}, ImplementDue(t, step),
             t.state = "implementing", u.state = "implementing",
             u.phase = t.phase, u.named = t.named,
             u.implement = t.implement \cup {step}, u.fix = t.fix,
             u.retrying = t.retrying, u.retry = t.retry
      PROVE  CheckpointsOK(u)
  <2>1. "before_sha" \in t.implement /\ t.named
    BY <1>2, DueAfterFirst DEF ImplementDue, CheckpointsOK
  <2>2. InSequence(ImplementOrder, u.implement)
    BY <1>2, DueInOrder DEF ImplementDue, CheckpointsOK
  <2> QED
    BY <1>2, <2>1, <2>2 DEF CheckpointsOK
<1>3. ASSUME t.state = "implementing", NEW step \in {"agent_done", "commit_done", "push_done"},
             ImplementDue(t, step), u = MarkImplement(t, step)
      PROVE  CheckpointsOK(u)
  BY <1>2, <1>3 DEF Task, MarkImplement
<1>4. ASSUME t.state = "implementing", ImplementDue(t, "pr_created"),
             u \in {[MarkImplement(t, "pr_created") EXCEPT !.pr = TRUE],
                    [[MarkImplement(t, "pr_created") EXCEPT !.pr = TRUE] EXCEPT !.head = v.sha]}
      PROVE  CheckpointsOK(u)
  BY <1>2, <1>4 DEF Task, MarkImplement
<1>5. ASSUME t.state = "implementing", ImplementDue(t, "head_sha_persisted"),
             u = [MarkImplement(t, "head_sha_persisted") EXCEPT !.head = v.sha]
      PROVE  CheckpointsOK(u)
  BY <1>2, <1>5 DEF Task, MarkImplement
<1>6. ASSUME t.state = "implementing", ImplementDue(t, "after_sha"), u = PrReady(t, t.head)
      PROVE  CheckpointsOK(u)
  <2>1. /\ u.state = "reviewing" /\ u.phase = "review" /\ u.named = t.named
        /\ u.implement = t.implement \cup {"after_sha"} /\ u.fix = t.fix
        /\ u.retrying = t.retrying /\ u.retry = t.retry
    BY <1>6 DEF Task, PrReady, Enter
  <2>2. t.named
    BY <1>6, DueAfterFirst DEF ImplementDue, CheckpointsOK
  <2>3. InSequence(ImplementOrder, u.implement)
    BY <1>6, <2>1, DueInOrder DEF ImplementDue, CheckpointsOK
  <2> QED
    BY <2>1, <2>2, <2>3 DEF CheckpointsOK
<1> QED
  BY <1>1, <1>3, <1>4, <1>5, <1>6 DEF ImplementMove

LEMMA FixKeepsCheckpoints ==
  ASSUME NEW t \in Task, NEW u, NEW v, CheckpointsOK(t), FixMove(t, u, v)
  PROVE  CheckpointsOK(u)
<1> USE DEF BeforeWork, Place
<1>1. ASSUME NEW step, FixDue(t, step), u.state \in {"fixing", "reviewing"},
             (u.phase = t.phase /\ step # "after_sha") \/ u.phase = "review",
             u.named = t.named, u.implement = t.implement, u.fix = t.fix \cup {step},
             u.retrying = t.retrying, u.retry = t.retry
      PROVE  CheckpointsOK(u)
  <2>1. InSequence(FixOrder, u.fix)
    BY <1>1, DueInOrder DEF FixDue, CheckpointsOK
  <2> QED
    BY <1>1, <2>1 DEF CheckpointsOK
<1>2. t.state = "fixing"
  BY DEF FixMove
<1>3. ASSUME NEW step \in {"before_sha", "rebase_done", "agent_done", "commit_done", "push_done"},
             FixDue(t, step), u = MarkFix(t, step)
      PROVE  CheckpointsOK(u)
  BY <1>1, <1>2, <1>3 DEF Task, MarkFix
<1>4. ASSUME FixDue(t, "head_sha_persisted"),
             u = [MarkFix(t, "head_sha_persisted") EXCEPT !.head = v.sha]
      PROVE  CheckpointsOK(u)
  BY <1>1, <1>2, <1>4 DEF Task, MarkFix
<1>5. ASSUME FixDue(t, "after_sha"), u = FixPushed(MarkFix(t, "after_sha"))
      PROVE  CheckpointsOK(u)
  BY <1>1, <1>5 DEF Task, FixPushed, MarkFix, Enter
<1> QED
  BY <1>3, <1>4, <1>5 DEF FixMove

LEMMA ReviewMergeKeepCheckpoints ==
  ASSUME NEW t \in Task, NEW u, NEW v, CheckpointsOK(t), ReviewMove(t, u, v) \/ MergeMove(t, u)
  PROVE  CheckpointsOK(u)
<1> USE DEF Phases, BeforeWork, Place
<1>1. ASSUME u.named = t.named, u.implement = t.implement,
             u.retrying = t.retrying, u.retry = t.retry,
             \/ u.phase \in {"none", "review", "supervise", "ci_wait", "merge"} /\ u.fix = t.fix
             \/ u.phase = "fix" /\ u.fix = {}
             \/ u.phase = t.phase /\ u.fix = t.fix,
             u.state \in {"reviewing", "fixing", "ci_waiting", "merging", "cleaning", "merged",
                         "failed"}
      PROVE  CheckpointsOK(u)
  BY <1>1, QuietKeepsCheckpoints
<1>2. ASSUME t.state = "reviewing",
             u \in {ReviewCompleted(t), SuperviseClean(t), SuperviseClean(ReviewCompleted(t))}
      PROVE  CheckpointsOK(u)
  BY <1>1, <1>2 DEF Task, ReviewCompleted, SuperviseClean, Enter
<1>3. ASSUME u = SuperviseAccept(t) PROVE CheckpointsOK(u)
  <2>1. /\ \/ u.state = "failed" /\ u.phase = "none" /\ u.fix = t.fix
           \/ u.state = "fixing" /\ u.phase = "fix" /\ u.fix = {}
        /\ u.named = t.named /\ u.implement = t.implement
        /\ u.retrying = t.retrying /\ u.retry = t.retry
    BY <1>3 DEF Task, SuperviseAccept, Enter, Fail
  <2> QED
    BY <1>1, <2>1
<1>4. ASSUME u = CiFailed(t) PROVE CheckpointsOK(u)
  <2>1. /\ \/ u.state = "failed" /\ u.phase = "none" /\ u.fix = t.fix
           \/ u.state = "fixing" /\ u.phase = "fix" /\ u.fix = {}
        /\ u.named = t.named /\ u.implement = t.implement
        /\ u.retrying = t.retrying /\ u.retry = t.retry
    BY <1>4 DEF Task, CiFailed, Enter, Fail
  <2> QED
    BY <1>1, <2>1
<1>5. ASSUME u \in {AutoMergeReserved(t), Enter(t, "cleaning", "none"), CleaningCompleted(t)}
      PROVE  CheckpointsOK(u)
  BY <1>1, <1>5 DEF Task, AutoMergeReserved, CleaningCompleted, Enter
<1>6. ASSUME t.state = "cleaning",
             \/ \E step \in CleaningSteps : u = MarkCleaning(t, step)
             \/ u = WorktreeRemoved(t)
             \/ \E n \in Nat : u = [t EXCEPT !.removeTries = n]
      PROVE  CheckpointsOK(u)
  BY <1>1, <1>6 DEF Task, MarkCleaning, WorktreeRemoved
<1> QED
  BY <1>2, <1>3, <1>4, <1>5, <1>6 DEF ReviewMove, MergeMove

LEMMA RetryKeepsCheckpoints ==
  ASSUME NEW t \in Task, NEW u, NEW v, CheckpointsOK(t), RetryMove(t, u, v)
  PROVE  CheckpointsOK(u)
<1>1. t.retrying
  BY DEF RetryMove
<1>2. ASSUME NEW step \in RetrySteps \ {"fields_cleared"}, u = MarkRetry(t, step)
      PROVE  CheckpointsOK(u)
  <2>1. /\ u.phase = t.phase /\ u.named = t.named /\ u.implement = t.implement /\ u.fix = t.fix
        /\ u.retrying = t.retrying /\ u.retry = t.retry \cup {step}
    BY <1>2 DEF Task, MarkRetry
  <2> QED
    BY <1>1, <2>1, QuietKeepsCheckpoints
<1>3. ASSUME u = MarkRetry(ClearRetryFields(t), "fields_cleared") PROVE CheckpointsOK(u)
  <2>1. /\ u.phase = "none" /\ ~u.named /\ u.implement = {} /\ u.fix = {}
        /\ u.retrying = t.retrying
    BY <1>3 DEF Task, MarkRetry, ClearRetryFields
  <2> QED
    BY <1>1, <2>1, NothingRecorded DEF CheckpointsOK
<1>4. ASSUME t.retry = RetrySteps, u = Queued(t) PROVE CheckpointsOK(u)
  <2>1. /\ u.phase = t.phase /\ u.named = t.named /\ u.implement = t.implement /\ u.fix = t.fix
        /\ u.retry = {}
    BY <1>4 DEF Task, Queued
  <2>2. ~t.named
    BY <1>4 DEF RetrySteps, CheckpointsOK
  <2> QED
    BY <2>1, <2>2 DEF CheckpointsOK
<1>5. ASSUME u = Pause(t, "retry_cleanup_failed") PROVE CheckpointsOK(u)
  <2>1. /\ u.phase = t.phase /\ u.named = t.named /\ u.implement = t.implement /\ u.fix = t.fix
        /\ u.retrying = t.retrying /\ u.retry = t.retry
    BY <1>5 DEF Task, Pause
  <2> QED
    BY <1>1, <2>1, QuietKeepsCheckpoints
<1> QED
  BY <1>2, <1>3, <1>4, <1>5 DEF RetryMove, RetrySteps

LEMMA CommandKeepsCheckpoints ==
  ASSUME NEW t \in Task, NEW u, CheckpointsOK(t), CommandMove(t, u)
  PROVE  CheckpointsOK(u)
<1>1. ASSUME Resumable(t), u = ResumeTask(t) PROVE CheckpointsOK(u)
  <2>1. /\ u.state = (IF t.prev = "none" THEN t.state ELSE t.prev) /\ u.prev = t.prev
        /\ u.phase = t.phase /\ u.named = t.named /\ u.implement = t.implement /\ u.fix = t.fix
        /\ u.retrying = t.retrying /\ u.retry = t.retry
    BY <1>1 DEF Task, ResumeTask
  <2>2. Place(u) = Place(t)
    BY <1>1, <2>1 DEF Place, Resumable, Task, Active
  <2> QED
    BY <2>1, <2>2, QuietKeepsCheckpoints
<1>2. ASSUME u = [t EXCEPT !.retrying = TRUE] PROVE CheckpointsOK(u)
  <2>1. /\ u.phase = t.phase /\ u.named = t.named /\ u.implement = t.implement /\ u.fix = t.fix
        /\ u.retrying /\ u.retry = t.retry
    BY <1>2 DEF Task
  <2> QED
    BY <2>1, QuietKeepsCheckpoints
<1>3. ASSUME u = Detached(t) PROVE CheckpointsOK(u)
  <2>1. /\ u.state = "merged" /\ u.phase = "none" /\ u.named = t.named
        /\ u.implement = t.implement /\ u.fix = t.fix
        /\ u.retrying = t.retrying /\ u.retry = t.retry
    BY <1>3 DEF Task, Detached, Enter
  <2> QED
    BY <2>1, QuietKeepsCheckpoints DEF Phases, Place, BeforeWork
<1>4. ASSUME t.state = "paused" \/ t.retrying,
             u = [t EXCEPT !.state = "paused", !.failure = "merge_sha_mismatch"]
      PROVE  CheckpointsOK(u)
  <2>1. /\ u.state = "paused" /\ u.prev = t.prev /\ u.phase = t.phase
        /\ u.named = t.named /\ u.implement = t.implement /\ u.fix = t.fix
        /\ u.retrying = t.retrying /\ u.retry = t.retry
    BY <1>4 DEF Task
  <2>2. u.retrying \/ Place(u) = Place(t)
    BY <1>4, <2>1 DEF Place
  <2> QED
    BY <2>1, <2>2, QuietKeepsCheckpoints
<1> QED
  BY <1>1, <1>2, <1>3, <1>4 DEF CommandMove

LEMMA CheckpointsInvariance ==
  Spec => [](IInv /\ CopiesInv /\ CheckpointsOK(mem) /\ CheckpointsOK(disk))
<1>1. Init => CheckpointsOK(mem) /\ CheckpointsOK(disk)
  BY NothingRecorded DEF Init, WorkerInit, NewTask, CheckpointsOK
<1>2. IInv /\ CopiesInv /\ CheckpointsOK(mem) /\ CheckpointsOK(disk) /\ [Next]_vars
        => CheckpointsOK(mem)' /\ CheckpointsOK(disk)'
  <2> SUFFICES ASSUME IInv, CopiesInv, CheckpointsOK(mem), CheckpointsOK(disk), [Next]_vars
               PROVE  CheckpointsOK(mem') /\ CheckpointsOK(disk')
    OBVIOUS
  <2>1. mem \in Task /\ disk \in Task /\ CopiesMove
    BY EveryMove DEF IInv, WorkerInv, WorkerTypeOK, CopiesInv, CopyOK
  <2>2. TaskMove(mem, mem', View') => CheckpointsOK(mem')
    BY <2>1, StopPlanKeepCheckpoints, ImplementKeepsCheckpoints, ReviewMergeKeepCheckpoints,
       FixKeepsCheckpoints, RetryKeepsCheckpoints DEF TaskMove
  <2>3. CommandMove(disk, mem') => CheckpointsOK(mem')
    BY <2>1, CommandKeepsCheckpoints
  <2> QED
    BY <2>1, <2>2, <2>3 DEF CopiesMove
<1>3. Spec => [](IInv /\ CopiesInv)
  BY CopiesInvariance
<1> QED
  BY <1>1, <1>2, <1>3, PTL DEF Spec

(* The plans of reconcileTask, the furthest checkpoint first.  *)
LEMMA Plans ==
  /\ DOMAIN ImplementPlan = 1 .. 6 /\ DOMAIN FixPlan = 1 .. 6 /\ DOMAIN SimplePlan = 1 .. 1
  /\ ImplementPlan[1] = After("after_sha", "advance_after_checkpoint")
  /\ ImplementPlan[2] = After("head_sha_persisted", "ready_pr_after_head")
  /\ ImplementPlan[3] = After("pr_created", "persist_head_after_pr")
  /\ ImplementPlan[4] = After("push_done", "restore_pr_after_push")
  /\ ImplementPlan[5] = After("commit_done", "push_after_commit")
  /\ ImplementPlan[6] = After("agent_done", "commit_after_agent")
  /\ FixPlan[1] = After("after_sha", "advance_after_checkpoint")
  /\ FixPlan[2] = After("head_sha_persisted", "advance_after_checkpoint")
  /\ FixPlan[3] = After("push_done", "observe_fix_head_after_push")
  /\ FixPlan[4] = After("commit_done", "push_after_commit")
  /\ FixPlan[5] = After("agent_done", "commit_after_agent")
  /\ FixPlan[6] = After("rebase_done", "run_fix_after_rebase")
  /\ SimplePlan[1] = After("after_sha", "advance_after_checkpoint")
  BY DEF ImplementPlan, FixPlan, SimplePlan

LEMMA FurthestIs ==
  ASSUME NEW plan, NEW done, DOMAIN plan \subseteq Nat, NEW i \in Recorded(plan, done),
         \A j \in Recorded(plan, done) : i <= j
  PROVE  Furthest(plan, done) = plan[i]
<1>1. \A k \in Recorded(plan, done) :
        (\A j \in Recorded(plan, done) : k <= j) => k = i
  BY DEF Recorded
<1>2. (CHOOSE k \in Recorded(plan, done) : \A j \in Recorded(plan, done) : k <= j) = i
  BY <1>1
<1> QED
  BY <1>2 DEF Furthest

(* The step after the furthest recorded one is due, and is the one that the
   action named for it stands for.  *)
LEMMA ImplementNext ==
  ASSUME NEW done, InSequence(ImplementOrder, done),
         "before_sha" \in done, "after_sha" \notin done,
         Recorded(ImplementPlan, done) # {}
  PROVE  \E step \in Due(ImplementOrder, done) :
           Furthest(ImplementPlan, done).action \in ImplementAction[step]
<1>1. ASSUME NEW i \in 2 .. 6, NEW k \in 3 .. 7, NEW action,
             i \in Recorded(ImplementPlan, done), \A j \in Recorded(ImplementPlan, done) : i <= j,
             ImplementPlan[i] = After(ImplementOrder[k - 1], action),
             ImplementOrder[k] \notin done,
             action \in ImplementAction[ImplementOrder[k]]
      PROVE  \E step \in Due(ImplementOrder, done) :
               Furthest(ImplementPlan, done).action \in ImplementAction[step]
  <2>1. Furthest(ImplementPlan, done) = ImplementPlan[i]
    BY <1>1, FurthestIs, Plans
  <2>2. Furthest(ImplementPlan, done).action = action
    BY <1>1, <2>1 DEF After
  <2>3. ImplementOrder[k - 1] \in done
    BY <1>1 DEF Recorded, After
  <2>4. \A j \in 1 .. k - 1 : ImplementOrder[j] \in done
    BY <1>1, <2>3, Orders DEF InSequence
  <2>5. FirstMissing(ImplementOrder[k], ImplementOrder, done)
    BY <1>1, <2>4, Orders DEF FirstMissing
  <2> QED
    BY <1>1, <2>2, <2>5, Orders DEF Due
<1>2. /\ 1 \notin Recorded(ImplementPlan, done)
      /\ 2 \in Recorded(ImplementPlan, done) <=> "head_sha_persisted" \in done
      /\ 3 \in Recorded(ImplementPlan, done) <=> "pr_created" \in done
      /\ 4 \in Recorded(ImplementPlan, done) <=> "push_done" \in done
      /\ 5 \in Recorded(ImplementPlan, done) <=> "commit_done" \in done
      /\ 6 \in Recorded(ImplementPlan, done) <=> "agent_done" \in done
      /\ Recorded(ImplementPlan, done) \subseteq 1 .. 6
  BY Plans DEF Recorded, After
<1>3. /\ ImplementAction["commit_done"] = {"commit_after_agent"}
      /\ ImplementAction["push_done"] = {"push_after_commit"}
      /\ ImplementAction["pr_created"] = {"restore_pr_after_push"}
      /\ ImplementAction["head_sha_persisted"] = {"persist_head_after_pr"}
      /\ ImplementAction["after_sha"] = {"ready_pr_after_head"}
  BY DEF ImplementAction
<1>4. CASE "head_sha_persisted" \in done
  <2>1. 2 \in Recorded(ImplementPlan, done) /\ \A j \in Recorded(ImplementPlan, done) : 2 <= j
    BY <1>2, <1>4
  <2>2. ImplementOrder[6] = "head_sha_persisted" /\ ImplementOrder[7] = "after_sha"
    BY Orders
  <2> QED
    BY <1>1, <1>3, <2>1, <2>2, Plans
<1>5. CASE "head_sha_persisted" \notin done /\ "pr_created" \in done
  <2>1. 3 \in Recorded(ImplementPlan, done) /\ \A j \in Recorded(ImplementPlan, done) : 3 <= j
    BY <1>2, <1>5
  <2>2. ImplementOrder[5] = "pr_created" /\ ImplementOrder[6] = "head_sha_persisted"
    BY Orders
  <2> QED
    BY <1>1, <1>3, <1>5, <2>1, <2>2, Plans
<1>6. CASE {"head_sha_persisted", "pr_created"} \cap done = {} /\ "push_done" \in done
  <2>1. 4 \in Recorded(ImplementPlan, done) /\ \A j \in Recorded(ImplementPlan, done) : 4 <= j
    BY <1>2, <1>6
  <2>2. ImplementOrder[4] = "push_done" /\ ImplementOrder[5] = "pr_created"
    BY Orders
  <2> QED
    BY <1>1, <1>3, <1>6, <2>1, <2>2, Plans
<1>7. CASE {"head_sha_persisted", "pr_created", "push_done"} \cap done = {} /\ "commit_done" \in done
  <2>1. 5 \in Recorded(ImplementPlan, done) /\ \A j \in Recorded(ImplementPlan, done) : 5 <= j
    BY <1>2, <1>7
  <2>2. ImplementOrder[3] = "commit_done" /\ ImplementOrder[4] = "push_done"
    BY Orders
  <2> QED
    BY <1>1, <1>3, <1>7, <2>1, <2>2, Plans
<1>8. CASE /\ {"head_sha_persisted", "pr_created", "push_done", "commit_done"} \cap done = {}
           /\ "agent_done" \in done
  <2>1. 6 \in Recorded(ImplementPlan, done) /\ \A j \in Recorded(ImplementPlan, done) : 6 <= j
    BY <1>2, <1>8
  <2>2. ImplementOrder[2] = "agent_done" /\ ImplementOrder[3] = "commit_done"
    BY Orders
  <2> QED
    BY <1>1, <1>3, <1>8, <2>1, <2>2, Plans
<1>9. "agent_done" \in done \/ {"head_sha_persisted", "pr_created", "push_done", "commit_done"} \cap done # {}
  BY <1>2
<1> QED
  BY <1>4, <1>5, <1>6, <1>7, <1>8, <1>9

LEMMA FixNext ==
  ASSUME NEW done, InSequence(FixOrder, done), "after_sha" \notin done,
         Recorded(FixPlan, done) # {}
  PROVE  \E step \in Due(FixOrder, done) : Furthest(FixPlan, done).action \in FixAction[step]
<1>1. ASSUME NEW i \in 2 .. 6, NEW k \in 3 .. 7, NEW action,
             i \in Recorded(FixPlan, done), \A j \in Recorded(FixPlan, done) : i <= j,
             FixPlan[i] = After(FixOrder[k - 1], action),
             FixOrder[k] \notin done,
             action \in FixAction[FixOrder[k]]
      PROVE  \E step \in Due(FixOrder, done) : Furthest(FixPlan, done).action \in FixAction[step]
  <2>1. Furthest(FixPlan, done) = FixPlan[i]
    BY <1>1, FurthestIs, Plans
  <2>2. Furthest(FixPlan, done).action = action
    BY <1>1, <2>1 DEF After
  <2>3. FixOrder[k - 1] \in done
    BY <1>1 DEF Recorded, After
  <2>4. \A j \in 1 .. k - 1 : FixOrder[j] \in done
    BY <1>1, <2>3, Orders DEF InSequence
  <2>5. FirstMissing(FixOrder[k], FixOrder, done)
    BY <1>1, <2>4, Orders DEF FirstMissing
  <2> QED
    BY <1>1, <2>2, <2>5, Orders DEF Due
<1>2. /\ 1 \notin Recorded(FixPlan, done)
      /\ 2 \in Recorded(FixPlan, done) <=> "head_sha_persisted" \in done
      /\ 3 \in Recorded(FixPlan, done) <=> "push_done" \in done
      /\ 4 \in Recorded(FixPlan, done) <=> "commit_done" \in done
      /\ 5 \in Recorded(FixPlan, done) <=> "agent_done" \in done
      /\ 6 \in Recorded(FixPlan, done) <=> "rebase_done" \in done
      /\ Recorded(FixPlan, done) \subseteq 1 .. 6
  BY Plans DEF Recorded, After
<1>3. /\ FixAction["agent_done"] = {"run_fix_after_rebase"}
      /\ FixAction["commit_done"] = {"commit_after_agent"}
      /\ FixAction["push_done"] = {"push_after_commit"}
      /\ FixAction["head_sha_persisted"] = {"observe_fix_head_after_push"}
      /\ FixAction["after_sha"] = {"advance_after_checkpoint"}
  BY DEF FixAction
<1>4. CASE "head_sha_persisted" \in done
  <2>1. 2 \in Recorded(FixPlan, done) /\ \A j \in Recorded(FixPlan, done) : 2 <= j
    BY <1>2, <1>4
  <2>2. FixOrder[6] = "head_sha_persisted" /\ FixOrder[7] = "after_sha"
    BY Orders
  <2> QED
    BY <1>1, <1>3, <2>1, <2>2, Plans
<1>5. CASE "head_sha_persisted" \notin done /\ "push_done" \in done
  <2>1. 3 \in Recorded(FixPlan, done) /\ \A j \in Recorded(FixPlan, done) : 3 <= j
    BY <1>2, <1>5
  <2>2. FixOrder[5] = "push_done" /\ FixOrder[6] = "head_sha_persisted"
    BY Orders
  <2> QED
    BY <1>1, <1>3, <1>5, <2>1, <2>2, Plans
<1>6. CASE {"head_sha_persisted", "push_done"} \cap done = {} /\ "commit_done" \in done
  <2>1. 4 \in Recorded(FixPlan, done) /\ \A j \in Recorded(FixPlan, done) : 4 <= j
    BY <1>2, <1>6
  <2>2. FixOrder[4] = "commit_done" /\ FixOrder[5] = "push_done"
    BY Orders
  <2> QED
    BY <1>1, <1>3, <1>6, <2>1, <2>2, Plans
<1>7. CASE {"head_sha_persisted", "push_done", "commit_done"} \cap done = {} /\ "agent_done" \in done
  <2>1. 5 \in Recorded(FixPlan, done) /\ \A j \in Recorded(FixPlan, done) : 5 <= j
    BY <1>2, <1>7
  <2>2. FixOrder[3] = "agent_done" /\ FixOrder[4] = "commit_done"
    BY Orders
  <2> QED
    BY <1>1, <1>3, <1>7, <2>1, <2>2, Plans
<1>8. CASE /\ {"head_sha_persisted", "push_done", "commit_done", "agent_done"} \cap done = {}
           /\ "rebase_done" \in done
  <2>1. 6 \in Recorded(FixPlan, done) /\ \A j \in Recorded(FixPlan, done) : 6 <= j
    BY <1>2, <1>8
  <2>2. FixOrder[2] = "rebase_done" /\ FixOrder[3] = "agent_done"
    BY Orders
  <2> QED
    BY <1>1, <1>3, <1>8, <2>1, <2>2, Plans
<1>9. "rebase_done" \in done \/ {"head_sha_persisted", "push_done", "commit_done", "agent_done"} \cap done # {}
  BY <1>2
<1> QED
  BY <1>4, <1>5, <1>6, <1>7, <1>8, <1>9

(* What ReconcileAgreesWithRun asks of one answer of reconcileTask.  *)
Agrees(r, k) ==
  /\ r.task.phase = "implement" /\ r.action \notin {"none", "resume_phase"} =>
       \E step \in Due(ImplementOrder, r.task.implement) : r.action \in ImplementAction[step]
  /\ r.task.phase = "fix" /\ r.action \notin {"none", "resume_phase"} =>
       \E step \in Due(FixOrder, r.task.fix) : r.action \in FixAction[step]
  /\ r.task.state = "cleaning" => MergeConfirmed(r.task)
  /\ Orphaned(r) => \/ disk.state = "planned"
                    \/ disk.phase = "implement" /\ "push_done" \in disk.implement
                         /\ prState \notin Unmerged
                    \/ disk.phase = "fix" /\ disk.fix = {}
                    \/ k.simple = "none" /\ disk.phase \notin {"implement", "fix"}

LEMMA StopAgrees ==
  ASSUME disk \in Task, disk.state # "cleaning", NEW code, NEW k,
         code = "pre_pr_active_orphan" =>
           \/ disk.state = "planned"
           \/ disk.phase = "implement" /\ "push_done" \in disk.implement /\ prState \notin Unmerged
           \/ disk.phase = "fix" /\ disk.fix = {}
           \/ k.simple = "none" /\ disk.phase \notin {"implement", "fix"}
  PROVE  Agrees(StopHere(disk, code), k)
<1> DEFINE r == StopHere(disk, code)
<1>1. r.task = Pause(disk, code) /\ r.action = "none"
  BY DEF StopHere, Result
<1>2. Pause(disk, code) = disk \/
        (Pause(disk, code).state = "paused" /\ Pause(disk, code).failure = code)
  BY DEF Pause, Task
<1> HIDE DEF r
<1>3. r.task.state # "cleaning"
  BY <1>1, <1>2
<1>4. Orphaned(r) => code = "pre_pr_active_orphan"
  BY <1>1, <1>2 DEF Orphaned
<1>5. Agrees(r, k)
  BY <1>1, <1>3, <1>4 DEF Agrees
<1> QED
  BY <1>5 DEF r

(* An answer that leaves the entry as it is.  *)
LEMMA KeptAgrees ==
  ASSUME disk.state # "cleaning", NEW action, NEW k,
         disk.phase = "implement" /\ action \notin {"none", "resume_phase"} =>
           \E step \in Due(ImplementOrder, disk.implement) : action \in ImplementAction[step],
         disk.phase = "fix" /\ action \notin {"none", "resume_phase"} =>
           \E step \in Due(FixOrder, disk.fix) : action \in FixAction[step]
  PROVE  Agrees(Result(disk, action), k)
<1>1. Result(disk, action).task = disk /\ Result(disk, action).action = action
  BY DEF Result
<1>2. ~Orphaned(Result(disk, action))
  BY <1>1 DEF Orphaned
<1> QED
  BY <1>1, <1>2 DEF Agrees

LEMMA CheckpointAgrees ==
  ASSUME disk \in Task, disk.state # "cleaning", ~disk.retrying, CheckpointsOK(disk),
         NEW k \in Kept
  PROVE  Agrees(AgentCheckpoint(disk, k), k)
<1> DEFINE resumed == IF k.session THEN "resume_session" ELSE "restart_phase"
<1>1. CASE disk.phase \in {"none", "ci_wait", "merge"}
  <2>1. AgentCheckpoint(disk, k) = Result(disk, "none")
    BY <1>1 DEF AgentCheckpoint
  <2> QED
    BY <1>1, <2>1, KeptAgrees
<1>2. CASE disk.phase = "implement"
  <2>1. /\ InSequence(ImplementOrder, disk.implement)
        /\ "before_sha" \in disk.implement /\ "after_sha" \notin disk.implement
    BY <1>2 DEF CheckpointsOK
  <2>2. AgentCheckpoint(disk, k) = ByCheckpoint(disk, k, ImplementPlan, disk.implement)
    BY <1>2 DEF AgentCheckpoint
  <2>3. CASE Recorded(ImplementPlan, disk.implement) # {}
    <3>1. AgentCheckpoint(disk, k)
            = Result(disk, Furthest(ImplementPlan, disk.implement).action)
      BY <2>2, <2>3 DEF ByCheckpoint
    <3>2. \E step \in Due(ImplementOrder, disk.implement) :
            Furthest(ImplementPlan, disk.implement).action \in ImplementAction[step]
      BY <2>1, <2>3, ImplementNext
    <3> QED
      BY <1>2, <3>1, <3>2, KeptAgrees
  <2>4. CASE Recorded(ImplementPlan, disk.implement) = {}
    <3>1. AgentCheckpoint(disk, k) = Result(disk, resumed)
      BY <2>1, <2>2, <2>4 DEF ByCheckpoint
    <3>2. "agent_done" \notin disk.implement
      BY <2>4, Plans DEF Recorded, After
    <3>3. FirstMissing("agent_done", ImplementOrder, disk.implement)
      BY <2>1, <3>2, Orders DEF FirstMissing
    <3>4. "agent_done" \in Due(ImplementOrder, disk.implement)
      BY <3>3, Orders DEF Due
    <3>5. resumed \in ImplementAction["agent_done"]
      BY DEF ImplementAction
    <3> HIDE DEF resumed
    <3> QED
      BY <1>2, <3>1, <3>4, <3>5, KeptAgrees
  <2> QED
    BY <2>3, <2>4
<1>3. CASE disk.phase = "fix"
  <2>1. InSequence(FixOrder, disk.fix) /\ "after_sha" \notin disk.fix
    BY <1>3 DEF CheckpointsOK
  <2>2. AgentCheckpoint(disk, k) = ByCheckpoint(disk, k, FixPlan, disk.fix)
    BY <1>3 DEF AgentCheckpoint
  <2>3. CASE Recorded(FixPlan, disk.fix) # {}
    <3>1. AgentCheckpoint(disk, k) = Result(disk, Furthest(FixPlan, disk.fix).action)
      BY <2>2, <2>3 DEF ByCheckpoint
    <3>2. \E step \in Due(FixOrder, disk.fix) :
            Furthest(FixPlan, disk.fix).action \in FixAction[step]
      BY <2>1, <2>3, FixNext
    <3> QED
      BY <1>3, <3>1, <3>2, KeptAgrees
  <2>4. ASSUME Recorded(FixPlan, disk.fix) = {}
        PROVE  disk.fix \subseteq {"before_sha"} /\ "rebase_done" \notin disk.fix
    BY <2>4, Plans DEF Recorded, After, Task, FixSteps, ImplementSteps
  <2>5. CASE Recorded(FixPlan, disk.fix) = {} /\ "before_sha" \in disk.fix
    <3>1. AgentCheckpoint(disk, k) = Result(disk, resumed)
      BY <2>2, <2>5 DEF ByCheckpoint
    <3>2. FirstMissing("rebase_done", FixOrder, disk.fix)
      BY <2>4, <2>5, Orders DEF FirstMissing
    <3>3. "rebase_done" \in Due(FixOrder, disk.fix)
      BY <3>2, Orders DEF Due
    <3>4. resumed \in FixAction["rebase_done"]
      BY DEF FixAction
    <3> HIDE DEF resumed
    <3> QED
      BY <1>3, <3>1, <3>3, <3>4, KeptAgrees
  <2>6. CASE Recorded(FixPlan, disk.fix) = {} /\ "before_sha" \notin disk.fix
    <3>1. AgentCheckpoint(disk, k) = StopHere(disk, "pre_pr_active_orphan")
      BY <2>2, <2>6 DEF ByCheckpoint, Orphan
    <3>2. disk.fix = {}
      BY <2>4, <2>6
    <3> QED
      BY <1>3, <3>1, <3>2, StopAgrees
  <2> QED
    BY <2>3, <2>5, <2>6
<1>4. CASE disk.phase \notin {"none", "ci_wait", "merge", "implement", "fix"}
  <2>1. AgentCheckpoint(disk, k) = ByCheckpoint(disk, k, SimplePlan, SimpleDone(k))
    BY <1>4 DEF AgentCheckpoint
  <2>2. CASE Recorded(SimplePlan, SimpleDone(k)) = {} /\ "before_sha" \notin SimpleDone(k)
    <3>1. AgentCheckpoint(disk, k) = StopHere(disk, "pre_pr_active_orphan")
      BY <2>1, <2>2 DEF ByCheckpoint, Orphan
    <3>2. k.simple = "none"
      BY <2>2 DEF SimpleDone, Kept
    <3> QED
      BY <1>4, <3>1, <3>2, StopAgrees
  <2>3. CASE Recorded(SimplePlan, SimpleDone(k)) # {} \/ "before_sha" \in SimpleDone(k)
    <3>1. \E action : AgentCheckpoint(disk, k) = Result(disk, action)
      BY <2>1, <2>3 DEF ByCheckpoint
    <3> QED
      BY <1>4, <3>1, KeptAgrees
  <2> QED
    BY <2>2, <2>3
<1> QED
  BY <1>1, <1>2, <1>3, <1>4

(* A task whose pull request is known, by what GitHub says of it.  *)
LEMMA PrBackedAgrees ==
  ASSUME disk \in Task, disk.state # "cleaning", disk.pr, ~disk.retrying, CheckpointsOK(disk),
         NEW k \in Kept
  PROVE  Agrees(PrBacked(disk, k, GhView), k)
<1> DEFINE other == GhView.state = "OPEN" /\ disk.head # 0 /\ GhView.head # disk.head
           unknown == disk.head = 0 \/ GhView.head = 0 \/ GhView.head # disk.head
<1>1. CASE GhView.state = "MERGED" /\ unknown
  <2>1. PrBacked(disk, k, GhView) = StopHere(disk, "merge_sha_mismatch")
    BY <1>1 DEF PrBacked
  <2> QED
    BY <2>1, StopAgrees
<1>2. CASE GhView.state = "MERGED" /\ ~unknown
  <2> DEFINE r == PrBacked(disk, k, GhView)
  <2>1. r = Result(PrMerged(disk, GhView.head), "cleanup_remaining")
    BY <1>2 DEF PrBacked
  <2>2. PrMerged(disk, GhView.head) = Enter(disk, "cleaning", "none")
    BY <1>2 DEF PrMerged
  <2> DEFINE u == Enter(disk, "cleaning", "none")
  <2>3. r.task = u
    BY <2>1, <2>2 DEF Result
  <2>4. u.state = "cleaning" /\ u.phase = "none" /\ u.failure = disk.failure
    BY DEF Enter, Task
  <2>5. u.pr = disk.pr /\ u.head = disk.head
    BY DEF Enter, Task
  <2>6. prState = "MERGED" /\ prSha = disk.head
    BY <1>2 DEF GhView, Unmerged
  <2> HIDE DEF r, u
  <2>7. Agrees(r, k)
    BY <2>3, <2>4, <2>5, <2>6 DEF Agrees, Orphaned, MergeConfirmed
  <2> QED
    BY <2>7 DEF r
<1>3. CASE GhView.state = "CLOSED"
  <2>1. PrBacked(disk, k, GhView) = StopHere(disk, "other")
    BY <1>3 DEF PrBacked
  <2> QED
    BY <2>1, StopAgrees
<1>4. CASE GhView.state \notin {"MERGED", "CLOSED"} /\ other
  <2>1. PrBacked(disk, k, GhView) = StopHere(disk, "merge_sha_mismatch")
    BY <1>4 DEF PrBacked
  <2> QED
    BY <2>1, StopAgrees
<1>5. CASE GhView.state = "OPEN" /\ ~other /\ disk.phase \in {"ci_wait", "merge"}
  <2>1. PrBacked(disk, k, GhView) = Result(disk, "resume_phase")
    BY <1>5 DEF PrBacked
  <2> QED
    BY <1>5, <2>1, KeptAgrees
<1>6. CASE /\ GhView.state \notin {"MERGED", "CLOSED"} /\ ~other
           /\ ~(GhView.state = "OPEN" /\ disk.phase \in {"ci_wait", "merge"})
  <2>1. PrBacked(disk, k, GhView) = AgentCheckpoint(disk, k)
    BY <1>6 DEF PrBacked
  <2> QED
    BY <2>1, CheckpointAgrees
<1> QED
  BY <1>1, <1>2, <1>3, <1>4, <1>5, <1>6

(* A task without a known pull request, by its checkpoints and, once it was
   pushed, by the pull request of its branch.  *)
LEMMA PrePrAgrees ==
  ASSUME disk \in Task, ~disk.retrying, CheckpointsOK(disk), Marks(disk), PhaseOf(disk),
         KnowsPr(disk), ~disk.pr,
         disk.state \in {"planning", "planned", "implementing", "reviewing"},
         NEW k \in Kept, NEW o \in Seen
  PROVE  Agrees(PrePrActive(disk, k, o), k)
<1> DEFINE pushed == /\ disk.phase = "implement" /\ "push_done" \in disk.implement
                     /\ o.ofBranch.state # "unseen"
<1>1. disk.state # "planned" => disk.phase \notin {"none", "ci_wait", "merge"}
  BY PlacesKnown DEF PhaseOf, Place
<1>2. CASE disk.state = "planned" /\ disk.verified /\ disk.phase = "none" /\ k.based
  <2> DEFINE r == PrePrActive(disk, k, o)
  <2>1. r = Result(ImplementStarted(disk), "none")
    BY <1>2 DEF PrePrActive
  <2>2. r.action = "none" /\ r.task = ImplementStarted(disk)
    BY <2>1 DEF Result
  <2>3. /\ ImplementStarted(disk).state = "implementing"
        /\ ImplementStarted(disk).failure = disk.failure
    BY DEF ImplementStarted, Enter, Task
  <2> HIDE DEF r
  <2>4. Agrees(r, k)
    BY <2>2, <2>3 DEF Agrees, Orphaned
  <2> QED
    BY <2>4 DEF r
<1>3. CASE disk.state = "planned" /\ ~(disk.verified /\ disk.phase = "none" /\ k.based)
  <2>1. PrePrActive(disk, k, o) = StopHere(disk, "pre_pr_active_orphan")
    BY <1>3 DEF PrePrActive, Orphan
  <2> QED
    BY <1>3, <2>1, StopAgrees
<1>4. CASE disk.state # "planned" /\ pushed
  <2>1. o.ofBranch = GhView
    BY <1>4 DEF Seen, Unseen
  <2>2. PrePrActive(disk, k, o) = FromBranch(disk, GhView)
    BY <1>1, <1>4, <2>1 DEF PrePrActive
  <2>3. CASE GhView.state = "OPEN"
    <3> DEFINE done == disk.implement \cup {"pr_created"}
               u == [disk EXCEPT !.pr = TRUE, !.head = GhView.head, !.implement = done]
    <3>1. FromBranch(disk, GhView) = Result(u, "persist_head_after_pr")
      BY <2>3 DEF FromBranch
    <3>2. /\ u.phase = disk.phase /\ u.state = disk.state /\ u.failure = disk.failure
          /\ u.implement = done
      BY DEF Task
    <3>3. "head_sha_persisted" \notin done
      <4>1. "pr_created" \notin disk.implement
        BY DEF KnowsPr
      <4> QED
        BY <4>1 DEF Marks
    <3>4. \A j \in 1 .. 5 : ImplementOrder[j] \in done
      BY <1>4, Orders DEF CheckpointsOK, InSequence
    <3>5. FirstMissing("head_sha_persisted", ImplementOrder, done)
      BY <3>3, <3>4, Orders DEF FirstMissing
    <3>6. "head_sha_persisted" \in Due(ImplementOrder, done)
      BY <3>5, Orders DEF Due
    <3>7. "persist_head_after_pr" \in ImplementAction["head_sha_persisted"]
      BY DEF ImplementAction
    <3> HIDE DEF u, done
    <3>8. Result(u, "persist_head_after_pr").task = u
          /\ Result(u, "persist_head_after_pr").action = "persist_head_after_pr"
      BY DEF Result
    <3>9. Agrees(Result(u, "persist_head_after_pr"), k)
      BY <1>4, <3>2, <3>6, <3>7, <3>8 DEF Agrees, Orphaned
    <3> QED
      BY <2>2, <3>1, <3>9
  <2>4. CASE GhView.state # "OPEN"
    <3>1. FromBranch(disk, GhView) = StopHere(disk, "pre_pr_active_orphan")
      BY <2>4 DEF FromBranch, Orphan
    <3>2. prState \notin Unmerged
      BY <2>4 DEF GhView
    <3> QED
      BY <1>4, <2>2, <3>1, <3>2, StopAgrees
  <2> QED
    BY <2>3, <2>4
<1>5. CASE disk.state # "planned" /\ ~pushed
  <2>1. PrePrActive(disk, k, o) = AgentCheckpoint(disk, k)
    BY <1>1, <1>5 DEF PrePrActive
  <2> QED
    BY <2>1, CheckpointAgrees
<1> QED
  BY <1>2, <1>3, <1>4, <1>5

LEMMA CleaningAgrees ==
  ASSUME disk \in Task, disk.state = "cleaning", ~disk.retrying, PhaseOf(disk),
         Confirmed(disk, prState, prSha), NEW k, NEW o \in Seen
  PROVE  Agrees(ReconcileCleaning(disk, o), k)
<1> DEFINE r == ReconcileCleaning(disk, o)
<1>1. ~o.branchFailed /\ ~o.worktreeFailed
  BY DEF Seen
<1>2. r \in {Result(CleaningCompleted(disk), "none"), Result(disk, "cleanup_remaining")}
  BY <1>1 DEF ReconcileCleaning
<1>3. disk.phase = "none"
  BY PlacesKnown DEF PhaseOf, Place
<1>4. /\ CleaningCompleted(disk).phase = "none" /\ CleaningCompleted(disk).state = "merged"
      /\ CleaningCompleted(disk).failure = disk.failure
  BY DEF CleaningCompleted, Enter, Task
<1>5. MergeConfirmed(disk)
  BY DEF Confirmed, InCleanup, MergeConfirmed
<1> HIDE DEF r
<1>6. r.task = disk \/ r.task = CleaningCompleted(disk)
  <2>1. /\ Result(CleaningCompleted(disk), "none").task = CleaningCompleted(disk)
        /\ Result(disk, "cleanup_remaining").task = disk
    BY DEF Result
  <2> QED
    BY <1>2, <2>1
<1>7. r.task.phase = "none" /\ r.task.failure = disk.failure
  BY <1>3, <1>4, <1>6
<1>8. r.task.state = "cleaning" => MergeConfirmed(r.task)
  BY <1>4, <1>5, <1>6
<1>9. Agrees(r, k)
  BY <1>7, <1>8 DEF Agrees, Orphaned
<1> QED
  BY <1>9 DEF r

(* reconcile.ts and the workflows agree on what is to be done next with any
   entry that a behaviour leaves on disk, whatever stopped it: the step that is
   named is the one that is due, cleaning is begun only with the merge
   confirmed, and the tasks given up are those of the four kinds named.
   (reconcileTask, runImplementWorkflow, runFixWorkflow)  *)
THEOREM ReconcileFollowsTheCheckpoints == Spec => []ReconcileAgreesWithRun
<1>1. IInv /\ CopiesInv /\ CheckpointsOK(disk) => ReconcileAgreesWithRun
  <2> SUFFICES ASSUME IInv, CopiesInv, CheckpointsOK(disk), ~disk.retrying,
                      NEW o \in Seen, NEW k \in KeptNow
               PROVE  Agrees(ReconcileTask(disk, k, o), k)
    BY DEF ReconcileAgreesWithRun, Agrees
  <2>1. /\ disk \in Task /\ k \in Kept /\ Marks(disk) /\ PhaseOf(disk)
        /\ KnowsPr(disk) /\ Confirmed(disk, prState, prSha)
    BY DEF IInv, WorkerInv, WorkerTypeOK, Good, CopiesInv, CopyOK, KeptNow
  <2>2. CASE disk.state = "cleaning"
    BY <2>1, <2>2, CleaningAgrees DEF ReconcileTask
  <2>3. CASE disk.state # "cleaning" /\ disk.pr /\ o.pr.state # "unseen"
    <3>1. o.pr = GhView
      BY <2>3 DEF Seen, Unseen
    <3>2. ReconcileTask(disk, k, o) = PrBacked(disk, k, GhView)
      BY <2>3, <3>1 DEF ReconcileTask
    <3> QED
      BY <2>1, <2>3, <3>2, PrBackedAgrees
  <2>4. CASE ~disk.pr /\ disk.state \in {"planning", "planned", "implementing", "reviewing"}
    <3>1. ReconcileTask(disk, k, o) = PrePrActive(disk, k, o)
      BY <2>4 DEF ReconcileTask
    <3> QED
      BY <2>1, <2>4, <3>1, PrePrAgrees
  <2>5. CASE /\ disk.state # "cleaning" /\ ~(disk.pr /\ o.pr.state # "unseen")
             /\ ~(~disk.pr /\ disk.state \in {"planning", "planned", "implementing", "reviewing"})
    <3>1. ReconcileTask(disk, k, o) = Result(disk, "none")
      BY <2>5 DEF ReconcileTask
    <3> QED
      BY <2>5, <3>1, KeptAgrees
  <2> QED
    BY <2>2, <2>3, <2>4, <2>5
<1> QED
  BY <1>1, CheckpointsInvariance, PTL
=============================================================================
