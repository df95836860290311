--------------------------- MODULE IssuePipeline ---------------------------
(***************************************************************************)
(* One issue from `autokit add` to a merged pull request: the loop of      *)
(* runProductionWorkflow over the planning, delivery and merging           *)
(* workflows, the commands a user runs between two runs, crashes, and      *)
(* what happens on GitHub meanwhile.                                       *)
(***************************************************************************)
EXTENDS Planning, Delivery, Merging, Commands

vars == <<workerVars, planVars, repoVars, deliveryVars>>

TypeOK ==
  /\ WorkerTypeOK
  /\ PlanningTypeOK
  /\ RepositoryTypeOK
  /\ DeliveryTypeOK

Init == WorkerInit /\ PlanningInit /\ RepositoryInit /\ DeliveryInit

(* The process: the loop of the executor and the workflow it is in.  *)
ProcessStep ==
  \/ (Save \/ Stop) /\ UNCHANGED <<planVars, repoVars, deliveryVars>>
  \/ PlanningStep /\ UNCHANGED <<repoVars, deliveryVars>>
  \/ DeliveryStep /\ UNCHANGED planVars
  \/ (MergingStep \/ RetryStep) /\ UNCHANGED <<planVars, deliveryVars>>

(* The user starts a command.  *)
RunAgain == Begin /\ UNCHANGED <<planVars, repoVars, deliveryVars>>
ResumeAgain == Resume /\ UNCHANGED <<planVars, repoVars, deliveryVars>>
RepairStep == (RetryStart \/ ForceDetach) /\ UNCHANGED <<planVars, deliveryVars>>

(* The locals of the planning workflow die with the process.  *)
CrashStep ==
  /\ Crash
  /\ guard' = 0 /\ held' = FALSE
  /\ UNCHANGED <<planFile, repoVars, deliveryVars>>

SurroundingsStep == RepositoryStep /\ UNCHANGED <<workerVars, planVars, deliveryVars>>

Next ==
  \/ ProcessStep \/ RunAgain \/ ResumeAgain \/ RepairStep
  \/ CrashStep \/ SurroundingsStep

Spec == Init /\ [][Next]_vars

(* A started process keeps going (every wait in it polls), and GitHub
   switches a reservation off some time after it was told to.  *)
StopEventually == StopTakesEffect /\ UNCHANGED <<workerVars, planVars, deliveryVars>>
RunFairness == WF_vars(ProcessStep) /\ WF_vars(StopEventually)
RunSpec == Spec /\ RunFairness

(* Besides, the user runs and resumes again and again, and a poll for a
   merged pull request is at some time answered before the timeout.  *)
SeeMerged == MergeSeesMerged /\ UNCHANGED <<planVars, deliveryVars>>
OperatedSpec ==
  /\ RunSpec
  /\ WF_vars(RunAgain)
  /\ SF_vars(ResumeAgain)
  /\ SF_vars(SeeMerged)

-----------------------------------------------------------------------------
(* What a task entry says about the pull request once cleanup is allowed.  *)
MergeConfirmed(t) == prState = "MERGED" /\ t.pr /\ prSha = t.head

InCleanup(t) ==
  \/ t.state \in {"cleaning", "merged"}
  \/ t.state = "paused" /\ t.prev = "cleaning"

(* The merge gate.  A task is cleaning, waits to go on cleaning, or is merged
   only if its pull request is merged at the very head the task recorded; on
   disk and in the process, through crashes, timeouts and resumes.  Outside a
   retry, which clears the recorded head.  (pr_merged, runMergeWorkflow)  *)
CleaningMeansMerged ==
  \A t \in {disk, mem} : ~t.retrying /\ InCleanup(t) => MergeConfirmed(t)

(* The remote branch and the worktree of an issue are deleted only when its
   pull request is merged, or by a retry.  (runCleaningWorkflow)  *)
DeletesOnlyMerged ==
  [][(remote # 0 /\ remote' = 0) \/ (worktree /\ ~worktree')
       => prState = "MERGED" \/ mem.retrying]_vars

(* One branch never gets a second pull request, beside the first one or after
   it: a crash between `gh pr create` and the write of its number is made good
   by looking the branch up.  (restoreOrCreatePrAfterPush)  *)
OnePullRequest == prs <= 1

(* A reservation belongs to a process that is about to confirm it, to a task
   that waits for the merge, or is being switched off by one: every way out
   of merging waits until GitHub has dropped it.  (disableAutoMergeAndWait)  *)
ReservationHeld ==
  armed # "off" => pc \in {"reserved", "barrier"} \/ mem.state = "merging"

(* Whatever GitHub may merge on its own has passed a review without accepted
   findings, fixes of CI failures included.  (fix_pushed, reserveAutoMerge) *)
ArmedHeadWasReviewed ==
  armed # "off" /\ prState = "OPEN" => prSha = reviewed

(* A reservation is made only for the head that the last review without
   accepted findings saw, over crashes between an effect and its record,
   unless somebody else has pushed.  (reserveAutoMerge)  *)
ReservedHeadWasReviewed ==
  [][armed # "on" /\ armed' = "on" /\ ff => prSha = reviewed]_vars

(* From review to merge the recorded head, the local branch the reviewer
   sees, the remote branch and the open pull request are one commit, unless
   somebody else pushed.  (runImplementWorkflow, runFixWorkflow)  *)
HeadIsPublished ==
  disk.state \in {"reviewing", "ci_waiting", "merging"} /\ prState \in Unmerged /\ ff
    => disk.head = local /\ remote = local /\ prSha = local

(* A task whose retry has been begun and not finished is carried by no
   workflow.  (commandResumeLocked, retryCleanupTask)  *)
HalfRetriedNeverRuns ==
  mem.retrying => pc \in {"idle", "exit", "loop", "retry"}

(* A retry that queues its task again has left nothing of the earlier attempt:
   no worktree, no local branch, and no pull request that could still merge.
   (retryCleanupTask)  *)
RetriedStartsAfresh ==
  [][pc = "retry" /\ pc' = "exit" /\ ~mem'.retrying
       => ~worktree /\ local = 0 /\ prState \notin Unmerged]_vars

(* The verifier judges the newest plan: from memory, or from the file after an
   interruption.  (runPlanningWorkflow, writePlan)  *)
VerifierHasThePlan ==
  pc = "plan_agent" /\ mem.phase = "plan_verify" => held \/ planFile = "newest"

(* From planned on, the plan file the implementer, the reviewer and the fixer
   read is the newest plan.  (writePlan, buildPrompt)  *)
FiledPlanIsNewest ==
  disk.state \in {"planned", "implementing", "reviewing", "fixing",
                  "ci_waiting", "merging", "cleaning", "merged"}
    => planFile = "newest"

(* What the workflow of a state, and the executor before it, ask of a task.  *)
Accepted(t) ==
  /\ t.state = "planning" => t.phase \in {"plan", "plan_verify", "plan_fix"}
  /\ t.state = "planned" => t.phase = "none" /\ t.verified /\ t.named
  /\ t.state = "implementing" => t.phase = "implement" /\ t.named
  /\ t.state = "reviewing" => t.phase = "review" /\ t.named
  /\ t.state = "fixing" => t.phase = "fix" /\ t.named /\ t.pr
  /\ t.state = "ci_waiting" => t.phase = "ci_wait" /\ t.pr /\ t.head # 0
  /\ t.state = "merging" => t.phase = "merge" /\ t.pr /\ t.head # 0
  /\ t.state = "cleaning" => t.phase = "none" /\ t.named

(* The two kinds of task that are refused: one resumed where the supervisor
   was stopped, and one that was retried and planned again.  *)
StoppedInSupervise(t) == t.state = "reviewing" /\ t.phase = "supervise"
RetriedAndPlanned(t) == t.state = "planned" /\ ~t.named

(* But for these two, no workflow refuses a task the executor hands to it: the
   phase, the path, the pull request and the head it asks for are there.
   (runProductionWorkflow, the guards of the workflows)  *)
GuardsAccept ==
  pc = "loop" /\ ~mem.retrying =>
    Accepted(mem) \/ StoppedInSupervise(mem) \/ RetriedAndPlanned(mem)

(* A task left paused or failed is one that a command takes up: a retry, or a
   resume into a state whose workflow accepts it or finds it stopped in the
   supervisor.  That the command gets it any further is not said.
   (commandResumeLocked, selectRetryTargets)  *)
WayOut ==
  pc = "idle" /\ disk.state \in {"paused", "failed"} =>
    \/ RetryTarget(disk)
    \/ /\ Resumable(disk)
       /\ ResumeTask(disk).state \in Active
       /\ Accepted(ResumeTask(disk)) \/ StoppedInSupervise(ResumeTask(disk))

(* Every run comes to its end: the rounds are bounded, and no wait is for
   something that does not come.  *)
RunEnds == (pc # "idle") ~> (pc = "idle")

(* A pull request merged at the recorded head while its task waits for the
   merge is cleaned up after, whatever crashes or times out in between.  *)
MergedGetsCleaned ==
  (disk.state = "merging" /\ MergeConfirmed(disk)) ~> (disk.state = "merged")
=============================================================================
