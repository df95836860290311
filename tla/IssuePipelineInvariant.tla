----------------------- MODULE IssuePipelineInvariant -----------------------
(***************************************************************************)
(* The inductive invariant behind the theorems about IssuePipeline, and    *)
(* what keeps it: the effects on git and GitHub, the transitions of one    *)
(* copy of the task, the ways a process has of moving on, and the          *)
(* workflows and commands, one lemma each with one step per action.        *)
(***************************************************************************)
EXTENDS IssuePipeline, TaskMachineProofs

-----------------------------------------------------------------------------
(* Types.  *)

(* The ways a process has of moving on.  *)
LEMMA WorkerMoves ==
  ASSUME WorkerTypeOK, NEW t \in Task, NEW label \in Labels,
         Record(t, label) \/ Continue(t, label)
  PROVE  WorkerTypeOK'
  BY DEF WorkerTypeOK, Record, Continue

(* An exception falls back to the entry on disk.  *)
LEMMA ThrowType == WorkerTypeOK /\ Throw => WorkerTypeOK'
  BY DEF WorkerTypeOK, Throw, Labels

(* Every effect on git and GitHub.  *)
LEMMA EffectTypes ==
  ASSUME RepositoryTypeOK
  PROVE  /\ EnsureWorktree => RepositoryTypeOK'
         /\ EditFiles => RepositoryTypeOK'
         /\ CommitEdits => RepositoryTypeOK'
         /\ RebaseBranch => RepositoryTypeOK'
         /\ PushBranch => RepositoryTypeOK'
         /\ CreateDraft => RepositoryTypeOK'
         /\ MarkReady => RepositoryTypeOK'
         /\ Disarm => RepositoryTypeOK'
         /\ DeleteRemote => RepositoryTypeOK'
         /\ RemoveWorktree => RepositoryTypeOK'
         /\ ClosePullRequest => RepositoryTypeOK'
         /\ DeleteLocalBranch => RepositoryTypeOK'
         /\ RepositoryStep => RepositoryTypeOK'
         /\ UNCHANGED repoVars => RepositoryTypeOK'
<1> USE DEF RepositoryTypeOK, FlagsOK, CountsOK, repoVars, gitVars, prVars, Unmerged
<1>1. EnsureWorktree => RepositoryTypeOK'
  <2>1. EnsureWorktree => FlagsOK'
    BY ZenonT(30) DEF EnsureWorktree, AddWorktree
  <2>2. EnsureWorktree => CountsOK'
    BY DEF EnsureWorktree, AddWorktree
  <2> QED
    BY <2>1, <2>2
<1>2. EditFiles => RepositoryTypeOK'
  BY DEF EditFiles
<1>3. CommitEdits => RepositoryTypeOK'
  <2>1. CommitEdits => FlagsOK'
    BY ZenonT(30) DEF CommitEdits
  <2>2. CommitEdits => CountsOK'
    BY DEF CommitEdits
  <2> QED
    BY <2>1, <2>2
<1>4. RebaseBranch => RepositoryTypeOK'
  <2>1. RebaseBranch => FlagsOK'
    BY ZenonT(30) DEF RebaseBranch
  <2>2. RebaseBranch => CountsOK'
    BY DEF RebaseBranch
  <2> QED
    BY <2>1, <2>2
<1>5. PushBranch => RepositoryTypeOK'
  BY DEF PushBranch
<1>6. CreateDraft => RepositoryTypeOK'
  BY DEF CreateDraft
<1>7. MarkReady => RepositoryTypeOK'
  BY DEF MarkReady
<1>8. Disarm => RepositoryTypeOK'
  BY DEF Disarm
<1>9. DeleteRemote => RepositoryTypeOK'
  BY DEF DeleteRemote
<1>10. RemoveWorktree => RepositoryTypeOK'
  BY DEF RemoveWorktree
<1>11. ClosePullRequest => RepositoryTypeOK'
  BY DEF ClosePullRequest
<1>12. DeleteLocalBranch => RepositoryTypeOK'
  BY DEF DeleteLocalBranch
<1>13. RepositoryStep => RepositoryTypeOK'
  <2>1. RepositoryStep => FlagsOK'
    BY ZenonT(30) DEF RepositoryStep, BaseMoves, HumanPush, HumanMerge, HumanClose,
         AutoMergeFires, EndPullRequest, StopTakesEffect
  <2>2. RepositoryStep => CountsOK'
    BY DEF RepositoryStep, BaseMoves, HumanPush, HumanMerge, HumanClose,
         AutoMergeFires, EndPullRequest, StopTakesEffect
  <2> QED
    BY <2>1, <2>2
<1>14. UNCHANGED repoVars => RepositoryTypeOK'
  OBVIOUS
<1> QED
  BY <1>1, <1>2, <1>3, <1>4, <1>5, <1>6, <1>7, <1>8, <1>9, <1>10, <1>11,
     <1>12, <1>13, <1>14

-----------------------------------------------------------------------------
(* The inductive invariant.  CleaningMeansMerged alone is not inductive: a
   task can turn to cleaning only in the merge workflow, which neither sets
   nor checks pr.number, so the invariant carries the number from where it is
   set.  It also says which state each workflow works on: Pause remembers the
   state it leaves, and that is cleaning in the cleanup only.  *)

(* The state a workflow works on, by its label.  *)
Fits(t, label) ==
  /\ label \in {"plan", "plan_agent"} => t.state = "planning"
  /\ label = "implement" => t.state = "implementing"
  /\ label \in {"review", "supervise"} => t.state = "reviewing"
  /\ label = "fix" => t.state = "fixing"
  /\ label \in {"ci", "reserve", "reserved"} => t.state = "ci_waiting"
  /\ label = "merge" => t.state = "merging"
  /\ label \in {"clean", "force_remove"} => t.state = "cleaning"
  /\ label = "retry" => t.retrying

BeforeMerge == {"reviewing", "fixing", "ci_waiting", "merging"}

(* The pull request is known once it is recorded as created, and from review
   to merge, also while the task is paused there.  *)
KnowsPr(t) ==
  /\ "pr_created" \in t.implement => t.pr
  /\ ~t.retrying /\ (t.state \in BeforeMerge \/ (t.state = "paused" /\ t.prev \in BeforeMerge))
       => t.pr

(* What CleaningMeansMerged asks of one copy of the task, for a pull request
   in state ps with head sha.  *)
Confirmed(t, ps, sha) ==
  ~t.retrying /\ InCleanup(t) => ps = "MERGED" /\ t.pr /\ sha = t.head

Good(t, ps, sha) == KnowsPr(t) /\ Confirmed(t, ps, sha)

WorkerInv ==
  /\ WorkerTypeOK
  /\ Fits(mem, pc)
  /\ Good(mem, prState, prSha)
  /\ Good(disk, prState, prSha)

IInv == WorkerInv /\ PlanningTypeOK /\ RepositoryTypeOK /\ DeliveryTypeOK

-----------------------------------------------------------------------------
(* What keeps one copy of a task good.  *)

(* Pausing remembers the state it leaves, which is cleaning in cleanup alone:
   a paused task asks for no more than the task it was.  (pauseWithFailure) *)
LEMMA GoodPause ==
  ASSUME NEW t \in Task, NEW code \in FailureCodes, NEW ps, NEW sha,
         Good(t, ps, sha), t.retrying \/ t.state \in Active
  PROVE  Good(Pause(t, code), ps, sha)
  BY DEF Good, KnowsPr, Confirmed, InCleanup, Pause, Task, BeforeMerge, Active

(* A failed task asks for nothing.  (failWithFailure)  *)
LEMMA GoodFail ==
  ASSUME NEW t \in Task, NEW code \in FailureCodes, NEW ps, NEW sha,
         Good(t, ps, sha)
  PROVE  Good(Fail(t, code), ps, sha)
  BY DEF Good, KnowsPr, Confirmed, InCleanup, Fail, Task, BeforeMerge

(* A resumed task is where it was paused.  (resume)  *)
LEMMA GoodResume ==
  ASSUME NEW t \in Task, NEW ps, NEW sha, Good(t, ps, sha), t.state = "paused"
  PROVE  Good(ResumeTask(t), ps, sha)
  BY DEF Good, KnowsPr, Confirmed, InCleanup, ResumeTask, Task, BeforeMerge, Active

(* A merged pull request stays merged, at the same head.  *)
LEMMA GoodStable ==
  ASSUME NEW t, NEW ps, NEW sha, NEW ps2, NEW sha2, Good(t, ps, sha),
         ps = "MERGED" => ps2 = "MERGED" /\ sha2 = sha
  PROVE  Good(t, ps2, sha2)
  BY DEF Good, Confirmed

(* The states that say nothing of the pull request.  *)
LEMMA GoodBeforePr ==
  ASSUME NEW t \in Task, NEW ps, NEW sha, Good(t, ps, sha), t.state \notin {"paused"}
  PROVE  /\ Good(RunStarted(t), ps, sha)
         /\ Good(PlanCompleted(t), ps, sha)
         /\ Good(PlanVerifyAccepted(t), ps, sha)
         /\ Good(PlanVerifyRejected(t), ps, sha)
         /\ Good(PlanFixCompleted(t), ps, sha)
         /\ Good(ImplementStarted(t), ps, sha)
<1> USE DEF Good, KnowsPr, Confirmed, InCleanup, Task, BeforeMerge, Enter
<1>1. Good(RunStarted(t), ps, sha)
  BY DEF RunStarted
<1>2. Good(PlanCompleted(t), ps, sha) /\ Good(PlanFixCompleted(t), ps, sha)
  BY DEF PlanCompleted, PlanFixCompleted
<1>3. Good(PlanVerifyAccepted(t), ps, sha)
  BY DEF PlanVerifyAccepted
<1>4. Good(PlanVerifyRejected(t), ps, sha)
  BY DEF PlanVerifyRejected, Fail
<1>5. Good(ImplementStarted(t), ps, sha)
  BY DEF ImplementStarted
<1> QED
  BY <1>1, <1>2, <1>3, <1>4, <1>5

(* From review to merge the number of the pull request is only handed on.  *)
LEMMA GoodBeforeMerge ==
  ASSUME NEW t \in Task, NEW ps, NEW sha, NEW head \in Nat, Good(t, ps, sha),
         t.retrying \/ t.pr
  PROVE  /\ Good(PrReady(t, head), ps, sha)
         /\ Good(SuperviseClean(t), ps, sha)
         /\ Good(SuperviseAccept(t), ps, sha)
         /\ Good(FixPushed(t), ps, sha)
         /\ Good(CiFailed(t), ps, sha)
         /\ Good(AutoMergeReserved(t), ps, sha)
<1> USE DEF Good, KnowsPr, Confirmed, InCleanup, Task, BeforeMerge, Enter, Fail
<1>1. Good(PrReady(t, head), ps, sha)
  BY DEF PrReady
<1>2. Good(SuperviseClean(t), ps, sha)
  BY DEF SuperviseClean
<1>3. Good(SuperviseAccept(t), ps, sha)
  BY DEF SuperviseAccept
<1>4. Good(FixPushed(t), ps, sha)
  BY DEF FixPushed
<1>5. Good(CiFailed(t), ps, sha)
  BY DEF CiFailed
<1>6. Good(AutoMergeReserved(t), ps, sha)
  BY DEF AutoMergeReserved
<1> QED
  BY <1>1, <1>2, <1>3, <1>4, <1>5, <1>6

(* A task that waits for the merge turns to cleaning at its own head alone. *)
LEMMA GoodMerged ==
  ASSUME NEW t \in Task, NEW sha \in Nat, Good(t, "MERGED", sha), t.state = "merging"
  PROVE  Good(PrMerged(t, sha), "MERGED", sha)
<1>1. t.state \in Active /\ t.state \in BeforeMerge
  BY DEF Active, BeforeMerge
<1>2. Good(Pause(t, "merge_sha_mismatch"), "MERGED", sha)
  BY <1>1, Names, GoodPause
<1>3. t.head = sha => Good(Enter(t, "cleaning", "none"), "MERGED", sha)
  BY <1>1 DEF Good, KnowsPr, Confirmed, InCleanup, Enter, Task, BeforeMerge
<1> QED
  BY <1>2, <1>3 DEF PrMerged

-----------------------------------------------------------------------------
(* What keeps the invariant of the process.  *)

MergedStays == prState = "MERGED" => prState' = "MERGED" /\ prSha' = prSha

(* No effect of the workflows and the commands, and nobody else, changes a
   merged pull request.  *)
LEMMA MergedPrStays ==
  /\ EnsureWorktree => MergedStays
  /\ EditFiles => MergedStays
  /\ CommitEdits => MergedStays
  /\ RebaseBranch => MergedStays
  /\ PushBranch => MergedStays
  /\ CreateDraft /\ prState = "NONE" => MergedStays
  /\ MarkReady => MergedStays
  /\ Disarm => MergedStays
  /\ DeleteRemote => MergedStays
  /\ RemoveWorktree => MergedStays
  /\ ClosePullRequest /\ prState \in Unmerged => MergedStays
  /\ DeleteLocalBranch => MergedStays
  /\ RepositoryStep => MergedStays
  /\ UNCHANGED repoVars => MergedStays
<1> USE DEF MergedStays, Unmerged, repoVars, gitVars, prVars
<1>1. /\ EnsureWorktree => MergedStays
      /\ EditFiles => MergedStays
      /\ CommitEdits => MergedStays
      /\ RebaseBranch => MergedStays
      /\ PushBranch => MergedStays
  BY DEF EnsureWorktree, AddWorktree, EditFiles, CommitEdits, RebaseBranch, PushBranch
<1>2. /\ CreateDraft /\ prState = "NONE" => MergedStays
      /\ MarkReady => MergedStays
      /\ Disarm => MergedStays
      /\ ClosePullRequest /\ prState \in Unmerged => MergedStays
  BY DEF CreateDraft, MarkReady, Disarm, ClosePullRequest
<1>3. /\ DeleteRemote => MergedStays
      /\ RemoveWorktree => MergedStays
      /\ DeleteLocalBranch => MergedStays
      /\ UNCHANGED repoVars => MergedStays
  BY DEF DeleteRemote, RemoveWorktree, DeleteLocalBranch
<1>4. RepositoryStep => MergedStays
  BY DEF RepositoryStep, BaseMoves, HumanPush, HumanMerge, HumanClose,
         AutoMergeFires, EndPullRequest, StopTakesEffect
<1> QED
  BY <1>1, <1>2, <1>3, <1>4

(* A move to a good copy of the task, where the new label asks for its state. *)
LEMMA GoodMove ==
  ASSUME WorkerInv, MergedStays, NEW t \in Task, NEW label \in Labels,
         Good(t, prState, prSha), Fits(t, label),
         Record(t, label) \/ Continue(t, label)
  PROVE  WorkerInv'
<1>1. WorkerTypeOK'
  BY WorkerMoves DEF WorkerInv
<1>2. mem' = t /\ pc' = label /\ disk' = disk
  BY DEF Record, Continue
<1>3. Good(t, prState', prSha') /\ Good(disk, prState', prSha')
  BY GoodStable DEF WorkerInv, MergedStays
<1> QED
  BY <1>1, <1>2, <1>3 DEF WorkerInv

(* The process is thrown back to what is on disk, or does nothing.  *)
LEMMA GoodRest ==
  ASSUME WorkerInv, MergedStays,
         Throw \/ UNCHANGED workerVars \/ Save \/ Crash
  PROVE  WorkerInv'
<1>1. WorkerTypeOK'
  <2>1. /\ disk' \in Task /\ mem' \in Task /\ pc' \in Labels /\ dirty' \in BOOLEAN
    BY ZenonT(30) DEF WorkerInv, WorkerTypeOK, Throw, Save, Crash, workerVars, Labels
  <2>2. crashes' \in Nat
    BY DEF WorkerInv, WorkerTypeOK, Throw, Save, Crash, workerVars
  <2> QED
    BY <2>1, <2>2 DEF WorkerTypeOK
<1>2. mem' \in {mem, disk} /\ disk' \in {mem, disk}
  BY DEF Throw, Save, Crash, workerVars
<1>3. Fits(mem', pc')
  BY DEF WorkerInv, Fits, Throw, Save, Crash, workerVars
<1>4. Good(mem, prState', prSha') /\ Good(disk, prState', prSha')
  BY GoodStable DEF WorkerInv, MergedStays
<1> QED
  BY <1>1, <1>2, <1>3, <1>4 DEF WorkerInv

-----------------------------------------------------------------------------
(* Every step of runPlanningWorkflow keeps the invariant: whatever the planner
   and the verifier answer, the task is still before every pull request.  *)
LEMMA PlanningKeeps ==
  ASSUME IInv, PlanningStep, UNCHANGED <<repoVars, deliveryVars>>
  PROVE  IInv'
<1>1. /\ mem \in Task /\ Good(mem, prState, prSha) /\ Fits(mem, pc)
      /\ guard \in Nat /\ held \in BOOLEAN /\ planFile \in {"none", "stale", "newest"}
      /\ WorkerInv
  BY DEF IInv, WorkerInv, WorkerTypeOK, PlanningTypeOK
<1>2. RepositoryTypeOK' /\ DeliveryTypeOK' /\ MergedStays
  BY EffectTypes, MergedPrStays DEF IInv, DeliveryTypeOK, deliveryVars
<1>3. {"plan", "plan_agent", "plan_write", "loop"} \subseteq Labels
  BY DEF Labels
<1>4. ASSUME PlanEnter PROVE WorkerInv' /\ PlanningTypeOK'
  <2>1. PlanningTypeOK'
    BY <1>1, <1>4 DEF PlanEnter, PlanningTypeOK
  <2> DEFINE t == IF mem.state = "queued" THEN RunStarted(mem) ELSE mem
  <2>2. t \in Task /\ Good(t, prState, prSha) /\ Fits(t, "plan")
    BY <1>1, <1>4, PlanTypes, GoodBeforePr
    DEF PlanEnter, RunStarted, Enter, Fits, Task
  <2>3. Continue(t, "plan")
    BY <1>4 DEF PlanEnter
  <2> QED
    BY <1>1, <1>2, <1>3, <2>1, <2>2, <2>3, GoodMove
<1>5. ASSUME PlanPhaseStart PROVE WorkerInv' /\ PlanningTypeOK'
  <2>1. Fits(mem, "plan_agent") /\ Record(mem, "plan_agent")
    BY <1>1, <1>5 DEF PlanPhaseStart, At, Fits
  <2>2. PlanningTypeOK'
    BY <1>1, <1>5 DEF PlanPhaseStart, planVars, PlanningTypeOK
  <2> QED
    BY <1>1, <1>2, <1>3, <2>1, <2>2, GoodMove
<1>6. ASSUME PlannerWrites PROVE WorkerInv' /\ PlanningTypeOK'
  <2>1. PlanningTypeOK'
    BY <1>1, <1>6 DEF PlannerWrites, PlanningTypeOK
  <2> DEFINE t == IF mem.phase = "plan" THEN PlanCompleted(mem) ELSE PlanFixCompleted(mem)
  <2>2. mem.state = "planning"
    BY <1>1, <1>6 DEF PlannerWrites, At, Fits
  <2>3. t \in Task /\ Good(t, prState, prSha) /\ Fits(t, "plan")
    BY <1>1, <2>2, PlanTypes, GoodBeforePr
    DEF PlanCompleted, PlanFixCompleted, Enter, Fits, Task
  <2>4. Continue(t, "plan")
    BY <1>6 DEF PlannerWrites
  <2> QED
    BY <1>1, <1>2, <1>3, <2>1, <2>3, <2>4, GoodMove
<1>7. ASSUME VerifierAccepts PROVE WorkerInv' /\ PlanningTypeOK'
  <2>1. PlanningTypeOK'
    BY <1>1, <1>7 DEF VerifierAccepts, planVars, PlanningTypeOK
  <2>2. mem.state = "planning" /\ Continue(PlanVerifyAccepted(mem), "plan_write")
    BY <1>1, <1>7 DEF VerifierAccepts, At, Fits
  <2>3. /\ PlanVerifyAccepted(mem) \in Task
        /\ Good(PlanVerifyAccepted(mem), prState, prSha)
        /\ Fits(PlanVerifyAccepted(mem), "plan_write")
    BY <1>1, <2>2, PlanTypes, GoodBeforePr DEF Fits
  <2> QED
    BY <1>1, <1>2, <1>3, <2>1, <2>2, <2>3, GoodMove
<1>8. ASSUME VerifierRejects PROVE WorkerInv' /\ PlanningTypeOK'
  <2>1. PlanningTypeOK'
    BY <1>1, <1>8 DEF VerifierRejects, PlanningTypeOK
  <2> DEFINE t == PlanVerifyRejected(mem)
             label == IF t.state = "failed" THEN "plan_write" ELSE "plan"
  <2>2. mem.state = "planning" /\ Continue(t, label)
    BY <1>1, <1>8 DEF VerifierRejects, At, Fits
  <2>3. t \in Task /\ Good(t, prState, prSha)
    BY <1>1, <2>2, PlanTypes, GoodBeforePr
  <2>4. Fits(t, label)
    BY <1>1, <2>2 DEF PlanVerifyRejected, Enter, Fail, Fits, Task
  <2>5. label \in Labels
    BY <1>3
  <2> HIDE DEF t, label
  <2> QED
    BY <1>1, <1>2, <2>1, <2>2, <2>3, <2>4, <2>5, GoodMove
<1>9. ASSUME PlanAgentStops PROVE WorkerInv' /\ PlanningTypeOK'
  <2>1. PlanningTypeOK'
    BY <1>1, <1>9 DEF PlanAgentStops, planVars, PlanningTypeOK
  <2>2. mem.state = "planning"
    BY <1>1, <1>9 DEF PlanAgentStops, At, Fits
  <2>3. /\ Pause(mem, "rate_limited") \in Task /\ Fail(mem, "other") \in Task
        /\ Good(Pause(mem, "rate_limited"), prState, prSha)
        /\ Good(Fail(mem, "other"), prState, prSha)
    BY <1>1, <2>2, StopTypes, GoodPause, GoodFail DEF FailureCodes, Active
  <2>4. /\ Fits(Pause(mem, "rate_limited"), "plan_write")
        /\ Fits(Fail(mem, "other"), "plan_write")
    BY DEF Fits
  <2>5. \/ Continue(Pause(mem, "rate_limited"), "plan_write")
        \/ Continue(Fail(mem, "other"), "plan_write")
    BY <1>9 DEF PlanAgentStops
  <2> QED
    BY <1>1, <1>2, <1>3, <2>1, <2>3, <2>4, <2>5, GoodMove
<1>10. ASSUME PlanLoopExhausted PROVE WorkerInv' /\ PlanningTypeOK'
  <2>1. PlanningTypeOK'
    BY <1>1, <1>10 DEF PlanLoopExhausted, planVars, PlanningTypeOK
  <2>2. /\ Fail(mem, "plan_max") \in Task /\ Good(Fail(mem, "plan_max"), prState, prSha)
        /\ Fits(Fail(mem, "plan_max"), "plan_write")
    BY <1>1, StopTypes, GoodFail DEF FailureCodes, Fits
  <2>3. Continue(Fail(mem, "plan_max"), "plan_write")
    BY <1>10 DEF PlanLoopExhausted
  <2> QED
    BY <1>1, <1>2, <1>3, <2>1, <2>2, <2>3, GoodMove
<1>11. ASSUME PlanWrite PROVE WorkerInv' /\ PlanningTypeOK'
  <2>1. PlanningTypeOK'
    BY <1>1, <1>11 DEF PlanWrite, PlanningTypeOK
  <2>2. Fits(mem, "loop") /\ Record(mem, "loop")
    BY <1>11 DEF PlanWrite, Return, Fits
  <2> QED
    BY <1>1, <1>2, <1>3, <2>1, <2>2, GoodMove
<1> QED
  BY <1>2, <1>4, <1>5, <1>6, <1>7, <1>8, <1>9, <1>10, <1>11 DEF PlanningStep, IInv

-----------------------------------------------------------------------------
(* Recording a checkpoint of the implementation or of a fix gives a task.
   (persistTask after each git step)  *)
LEMMA MarkTypes ==
  ASSUME NEW t \in Task, NEW head \in Nat
  PROVE  /\ \A step \in ImplementSteps :
              /\ MarkImplement(t, step) \in Task
              /\ [MarkImplement(t, step) EXCEPT !.pr = TRUE] \in Task
              /\ [MarkImplement(t, step) EXCEPT !.head = head] \in Task
              /\ [[MarkImplement(t, step) EXCEPT !.pr = TRUE] EXCEPT !.head = head] \in Task
         /\ \A step \in FixSteps :
              /\ MarkFix(t, step) \in Task
              /\ [MarkFix(t, step) EXCEPT !.head = head] \in Task
<1>1. ASSUME NEW step \in ImplementSteps
      PROVE  /\ MarkImplement(t, step) \in Task
             /\ [MarkImplement(t, step) EXCEPT !.pr = TRUE] \in Task
             /\ [MarkImplement(t, step) EXCEPT !.head = head] \in Task
             /\ [[MarkImplement(t, step) EXCEPT !.pr = TRUE] EXCEPT !.head = head] \in Task
  <2>1. t.implement \cup {step} \in SUBSET ImplementSteps
    BY DEF Task
  <2> QED
    BY <2>1 DEF MarkImplement, Task
<1>2. ASSUME NEW step \in FixSteps
      PROVE  MarkFix(t, step) \in Task /\ [MarkFix(t, step) EXCEPT !.head = head] \in Task
  <2>1. t.fix \cup {step} \in SUBSET FixSteps
    BY DEF Task
  <2> QED
    BY <2>1 DEF MarkFix, Task
<1> QED
  BY <1>1, <1>2

(* Checkpoints and the head of the pull request mean nothing for a task that
   is neither paused nor in cleanup.  *)
LEMMA GoodMark ==
  ASSUME NEW t \in Task, NEW ps, NEW sha, NEW head \in Nat, NEW step,
         Good(t, ps, sha), t.state \in {"implementing", "fixing"}
  PROVE  /\ step # "pr_created" \/ t.pr => Good(MarkImplement(t, step), ps, sha)
         /\ step # "pr_created" \/ t.pr =>
              Good([MarkImplement(t, step) EXCEPT !.head = head], ps, sha)
         /\ Good([MarkImplement(t, step) EXCEPT !.pr = TRUE], ps, sha)
         /\ Good([[MarkImplement(t, step) EXCEPT !.pr = TRUE] EXCEPT !.head = head], ps, sha)
         /\ Good(MarkFix(t, step), ps, sha)
         /\ Good([MarkFix(t, step) EXCEPT !.head = head], ps, sha)
<1> USE DEF Good, KnowsPr, Confirmed, InCleanup, Task, BeforeMerge
<1>1. /\ step # "pr_created" \/ t.pr => Good(MarkImplement(t, step), ps, sha)
      /\ step # "pr_created" \/ t.pr =>
           Good([MarkImplement(t, step) EXCEPT !.head = head], ps, sha)
  BY DEF MarkImplement
<1>2. /\ Good([MarkImplement(t, step) EXCEPT !.pr = TRUE], ps, sha)
      /\ Good([[MarkImplement(t, step) EXCEPT !.pr = TRUE] EXCEPT !.head = head], ps, sha)
  BY DEF MarkImplement
<1>3. /\ Good(MarkFix(t, step), ps, sha)
      /\ Good([MarkFix(t, step) EXCEPT !.head = head], ps, sha)
  BY DEF MarkFix
<1> QED
  BY <1>1, <1>2, <1>3

(* The workflow stays in its state while it records checkpoints.  *)
LEMMA MarkState ==
  ASSUME NEW t \in Task, NEW step, NEW head
  PROVE  /\ MarkImplement(t, step).state = t.state
         /\ [MarkImplement(t, step) EXCEPT !.head = head].state = t.state
         /\ [MarkImplement(t, step) EXCEPT !.pr = TRUE].state = t.state
         /\ [[MarkImplement(t, step) EXCEPT !.pr = TRUE] EXCEPT !.head = head].state = t.state
         /\ MarkFix(t, step).state = t.state
         /\ [MarkFix(t, step) EXCEPT !.head = head].state = t.state
  BY DEF MarkImplement, MarkFix, Task

(* An agent, a rate limit or a question stops the workflow.  *)
LEMMA AgentStopKeeps ==
  ASSUME WorkerInv, MergedStays, mem.state \in Active, AgentStops
  PROVE  WorkerInv'
<1>1. mem \in Task /\ Good(mem, prState, prSha)
  BY DEF WorkerInv, WorkerTypeOK
<1>2. /\ Pause(mem, "rate_limited") \in Task /\ Fail(mem, "other") \in Task
      /\ Good(Pause(mem, "rate_limited"), prState, prSha)
      /\ Good(Fail(mem, "other"), prState, prSha)
  BY <1>1, StopTypes, GoodPause, GoodFail DEF FailureCodes
<1>3. /\ Fits(Pause(mem, "rate_limited"), "loop") /\ Fits(Fail(mem, "other"), "loop")
      /\ "loop" \in Labels
  BY DEF Fits, Labels
<1>4. \/ Record(Pause(mem, "rate_limited"), "loop")
      \/ Record(Fail(mem, "other"), "loop")
  BY DEF AgentStops, Return
<1> QED
  BY <1>1, <1>2, <1>3, <1>4, GoodMove

-----------------------------------------------------------------------------
(* Delivery.  *)
DeliveryKept == WorkerInv' /\ RepositoryTypeOK' /\ DeliveryTypeOK'

(* Every step of runImplementWorkflow keeps the invariant: the task reaches
   review with the number of the pull request it created.  *)
LEMMA ImplementKeeps ==
  ASSUME IInv, ImplementStep
  PROVE  DeliveryKept
<1>1. /\ mem \in Task /\ Good(mem, prState, prSha) /\ Fits(mem, pc)
      /\ WorkerInv /\ RepositoryTypeOK /\ prSha \in Nat /\ mem.head \in Nat
  BY DEF IInv, WorkerInv, WorkerTypeOK, RepositoryTypeOK, CountsOK, Task
<1>2. "implement" \in Labels /\ "loop" \in Labels
  BY DEF Labels
<1>3. ASSUME NEW step, DueImplement(step) PROVE mem.state = "implementing"
  BY <1>1, <1>3 DEF DueImplement, At, Fits
<1>4. UNCHANGED deliveryVars => DeliveryTypeOK'
  BY DEF IInv, DeliveryTypeOK, deliveryVars
<1>5. NoEffect => RepositoryTypeOK' /\ DeliveryTypeOK' /\ MergedStays
  BY <1>1, <1>4, EffectTypes, MergedPrStays DEF NoEffect
<1>6. Fits(mem, "loop")
  BY DEF Fits
<1>7. {"agent_done", "commit_done", "push_done", "pr_created", "head_sha_persisted"}
        \subseteq ImplementSteps
  BY DEF ImplementSteps
<1>10. ASSUME ImplementEnter PROVE DeliveryKept
  <2>1. CASE Throw /\ NoEffect
    BY <1>1, <1>5, <2>1, GoodRest DEF DeliveryKept
  <2>2. CASE /\ Repo(EnsureWorktree)
             /\ IF mem.state = "planned"
                THEN Record(ImplementStarted(mem), "implement")
                ELSE Continue(mem, "implement")
    <3>1. RepositoryTypeOK' /\ DeliveryTypeOK' /\ MergedStays
      BY <1>1, <1>4, <2>2, EffectTypes, MergedPrStays DEF Repo
    <3>2. mem.state \in {"planned", "implementing"}
      BY <1>10 DEF ImplementEnter
    <3>3. /\ ImplementStarted(mem) \in Task
          /\ Good(ImplementStarted(mem), prState, prSha)
          /\ ImplementStarted(mem).state = "implementing"
      BY <1>1, <3>2, DeliveryTypes, GoodBeforePr DEF ImplementStarted, Enter, Task
    <3>4. Fits(ImplementStarted(mem), "implement")
      BY <3>3 DEF Fits
    <3>5. CASE mem.state = "planned"
      BY <1>1, <1>2, <2>2, <3>1, <3>3, <3>4, <3>5, GoodMove DEF DeliveryKept
    <3>6. CASE mem.state = "implementing"
      <4>1. Fits(mem, "implement")
        BY <3>6 DEF Fits
      <4> QED
        BY <1>1, <1>2, <2>2, <3>1, <3>6, <4>1, GoodMove DEF DeliveryKept
    <3> QED
      BY <3>2, <3>5, <3>6
  <2> QED
    BY <1>10, <2>1, <2>2 DEF ImplementEnter
<1>11. ASSUME ImplementAgentEdits PROVE DeliveryKept
  <2>1. RepositoryTypeOK' /\ DeliveryTypeOK' /\ MergedStays
    BY <1>1, <1>4, <1>11, EffectTypes, MergedPrStays DEF ImplementAgentEdits, Repo
  <2> QED
    BY <1>1, <1>11, <2>1, GoodRest DEF ImplementAgentEdits, DeliveryKept
<1>12. ASSUME ImplementAgentDone PROVE DeliveryKept
  <2>1. /\ MarkImplement(mem, "agent_done") \in Task
        /\ Good(MarkImplement(mem, "agent_done"), prState, prSha)
        /\ Fits(MarkImplement(mem, "agent_done"), "implement")
    BY <1>1, <1>3, <1>7, <1>12, MarkTypes, GoodMark, MarkState
    DEF ImplementAgentDone, Fits
  <2> QED
    BY <1>1, <1>2, <1>5, <1>12, <2>1, GoodMove DEF ImplementAgentDone, DeliveryKept
<1>13. ASSUME ImplementAgentStops PROVE DeliveryKept
  <2>1. mem.state \in Active
    BY <1>3, <1>13 DEF ImplementAgentStops, Active
  <2> QED
    BY <1>1, <1>5, <1>13, <2>1, AgentStopKeeps DEF ImplementAgentStops, DeliveryKept
<1>14. ASSUME ImplementCommit PROVE DeliveryKept
  <2>1. CASE Throw /\ NoEffect
    BY <1>1, <1>5, <2>1, GoodRest DEF DeliveryKept
  <2>2. CASE Record(MarkImplement(mem, "commit_done"), "implement") /\ Repo(CommitEdits)
    <3>1. RepositoryTypeOK' /\ DeliveryTypeOK' /\ MergedStays
      BY <1>1, <1>4, <2>2, EffectTypes, MergedPrStays DEF Repo
    <3>2. /\ MarkImplement(mem, "commit_done") \in Task
          /\ Good(MarkImplement(mem, "commit_done"), prState, prSha)
          /\ Fits(MarkImplement(mem, "commit_done"), "implement")
      BY <1>1, <1>3, <1>7, <1>14, MarkTypes, GoodMark, MarkState
      DEF ImplementCommit, Fits
    <3> QED
      BY <1>1, <1>2, <2>2, <3>1, <3>2, GoodMove DEF DeliveryKept
  <2> QED
    BY <1>14, <2>1, <2>2 DEF ImplementCommit
<1>15. ASSUME ImplementPush PROVE DeliveryKept
  <2>1. CASE Throw /\ NoEffect
    BY <1>1, <1>5, <2>1, GoodRest DEF DeliveryKept
  <2>2. CASE Record(MarkImplement(mem, "push_done"), "implement") /\ Repo(PushBranch)
    <3>1. RepositoryTypeOK' /\ DeliveryTypeOK' /\ MergedStays
      BY <1>1, <1>4, <2>2, EffectTypes, MergedPrStays DEF Repo
    <3>2. /\ MarkImplement(mem, "push_done") \in Task
          /\ Good(MarkImplement(mem, "push_done"), prState, prSha)
          /\ Fits(MarkImplement(mem, "push_done"), "implement")
      BY <1>1, <1>3, <1>7, <1>15, MarkTypes, GoodMark, MarkState
      DEF ImplementPush, Fits
    <3> QED
      BY <1>1, <1>2, <2>2, <3>1, <3>2, GoodMove DEF DeliveryKept
  <2> QED
    BY <1>15, <2>1, <2>2 DEF ImplementPush
<1>16. ASSUME ImplementPr PROVE DeliveryKept
  <2> DEFINE t == [MarkImplement(mem, "pr_created") EXCEPT !.pr = TRUE]
             u == [t EXCEPT !.head = prSha]
  <2>1. mem.state = "implementing"
    BY <1>3, <1>16 DEF ImplementPr
  <2>2. t \in Task /\ Good(t, prState, prSha) /\ t.state = "implementing"
    BY <1>1, <1>7, <2>1, MarkTypes, GoodMark, MarkState
  <2>3. u \in Task /\ Good(u, prState, prSha) /\ u.state = "implementing"
    <3>1. u \in Task
      BY <1>1, <1>7, MarkTypes
    <3>2. Good(u, prState, prSha)
      BY <1>1, <2>1, GoodMark
    <3>3. u.state = "implementing"
      BY <1>1, <2>1, MarkState
    <3> QED
      BY <3>1, <3>2, <3>3
  <2>4. Fits(t, "implement") /\ Fits(u, "implement")
    BY <2>2, <2>3 DEF Fits
  <2>5. CASE prState = "NONE" /\ Record(t, "implement") /\ Repo(CreateDraft)
    <3>1. RepositoryTypeOK' /\ DeliveryTypeOK' /\ MergedStays
      BY <1>1, <1>4, <2>5, EffectTypes, MergedPrStays DEF Repo
    <3> QED
      BY <1>1, <1>2, <2>2, <2>4, <2>5, <3>1, GoodMove DEF DeliveryKept
  <2>6. CASE Record(u, "implement") /\ NoEffect
    BY <1>1, <1>2, <1>5, <2>3, <2>4, <2>6, GoodMove DEF DeliveryKept
  <2>7. CASE Return(Pause(mem, "pre_pr_active_orphan")) /\ NoEffect
    <3>1. /\ Pause(mem, "pre_pr_active_orphan") \in Task
          /\ Good(Pause(mem, "pre_pr_active_orphan"), prState, prSha)
          /\ Fits(Pause(mem, "pre_pr_active_orphan"), "loop")
      BY <1>1, <2>1, StopTypes, GoodPause DEF FailureCodes, Active, Fits
    <3> QED
      BY <1>1, <1>2, <1>5, <2>7, <3>1, GoodMove DEF Return, DeliveryKept
  <2> QED
    BY <1>16, <2>5, <2>6, <2>7 DEF ImplementPr
<1>17. ASSUME ImplementHead PROVE DeliveryKept
  <2> DEFINE t == [MarkImplement(mem, "head_sha_persisted") EXCEPT !.head = prSha]
  <2>1. mem.state = "implementing"
    BY <1>3, <1>17 DEF ImplementHead
  <2>2. t \in Task /\ Good(t, prState, prSha) /\ t.state = "implementing"
    <3>1. t \in Task
      BY <1>1, <1>7, MarkTypes
    <3>2. Good(t, prState, prSha)
      BY <1>1, <2>1, GoodMark
    <3>3. t.state = "implementing"
      BY <1>1, <2>1, MarkState
    <3> QED
      BY <3>1, <3>2, <3>3
  <2>3. Fits(t, "implement") /\ Record(t, "implement") /\ NoEffect
    BY <1>17, <2>2 DEF Fits, ImplementHead
  <2> QED
    BY <1>1, <1>2, <1>5, <2>2, <2>3, GoodMove DEF DeliveryKept
<1>18. ASSUME ImplementReady PROVE DeliveryKept
  <2>1. CASE Throw /\ NoEffect
    BY <1>1, <1>5, <2>1, GoodRest DEF DeliveryKept
  <2>2. CASE Record(PrReady(mem, mem.head), "loop") /\ Repo(MarkReady)
    <3>1. RepositoryTypeOK' /\ DeliveryTypeOK' /\ MergedStays
      BY <1>1, <1>4, <2>2, EffectTypes, MergedPrStays DEF Repo
    <3>2. FirstMissing("after_sha", ImplementOrder, mem.implement)
      BY <1>18 DEF ImplementReady, DueImplement
    <3>3. "pr_created" \in mem.implement
      BY <3>2 DEF FirstMissing, ImplementOrder
    <3>4. mem.pr
      BY <1>1, <3>3 DEF Good, KnowsPr
    <3>5. /\ PrReady(mem, mem.head) \in Task
          /\ Good(PrReady(mem, mem.head), prState, prSha)
          /\ Fits(PrReady(mem, mem.head), "loop")
      BY <1>1, <3>4, DeliveryTypes, GoodBeforeMerge DEF Fits
    <3> QED
      BY <1>1, <1>2, <2>2, <3>1, <3>5, GoodMove DEF DeliveryKept
  <2> QED
    BY <1>18, <2>1, <2>2 DEF ImplementReady
<1> QED
  BY <1>10, <1>11, <1>12, <1>13, <1>14, <1>15, <1>16, <1>17, <1>18 DEF ImplementStep

(* Every step of runReviewSuperviseWorkflow keeps the invariant: review and
   supervision hand on the pull request they were given.  *)
LEMMA ReviewKeeps ==
  ASSUME IInv, ReviewStep
  PROVE  DeliveryKept
<1>1. /\ mem \in Task /\ Good(mem, prState, prSha) /\ Fits(mem, pc)
      /\ WorkerInv /\ RepositoryTypeOK /\ local \in Nat /\ mem.head \in Nat
  BY DEF IInv, WorkerInv, WorkerTypeOK, RepositoryTypeOK, CountsOK, Task
<1>2. {"review", "supervise", "loop"} \subseteq Labels
  BY DEF Labels
<1>3. NoEffect => RepositoryTypeOK' /\ DeliveryTypeOK' /\ MergedStays
  BY <1>1, EffectTypes, MergedPrStays DEF NoEffect, IInv, DeliveryTypeOK, deliveryVars
<1>4. reviewed' = local /\ UNCHANGED repoVars
        => RepositoryTypeOK' /\ DeliveryTypeOK' /\ MergedStays
  BY <1>1, EffectTypes, MergedPrStays DEF DeliveryTypeOK
<1>5. At("review") \/ At("supervise") =>
        mem.state = "reviewing" /\ mem.state \in Active /\ (mem.retrying \/ mem.pr)
  BY <1>1 DEF At, Fits, Active, Good, KnowsPr, BeforeMerge, Task
<1>6. ASSUME NEW t PROVE Fits(t, "loop")
  BY DEF Fits
<1>7. ASSUME ReviewEnter PROVE DeliveryKept
  <2>1. /\ Fits(mem, "review")
        /\ Fail(mem, "other") \in Task /\ Good(Fail(mem, "other"), prState, prSha)
    BY <1>1, <1>7, StopTypes, GoodFail DEF ReviewEnter, Fits, FailureCodes
  <2>2. Continue(mem, "review") \/ Record(Fail(mem, "other"), "loop")
    BY <1>7 DEF ReviewEnter, Return
  <2>3. NoEffect
    BY <1>7 DEF ReviewEnter
  <2> QED
    BY <1>1, <1>2, <1>3, <1>6, <2>1, <2>2, <2>3, GoodMove DEF DeliveryKept
<1>8. ASSUME ReviewClean PROVE DeliveryKept
  <2> DEFINE t == ReviewCompleted(mem)
  <2>1. mem.retrying \/ mem.pr
    BY <1>5, <1>8 DEF ReviewClean
  <2>2. t \in Task /\ Good(t, prState, prSha) /\ (t.retrying \/ t.pr)
    BY <1>1, <2>1, DeliveryTypes
    DEF ReviewCompleted, Enter, Good, KnowsPr, Confirmed, InCleanup, Task
  <2> HIDE DEF t
  <2>3. SuperviseClean(t) \in Task /\ Good(SuperviseClean(t), prState, prSha)
    BY <1>1, <2>2, DeliveryTypes, GoodBeforeMerge
  <2>4. /\ Record(SuperviseClean(t), "loop")
        /\ reviewed' = local /\ UNCHANGED repoVars
    BY <1>8 DEF ReviewClean, Return, t
  <2> QED
    BY <1>1, <1>2, <1>4, <1>6, <2>3, <2>4, GoodMove DEF DeliveryKept
<1>9. ASSUME ReviewFinds PROVE DeliveryKept
  <2> DEFINE t == ReviewCompleted(mem)
  <2>1. mem.state = "reviewing"
    BY <1>5, <1>9 DEF ReviewFinds
  <2>2. t \in Task /\ Good(t, prState, prSha) /\ Fits(t, "supervise")
    BY <1>1, <2>1, DeliveryTypes
    DEF ReviewCompleted, Enter, Good, KnowsPr, Confirmed, InCleanup, Task, Fits
  <2>3. Record(t, "supervise") /\ NoEffect
    BY <1>9 DEF ReviewFinds
  <2> QED
    BY <1>1, <1>2, <1>3, <2>2, <2>3, GoodMove DEF DeliveryKept
<1>10. ASSUME SuperviseAccepts PROVE DeliveryKept
  <2>1. /\ SuperviseAccept(mem) \in Task
        /\ Good(SuperviseAccept(mem), prState, prSha)
    BY <1>1, <1>5, <1>10, DeliveryTypes, GoodBeforeMerge DEF SuperviseAccepts
  <2>2. Record(SuperviseAccept(mem), "loop") /\ NoEffect
    BY <1>10 DEF SuperviseAccepts, Return
  <2> QED
    BY <1>1, <1>2, <1>3, <1>6, <2>1, <2>2, GoodMove DEF DeliveryKept
<1>11. ASSUME SuperviseRejectsAll PROVE DeliveryKept
  <2>1. /\ SuperviseClean(mem) \in Task
        /\ Good(SuperviseClean(mem), prState, prSha)
    BY <1>1, <1>5, <1>11, DeliveryTypes, GoodBeforeMerge DEF SuperviseRejectsAll
  <2>2. /\ Record(SuperviseClean(mem), "loop")
        /\ reviewed' = local /\ UNCHANGED repoVars
    BY <1>11 DEF SuperviseRejectsAll, Return
  <2> QED
    BY <1>1, <1>2, <1>4, <1>6, <2>1, <2>2, GoodMove DEF DeliveryKept
<1>12. ASSUME ReviewerStops PROVE DeliveryKept
  BY <1>1, <1>3, <1>5, <1>12, AgentStopKeeps DEF ReviewerStops, DeliveryKept
<1> QED
  BY <1>7, <1>8, <1>9, <1>10, <1>11, <1>12 DEF ReviewStep

(* Every step of runFixWorkflow keeps the invariant: a fix changes the head,
   never the pull request.  *)
LEMMA FixKeeps ==
  ASSUME IInv, FixStep
  PROVE  DeliveryKept
<1>1. /\ mem \in Task /\ Good(mem, prState, prSha) /\ Fits(mem, pc)
      /\ WorkerInv /\ RepositoryTypeOK /\ prSha \in Nat /\ mem.head \in Nat
  BY DEF IInv, WorkerInv, WorkerTypeOK, RepositoryTypeOK, CountsOK, Task
<1>2. {"fix", "loop"} \subseteq Labels
  BY DEF Labels
<1>3. ASSUME NEW step, DueFix(step)
      PROVE  mem.state = "fixing" /\ mem.state \in Active /\ (mem.retrying \/ mem.pr)
  BY <1>1, <1>3 DEF DueFix, At, Fits, Active, Good, KnowsPr, BeforeMerge, Task
<1>4. UNCHANGED deliveryVars => DeliveryTypeOK'
  BY DEF IInv, DeliveryTypeOK, deliveryVars
<1>5. NoEffect => RepositoryTypeOK' /\ DeliveryTypeOK' /\ MergedStays
  BY <1>1, <1>4, EffectTypes, MergedPrStays DEF NoEffect
(* A checkpoint that is recorded with a harmless effect.  *)
<1>6. ASSUME NEW step \in FixSteps, DueFix(step), Record(MarkFix(mem, step), "fix"),
             RepositoryTypeOK', DeliveryTypeOK', MergedStays
      PROVE  DeliveryKept
  <2>1. mem.state = "fixing"
    BY <1>3, <1>6
  <2>2. MarkFix(mem, step) \in Task
    BY <1>1, MarkTypes
  <2>3. Good(MarkFix(mem, step), prState, prSha)
    BY <1>1, <2>1, GoodMark
  <2>4. Fits(MarkFix(mem, step), "fix")
    BY <1>1, <2>1, MarkState DEF Fits
  <2> QED
    BY <1>1, <1>2, <1>6, <2>2, <2>3, <2>4, GoodMove DEF DeliveryKept
<1>7. {"before_sha", "rebase_done", "agent_done", "commit_done", "push_done",
       "head_sha_persisted", "after_sha"} \subseteq FixSteps
  BY DEF FixSteps, ImplementSteps
<1>10. ASSUME FixEnter PROVE DeliveryKept
  <2>1. RepositoryTypeOK' /\ DeliveryTypeOK' /\ MergedStays
    BY <1>1, <1>4, <1>10, EffectTypes, MergedPrStays DEF FixEnter, Repo
  <2>2. Continue(mem, "fix") /\ Fits(mem, "fix")
    BY <1>10 DEF FixEnter, Fits
  <2> QED
    BY <1>1, <1>2, <2>1, <2>2, GoodMove DEF DeliveryKept
<1>11. ASSUME FixBefore PROVE DeliveryKept
  BY <1>5, <1>6, <1>7, <1>11 DEF FixBefore
<1>12. ASSUME FixRebase PROVE DeliveryKept
  <2>1. CASE Record(MarkFix(mem, "rebase_done"), "fix") /\ Repo(RebaseBranch)
    <3>1. RepositoryTypeOK' /\ DeliveryTypeOK' /\ MergedStays
      BY <1>1, <1>4, <2>1, EffectTypes, MergedPrStays DEF Repo
    <3> QED
      BY <1>6, <1>7, <1>12, <2>1, <3>1 DEF FixRebase
  <2>2. CASE Return(Pause(mem, "rebase_conflict")) /\ NoEffect
    <3>1. /\ Pause(mem, "rebase_conflict") \in Task
          /\ Good(Pause(mem, "rebase_conflict"), prState, prSha)
          /\ Fits(Pause(mem, "rebase_conflict"), "loop")
      BY <1>1, <1>3, <1>12, StopTypes, GoodPause DEF FixRebase, FailureCodes, Fits
    <3> QED
      BY <1>1, <1>2, <1>5, <2>2, <3>1, GoodMove DEF Return, DeliveryKept
  <2> QED
    BY <1>12, <2>1, <2>2 DEF FixRebase
<1>13. ASSUME FixAgentEdits PROVE DeliveryKept
  <2>1. RepositoryTypeOK' /\ DeliveryTypeOK' /\ MergedStays
    BY <1>1, <1>4, <1>13, EffectTypes, MergedPrStays DEF FixAgentEdits, Repo
  <2> QED
    BY <1>1, <1>13, <2>1, GoodRest DEF FixAgentEdits, DeliveryKept
<1>14. ASSUME FixAgentDone PROVE DeliveryKept
  BY <1>5, <1>6, <1>7, <1>14 DEF FixAgentDone
<1>15. ASSUME FixAgentStops PROVE DeliveryKept
  BY <1>1, <1>3, <1>5, <1>15, AgentStopKeeps DEF FixAgentStops, DeliveryKept
<1>16. ASSUME FixCommit PROVE DeliveryKept
  <2>1. CASE Throw /\ NoEffect
    BY <1>1, <1>5, <2>1, GoodRest DEF DeliveryKept
  <2>2. CASE Record(MarkFix(mem, "commit_done"), "fix") /\ Repo(CommitEdits)
    <3>1. RepositoryTypeOK' /\ DeliveryTypeOK' /\ MergedStays
      BY <1>1, <1>4, <2>2, EffectTypes, MergedPrStays DEF Repo
    <3> QED
      BY <1>6, <1>7, <1>16, <2>2, <3>1 DEF FixCommit
  <2> QED
    BY <1>16, <2>1, <2>2 DEF FixCommit
<1>17. ASSUME FixPush PROVE DeliveryKept
  <2>1. CASE Throw /\ NoEffect
    BY <1>1, <1>5, <2>1, GoodRest DEF DeliveryKept
  <2>2. CASE Record(MarkFix(mem, "push_done"), "fix") /\ Repo(PushBranch)
    <3>1. RepositoryTypeOK' /\ DeliveryTypeOK' /\ MergedStays
      BY <1>1, <1>4, <2>2, EffectTypes, MergedPrStays DEF Repo
    <3> QED
      BY <1>6, <1>7, <1>17, <2>2, <3>1 DEF FixPush
  <2> QED
    BY <1>17, <2>1, <2>2 DEF FixPush
<1>18. ASSUME FixHead PROVE DeliveryKept
  <2> DEFINE t == [MarkFix(mem, "head_sha_persisted") EXCEPT !.head = prSha]
  <2>1. mem.state = "fixing"
    BY <1>3, <1>18 DEF FixHead
  <2>2. t \in Task
    BY <1>1, <1>7, MarkTypes
  <2>3. Good(t, prState, prSha)
    BY <1>1, <2>1, GoodMark
  <2>4. t.state = "fixing"
    BY <1>1, <2>1, MarkState
  <2>5. Fits(t, "fix") /\ Record(t, "fix") /\ NoEffect
    BY <1>18, <2>4 DEF Fits, FixHead
  <2> QED
    BY <1>1, <1>2, <1>5, <2>2, <2>3, <2>5, GoodMove DEF DeliveryKept
<1>19. ASSUME FixDone PROVE DeliveryKept
  <2> DEFINE t == MarkFix(mem, "after_sha")
  <2>1. mem.state = "fixing" /\ (mem.retrying \/ mem.pr)
    BY <1>3, <1>19 DEF FixDone
  <2>2. t \in Task
    BY <1>1, <1>7, MarkTypes
  <2>3. Good(t, prState, prSha)
    BY <1>1, <2>1, GoodMark
  <2>4. t.retrying \/ t.pr
    BY <1>1, <2>1 DEF MarkFix, Task
  <2> HIDE DEF t
  <2>5. /\ FixPushed(t) \in Task /\ Good(FixPushed(t), prState, prSha)
        /\ Fits(FixPushed(t), "loop")
    BY <1>1, <2>2, <2>3, <2>4, DeliveryTypes, GoodBeforeMerge DEF Fits
  <2>6. Record(FixPushed(t), "loop") /\ NoEffect
    BY <1>19 DEF FixDone, t
  <2> QED
    BY <1>1, <1>2, <1>5, <2>5, <2>6, GoodMove DEF DeliveryKept
<1> QED
  BY <1>10, <1>11, <1>12, <1>13, <1>14, <1>15, <1>16, <1>17, <1>18, <1>19 DEF FixStep

-----------------------------------------------------------------------------
(* Merging and cleaning up.  *)
MergingKept == WorkerInv' /\ RepositoryTypeOK'

(* Every step of runCiWaitWorkflow keeps the invariant: the task that waits
   for its merge knows the pull request it waits for.  *)
LEMMA CiKeeps ==
  ASSUME IInv, CiStep
  PROVE  MergingKept
<1>1. /\ mem \in Task /\ Good(mem, prState, prSha) /\ Fits(mem, pc)
      /\ WorkerInv /\ RepositoryTypeOK
  BY DEF IInv, WorkerInv, WorkerTypeOK
<1>2. {"ci", "reserve", "reserved", "barrier", "loop"} \subseteq Labels
  BY DEF Labels
<1>3. /\ Quiet => RepositoryTypeOK' /\ MergedStays
      /\ Disarm => RepositoryTypeOK' /\ MergedStays
  BY <1>1, EffectTypes, MergedPrStays DEF Quiet
<1>4. At("ci") \/ At("reserve") \/ At("reserved") =>
        mem.state = "ci_waiting" /\ mem.state \in Active /\ (mem.retrying \/ mem.pr)
  BY <1>1 DEF At, Fits, Active, Good, KnowsPr, BeforeMerge, Task
<1>5. ASSUME NEW t PROVE Fits(t, "loop") /\ Fits(t, "barrier")
  BY DEF Fits
<1>6. ASSUME NEW code \in FailureCodes, At("ci") \/ At("reserve") \/ At("reserved")
      PROVE  Pause(mem, code) \in Task /\ Good(Pause(mem, code), prState, prSha)
  BY <1>1, <1>4, <1>6, StopTypes, GoodPause
<1>7. {"ci_timeout", "merge_sha_mismatch", "branch_protection", "manual_merge_required"}
        \subseteq FailureCodes
  BY DEF FailureCodes
<1>8. mem.state = "ci_waiting" => Fits(mem, "ci") /\ Fits(mem, "reserve") /\ Fits(mem, "reserved")
  BY DEF Fits
<1>10. ASSUME CiEnter PROVE MergingKept
  BY <1>1, <1>2, <1>3, <1>8, <1>10, GoodMove DEF CiEnter, MergingKept
<1>11. ASSUME CiTimesOut PROVE MergingKept
  <2>1. CiTimeout(mem) \in Task /\ Good(CiTimeout(mem), prState, prSha)
    <3>1. Fail(mem, "ci_timeout") \in Task /\ Good(Fail(mem, "ci_timeout"), prState, prSha)
      BY <1>1, <1>7, StopTypes, GoodFail
    <3> QED
      BY <1>6, <1>7, <1>11, <3>1 DEF CiTimesOut, CiTimeout
  <2>2. Record(CiTimeout(mem), "loop") /\ (Disarm \/ Quiet)
    BY <1>11 DEF CiTimesOut, Return
  <2> QED
    BY <1>1, <1>2, <1>3, <1>5, <2>1, <2>2, GoodMove DEF MergingKept
<1>12. ASSUME CiChecksFail PROVE MergingKept
  <2>1. CiFailed(mem) \in Task /\ Good(CiFailed(mem), prState, prSha)
    BY <1>1, <1>4, <1>12, DeliveryTypes, GoodBeforeMerge DEF CiChecksFail, Task
  <2>2. Record(CiFailed(mem), "loop") /\ Quiet
    BY <1>12 DEF CiChecksFail, Return
  <2> QED
    BY <1>1, <1>2, <1>3, <1>5, <2>1, <2>2, GoodMove DEF MergingKept
<1>13. ASSUME CiHeadMismatch PROVE MergingKept
  BY <1>1, <1>2, <1>3, <1>5, <1>6, <1>7, <1>13, GoodMove
  DEF CiHeadMismatch, Return, MergingKept
<1>14. ASSUME CiBlocked PROVE MergingKept
  BY <1>1, <1>2, <1>3, <1>5, <1>6, <1>7, <1>14, GoodMove
  DEF CiBlocked, Return, MergingKept
<1>15. ASSUME CiPassed PROVE MergingKept
  <2>1. \/ Continue(mem, "reserve")
        \/ Record(Pause(mem, "manual_merge_required"), "loop")
    BY <1>15 DEF CiPassed, Return
  <2>2. Quiet /\ At("ci")
    BY <1>15 DEF CiPassed
  <2>3. Fits(mem, "reserve")
    BY <1>4, <1>8, <2>2
  <2> QED
    BY <1>1, <1>2, <1>3, <1>5, <1>6, <1>7, <2>1, <2>2, <2>3, GoodMove DEF MergingKept
<1>16. ASSUME CiReserve PROVE MergingKept
  <2>1. Fits(mem, "reserved")
    BY <1>4, <1>8, <1>16 DEF CiReserve
  <2>2. CASE armed' = "on" /\ UNCHANGED <<gitVars, prState, prSha, prs>> /\ Continue(mem, "reserved")
    <3>1. RepositoryTypeOK' /\ MergedStays
      BY <1>1, <2>2 DEF RepositoryTypeOK, FlagsOK, CountsOK, gitVars, MergedStays
    <3> QED
      BY <1>1, <1>2, <2>1, <2>2, <3>1, GoodMove DEF MergingKept
  <2>3. CASE Continue(mem, "reserved") /\ Quiet
    BY <1>1, <1>2, <1>3, <2>1, <2>3, GoodMove DEF MergingKept
  <2>4. CASE Throw /\ Quiet
    BY <1>1, <1>3, <2>4, GoodRest DEF MergingKept
  <2> QED
    BY <1>16, <2>2, <2>3, <2>4 DEF CiReserve
<1>17. ASSUME CiRecheck PROVE MergingKept
  <2>1. At("reserved")
    BY <1>17 DEF CiRecheck
  <2>2. CASE Record(AutoMergeReserved(mem), "loop") /\ Quiet
    <3>1. AutoMergeReserved(mem) \in Task /\ Good(AutoMergeReserved(mem), prState, prSha)
      BY <1>1, <1>4, <2>1, MergeTypes, GoodBeforeMerge DEF Task
    <3> QED
      BY <1>1, <1>2, <1>3, <1>5, <2>2, <3>1, GoodMove DEF MergingKept
  <2>3. CASE Continue(Pause(mem, "merge_sha_mismatch"), "barrier") /\ Disarm
    BY <1>1, <1>2, <1>3, <1>5, <1>6, <1>7, <2>1, <2>3, GoodMove DEF MergingKept
  <2> QED
    BY <1>17, <2>2, <2>3 DEF CiRecheck, Return
<1> QED
  BY <1>10, <1>11, <1>12, <1>13, <1>14, <1>15, <1>16, <1>17 DEF CiStep

(* Every step of runMergeWorkflow keeps the invariant: cleaning starts with
   the pull request merged at the recorded head, and in no other way.  *)
LEMMA MergeKeeps ==
  ASSUME IInv, MergeStep
  PROVE  MergingKept
<1>1. /\ mem \in Task /\ Good(mem, prState, prSha) /\ Fits(mem, pc)
      /\ WorkerInv /\ RepositoryTypeOK /\ prSha \in Nat
  BY DEF IInv, WorkerInv, WorkerTypeOK, RepositoryTypeOK, CountsOK
<1>2. {"merge", "barrier", "loop"} \subseteq Labels
  BY DEF Labels
<1>3. /\ Quiet => RepositoryTypeOK' /\ MergedStays
      /\ Disarm => RepositoryTypeOK' /\ MergedStays
  BY <1>1, EffectTypes, MergedPrStays DEF Quiet
<1>4. At("merge") => mem.state = "merging" /\ mem.state \in Active
  BY <1>1 DEF At, Fits, Active
<1>5. ASSUME NEW t PROVE Fits(t, "loop") /\ Fits(t, "barrier")
  BY DEF Fits
<1>6. ASSUME NEW t \in Task, Good(t, prState, prSha), StopMerge(t)
      PROVE  MergingKept
  BY <1>1, <1>2, <1>3, <1>5, <1>6, GoodMove DEF StopMerge, MergingKept
<1>7. ASSUME NEW code \in FailureCodes, At("merge"), StopMerge(Pause(mem, code))
      PROVE  MergingKept
  <2>1. Pause(mem, code) \in Task /\ Good(Pause(mem, code), prState, prSha)
    BY <1>1, <1>4, <1>7, StopTypes, GoodPause
  <2> QED
    BY <1>6, <1>7, <2>1
<1>8. {"merge_timeout", "branch_protection", "other"} \subseteq FailureCodes
  BY DEF FailureCodes
<1>10. ASSUME MergeEnter PROVE MergingKept
  <2>1. Fits(mem, "merge")
    BY <1>10 DEF MergeEnter, Fits
  <2> QED
    BY <1>1, <1>2, <1>3, <1>10, <2>1, GoodMove DEF MergeEnter, MergingKept
<1>11. ASSUME MergeTimesOut PROVE MergingKept
  BY <1>7, <1>8, <1>11 DEF MergeTimesOut
<1>12. ASSUME MergeSeesMerged PROVE MergingKept
  <2>1. /\ PrMerged(mem, prSha) \in Task
        /\ Good(PrMerged(mem, prSha), prState, prSha)
    BY <1>1, <1>4, <1>12, MergeTypes, GoodMerged DEF MergeSeesMerged
  <2>2. \/ Record(PrMerged(mem, prSha), "loop") /\ Quiet
        \/ StopMerge(PrMerged(mem, prSha))
    BY <1>12 DEF MergeSeesMerged, Return
  <2> QED
    BY <1>1, <1>2, <1>3, <1>5, <1>6, <2>1, <2>2, GoodMove DEF MergingKept
<1>13. ASSUME MergeSeesClosed PROVE MergingKept
  BY <1>7, <1>8, <1>13 DEF MergeSeesClosed
<1>14. ASSUME MergeBlocked PROVE MergingKept
  BY <1>7, <1>8, <1>14 DEF MergeBlocked
<1>15. ASSUME Barrier PROVE MergingKept
  BY <1>1, <1>2, <1>3, <1>5, <1>15, GoodMove DEF Barrier, Return, MergingKept
<1> QED
  BY <1>10, <1>11, <1>12, <1>13, <1>14, <1>15 DEF MergeStep

(* The checkpoints of the cleanup ask nothing new of the task.  *)
LEMMA CleaningMarks ==
  ASSUME NEW t \in Task, NEW ps, NEW sha, NEW step \in CleaningSteps, NEW n \in Nat,
         Good(t, ps, sha), t.state = "cleaning"
  PROVE  /\ /\ MarkCleaning(t, step) \in Task
            /\ Good(MarkCleaning(t, step), ps, sha)
            /\ MarkCleaning(t, step).state = "cleaning"
         /\ /\ [t EXCEPT !.removeTries = n] \in Task
            /\ Good([t EXCEPT !.removeTries = n], ps, sha)
            /\ [t EXCEPT !.removeTries = n].state = "cleaning"
<1>1. t.cleaning \cup {step} \in SUBSET CleaningSteps
  BY DEF Task
<1>2. MarkCleaning(t, step) \in Task /\ MarkCleaning(t, step).state = "cleaning"
  BY <1>1 DEF MarkCleaning, Task
<1>3. [t EXCEPT !.removeTries = n] \in Task /\ [t EXCEPT !.removeTries = n].state = "cleaning"
  BY DEF Task
<1>4. Good(MarkCleaning(t, step), ps, sha)
  BY DEF MarkCleaning, Good, KnowsPr, Confirmed, InCleanup, Task, BeforeMerge
<1>5. Good([t EXCEPT !.removeTries = n], ps, sha)
  BY DEF Good, KnowsPr, Confirmed, InCleanup, Task, BeforeMerge
<1> QED
  BY <1>2, <1>3, <1>4, <1>5

(* The cleanup leaves its state only for merged, or paused to come back.
   (runCleaningWorkflow)  *)
LEMMA CleanKeeps ==
  ASSUME IInv, CleanStep
  PROVE  MergingKept
<1>1. /\ mem \in Task /\ Good(mem, prState, prSha) /\ Fits(mem, pc)
      /\ WorkerInv /\ RepositoryTypeOK /\ mem.removeTries + 1 \in Nat
  BY DEF IInv, WorkerInv, WorkerTypeOK, Task
<1>2. /\ {"clean", "force_remove", "loop"} \subseteq Labels
      /\ {"grace_period", "branch_deleted", "worktree_removed"} \subseteq CleaningSteps
      /\ {"branch_delete_failed", "worktree_remove_failed"} \subseteq FailureCodes
  BY DEF Labels, CleaningSteps, FailureCodes
<1>3. /\ Quiet => RepositoryTypeOK' /\ MergedStays
      /\ DeleteRemote => RepositoryTypeOK' /\ MergedStays
      /\ RemoveWorktree => RepositoryTypeOK' /\ MergedStays
  BY <1>1, EffectTypes, MergedPrStays DEF Quiet
<1>4. At("clean") \/ At("force_remove") => mem.state = "cleaning" /\ mem.state \in Active
  BY <1>1 DEF At, Fits, Active
(* A write of a task that is still cleaning, with a harmless effect.  *)
<1>5. ASSUME NEW t \in Task, Good(t, prState, prSha), t.state = "cleaning",
             NEW label \in {"clean", "force_remove"}, Record(t, label),
             Quiet \/ DeleteRemote \/ RemoveWorktree
      PROVE  MergingKept
  <2>1. Fits(t, label) /\ label \in Labels
    BY <1>2, <1>5 DEF Fits
  <2> QED
    BY <1>1, <1>3, <1>5, <2>1, GoodMove DEF MergingKept
<1>6. ASSUME NEW code \in FailureCodes, At("clean") \/ At("force_remove"),
             Return(Pause(mem, code)), Quiet
      PROVE  MergingKept
  <2>1. /\ Pause(mem, code) \in Task /\ Good(Pause(mem, code), prState, prSha)
        /\ Fits(Pause(mem, code), "loop")
    BY <1>1, <1>4, <1>6, StopTypes, GoodPause DEF Fits
  <2> QED
    BY <1>1, <1>2, <1>3, <1>6, <2>1, GoodMove DEF Return, MergingKept
<1>7. ASSUME At("clean") \/ At("force_remove")
      PROVE  /\ WorktreeRemoved(mem) \in Task
             /\ Good(WorktreeRemoved(mem), prState, prSha)
             /\ WorktreeRemoved(mem).state = "cleaning"
  <2> DEFINE t == MarkCleaning(mem, "worktree_removed")
  <2>1. t \in Task /\ Good(t, prState, prSha) /\ t.state = "cleaning"
    BY <1>1, <1>2, <1>4, <1>7, CleaningMarks
  <2> HIDE DEF t
  <2>2. /\ [t EXCEPT !.removeTries = 0] \in Task
        /\ Good([t EXCEPT !.removeTries = 0], prState, prSha)
        /\ [t EXCEPT !.removeTries = 0].state = "cleaning"
    BY <1>2, <2>1, CleaningMarks
  <2> QED
    BY <2>2 DEF WorktreeRemoved, t
<1>10. ASSUME CleanEnter PROVE MergingKept
  <2>1. Fits(mem, "clean") /\ Continue(mem, "clean") /\ Quiet
    BY <1>10 DEF CleanEnter, Fits
  <2> QED
    BY <1>1, <1>2, <1>3, <2>1, GoodMove DEF MergingKept
<1>11. ASSUME CleanGrace PROVE MergingKept
  <2>1. mem.state = "cleaning" /\ Record(MarkCleaning(mem, "grace_period"), "clean") /\ Quiet
    BY <1>4, <1>11 DEF CleanGrace
  <2> QED
    BY <1>1, <1>2, <1>5, <2>1, CleaningMarks
<1>12. ASSUME CleanBranch PROVE MergingKept
  <2>1. mem.state = "cleaning" /\ At("clean")
    BY <1>4, <1>12 DEF CleanBranch
  <2>2. CASE Record(MarkCleaning(mem, "branch_deleted"), "clean") /\ DeleteRemote
    BY <1>1, <1>2, <1>5, <2>1, <2>2, CleaningMarks
  <2>3. CASE Return(Pause(mem, "branch_delete_failed")) /\ Quiet
    BY <1>2, <1>6, <2>1, <2>3
  <2> QED
    BY <1>12, <2>2, <2>3 DEF CleanBranch
<1>13. ASSUME CleanWorktree PROVE MergingKept
  <2>1. mem.state = "cleaning" /\ At("clean")
    BY <1>4, <1>13 DEF CleanWorktree
  <2>2. CASE Record(WorktreeRemoved(mem), "clean") /\ RemoveWorktree
    BY <1>5, <1>7, <2>1, <2>2
  <2> DEFINE tries == IF mem.removeTries < RemoveMax THEN mem.removeTries + 1 ELSE RemoveMax
             label == IF tries = RemoveMax THEN "force_remove" ELSE "clean"
  <2>3. CASE Record([mem EXCEPT !.removeTries = tries], label) /\ Quiet
    <3>1. tries \in Nat /\ label \in {"clean", "force_remove"}
      BY <1>1, MergingAssumption
    <3> DEFINE t == [mem EXCEPT !.removeTries = tries]
    <3>2. t \in Task /\ Good(t, prState, prSha) /\ t.state = "cleaning"
      <4> HIDE DEF tries
      <4> QED
        BY <1>1, <1>2, <2>1, <3>1, CleaningMarks
    <3>3. Record(t, label) /\ Quiet
      BY <2>3
    <3> HIDE DEF tries, label, t
    <3> QED
      BY <1>5, <3>1, <3>2, <3>3
  <2> QED
    BY <1>13, <2>2, <2>3 DEF CleanWorktree
<1>14. ASSUME CleanForce PROVE MergingKept
  <2>1. At("force_remove")
    BY <1>14 DEF CleanForce
  <2>2. CASE Record(WorktreeRemoved(mem), "clean") /\ (RemoveWorktree \/ Quiet)
    BY <1>5, <1>7, <2>1, <2>2
  <2>3. CASE Return(Pause(mem, "worktree_remove_failed")) /\ Quiet
    BY <1>2, <1>6, <2>1, <2>3
  <2> QED
    BY <1>14, <2>2, <2>3 DEF CleanForce
<1>15. ASSUME CleanDone PROVE MergingKept
  <2> DEFINE t == CleaningCompleted(mem)
  <2>1. mem.state = "cleaning" /\ Record(t, "loop") /\ Quiet
    BY <1>4, <1>15 DEF CleanDone
  <2>2. t \in Task
    BY <1>1, MergeTypes
  <2>3. Good(t, prState, prSha)
    BY <1>1, <2>1 DEF CleaningCompleted, Enter, Good, KnowsPr, Confirmed, InCleanup, Task, BeforeMerge
  <2>4. Fits(t, "loop")
    BY DEF Fits
  <2> QED
    BY <1>1, <1>2, <1>3, <2>1, <2>2, <2>3, <2>4, GoodMove DEF MergingKept
<1> QED
  BY <1>10, <1>11, <1>12, <1>13, <1>14, <1>15 DEF CleanStep

-----------------------------------------------------------------------------
(* The commands.  *)

(* The checkpoints of a retry, and a retry that gives up, ask nothing of the
   pull request: the task is marked as being retried.  (retryCleanupTask)  *)
LEMMA RetryMarks ==
  ASSUME NEW t \in Task, NEW ps, NEW sha, NEW step \in RetrySteps,
         Good(t, ps, sha), t.retrying
  PROVE  /\ MarkRetry(t, step) \in Task
         /\ Good(MarkRetry(t, step), ps, sha)
         /\ MarkRetry(t, step).retrying
<1>1. t.retry \cup {step} \in SUBSET RetrySteps
  BY DEF Task
<1> QED
  BY <1>1 DEF MarkRetry, Task, Good, KnowsPr, Confirmed, BeforeMerge

(* Clearing forgets the pull request together with the checkpoint that says it
   was created.  (clearRetryFields)  *)
LEMMA GoodClear ==
  ASSUME NEW t \in Task, NEW ps, NEW sha, t.retrying
  PROVE  /\ ClearRetryFields(t) \in Task
         /\ Good(ClearRetryFields(t), ps, sha)
         /\ ClearRetryFields(t).retrying
<1>1. ClearRetryFields(t) \in Task
  BY MergeTypes
<1> QED
  BY <1>1 DEF ClearRetryFields, Task, Good, KnowsPr, Confirmed

(* A retried task starts before every pull request.  *)
LEMMA GoodQueued ==
  ASSUME NEW t \in Task, NEW ps, NEW sha, Good(t, ps, sha)
  PROVE  /\ [t EXCEPT !.state = "queued", !.retrying = FALSE, !.retry = {}] \in Task
         /\ Good([t EXCEPT !.state = "queued", !.retrying = FALSE, !.retry = {}], ps, sha)
<1>1. [t EXCEPT !.state = "queued", !.retrying = FALSE, !.retry = {}] \in Task
  BY Names DEF Task
<1>2. Good([t EXCEPT !.state = "queued", !.retrying = FALSE, !.retry = {}], ps, sha)
  BY DEF Task, Good, KnowsPr, Confirmed, InCleanup, BeforeMerge
<1> QED
  BY <1>1, <1>2

(* Every step of retryCleanupTask keeps the invariant: a retry sends the task
   back before every pull request, or pauses it.  *)
LEMMA RetryKeeps ==
  ASSUME IInv, RetryStep
  PROVE  MergingKept
<1>1. /\ mem \in Task /\ Good(mem, prState, prSha) /\ Fits(mem, pc)
      /\ WorkerInv /\ RepositoryTypeOK
  BY DEF IInv, WorkerInv, WorkerTypeOK
<1>2. /\ {"retry", "exit"} \subseteq Labels
      /\ {"pr_closed", "worktree_removed", "branch_deleted", "fields_cleared"} \subseteq RetrySteps
      /\ "retry_cleanup_failed" \in FailureCodes
  BY DEF Labels, RetrySteps, FailureCodes
<1>3. /\ Unchanged => RepositoryTypeOK' /\ MergedStays
      /\ ClosePullRequest /\ prState \in Unmerged => RepositoryTypeOK' /\ MergedStays
      /\ RemoveWorktree => RepositoryTypeOK' /\ MergedStays
      /\ DeleteLocalBranch => RepositoryTypeOK' /\ MergedStays
  BY <1>1, EffectTypes, MergedPrStays DEF Unchanged
<1>4. At("retry") => mem.retrying
  BY <1>1 DEF At, Fits
<1>5. ASSUME NEW t \in Task, Good(t, prState, prSha), t.retrying,
             Record(t, "retry"), RepositoryTypeOK', MergedStays
      PROVE  MergingKept
  <2>1. Fits(t, "retry")
    BY <1>5 DEF Fits
  <2> QED
    BY <1>1, <1>2, <1>5, <2>1, GoodMove DEF MergingKept
<1>6. ASSUME At("retry"), RetryFails PROVE MergingKept
  <2>1. /\ Pause(mem, "retry_cleanup_failed") \in Task
        /\ Good(Pause(mem, "retry_cleanup_failed"), prState, prSha)
        /\ Fits(Pause(mem, "retry_cleanup_failed"), "exit")
    BY <1>1, <1>2, <1>4, <1>6, StopTypes, GoodPause DEF Fits
  <2> QED
    BY <1>1, <1>2, <1>3, <1>6, <2>1, GoodMove DEF RetryFails, MergingKept
<1>7. ASSUME NEW step \in RetrySteps, At("retry")
      PROVE  /\ MarkRetry(mem, step) \in Task
             /\ Good(MarkRetry(mem, step), prState, prSha)
             /\ MarkRetry(mem, step).retrying
  BY <1>1, <1>4, <1>7, RetryMarks
<1>10. ASSUME RetryClosePr PROVE MergingKept
  <2>1. At("retry")
    BY <1>10 DEF RetryClosePr, DueRetry
  <2>2. \/ /\ Record(MarkRetry(mem, "pr_closed"), "retry")
           /\ Unchanged \/ (ClosePullRequest /\ prState \in Unmerged)
        \/ RetryFails
    BY <1>10 DEF RetryClosePr
  <2> QED
    BY <1>2, <1>3, <1>5, <1>6, <1>7, <2>1, <2>2
<1>11. ASSUME RetryWorktree PROVE MergingKept
  <2>1. At("retry")
    BY <1>11 DEF RetryWorktree, DueRetry
  <2>2. \/ /\ Record(MarkRetry(mem, "worktree_removed"), "retry")
           /\ Unchanged \/ RemoveWorktree
        \/ RetryFails
    BY <1>11 DEF RetryWorktree
  <2> QED
    BY <1>2, <1>3, <1>5, <1>6, <1>7, <2>1, <2>2
<1>12. ASSUME RetryBranch PROVE MergingKept
  <2>1. At("retry")
    BY <1>12 DEF RetryBranch, DueRetry
  <2>2. \/ /\ Record(MarkRetry(mem, "branch_deleted"), "retry")
           /\ Unchanged \/ DeleteLocalBranch
        \/ RetryFails
    BY <1>12 DEF RetryBranch
  <2> QED
    BY <1>2, <1>3, <1>5, <1>6, <1>7, <2>1, <2>2
<1>13. ASSUME RetryClear PROVE MergingKept
  <2> DEFINE t == ClearRetryFields(mem)
  <2>1. t \in Task /\ Good(t, prState, prSha) /\ t.retrying
    BY <1>1, <1>4, <1>13, GoodClear DEF RetryClear, DueRetry
  <2>2. Record(MarkRetry(t, "fields_cleared"), "retry") /\ Unchanged
    BY <1>13 DEF RetryClear
  <2> HIDE DEF t
  <2>3. /\ MarkRetry(t, "fields_cleared") \in Task
        /\ Good(MarkRetry(t, "fields_cleared"), prState, prSha)
        /\ MarkRetry(t, "fields_cleared").retrying
    BY <1>2, <2>1, RetryMarks
  <2> QED
    BY <1>3, <1>5, <2>2, <2>3
<1>14. ASSUME RetryQueue PROVE MergingKept
  <2> DEFINE t == [mem EXCEPT !.state = "queued", !.retrying = FALSE, !.retry = {}]
  <2>1. t \in Task /\ Good(t, prState, prSha)
    BY <1>1, GoodQueued
  <2>2. Record(t, "exit") /\ Unchanged
    BY <1>14 DEF RetryQueue
  <2>3. Fits(t, "exit")
    BY DEF Fits
  <2> HIDE DEF t
  <2> QED
    BY <1>1, <1>2, <1>3, <2>1, <2>2, <2>3, GoodMove DEF MergingKept
<1> QED
  BY <1>10, <1>11, <1>12, <1>13, <1>14 DEF RetryStep

(* The commands that start a process: run, resume and retry.
   (commandRun, commandResumeLocked, commandRetryLocked)  *)
LEMMA StartKeeps ==
  ASSUME IInv, Begin \/ Stop \/ Resume \/ RetryStart, UNCHANGED repoVars
  PROVE  MergingKept
<1>1. /\ mem \in Task /\ Good(mem, prState, prSha) /\ Fits(mem, pc)
      /\ disk \in Task /\ Good(disk, prState, prSha)
      /\ WorkerInv /\ RepositoryTypeOK
  BY DEF IInv, WorkerInv, WorkerTypeOK
<1>2. {"idle", "loop", "retry"} \subseteq Labels
  BY DEF Labels
<1>3. RepositoryTypeOK' /\ MergedStays
  BY <1>1, EffectTypes, MergedPrStays
<1>4. ASSUME NEW t PROVE Fits(t, "loop") /\ Fits(t, "idle")
  BY DEF Fits
<1>10. ASSUME Begin PROVE MergingKept
  <2>1. Continue(disk, "loop")
    BY <1>10 DEF Begin
  <2> QED
    BY <1>1, <1>2, <1>3, <1>4, <2>1, GoodMove DEF MergingKept
<1>11. ASSUME Stop PROVE MergingKept
  <2>1. Continue(mem, "idle")
    BY <1>11 DEF Stop
  <2> QED
    BY <1>1, <1>2, <1>3, <1>4, <2>1, GoodMove DEF MergingKept
<1>12. ASSUME Resume PROVE MergingKept
  <2>1. /\ ResumeTask(disk) \in Task /\ Good(ResumeTask(disk), prState, prSha)
    BY <1>1, <1>12, Names, StopTypes, GoodResume DEF Resume, Resumable
  <2>2. /\ disk' = ResumeTask(disk) /\ mem' = ResumeTask(disk) /\ pc' = "loop"
        /\ UNCHANGED <<dirty, crashes>>
    BY <1>12 DEF Resume
  <2>3. WorkerTypeOK'
    BY <1>1, <1>2, <2>1, <2>2 DEF WorkerInv, WorkerTypeOK
  <2>4. Good(ResumeTask(disk), prState', prSha')
    BY <1>3, <2>1, GoodStable DEF MergedStays
  <2> QED
    BY <1>3, <1>4, <2>2, <2>3, <2>4 DEF WorkerInv, MergingKept
<1>13. ASSUME RetryStart PROVE MergingKept
  <2> DEFINE t == [disk EXCEPT !.retrying = TRUE]
  <2>1. t \in Task /\ t.retrying
    BY <1>1 DEF Task
  <2>2. Good(t, prState, prSha)
    BY <1>1 DEF Task, Good, KnowsPr, Confirmed
  <2>3. Fits(t, "retry")
    BY <2>1 DEF Fits
  <2>4. Continue(t, "retry")
    BY <1>13 DEF RetryStart
  <2> HIDE DEF t
  <2> QED
    BY <1>1, <1>2, <1>3, <2>1, <2>2, <2>3, <2>4, GoodMove DEF MergingKept
<1> QED
  BY <1>10, <1>11, <1>12, <1>13

(* A forced detach declares a task merged only with the pull request merged at
   the recorded head, and pauses it otherwise.  (commandCleanupLocked)  *)
LEMMA ForceDetachKeeps ==
  ASSUME IInv, ForceDetach
  PROVE  MergingKept
<1>1. /\ disk \in Task /\ Good(disk, prState, prSha) /\ WorkerInv /\ RepositoryTypeOK
  BY DEF IInv, WorkerInv, WorkerTypeOK
<1>2. RepositoryTypeOK' /\ prState' = prState /\ prSha' = prSha
  BY <1>1, EffectTypes DEF ForceDetach, Unchanged, repoVars, prVars
<1>3. disk' \in Task /\ Good(disk', prState, prSha)
  <2>1. CASE prState = "MERGED" /\ prSha = disk.head
    <3>1. disk' = Detached(disk) /\ disk.pr
      BY <2>1 DEF ForceDetach
    <3>2. Detached(disk) \in Task
      BY <1>1, Names DEF Detached, Enter, Task
    <3>3. Good(Detached(disk), prState, prSha)
      BY <1>1, <2>1, <3>1 DEF Detached, Enter, Task, Good, KnowsPr, Confirmed, InCleanup, BeforeMerge
    <3> QED
      BY <3>1, <3>2, <3>3
  <2>2. CASE ~(prState = "MERGED" /\ prSha = disk.head)
    <3> DEFINE t == [disk EXCEPT !.state = "paused", !.failure = "merge_sha_mismatch"]
    <3>1. disk' = t /\ disk.pr /\ ForceDetachCandidate(disk)
      BY <2>2 DEF ForceDetach
    <3>2. t \in Task
      BY <1>1, Names DEF Task
    <3>3. disk.state = "paused" \/ (disk.state = "cleaning" /\ disk.retrying)
      BY <1>1, <2>2, <3>1 DEF ForceDetachCandidate, Good, Confirmed, InCleanup
    <3>4. Good(t, prState, prSha)
      BY <1>1, <3>1, <3>3 DEF Task, Good, KnowsPr, Confirmed, InCleanup, BeforeMerge
    <3> QED
      BY <3>1, <3>2, <3>4
  <2> QED
    BY <2>1, <2>2
<1>4. mem' = disk' /\ pc' = "idle" /\ UNCHANGED <<dirty, crashes>>
  BY DEF ForceDetach, At
<1>5. WorkerTypeOK'
  BY <1>1, <1>3, <1>4 DEF WorkerInv, WorkerTypeOK, Labels
<1>6. Fits(mem', pc')
  BY <1>4 DEF Fits
<1> QED
  BY <1>2, <1>3, <1>4, <1>5, <1>6 DEF WorkerInv, MergingKept

-----------------------------------------------------------------------------
(* The inductive invariant.  *)

(* A new task is before every pull request.  *)
LEMMA InitIInv == Init => IInv
<1> SUFFICES ASSUME Init PROVE IInv
  OBVIOUS
<1>1. WorkerTypeOK
  BY NewTaskType DEF Init, WorkerInit, WorkerTypeOK, Labels
<1>2. Fits(mem, pc)
  BY DEF Init, WorkerInit, Fits
<1>3. Good(NewTask, prState, prSha)
  BY DEF Good, KnowsPr, Confirmed, InCleanup, NewTask, BeforeMerge
<1>4. PlanningTypeOK
  BY DEF Init, PlanningInit, PlanningTypeOK
<1>5. RepositoryTypeOK
  <2>1. FlagsOK
    BY ZenonT(30) DEF Init, RepositoryInit, FlagsOK
  <2>2. CountsOK
    BY DEF Init, RepositoryInit, CountsOK
  <2> QED
    BY <2>1, <2>2 DEF RepositoryTypeOK
<1>6. DeliveryTypeOK
  BY DEF Init, DeliveryInit, DeliveryTypeOK
<1> QED
  BY <1>1, <1>2, <1>3, <1>4, <1>5, <1>6 DEF Init, WorkerInit, WorkerInv, IInv

(* Every step keeps it.  *)
LEMMA NextIInv == IInv /\ [Next]_vars => IInv'
<1> SUFFICES ASSUME IInv, [Next]_vars PROVE IInv'
  OBVIOUS
<1>1. WorkerInv /\ PlanningTypeOK /\ RepositoryTypeOK /\ DeliveryTypeOK
  BY DEF IInv
<1>2. UNCHANGED planVars => PlanningTypeOK'
  BY <1>1 DEF planVars, PlanningTypeOK
<1>3. UNCHANGED deliveryVars => DeliveryTypeOK'
  BY <1>1 DEF deliveryVars, DeliveryTypeOK
<1>4. UNCHANGED repoVars => RepositoryTypeOK' /\ MergedStays
  BY <1>1, EffectTypes, MergedPrStays
<1>5. ASSUME ProcessStep PROVE IInv'
  <2>1. CASE (Save \/ Stop) /\ UNCHANGED <<planVars, repoVars, deliveryVars>>
    BY <1>1, <1>2, <1>3, <1>4, <2>1, GoodRest, StartKeeps DEF IInv, MergingKept
  <2>2. CASE PlanningStep /\ UNCHANGED <<repoVars, deliveryVars>>
    BY <2>2, PlanningKeeps
  <2>3. CASE DeliveryStep /\ UNCHANGED planVars
    BY <1>2, <2>3, ImplementKeeps, ReviewKeeps, FixKeeps
    DEF DeliveryStep, DeliveryKept, IInv
  <2>4. CASE (MergingStep \/ RetryStep) /\ UNCHANGED <<planVars, deliveryVars>>
    BY <1>2, <1>3, <2>4, CiKeeps, MergeKeeps, CleanKeeps, RetryKeeps
    DEF MergingStep, MergingKept, IInv
  <2> QED
    BY <1>5, <2>1, <2>2, <2>3, <2>4 DEF ProcessStep
<1>6. ASSUME RunAgain \/ ResumeAgain PROVE IInv'
  BY <1>2, <1>3, <1>6, StartKeeps DEF RunAgain, ResumeAgain, MergingKept, IInv
<1>7. ASSUME RepairStep PROVE IInv'
  <2>1. RetryStart => UNCHANGED repoVars
    BY DEF RetryStart, Unchanged
  <2> QED
    BY <1>2, <1>3, <1>7, <2>1, StartKeeps, ForceDetachKeeps DEF RepairStep, MergingKept, IInv
<1>8. ASSUME CrashStep PROVE IInv'
  <2>1. PlanningTypeOK'
    BY <1>1, <1>8 DEF CrashStep, PlanningTypeOK
  <2> QED
    BY <1>1, <1>3, <1>4, <1>8, <2>1, GoodRest DEF CrashStep, IInv
<1>9. ASSUME SurroundingsStep PROVE IInv'
  <2>1. RepositoryTypeOK' /\ MergedStays
    BY <1>1, <1>9, EffectTypes, MergedPrStays DEF SurroundingsStep
  <2> QED
    BY <1>1, <1>2, <1>3, <1>9, <2>1, GoodRest DEF SurroundingsStep, IInv
<1>10. ASSUME UNCHANGED vars PROVE IInv'
  BY <1>1, <1>2, <1>3, <1>4, <1>10, GoodRest DEF vars, IInv
<1> QED
  BY <1>5, <1>6, <1>7, <1>8, <1>9, <1>10 DEF Next

(* The inductive invariant holds in every behaviour.  *)
LEMMA Invariance == Spec => []IInv
  BY InitIInv, NextIInv, PTL DEF Spec
=============================================================================
