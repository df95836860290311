------------------------------ MODULE Delivery ------------------------------
(***************************************************************************)
(* From a verified plan to a reviewed pull request: runImplementWorkflow,  *)
(* runReviewSuperviseWorkflow and runFixWorkflow, workflows/src/index.ts.  *)
(*                                                                         *)
(* implement and fix are lists of steps, each guarded by its checkpoint:   *)
(* a step is due when it is the first one that is not recorded.  A commit, *)
(* a push or a new pull request happens in one step and is recorded by the *)
(* Save that follows, so a crash in between leaves it unrecorded.          *)
(***************************************************************************)
EXTENDS Repository, Sequences

VARIABLE reviewed   \* local head the last review without accepted findings saw

deliveryVars == <<reviewed>>

DeliveryTypeOK == reviewed \in Nat
DeliveryInit == reviewed = 0

ImplementOrder == <<"before_sha", "agent_done", "commit_done", "push_done",
                    "pr_created", "head_sha_persisted", "after_sha">>
FixOrder == <<"before_sha", "rebase_done", "agent_done", "commit_done",
              "push_done", "head_sha_persisted", "after_sha">>

FirstMissing(step, order, done) ==
  \E i \in DOMAIN order :
    /\ order[i] = step
    /\ step \notin done
    /\ \A j \in 1 .. i - 1 : order[j] \in done

DueImplement(step) == At("implement") /\ FirstMissing(step, ImplementOrder, mem.implement)
DueFix(step) == At("fix") /\ FirstMissing(step, FixOrder, mem.fix)

MarkImplement(t, step) == [t EXCEPT !.implement = @ \cup {step}]
MarkFix(t, step) == [t EXCEPT !.fix = @ \cup {step}]

Repo(effect) == effect /\ UNCHANGED deliveryVars
NoEffect == UNCHANGED <<repoVars, deliveryVars>>

-----------------------------------------------------------------------------
(* A retried task has neither branch nor worktree path, and the executor
   throws; every other task gets its worktree and enters the workflow.  *)
ImplementEnter ==
  /\ At("loop")
  /\ mem.state \in {"planned", "implementing"}
  /\ \/ ~mem.named /\ Throw /\ NoEffect
     \/ /\ mem.named
        /\ Repo(EnsureWorktree)
        /\ IF mem.state = "planned"
           THEN Record(ImplementStarted(mem), "implement")
           ELSE Continue(mem, "implement")

(* The agent edits files in the worktree, and may be stopped half way.  *)
ImplementAgentEdits ==
  /\ DueImplement("agent_done")
  /\ ~edits
  /\ Repo(EditFiles)
  /\ UNCHANGED workerVars

ImplementAgentDone ==
  /\ DueImplement("agent_done")
  /\ edits \/ "idle_agent" \in Faults
  /\ Record(MarkImplement(mem, "agent_done"), "implement")
  /\ NoEffect

ImplementAgentStops ==
  /\ DueImplement("agent_done")
  /\ AgentStops
  /\ NoEffect

(* git commit fails when there is nothing to commit.  *)
ImplementCommit ==
  /\ DueImplement("commit_done")
  /\ \/ edits /\ Record(MarkImplement(mem, "commit_done"), "implement") /\ Repo(CommitEdits)
     \/ ~edits /\ Throw /\ NoEffect

ImplementPush ==
  /\ DueImplement("push_done")
  /\ \/ Record(MarkImplement(mem, "push_done"), "implement") /\ Repo(PushBranch)
     \/ ~MayPush /\ Throw /\ NoEffect

(* Mutant of ImplementPr: does not look for the pull request first.  *)
ImplementPr_AlwaysCreates ==
  /\ DueImplement("pr_created")
  /\ Record([MarkImplement(mem, "pr_created") EXCEPT !.pr = TRUE], "implement")
  /\ Repo(CreateDraft)

(* restoreOrCreatePrAfterPush *)
ImplementPr ==
  /\ DueImplement("pr_created")
  /\ LET t == [MarkImplement(mem, "pr_created") EXCEPT !.pr = TRUE]
     IN  \/ /\ prState = "NONE"
            /\ Record(t, "implement")
            /\ Repo(CreateDraft)
         \/ /\ prState \in Unmerged
            /\ Record([t EXCEPT !.head = prSha], "implement")
            /\ NoEffect
         \/ /\ prState \in {"CLOSED", "MERGED"}
            /\ Return(Pause(mem, "pre_pr_active_orphan"))
            /\ NoEffect

ImplementHead ==
  /\ DueImplement("head_sha_persisted")
  /\ Record([MarkImplement(mem, "head_sha_persisted") EXCEPT !.head = prSha], "implement")
  /\ NoEffect

ImplementReady ==
  /\ DueImplement("after_sha")
  /\ \/ Record(PrReady(mem, mem.head), "loop") /\ Repo(MarkReady)
     \/ prState \notin Unmerged /\ Throw /\ NoEffect

ImplementStep ==
  \/ ImplementEnter \/ ImplementAgentEdits \/ ImplementAgentDone
  \/ ImplementAgentStops \/ ImplementCommit \/ ImplementPush \/ ImplementPr
  \/ ImplementHead \/ ImplementReady

-----------------------------------------------------------------------------
(* A task resumed into the supervise subphase is failed by the guard of the
   workflow.  *)
ReviewEnter ==
  /\ At("loop")
  /\ mem.state = "reviewing"
  /\ IF mem.phase = "review" THEN Continue(mem, "review") ELSE Return(Fail(mem, "other"))
  /\ NoEffect

(* No findings, or only findings rejected before: no supervisor is asked.  *)
ReviewClean ==
  /\ At("review")
  /\ Return(SuperviseClean(ReviewCompleted(mem)))
  /\ reviewed' = local
  /\ UNCHANGED repoVars

ReviewFinds ==
  /\ At("review")
  /\ Record(ReviewCompleted(mem), "supervise")
  /\ NoEffect

SuperviseAccepts ==
  /\ At("supervise")
  /\ Return(SuperviseAccept(mem))
  /\ NoEffect

SuperviseRejectsAll ==
  /\ At("supervise")
  /\ Return(SuperviseClean(mem))
  /\ reviewed' = local
  /\ UNCHANGED repoVars

ReviewerStops ==
  /\ At("review") \/ At("supervise")
  /\ AgentStops
  /\ NoEffect

ReviewStep ==
  \/ ReviewEnter \/ ReviewClean \/ ReviewFinds \/ SuperviseAccepts
  \/ SuperviseRejectsAll \/ ReviewerStops

-----------------------------------------------------------------------------
FixEnter ==
  /\ At("loop")
  /\ mem.state = "fixing"
  /\ Continue(mem, "fix")
  /\ Repo(EnsureWorktree)

FixBefore ==
  /\ DueFix("before_sha")
  /\ Record(MarkFix(mem, "before_sha"), "fix")
  /\ NoEffect

(* A rebase over uncommitted changes and a fetch that fails are taken for a
   conflict.  *)
FixRebase ==
  /\ DueFix("rebase_done")
  /\ \/ /\ ~edits
        /\ Record(MarkFix(mem, "rebase_done"), "fix")
        /\ Repo(RebaseBranch)
     \/ /\ edits \/ behind \/ "tool_failure" \in Faults
        /\ Return(Pause(mem, "rebase_conflict"))
        /\ NoEffect

FixAgentEdits ==
  /\ DueFix("agent_done")
  /\ ~edits
  /\ Repo(EditFiles)
  /\ UNCHANGED workerVars

FixAgentDone ==
  /\ DueFix("agent_done")
  /\ edits \/ "idle_agent" \in Faults
  /\ Record(MarkFix(mem, "agent_done"), "fix")
  /\ NoEffect

FixAgentStops ==
  /\ DueFix("agent_done")
  /\ AgentStops
  /\ NoEffect

FixCommit ==
  /\ DueFix("commit_done")
  /\ \/ edits /\ Record(MarkFix(mem, "commit_done"), "fix") /\ Repo(CommitEdits)
     \/ ~edits /\ Throw /\ NoEffect

FixPush ==
  /\ DueFix("push_done")
  /\ \/ Record(MarkFix(mem, "push_done"), "fix") /\ Repo(PushBranch)
     \/ ~MayPush /\ Throw /\ NoEffect

(* Mutant of FixHead: the step is recorded and the head is not.  *)
FixHead_KeepsOldHead ==
  /\ DueFix("head_sha_persisted")
  /\ Record(MarkFix(mem, "head_sha_persisted"), "fix")
  /\ NoEffect

FixHead ==
  /\ DueFix("head_sha_persisted")
  /\ Record([MarkFix(mem, "head_sha_persisted") EXCEPT !.head = prSha], "fix")
  /\ NoEffect

FixDone ==
  /\ DueFix("after_sha")
  /\ Record(FixPushed(MarkFix(mem, "after_sha")), "loop")
  /\ NoEffect

FixStep ==
  \/ FixEnter \/ FixBefore \/ FixRebase \/ FixAgentEdits \/ FixAgentDone
  \/ FixAgentStops \/ FixCommit \/ FixPush \/ FixHead \/ FixDone

DeliveryStep == ImplementStep \/ ReviewStep \/ FixStep
=============================================================================
