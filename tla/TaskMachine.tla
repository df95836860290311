---------------------------- MODULE TaskMachine ----------------------------
(***************************************************************************)
(* The task entry of tasks.yaml and the transition function on it          *)
(* (transitionTask, core/src/state-machine.ts).  Pure operators: every     *)
(* other module of the project calls these and keeps no transition of its  *)
(* own.                                                                    *)
(*                                                                         *)
(* A commit SHA is a natural number and 0 is the absent one; "none" is the *)
(* absent phase, state, failure or origin.  A group of checkpoints is the  *)
(* set of the names recorded in it.  branch and worktree_path are set and  *)
(* cleared together and are one Boolean, named.                            *)
(***************************************************************************)
EXTENDS Naturals

CONSTANTS
  PlanMax,        \* config.plan.max_rounds
  ReviewMax,      \* config.review.max_rounds
  CiMax,          \* config.ci.fix_max_rounds
  CiTimeoutFails  \* config.ci.timeout_action = "failed"

ASSUME RoundLimits == PlanMax \in Nat /\ ReviewMax \in Nat /\ CiMax \in Nat
ASSUME TimeoutChoice == CiTimeoutFails \in BOOLEAN

Active == {"queued", "planning", "planned", "implementing", "reviewing",
           "fixing", "ci_waiting", "merging", "cleaning"}
States == Active \cup {"paused", "failed", "merged"}

Phases == {"none", "plan", "plan_verify", "plan_fix", "implement", "review",
           "supervise", "fix", "ci_wait", "merge"}

FailureCodes ==
  {"none", "plan_max", "review_max", "ci_failure_max", "ci_timeout",
   "merge_timeout", "merge_sha_mismatch", "branch_protection",
   "manual_merge_required", "branch_delete_failed", "worktree_remove_failed",
   "retry_cleanup_failed", "rebase_conflict", "pre_pr_active_orphan",
   "rate_limited", "other"}

ImplementSteps == {"before_sha", "agent_done", "commit_done", "push_done",
                   "pr_created", "head_sha_persisted", "after_sha"}
FixSteps == (ImplementSteps \ {"pr_created"}) \cup {"rebase_done"}
CleaningSteps == {"grace_period", "branch_deleted", "worktree_removed", "finalized"}
RetrySteps == {"pr_closed", "worktree_removed", "branch_deleted", "fields_cleared"}

Task ==
  [state: States, phase: Phases, prev: Active \cup {"none"},
   failure: FailureCodes,
   planRound: Nat, reviewRound: Nat, ciRound: Nat,
   verified: BOOLEAN,                    \* plan.state = "verified"
   origin: {"none", "review", "ci"},     \* fix.origin
   named: BOOLEAN, pr: BOOLEAN, head: Nat,
   implement: SUBSET ImplementSteps, fix: SUBSET FixSteps,
   cleaning: SUBSET CleaningSteps, removeTries: Nat,
   retrying: BOOLEAN, retry: SUBSET RetrySteps]

NewTask ==
  [state |-> "queued", phase |-> "none", prev |-> "none", failure |-> "none",
   planRound |-> 0, reviewRound |-> 0, ciRound |-> 0, verified |-> FALSE,
   origin |-> "none", named |-> TRUE, pr |-> FALSE, head |-> 0,
   implement |-> {}, fix |-> {}, cleaning |-> {}, removeTries |-> 0,
   retrying |-> FALSE, retry |-> {}]

-----------------------------------------------------------------------------
(* Mutant of Pause: remembers any state as the one to resume to.  *)
Pause_FromAnyState(t, code) ==
  IF t.state = "paused" /\ t.failure # "none" THEN t
  ELSE [t EXCEPT !.state = "paused", !.failure = code, !.prev = t.state]

(* pauseWithFailure: a task already paused keeps its root failure.  Only an
   active state is remembered as the one to resume to.  *)
Pause(t, code) ==
  IF t.state = "paused" /\ t.failure # "none" THEN t
  ELSE [t EXCEPT !.state = "paused", !.failure = code,
                 !.prev = IF t.state \in Active THEN t.state ELSE t.prev]

Fail(t, code) ==
  [t EXCEPT !.state = "failed", !.phase = "none", !.failure = code]

Enter(t, state, phase) == [t EXCEPT !.state = state, !.phase = phase]

RunStarted(t) == Enter(t, "planning", "plan")
PlanCompleted(t) == Enter(t, t.state, "plan_verify")
PlanVerifyAccepted(t) == [Enter(t, "planned", "none") EXCEPT !.verified = TRUE]

PlanVerifyRejected(t) ==
  IF t.planRound + 1 > PlanMax THEN Fail(t, "plan_max")
  ELSE [Enter(t, t.state, "plan_fix") EXCEPT !.planRound = @ + 1]

PlanFixCompleted(t) == Enter(t, t.state, "plan_verify")

ImplementStarted(t) ==
  [Enter(t, "implementing", "implement")
     EXCEPT !.implement = @ \cup {"before_sha"}]

PrReady(t, head) ==
  [Enter(t, "reviewing", "review")
     EXCEPT !.head = head, !.implement = @ \cup {"after_sha"}]

ReviewCompleted(t) == Enter(t, t.state, "supervise")

SuperviseAccept(t) ==
  IF t.reviewRound + 1 > ReviewMax THEN Fail(t, "review_max")
  ELSE [Enter(t, "fixing", "fix")
          EXCEPT !.reviewRound = @ + 1, !.origin = "review", !.fix = {}]

(* supervise_no_findings and supervise_reject_all take the same step.  *)
SuperviseClean(t) == Enter(t, "ci_waiting", "ci_wait")

(* Mutant of FixPushed: a fix of a CI failure skips the review.  *)
FixPushed_CiSkipsReview(t) ==
  IF t.origin = "ci" THEN Enter(t, "ci_waiting", "ci_wait")
  ELSE [Enter(t, "reviewing", "review") EXCEPT !.origin = "none"]

FixPushed(t) == [Enter(t, "reviewing", "review") EXCEPT !.origin = "none"]

CiFailed(t) ==
  IF t.ciRound + 1 > CiMax THEN Fail(t, "ci_failure_max")
  ELSE [Enter(t, "fixing", "fix")
          EXCEPT !.ciRound = @ + 1, !.origin = "ci", !.fix = {}]

CiTimeout(t) == IF CiTimeoutFails THEN Fail(t, "ci_timeout") ELSE Pause(t, "ci_timeout")

AutoMergeReserved(t) == Enter(t, "merging", "merge")

(* Mutant of PrMerged: does not compare the heads.  *)
PrMerged_AnyHead(t, head) == Enter(t, "cleaning", "none")

PrMerged(t, head) ==
  IF t.head = 0 \/ head = 0 \/ head # t.head THEN Pause(t, "merge_sha_mismatch")
  ELSE Enter(t, "cleaning", "none")

CleaningCompleted(t) ==
  [Enter(t, "merged", "none") EXCEPT !.cleaning = @ \cup {"finalized"}]

(* Mutant of ResumeTask: forgets the phase the task was paused in.  *)
ResumeTask_NoPhase(t) ==
  [t EXCEPT !.state = IF t.prev = "none" THEN t.state ELSE t.prev,
            !.failure = "none", !.phase = "none"]

(* The resume event leaves runtime_phase as it was.  *)
ResumeTask(t) ==
  [t EXCEPT !.state = IF t.prev = "none" THEN t.state ELSE t.prev,
            !.failure = "none"]

(* clearRetryFields, core/src/retry-cleanup.ts: plan.* and cleaning_progress
   are not among the cleared fields.  *)
ClearRetryFields(t) ==
  [t EXCEPT !.implement = {}, !.fix = {}, !.pr = FALSE, !.head = 0,
            !.named = FALSE, !.failure = "none", !.phase = "none",
            !.prev = "none", !.reviewRound = 0, !.ciRound = 0,
            !.origin = "none"]
=============================================================================
