------------------------- MODULE TaskMachineProofs -------------------------
(***************************************************************************)
(* The transitions of TaskMachine stay within the type of a task entry.    *)
(* One lemma per group of transitions; the modules that prove something    *)
(* about a component cite them by name.  The sets a field ranges over stay *)
(* hidden in these proofs; Names says what is used of them.                *)
(***************************************************************************)
EXTENDS TaskMachine, TLAPS

(* The names the transitions write are in the sets of their fields.  *)
LEMMA Names ==
  /\ {"planning", "planned", "implementing", "reviewing", "fixing", "ci_waiting",
      "merging", "cleaning", "merged", "paused", "failed", "queued"} \subseteq States
  /\ Active \subseteq States
  /\ {"none", "plan", "plan_verify", "plan_fix", "implement", "review", "supervise",
      "fix", "ci_wait", "merge"} \subseteq Phases
  /\ {"none", "plan_max", "review_max", "ci_failure_max", "ci_timeout",
      "merge_sha_mismatch"} \subseteq FailureCodes
  /\ {"before_sha", "after_sha"} \subseteq ImplementSteps
  /\ "after_sha" \in FixSteps
  /\ "finalized" \in CleaningSteps
  BY DEF States, Active, Phases, FailureCodes, ImplementSteps, FixSteps, CleaningSteps

(* A task that `autokit add` has just queued is one.  (createTaskEntry)  *)
LEMMA NewTaskType == NewTask \in Task
<1>1. /\ "queued" \in States /\ "none" \in Phases /\ "none" \in FailureCodes
      /\ "none" \in Active \cup {"none"}
  BY Names
<1> QED
  BY <1>1 DEF NewTask, Task

(* A change of state and phase alone.  *)
LEMMA EnterType ==
  ASSUME NEW t \in Task, NEW s \in States, NEW p \in Phases
  PROVE  Enter(t, s, p) \in Task
  BY DEF Enter, Task

(* Pausing and failing with a code of the list, and resuming.
   (pauseWithFailure, failWithFailure, resume)  *)
LEMMA StopTypes ==
  ASSUME NEW t \in Task, NEW code \in FailureCodes
  PROVE  /\ Pause(t, code) \in Task
         /\ Fail(t, code) \in Task
         /\ ResumeTask(t) \in Task
<1>1. Pause(t, code) \in Task
  BY Names DEF Pause, Task
<1>2. Fail(t, code) \in Task
  BY Names DEF Fail, Task
<1>3. ResumeTask(t) \in Task
  BY Names DEF ResumeTask, Task
<1> QED
  BY <1>1, <1>2, <1>3

(* The transitions of the planning loop.  *)
LEMMA PlanTypes ==
  ASSUME NEW t \in Task
  PROVE  /\ RunStarted(t) \in Task
         /\ PlanCompleted(t) \in Task
         /\ PlanVerifyAccepted(t) \in Task
         /\ PlanVerifyRejected(t) \in Task
         /\ PlanFixCompleted(t) \in Task
<1>1. t.state \in States /\ t.planRound + 1 \in Nat
  BY DEF Task
<1>2. RunStarted(t) \in Task
  BY Names, EnterType DEF RunStarted
<1>3. PlanCompleted(t) \in Task /\ PlanFixCompleted(t) \in Task
  BY <1>1, Names, EnterType DEF PlanCompleted, PlanFixCompleted
<1>4. PlanVerifyAccepted(t) \in Task
  BY Names DEF PlanVerifyAccepted, Enter, Task
<1>5. PlanVerifyRejected(t) \in Task
  <2>1. Fail(t, "plan_max") \in Task
    BY Names, StopTypes
  <2>2. [Enter(t, t.state, "plan_fix") EXCEPT !.planRound = @ + 1] \in Task
    BY <1>1, Names DEF Enter, Task
  <2> QED
    BY <2>1, <2>2 DEF PlanVerifyRejected
<1> QED
  BY <1>2, <1>3, <1>4, <1>5

(* The transitions from a verified plan to a pull request with green checks. *)
LEMMA DeliveryTypes ==
  ASSUME NEW t \in Task, NEW head \in Nat
  PROVE  /\ ImplementStarted(t) \in Task
         /\ PrReady(t, head) \in Task
         /\ ReviewCompleted(t) \in Task
         /\ SuperviseAccept(t) \in Task
         /\ SuperviseClean(t) \in Task
         /\ FixPushed(t) \in Task
         /\ CiFailed(t) \in Task
         /\ CiTimeout(t) \in Task
<1>1. /\ t.state \in States
      /\ t.reviewRound + 1 \in Nat /\ t.ciRound + 1 \in Nat
      /\ t.implement \cup {"before_sha"} \in SUBSET ImplementSteps
      /\ t.implement \cup {"after_sha"} \in SUBSET ImplementSteps
  BY Names DEF Task
<1>2. ImplementStarted(t) \in Task
  BY <1>1, Names DEF ImplementStarted, Enter, Task
<1>3. PrReady(t, head) \in Task
  BY <1>1, Names DEF PrReady, Enter, Task
<1>4. ReviewCompleted(t) \in Task /\ SuperviseClean(t) \in Task
  BY <1>1, Names, EnterType DEF ReviewCompleted, SuperviseClean
<1>5. SuperviseAccept(t) \in Task
  <2>1. Fail(t, "review_max") \in Task
    BY Names, StopTypes
  <2>2. [Enter(t, "fixing", "fix")
           EXCEPT !.reviewRound = @ + 1, !.origin = "review", !.fix = {}] \in Task
    BY <1>1, Names DEF Enter, Task
  <2> QED
    BY <2>1, <2>2 DEF SuperviseAccept
<1>6. FixPushed(t) \in Task
  BY Names DEF FixPushed, Enter, Task
<1>7. CiFailed(t) \in Task
  <2>1. Fail(t, "ci_failure_max") \in Task
    BY Names, StopTypes
  <2>2. [Enter(t, "fixing", "fix")
           EXCEPT !.ciRound = @ + 1, !.origin = "ci", !.fix = {}] \in Task
    BY <1>1, Names DEF Enter, Task
  <2> QED
    BY <2>1, <2>2 DEF CiFailed
<1>8. CiTimeout(t) \in Task
  BY Names, StopTypes DEF CiTimeout
<1> QED
  BY <1>2, <1>3, <1>4, <1>5, <1>6, <1>7, <1>8

(* The transitions from the reservation to the merged task, and the clearing
   of a retry.  *)
LEMMA MergeTypes ==
  ASSUME NEW t \in Task, NEW head \in Nat
  PROVE  /\ AutoMergeReserved(t) \in Task
         /\ PrMerged(t, head) \in Task
         /\ CleaningCompleted(t) \in Task
         /\ ClearRetryFields(t) \in Task
<1>1. AutoMergeReserved(t) \in Task
  BY Names, EnterType DEF AutoMergeReserved
<1>2. PrMerged(t, head) \in Task
  BY Names, EnterType, StopTypes DEF PrMerged
<1>3. CleaningCompleted(t) \in Task
  <2>1. t.cleaning \cup {"finalized"} \in SUBSET CleaningSteps
    BY Names DEF Task
  <2> QED
    BY <2>1, Names DEF CleaningCompleted, Enter, Task
<1>4. ClearRetryFields(t) \in Task
  BY Names DEF ClearRetryFields, Task
<1> QED
  BY <1>1, <1>2, <1>3, <1>4
=============================================================================
