------------------------------ MODULE Findings ------------------------------
(***************************************************************************)
(* What becomes of the findings of a review: runReviewSuperviseWorkflow of *)
(* workflows/src/index.ts by finding, with the history of rejected ones    *)
(* that tasks.yaml keeps from round to round and nobody but the validation *)
(* of the supervisor's decision consults.                                  *)
(*                                                                         *)
(* A finding is known by its id, a hash of severity, file, line and title  *)
(* (computeFindingId): a member of Ids.  disk is the entry in tasks.yaml,  *)
(* mem the copy of the workflow.  The task starts out in review.           *)
(***************************************************************************)
EXTENDS TaskMachine

CONSTANT Ids

VARIABLES
    disk, mem,
    at,         \* what the workflow does
    findings,   \* what the reviewer found, in memory
    lastReview  \* (history) what the last review to be finished found

vars == <<disk, mem, at, findings, lastReview>>

\* accepted: the accept_ids of the latest round.  corrected: the phase has
\* used its one self-correction.
Entry == [task : Task, rejected : SUBSET Ids, accepted : SUBSET Ids, corrected : BOOLEAN]

\* ids named twice; whether reasons and a fix_prompt come with it.
Decision == [accept : SUBSET Ids, reject : SUBSET Ids, twice : BOOLEAN,
             reasons : SUBSET Ids, prompt : BOOLEAN]

InReview == [NewTask EXCEPT !.state = "reviewing", !.phase = "review",
                            !.verified = TRUE, !.pr = TRUE, !.head = 1,
                            !.implement = ImplementSteps]

Init ==
    /\ disk = [task |-> InReview, rejected |-> {}, accepted |-> {}, corrected |-> FALSE]
    /\ mem = disk /\ at = "none" /\ findings = {} /\ lastReview = {}

Step(from, to) == at = from /\ at' = to

\* The workflow returns its task to the executor, which writes it.
Return(t) == mem' = [mem EXCEPT !.task = t] /\ UNCHANGED disk

-----------------------------------------------------------------------------

\* A task that comes back in the supervise phase is refused by the guard.
Begin ==
    /\ disk.task.state = "reviewing"
    /\ UNCHANGED <<disk, findings, lastReview>>
    /\ \/ disk.task.phase = "review" /\ Step("none", "review") /\ mem' = disk
       \/ /\ disk.task.phase # "review" /\ Step("none", "return")
          /\ mem' = [disk EXCEPT !.task = Fail(@, "other")]

\* Mutant of OnlyKnown: one finding that is known is enough.
OnlyKnown_Some(found, rejected) == found = {} \/ found \cap rejected # {}

\* everyFindingAlreadyRejected
OnlyKnown(found, rejected) == found \subseteq rejected

ReviewAnswers ==
    /\ \E found \in SUBSET Ids :
          /\ findings' = found /\ lastReview' = found
          /\ IF OnlyKnown(found, mem.rejected)
             THEN Step("review", "return") /\ Return(SuperviseClean(ReviewCompleted(mem.task)))
             ELSE Step("review", "before") /\ Return(ReviewCompleted(mem.task))

\* The checkpoint of the supervise phase is the first write after the review.
SuperviseBefore ==
    /\ Step("before", "supervise")
    /\ mem' = [mem EXCEPT !.corrected = FALSE] /\ disk' = mem'
    /\ UNCHANGED <<findings, lastReview>>

-----------------------------------------------------------------------------

\* validateCompletedData, contract supervise: what the runner lets pass.
ContractKept(d) ==
    /\ ~d.twice /\ d.accept \cap d.reject = {}
    /\ d.accept # {} => d.prompt

\* Mutant of DecisionHolds: what was rejected may be accepted later.
DecisionHolds_AnyId(d, found, rejected) ==
    /\ d.accept \subseteq found /\ d.reject \subseteq found \cap d.reasons
    /\ found \subseteq d.accept \cup d.reject \cup rejected

\* validateSupervisorDecision
DecisionHolds(d, found, rejected) ==
    /\ d.accept \subseteq found \ rejected
    /\ d.reject \subseteq found \cap d.reasons
    /\ found \subseteq d.accept \cup d.reject \cup rejected

\* The round, and upsertRejectHistory.
Judged(e, d) ==
    [e EXCEPT !.accepted = d.accept, !.rejected = @ \cup d.reject,
              !.task = IF d.accept # {} THEN SuperviseAccept(@) ELSE SuperviseClean(@)]

Decide ==
    /\ Step("supervise", "return")
    /\ \E d \in Decision :
          /\ ContractKept(d) /\ DecisionHolds(d, findings, mem.rejected)
          /\ mem' = Judged(mem, d)
    /\ UNCHANGED <<disk, findings, lastReview>>

\* One decision that does not hold is sent back, the second is a failure.
DecideWrongly ==
    /\ \E d \in Decision : ~(ContractKept(d) /\ DecisionHolds(d, findings, mem.rejected))
    /\ UNCHANGED <<findings, lastReview>>
    /\ \/ /\ ~mem.corrected /\ Step("supervise", "supervise")
          /\ mem' = [mem EXCEPT !.corrected = TRUE] /\ disk' = mem'
       \/ /\ mem.corrected /\ Step("supervise", "return")
          /\ Return(Fail(mem.task, "other"))

AgentStops ==
    /\ Step("review", "return") \/ Step("supervise", "return")
    /\ \/ Return(Pause(mem.task, "rate_limited"))
       \/ Return(Fail(mem.task, "other"))
    /\ UNCHANGED <<findings, lastReview>>

Persist ==
    /\ Step("return", "none")
    /\ disk' = mem /\ findings' = {}
    /\ UNCHANGED <<mem, lastReview>>

Crash ==
    /\ at # "none" /\ at' = "none"
    /\ mem' = disk /\ findings' = {}
    /\ UNCHANGED <<disk, lastReview>>

-----------------------------------------------------------------------------
(* The rest of the pipeline, by what it does to the entry.                  *)

Elsewhere(e) ==
    /\ at = "none" /\ disk' = e /\ mem' = e
    /\ UNCHANGED <<at, findings, lastReview>>

With(t) == [disk EXCEPT !.task = t]

\* The fixer has pushed, with whatever it was told.
FixDone == disk.task.state = "fixing" /\ Elsewhere(With(FixPushed(disk.task)))

CiAnswers ==
    /\ disk.task.state = "ci_waiting"
    /\ \E t \in {CiFailed(disk.task), CiTimeout(disk.task), AutoMergeReserved(disk.task)} :
          Elsewhere(With(t))

\* The head has moved, before or after the reservation; after it, the accepted
\* findings are taken back (invalidateLatestAcceptedFindings).
HeadMoved ==
    /\ disk.task.state = "ci_waiting"
    /\ \E accepted \in {disk.accepted, {}} :
          Elsewhere([With(Pause(disk.task, "merge_sha_mismatch")) EXCEPT !.accepted = accepted])

Merged ==
    /\ disk.task.state = "merging"
    /\ Elsewhere(With(PrMerged(disk.task, disk.task.head)))

Resume == disk.task.state = "paused" /\ Elsewhere(With(ResumeTask(disk.task)))

\* clearRetryFields empties both lists; the task is queued again.
Retry ==
    /\ disk.task.state \in {"paused", "failed"}
    /\ Elsewhere([disk EXCEPT !.task = Enter(ClearRetryFields(@), "queued", "none"),
                              !.rejected = {}, !.accepted = {}])

Next ==
    \/ Begin \/ ReviewAnswers \/ SuperviseBefore \/ Decide \/ DecideWrongly
    \/ AgentStops \/ Persist \/ Crash
    \/ FixDone \/ CiAnswers \/ HeadMoved \/ Merged \/ Resume \/ Retry

Spec == Init /\ [][Next]_vars

-----------------------------------------------------------------------------

TypeOK ==
    /\ disk \in Entry /\ mem \in Entry
    /\ at \in {"none", "review", "before", "supervise", "return"}
    /\ findings \subseteq Ids /\ lastReview \subseteq Ids

PastReview(t) ==
    \/ t.state \in {"ci_waiting", "merging", "cleaning"}
    \/ t.state = "paused" /\ t.prev \in {"ci_waiting", "merging"}

(* No finding slips through: a task that has gone past its review, or was
   paused there, has every finding of that review in its reject history, be
   it from this round or an earlier one, whatever crash, wrong decision or
   resume lies between.  *)
NothingSlips == PastReview(disk.task) => lastReview \subseteq disk.rejected

(* A fix of a review has its cause: findings of the very review that sent the
   task to be fixed, none of which the supervisor has ever rejected.  *)
FixHasCause ==
    disk.task.state = "fixing" /\ disk.task.origin = "review" =>
        /\ disk.accepted # {} /\ disk.accepted \subseteq lastReview
        /\ disk.accepted \cap disk.rejected = {}
=============================================================================
