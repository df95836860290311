--------------------------- MODULE FindingsProofs ---------------------------
(***************************************************************************)
(* For every set of findings and all round limits: no finding slips        *)
(* through, and a fix of a review has its cause.                           *)
(*                                                                         *)
(* Neither is inductive: what is written when the workflow ends was        *)
(* decided in memory, against findings that are gone by then.  Inv says    *)
(* that the copy in memory already fits the last review, that the entry on *)
(* disk is still in review meanwhile, and where a paused task came from.   *)
(***************************************************************************)
EXTENDS Findings, TaskMachineProofs

Fits(e, last) ==
    /\ PastReview(e.task) => last \subseteq e.rejected
    /\ e.task.state = "fixing" /\ e.task.origin = "review" =>
          /\ e.accepted # {} /\ e.accepted \subseteq last
          /\ e.accepted \cap e.rejected = {}
    /\ e.task.state = "paused" => e.task.prev \in {"reviewing", "ci_waiting", "merging"}

Inv ==
    /\ TypeOK
    /\ Fits(disk, lastReview)
    /\ at = "none" => mem = disk
    /\ at # "none" => disk.task.state = "reviewing"
    /\ at \in {"review", "before", "supervise"} => mem.task.state = "reviewing"
    /\ at \in {"before", "supervise"} => findings = lastReview
    /\ at = "return" => Fits(mem, lastReview)

-----------------------------------------------------------------------------

(* The task the module begins with is a task entry.  *)
LEMMA InReviewType == InReview \in Task
<1>1. ImplementSteps \subseteq ImplementSteps /\ TRUE \in BOOLEAN /\ 1 \in Nat
  OBVIOUS
<1>2. "reviewing" \in States /\ "review" \in Phases
  BY Names
<1> QED BY <1>1, <1>2, NewTaskType DEF InReview, NewTask, Task

(* The parts of an entry.  *)
LEMMA EntryParts ==
    ASSUME NEW e \in Entry
    PROVE  e.task \in Task /\ e.rejected \subseteq Ids /\ e.accepted \subseteq Ids
  BY DEF Entry

(* An entry with another task.  *)
LEMMA EntryWithTask ==
    ASSUME NEW e \in Entry, NEW t \in Task
    PROVE  LET f == [e EXCEPT !.task = t]
           IN  /\ f \in Entry /\ f.task = t
               /\ f.rejected = e.rejected /\ f.accepted = e.accepted
  BY DEF Entry

(* An entry with other lists of findings.  *)
LEMMA EntryWithLists ==
    ASSUME NEW e \in Entry, NEW t \in Task, NEW c \in BOOLEAN,
           NEW accepted \in SUBSET Ids, NEW rejected \in SUBSET Ids
    PROVE  /\ [e EXCEPT !.task = t, !.rejected = rejected, !.accepted = accepted] \in Entry
           /\ [e EXCEPT !.accepted = accepted] \in Entry
           /\ [e EXCEPT !.corrected = c] \in Entry
  BY DEF Entry

(* Where the transitions lead.  *)
LEMMA Leads ==
    ASSUME NEW t \in Task, NEW code
    PROVE  /\ SuperviseClean(t).state = "ci_waiting"
           /\ ReviewCompleted(t).state = t.state
           /\ Fail(t, code).state = "failed"
           /\ FixPushed(t).state = "reviewing"
           /\ AutoMergeReserved(t).state = "merging"
           /\ SuperviseAccept(t).state \in {"failed", "fixing"}
           /\ \/ CiFailed(t).state = "failed"
              \/ CiFailed(t).state = "fixing" /\ CiFailed(t).origin = "ci"
  BY DEF SuperviseClean, ReviewCompleted, Fail, FixPushed, AutoMergeReserved,
         SuperviseAccept, CiFailed, Enter, Task

(* A task that is paused at work remembers where it was.  *)
LEMMA PausedFrom ==
    ASSUME NEW t \in Task, NEW code, t.state \in {"reviewing", "ci_waiting", "merging"}
    PROVE  Pause(t, code).state = "paused" /\ Pause(t, code).prev = t.state
  BY DEF Pause, Task, Active

-----------------------------------------------------------------------------

LEMMA InvInit == Init => Inv
<1> SUFFICES ASSUME Init PROVE Inv
  OBVIOUS
<1>1. disk \in Entry /\ mem \in Entry
  BY InReviewType DEF Init, Entry
<1>2. disk.task.state = "reviewing"
  BY DEF Init, InReview, NewTask
<1> QED BY <1>1, <1>2 DEF Init, Inv, TypeOK, Fits, PastReview

(* The steps of the review workflow.  *)
LEMMA WorkflowStep ==
    ASSUME Inv,
           Begin \/ ReviewAnswers \/ SuperviseBefore \/ Decide \/ DecideWrongly
             \/ AgentStops \/ Persist \/ Crash
    PROVE  Inv'
<1> USE DEF Inv, TypeOK, Step
<1>1. disk \in Entry /\ mem \in Entry /\ disk.task \in Task /\ mem.task \in Task
  BY EntryParts
<1>2. CASE Begin
  <2>1. CASE mem' = disk
    BY <1>1, <1>2, <2>1 DEF Begin
  <2>2. CASE mem' = [disk EXCEPT !.task = Fail(@, "other")] /\ at' = "return"
    <3>1. Fail(disk.task, "other") \in Task /\ Fail(disk.task, "other").state = "failed"
      BY <1>1, Names, StopTypes, Leads DEF FailureCodes
    <3>2. mem' \in Entry /\ mem'.task.state = "failed"
      <4> DEFINE t == Fail(disk.task, "other")
      <4>1. mem' = [disk EXCEPT !.task = t]
        BY <2>2
      <4> HIDE DEF t
      <4>2. t \in Task /\ t.state = "failed"
        BY <3>1 DEF t
      <4> QED BY <1>1, <4>1, <4>2, EntryWithTask
    <3> QED BY <1>1, <1>2, <2>2, <3>2 DEF Begin, Fits, PastReview
  <2> QED BY <1>2, <2>1, <2>2 DEF Begin
<1>3. CASE ReviewAnswers
  <2>1. PICK found \in SUBSET Ids :
          /\ findings' = found /\ lastReview' = found
          /\ IF OnlyKnown(found, mem.rejected)
             THEN Step("review", "return") /\ Return(SuperviseClean(ReviewCompleted(mem.task)))
             ELSE Step("review", "before") /\ Return(ReviewCompleted(mem.task))
    BY <1>3 DEF ReviewAnswers
  <2>2. /\ ReviewCompleted(mem.task) \in Task
        /\ SuperviseClean(ReviewCompleted(mem.task)) \in Task
    BY <1>1, DeliveryTypes
  <2>3. /\ ReviewCompleted(mem.task).state = mem.task.state
        /\ SuperviseClean(ReviewCompleted(mem.task)).state = "ci_waiting"
    BY <1>1, <2>2, Leads
  <2>4. CASE OnlyKnown(found, mem.rejected)
    <3>1. mem' \in Entry /\ mem'.task.state = "ci_waiting" /\ mem'.rejected = mem.rejected
      <4> DEFINE t == SuperviseClean(ReviewCompleted(mem.task))
      <4>1. mem' = [mem EXCEPT !.task = t]
        BY <2>1, <2>4 DEF Return
      <4> HIDE DEF t
      <4>2. t \in Task /\ t.state = "ci_waiting"
        BY <2>2, <2>3 DEF t
      <4> QED BY <1>1, <4>1, <4>2, EntryWithTask
    <3>2. Fits(mem, lastReview)'
      BY <2>1, <2>4, <3>1 DEF Fits, OnlyKnown
    <3> QED BY <2>1, <2>4, <3>1, <3>2 DEF Return, Fits, PastReview
  <2>5. CASE ~OnlyKnown(found, mem.rejected)
    <3>1. mem' \in Entry /\ mem'.task.state = "reviewing"
      <4>1. mem' = [mem EXCEPT !.task = ReviewCompleted(mem.task)] /\ at = "review"
        BY <2>1, <2>5 DEF Return
      <4>2. [mem EXCEPT !.task = ReviewCompleted(mem.task)] \in Entry
        BY <1>1, <2>2, EntryWithTask
      <4>3. mem'.task = ReviewCompleted(mem.task)
        BY <1>1, <4>1, <2>2, EntryWithTask
      <4> QED BY <2>3, <4>1, <4>2, <4>3
    <3> QED BY <2>1, <2>5, <3>1 DEF Return, Fits, PastReview
  <2> QED BY <2>4, <2>5
<1>4. CASE SuperviseBefore
  <2>1. mem' \in Entry /\ mem'.task = mem.task
    BY <1>1, <1>4, EntryWithLists DEF SuperviseBefore, Entry
  <2> QED BY <1>4, <2>1 DEF SuperviseBefore, Fits, PastReview
<1>5. CASE Decide
  <2>1. PICK d \in Decision :
          /\ ContractKept(d) /\ DecisionHolds(d, findings, mem.rejected)
          /\ mem' = Judged(mem, d)
    BY <1>5 DEF Decide
  <2>2. d.accept \subseteq Ids /\ d.reject \subseteq Ids
    BY <2>1 DEF Decision
  <2>3. SuperviseAccept(mem.task) \in Task /\ SuperviseClean(mem.task) \in Task
    BY <1>1, DeliveryTypes
  <2>4. /\ mem' \in Entry
        /\ mem'.accepted = d.accept /\ mem'.rejected = mem.rejected \cup d.reject
        /\ mem'.task = IF d.accept # {} THEN SuperviseAccept(mem.task)
                       ELSE SuperviseClean(mem.task)
    BY <1>1, <2>1, <2>2, <2>3, EntryWithLists DEF Judged, Entry
  <2>5. findings = lastReview
    BY <1>5 DEF Decide
  <2>6. CASE d.accept # {}
    <3>1. mem'.task.state \in {"failed", "fixing"}
      BY <1>1, <2>4, <2>6, Leads
    <3>2. /\ d.accept \subseteq lastReview
          /\ d.accept \cap (mem.rejected \cup d.reject) = {}
      BY <2>1, <2>5 DEF ContractKept, DecisionHolds
    <3>3. Fits(mem, lastReview)'
      BY <1>5, <2>4, <2>6, <3>1, <3>2 DEF Decide, Fits, PastReview
    <3> QED BY <1>5, <2>4, <3>3 DEF Decide
  <2>7. CASE d.accept = {}
    <3>1. mem'.task.state = "ci_waiting"
      BY <1>1, <2>4, <2>7, Leads
    <3>2. lastReview \subseteq mem.rejected \cup d.reject
      BY <2>1, <2>5, <2>7 DEF DecisionHolds
    <3>3. Fits(mem, lastReview)'
      BY <1>5, <2>4, <3>1, <3>2 DEF Decide, Fits, PastReview
    <3> QED BY <1>5, <2>4, <3>3 DEF Decide
  <2> QED BY <2>6, <2>7
<1>6. CASE DecideWrongly
  <2>1. CASE mem' = [mem EXCEPT !.corrected = TRUE] /\ disk' = mem' /\ Step("supervise", "supervise")
    <3>1. mem' \in Entry /\ mem'.task = mem.task
      BY <1>1, <2>1, EntryWithLists DEF Entry
    <3> QED BY <1>6, <2>1, <3>1 DEF DecideWrongly, Fits, PastReview
  <2>2. CASE Step("supervise", "return") /\ Return(Fail(mem.task, "other"))
    <3>1. Fail(mem.task, "other") \in Task /\ Fail(mem.task, "other").state = "failed"
      BY <1>1, StopTypes, Leads DEF FailureCodes
    <3>2. mem' \in Entry /\ mem'.task.state = "failed"
      <4> DEFINE t == Fail(mem.task, "other")
      <4>1. mem' = [mem EXCEPT !.task = t]
        BY <2>2 DEF Return
      <4> HIDE DEF t
      <4>2. t \in Task /\ t.state = "failed"
        BY <3>1 DEF t
      <4> QED BY <1>1, <4>1, <4>2, EntryWithTask
    <3> QED BY <1>6, <2>2, <3>2 DEF DecideWrongly, Return, Fits, PastReview
  <2> QED BY <1>6, <2>1, <2>2 DEF DecideWrongly
<1>7. CASE AgentStops
  <2>1. at' = "return" /\ mem.task.state = "reviewing"
    BY <1>7 DEF AgentStops
  <2>2. /\ Pause(mem.task, "rate_limited") \in Task /\ Fail(mem.task, "other") \in Task
        /\ Fail(mem.task, "other").state = "failed"
        /\ Pause(mem.task, "rate_limited").state = "paused"
        /\ Pause(mem.task, "rate_limited").prev = "reviewing"
    BY <1>1, <2>1, StopTypes, Leads, PausedFrom DEF FailureCodes
  <2>3. /\ mem' \in Entry
        /\ \/ mem'.task.state = "failed"
           \/ mem'.task.state = "paused" /\ mem'.task.prev = "reviewing"
    <3>1. PICK t \in Task :
            /\ mem' = [mem EXCEPT !.task = t]
            /\ \/ t.state = "failed"
               \/ t.state = "paused" /\ t.prev = "reviewing"
      <4>1. CASE mem' = [mem EXCEPT !.task = Pause(mem.task, "rate_limited")]
        BY <2>2, <4>1
      <4>2. CASE mem' = [mem EXCEPT !.task = Fail(mem.task, "other")]
        BY <2>2, <4>2
      <4> QED BY <1>7, <4>1, <4>2 DEF AgentStops, Return
    <3>2. mem' \in Entry /\ mem'.task = t
      BY <1>1, <3>1, EntryWithTask
    <3> QED BY <3>1, <3>2
  <2>4. Fits(mem, lastReview)'
    BY <2>3 DEF Fits, PastReview
  <2> QED BY <1>7, <2>1, <2>3, <2>4 DEF AgentStops, Return
<1>8. CASE Persist
  BY <1>1, <1>8 DEF Persist, Fits
<1>9. CASE Crash
  BY <1>1, <1>9 DEF Crash, Fits, PastReview
<1> QED BY <1>2, <1>3, <1>4, <1>5, <1>6, <1>7, <1>8, <1>9

(* What the rest of the pipeline does to the entry.  *)
LEMMA ElsewhereStep ==
    ASSUME Inv, NEW e \in Entry, Elsewhere(e), Fits(e, lastReview)
    PROVE  Inv'
  BY DEF Inv, TypeOK, Elsewhere, Fits

(* An entry with another task fits if that task is in none of the states that
   are in question.  *)
LEMMA FitsElsewhere ==
    ASSUME Inv, NEW t \in Task,
           \/ t.state \in {"reviewing", "failed", "queued"}
           \/ t.state = "fixing" /\ t.origin = "ci"
           \/ PastReview(disk.task) /\ t.state \in {"ci_waiting", "merging", "cleaning"}
           \/ PastReview(disk.task) /\ t.state = "paused" /\ t.prev \in {"ci_waiting", "merging"}
    PROVE  With(t) \in Entry /\ Fits(With(t), lastReview)
<1>1. disk \in Entry /\ lastReview \subseteq Ids
  BY DEF Inv, TypeOK
<1>2. /\ With(t) \in Entry /\ With(t).task = t
      /\ With(t).rejected = disk.rejected /\ With(t).accepted = disk.accepted
  BY <1>1, EntryWithTask DEF With
<1> QED BY <1>2 DEF Inv, Fits, PastReview

LEMMA PipelineStep ==
    ASSUME Inv, FixDone \/ CiAnswers \/ HeadMoved \/ Merged \/ Resume \/ Retry
    PROVE  Inv'
<1>1. disk \in Entry /\ disk.task \in Task /\ disk.accepted \subseteq Ids
  BY EntryParts DEF Inv, TypeOK
<1>2. CASE FixDone
  <2>1. FixPushed(disk.task) \in Task /\ FixPushed(disk.task).state = "reviewing"
    BY <1>1, DeliveryTypes, Leads
  <2> QED BY <1>2, <2>1, FitsElsewhere, ElsewhereStep DEF FixDone
<1>3. CASE CiAnswers
  <2>1. PICK t \in {CiFailed(disk.task), CiTimeout(disk.task), AutoMergeReserved(disk.task)} :
          Elsewhere(With(t))
    BY <1>3 DEF CiAnswers
  <2>2. disk.task.state = "ci_waiting" /\ PastReview(disk.task)
    BY <1>3 DEF CiAnswers, PastReview
  <2>3. t \in Task
    BY <1>1, <2>1, DeliveryTypes, EnterType, Names DEF AutoMergeReserved
  <2>4. \/ t.state = "failed" \/ t.state = "merging"
        \/ t.state = "fixing" /\ t.origin = "ci"
        \/ t.state = "paused" /\ t.prev = "ci_waiting"
    <3>1. CASE t = CiFailed(disk.task) \/ t = AutoMergeReserved(disk.task)
      BY <1>1, <3>1, Leads
    <3>2. CASE t = CiTimeout(disk.task)
      BY <1>1, <2>2, <3>2, Leads, PausedFrom DEF CiTimeout
    <3> QED BY <2>1, <3>1, <3>2
  <2> QED BY <2>1, <2>2, <2>3, <2>4, FitsElsewhere, ElsewhereStep
<1>4. CASE HeadMoved
  <2> DEFINE t == Pause(disk.task, "merge_sha_mismatch")
  <2>1. PICK accepted \in {disk.accepted, {}} :
          Elsewhere([With(t) EXCEPT !.accepted = accepted])
    BY <1>4 DEF HeadMoved
  <2>2. disk.task.state = "ci_waiting" /\ PastReview(disk.task)
    BY <1>4 DEF HeadMoved, PastReview
  <2>3. t \in Task /\ t.state = "paused" /\ t.prev = "ci_waiting"
    BY <1>1, <2>2, StopTypes, PausedFrom DEF FailureCodes
  <2>4. With(t) \in Entry /\ Fits(With(t), lastReview) /\ With(t).task = t
    BY <1>1, <2>2, <2>3, FitsElsewhere, EntryWithTask DEF With
  <2> HIDE DEF t
  <2> DEFINE e == [With(t) EXCEPT !.accepted = accepted]
  <2>5. e \in Entry /\ e.task = t /\ e.rejected = With(t).rejected
    BY <1>1, <2>1, <2>4, EntryWithLists DEF Entry
  <2>6. Fits(e, lastReview)
    BY <2>3, <2>4, <2>5 DEF Fits
  <2> QED BY <2>1, <2>5, <2>6, ElsewhereStep
<1>5. CASE Merged
  <2> DEFINE t == PrMerged(disk.task, disk.task.head)
  <2>1. disk.task.state = "merging" /\ PastReview(disk.task) /\ Elsewhere(With(t))
    BY <1>5 DEF Merged, PastReview
  <2>2. t = Pause(disk.task, "merge_sha_mismatch") \/ t = Enter(disk.task, "cleaning", "none")
    BY DEF PrMerged
  <2>3. t \in Task
    <3>1. "merge_sha_mismatch" \in FailureCodes /\ "cleaning" \in States /\ "none" \in Phases
      BY Names DEF FailureCodes
    <3> QED BY <1>1, <2>2, <3>1, StopTypes, EnterType
  <2>4. \/ t.state = "cleaning"
        \/ t.state = "paused" /\ t.prev = "merging"
    <3>1. Enter(disk.task, "cleaning", "none").state = "cleaning"
      BY <1>1 DEF Enter, Task
    <3> QED BY <1>1, <2>1, <2>2, <3>1, PausedFrom
  <2> QED BY <2>1, <2>3, <2>4, FitsElsewhere, ElsewhereStep
<1>6. CASE Resume
  <2>1. /\ disk.task.state = "paused" /\ Elsewhere(With(ResumeTask(disk.task)))
        /\ disk.task.prev \in {"reviewing", "ci_waiting", "merging"}
    BY <1>6 DEF Resume, Inv, Fits
  <2>2. ResumeTask(disk.task) \in Task /\ ResumeTask(disk.task).state = disk.task.prev
    BY <1>1, <2>1, StopTypes DEF ResumeTask, Task
  <2>3. disk.task.prev # "reviewing" => PastReview(disk.task)
    BY <2>1 DEF PastReview
  <2> QED BY <2>1, <2>2, <2>3, FitsElsewhere, ElsewhereStep
<1>7. CASE Retry
  <2> DEFINE t == Enter(ClearRetryFields(disk.task), "queued", "none")
  <2> DEFINE e == [disk EXCEPT !.task = t, !.rejected = {}, !.accepted = {}]
  <2>1. Elsewhere(e)
    BY <1>7 DEF Retry
  <2>2. ClearRetryFields(disk.task) \in Task
    BY <1>1, MergeTypes
  <2>3. t \in Task /\ t.state = "queued"
    BY <2>2, EnterType, Names DEF Enter, Task
  <2> HIDE DEF t
  <2>4. e \in Entry /\ e.task = t
    BY <1>1, <2>3, EntryWithLists DEF Entry
  <2>5. Fits(e, lastReview)
    BY <2>3, <2>4 DEF Fits, PastReview
  <2> QED BY <2>1, <2>4, <2>5, ElsewhereStep
<1> QED BY <1>2, <1>3, <1>4, <1>5, <1>6, <1>7

-----------------------------------------------------------------------------

LEMMA Invariant == Spec => []Inv
<1>1. Inv /\ [Next]_vars => Inv'
  <2> SUFFICES ASSUME Inv, [Next]_vars PROVE Inv'
    OBVIOUS
  <2>1. CASE UNCHANGED vars
    BY <2>1 DEF vars, Inv, TypeOK, Fits, PastReview
  <2> QED BY <2>1, WorkflowStep, PipelineStep DEF Next
<1> QED BY InvInit, <1>1, PTL DEF Spec

(* Every entry the review workflow and its surroundings write is well formed,
   its lists name findings only.  *)
THEOREM FindingsTypeCorrect == Spec => []TypeOK
<1>1. Inv => TypeOK
  BY DEF Inv
<1> QED BY Invariant, <1>1, PTL

(* No finding of the last review is lost on the way past it.  (NothingSlips) *)
THEOREM NoFindingSlips == Spec => []NothingSlips
<1>1. Inv => NothingSlips
  BY DEF Inv, Fits, NothingSlips
<1> QED BY Invariant, <1>1, PTL

(* The supervisor's rejections are never reversed into a fix.  (FixHasCause) *)
THEOREM FixesHaveCause == Spec => []FixHasCause
<1>1. Inv => FixHasCause
  BY DEF Inv, Fits, FixHasCause
<1> QED BY Invariant, <1>1, PTL
=============================================================================
