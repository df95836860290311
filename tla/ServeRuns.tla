------------------------------ MODULE ServeRuns ------------------------------
(***************************************************************************)
(* The runs of `autokit serve`: a POST request is answered from the run    *)
(* records on disk or takes the run lock, writes a record and starts a     *)
(* workflow in the background; a new server marks the runs an earlier one  *)
(* left behind (packages/serve/src/index.ts).  The lock is the one of      *)
(* module RunLock, each attempt to take it in one step.                    *)
(*                                                                         *)
(* A handler runs from its last await to its end without being            *)
(* interrupted, so accepting a request is one action.                      *)
(***************************************************************************)
EXTENDS Integers, FiniteSets

CONSTANTS
    Issues,      \* the issues there are tasks for
    Keys,        \* idempotency keys
    Operations,  \* what a request may ask for
    MaxRuns,     \* how many runs are accepted (a bound)
    MaxStarts,   \* how often the server is started (a bound)
    ServeFaults  \* subset of {"crash", "announce", "record_write", "stray_file"}

ASSUME ServeAssumption ==
    /\ MaxRuns \in Nat /\ MaxStarts \in Nat
    /\ Operations \subseteq {"run", "resume", "retry", "cleanup"}

VARIABLES
    up,      \* the server listens
    starts,  \* how often it was started
    record,  \* record[r]: the run record on disk
    made,    \* how many run identifiers were used
    stage,   \* stage[r]: where the server that carries r is
    result,  \* result[r]: what r's workflow returned, until it is recorded
    lock,    \* who holds the run lock: a run, or one of the values below
    stale,   \* the process that held the lock is dead
    task     \* task[i]: whether hasActiveTaskConflict finds i's task active

serveVars == <<up, starts, record, made, stage, result, lock, stale, task>>

Runs == 1..MaxRuns
None == "none"
NoRecord == [operation |-> None, issue |-> None, key |-> None, status |-> None]

Results == {"completed", "paused", "failed", "interrupted"}
Statuses == Results \cup {"accepted", "running", "resume_required", None}
Records == [operation : Operations \cup {None}, issue : Issues \cup {None},
            key : Keys \cup {None}, status : Statuses]
CarriedAt == {"accepted", "working", "ended", "announcing", "recorded"}

Free == 0
Command == -1  \* a command started by hand
Jammed == -2   \* the lock directory holds a file that nobody removes

ServeTypeOK ==
    /\ up \in BOOLEAN /\ starts \in 0..MaxStarts
    /\ record \in [Runs -> Records]
    /\ made \in 0..MaxRuns
    /\ stage \in [Runs -> CarriedAt \cup {None}]
    /\ result \in [Runs -> Results \cup {"threw", None}]
    /\ lock \in Runs \cup {Free, Command, Jammed}
    /\ stale \in BOOLEAN
    /\ task \in [Issues -> {"waiting", "active"}]

ServeInit ==
    /\ up = FALSE /\ starts = 0 /\ made = 0
    /\ record = [r \in Runs |-> NoRecord]
    /\ stage = [r \in Runs |-> None]
    /\ result = [r \in Runs |-> None]
    /\ lock = Free /\ stale = FALSE
    /\ task = [i \in Issues |-> "waiting"]

SetStatus(r, s) == record' = [record EXCEPT ![r].status = s]
Goto(r, s) == stage' = [stage EXCEPT ![r] = s]
Carried(r) == up /\ stage[r] # None

\* tryAcquireRunLock: a stale lock is taken over.
CanLock == lock = Free \/ stale

\* atomicWriteJson throws (the disk is full).
WriteFails == "record_write" \in ServeFaults
Concerns(r, i) == record[r].issue = i \/ record[r].issue = None

-----------------------------------------------------------------------------
(* The server starts and stops.                                            *)

\* Mutant of Start: only runs that had begun are marked.
Start_RunningOnly ==
    /\ ~up /\ starts < MaxStarts
    /\ up' = TRUE /\ starts' = starts + 1
    /\ record' = [r \in Runs |->
                    IF record[r].status = "running"
                    THEN [record[r] EXCEPT !.status = "resume_required"]
                    ELSE record[r]]
    /\ UNCHANGED <<made, stage, result, lock, stale, task>>

\* markInterruptedRunsResumeRequired
Start ==
    /\ ~up /\ starts < MaxStarts
    /\ up' = TRUE /\ starts' = starts + 1
    /\ record' = [r \in Runs |->
                    IF record[r].status \in {"accepted", "running"}
                    THEN [record[r] EXCEPT !.status = "resume_required"]
                    ELSE record[r]]
    /\ UNCHANGED <<made, stage, result, lock, stale, task>>

\* The process dies; or it is told to stop, which waits for the open requests
\* and not for the workflows in the background.
Die ==
    /\ up
    /\ \/ "crash" \in ServeFaults
       \/ \A r \in Runs : Carried(r) => record[r].operation # "cleanup"
    /\ up' = FALSE
    /\ stage' = [r \in Runs |-> None]
    /\ result' = [r \in Runs |-> None]
    /\ stale' = (stale \/ lock \in Runs)
    /\ UNCHANGED <<starts, record, made, lock, task>>

-----------------------------------------------------------------------------
(* handleMutation                                                          *)

\* Mutant of Known: only runs that are under way are looked for.
Known_OpenOnly(op, k) ==
    /\ k # None
    /\ \E r \in Runs : /\ record[r].operation = op /\ record[r].key = k
                       /\ record[r].status \in {"accepted", "running"}

\* findRunByIdempotency: such a request is answered from the record.
Known(op, k) ==
    k # None /\ \E r \in Runs : record[r].operation = op /\ record[r].key = k

\* Mutant of ResumeRequired: a run of any task does not look at the issues.
ResumeRequired_SameIssue(op, i) ==
    \E r \in Runs : /\ record[r].status = "resume_required"
                    /\ record[r].operation = op
                    /\ record[r].issue = i

\* findResumeRequiredRun
ResumeRequired(op, i) ==
    \E r \in Runs : /\ record[r].status = "resume_required"
                    /\ record[r].operation = op
                    /\ i = None \/ record[r].issue = i

ActiveTaskConflict(i) ==
    \E j \in Issues : (i = None \/ i = j) /\ task[j] = "active"

Accept(op, i, k) ==
    /\ up /\ made < MaxRuns
    /\ op = "retry" => i # None
    /\ op = "cleanup" => k = None
    /\ ~Known(op, k) /\ ~ResumeRequired(op, i) /\ ~ActiveTaskConflict(i)
    /\ CanLock
    /\ made' = made + 1 /\ lock' = made + 1 /\ stale' = FALSE
    /\ \/ /\ record' = [record EXCEPT ![made + 1] =
                [operation |-> op, issue |-> i, key |-> k, status |-> "accepted"]]
          /\ Goto(made + 1, "accepted")
       \/ \* writeRunRecord throws: the answer is 500, the lock stays
          /\ WriteFails /\ UNCHANGED <<record, stage>>
    /\ UNCHANGED <<up, starts, result, task>>

-----------------------------------------------------------------------------
(* runCoordinator, and the same for a cleanup within the request.  Whatever *)
(* throws in the try block makes the run one that threw; when the catch     *)
(* block cannot write its record either, the record stays as it was, and a  *)
(* cleanup keeps the lock.                                                  *)

\* publishTaskState reads tasks.yaml and throws when it cannot.
AnnounceFails == "announce" \in ServeFaults

Cleanup(r) == record[r].operation = "cleanup"
Threw(r) == Goto(r, "ended") /\ result' = [result EXCEPT ![r] = "threw"]

Begin(r) ==
    /\ Carried(r) /\ stage[r] = "accepted"
    /\ \/ /\ Cleanup(r)
          /\ Goto(r, "working") /\ UNCHANGED <<record, result>>
       \/ /\ ~Cleanup(r) /\ SetStatus(r, "running")
          /\ \/ Goto(r, "working") /\ UNCHANGED result
             \/ AnnounceFails /\ record[r].issue # None /\ Threw(r)
       \/ /\ ~Cleanup(r) /\ WriteFails
          /\ UNCHANGED record /\ Threw(r)
    /\ UNCHANGED <<up, starts, made, lock, stale, task>>

\* The workflow moves the task of one issue it is about.
Work(r) ==
    /\ Carried(r) /\ stage[r] = "working"
    /\ \E i \in Issues :
          /\ Concerns(r, i)
          /\ task' = [task EXCEPT ![i] = "active"]
    /\ UNCHANGED <<up, starts, record, made, stage, result, lock, stale>>

\* It returns when no task can go on, or throws with a task half way.  What it
\* returned may be impossible to write, which is an exception as well.
WorkflowEnds(r) ==
    /\ Carried(r) /\ stage[r] = "working"
    /\ Goto(r, "ended")
    /\ \/ /\ \E s \in {"completed", "paused", "failed", "threw"} :
                /\ s = "threw" => WriteFails
                /\ result' = [result EXCEPT ![r] = s]
          /\ task' = [i \in Issues |-> IF Concerns(r, i) THEN "waiting" ELSE task[i]]
       \/ /\ \E s \in {"interrupted", "paused", "threw"} : result' = [result EXCEPT ![r] = s]
          /\ UNCHANGED task
    /\ UNCHANGED <<up, starts, record, made, lock, stale>>

\* Mutant of RecordResult: the lock is given back before the status is there.
RecordResult_AfterRelease(r) ==
    /\ Carried(r) /\ stage[r] = "ended"
    /\ IF result[r] = "threw" THEN SetStatus(r, "failed") ELSE SetStatus(r, result[r])
    /\ Goto(r, "announcing")
    /\ result' = [result EXCEPT ![r] = None]
    /\ lock' = Free
    /\ UNCHANGED <<up, starts, made, stale, task>>

\* The status is on disk before it is announced; a cleanup that threw has
\* nothing to announce.
RecordResult(r) ==
    /\ Carried(r) /\ stage[r] = "ended"
    /\ \/ /\ result[r] # "threw"
          /\ SetStatus(r, result[r]) /\ Goto(r, "announcing")
       \/ /\ result[r] = "threw"
          /\ SetStatus(r, "failed")
          /\ Goto(r, IF Cleanup(r) THEN "recorded" ELSE "announcing")
       \/ /\ result[r] = "threw" /\ WriteFails
          /\ UNCHANGED record
          /\ Goto(r, IF Cleanup(r) THEN None ELSE "recorded")
    /\ result' = [result EXCEPT ![r] = None]
    /\ UNCHANGED <<up, starts, made, lock, stale, task>>

\* An announcement that fails in the try block takes the run for failed.
Announce(r) ==
    /\ Carried(r) /\ stage[r] = "announcing"
    /\ \/ UNCHANGED record /\ Goto(r, "recorded")
       \/ /\ AnnounceFails /\ record[r].issue # None
          /\ \/ SetStatus(r, "failed") /\ Goto(r, "recorded")
             \/ /\ WriteFails /\ UNCHANGED record
                /\ Goto(r, IF Cleanup(r) THEN None ELSE "recorded")
    /\ UNCHANGED <<up, starts, made, result, lock, stale, task>>

\* Mutant of Release: a run that failed keeps the lock.
Release_KeptWhenFailed(r) ==
    /\ Carried(r) /\ stage[r] = "recorded"
    /\ Goto(r, None)
    /\ IF record[r].status = "failed" THEN UNCHANGED lock ELSE lock' = Free
    /\ UNCHANGED <<up, starts, record, made, result, stale, task>>

\* The finally block.
Release(r) ==
    /\ Carried(r) /\ stage[r] = "recorded"
    /\ Goto(r, None)
    /\ \/ lock' = Free /\ UNCHANGED record
       \/ /\ "stray_file" \in ServeFaults
          /\ lock' = Jammed
          /\ SetStatus(r, "failed") \/ (WriteFails /\ UNCHANGED record)
    /\ UNCHANGED <<up, starts, made, result, stale, task>>

Coordinate(r) == \/ Begin(r) \/ WorkflowEnds(r) \/ RecordResult(r)
                 \/ Announce(r) \/ Release(r)

-----------------------------------------------------------------------------
(* A command started by hand in the same repository.                       *)

TakeByHand ==
    /\ CanLock
    /\ lock' = Command /\ stale' = FALSE
    /\ UNCHANGED <<up, starts, record, made, stage, result, task>>

WorkByHand ==
    /\ lock = Command /\ ~stale
    /\ \E i \in Issues : \E s \in {"waiting", "active"} : task' = [task EXCEPT ![i] = s]
    /\ UNCHANGED <<up, starts, record, made, stage, result, lock, stale>>

LeaveByHand ==
    /\ lock = Command /\ ~stale
    /\ \/ lock' = Free /\ UNCHANGED stale
       \/ "crash" \in ServeFaults /\ stale' = TRUE /\ UNCHANGED lock
    /\ UNCHANGED <<up, starts, record, made, stage, result, task>>

ByHand == TakeByHand \/ WorkByHand \/ LeaveByHand

-----------------------------------------------------------------------------

(* A client that repeats a request with its key never starts a second run,
   whatever became of the first one.  *)
OneRunPerKey ==
    \A r, s \in Runs :
        record[r].key # None /\ record[r].key = record[s].key
            /\ record[r].operation = record[s].operation => r = s

(* A record that says a run is accepted or running is one the server that
   listens really carries.  *)
NoForgottenRun ==
    \A r \in Runs : up /\ record[r].status \in {"accepted", "running"} => Carried(r)

(* The lock is held from before the record is written until the final status
   is on disk, and never by a run that is over.  *)
LockSpansRun ==
    \A r \in Runs : /\ Carried(r) => lock = r /\ ~stale
                    /\ lock = r /\ ~stale => Carried(r)

(* A run that was cut off is not carried out a second time by repeating the
   request: no later run of the same operation on the same issue is begun, nor
   one on whatever task comes first.  *)
CutOffNotRepeated ==
    \A r, s \in Runs :
        /\ record[r].status = "resume_required" /\ r < s
        /\ record[r].operation = record[s].operation
        => record[s].issue \notin {record[r].issue, None}

(* A background run comes to its end, and gives the lock back.  *)
EveryRunEnds == \A r \in Runs : stage[r] # None ~> stage[r] = None /\ (lock # r \/ stale)
=============================================================================
