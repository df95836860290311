----------------------------- MODULE PhaseRunner -----------------------------
(***************************************************************************)
(* One phase of a task, from the command that starts it to the agent's     *)
(* answer: runPhase and runCompletedPhase of workflows/src/index.ts inside *)
(* runProductionWorkflow of cli/src/executor.ts, with the --phase option   *)
(* that gives the phase to another provider for one run.                   *)
(*                                                                         *)
(* disk is the entry in tasks.yaml and mem the copy the workflow works on. *)
(* A step ends where the code awaits or writes; a crash may follow it.     *)
(***************************************************************************)
EXTENDS AgentProcess, AgentOutput

CONSTANTS
    Configured,  \* config.phases[phase].provider
    Overrides,   \* providers the operator may ask for, for one run
    MaxCrashes   \* a bound

ASSUME RunnerAssumption == Configured \in Providers /\ Overrides \subseteq Providers

VARIABLES
    disk, mem,
    at,        \* what the run does
    run,       \* the number of the latest run
    kept,      \* previousProviderSession of the run's override
    turn,      \* the turn of runPhase
    fresh,     \* phaseStartedInThisInvocation
    checked,   \* coldRestartChecked
    asked,     \* (history) runs that were given an override
    crashed,   \* (history) runs that crashed
    calls,     \* (history) how often this run has called the runner
    fruitless, \* (history) runs that called an agent anew, and heard nothing
    corrections \* (history) self-corrections of the phase

runnerVars == <<disk, mem, at, run, kept, turn, fresh, checked,
                asked, crashed, calls, fruitless, corrections>>
vars == <<processVars, runnerVars>>
history == <<asked, crashed, calls, fruitless, corrections>>

None == "none"
Session == [ids : SUBSET Providers, last : Providers \cup {None}]
NoSession == [ids |-> {}, last |-> None]
Override == [run : 0..MaxRuns, provider : Providers]
NoOverride == [run |-> 0, provider |-> Configured]

\* before: the checkpoint's before_sha is set.  effort: the provider that
\* resolved_effort was resolved for.  "next": the phase is completed.
Entry == [status : {"queued", "active", "paused", "failed", "next"},
          before : BOOLEAN, attempt : 0..3, corrected : BOOLEAN,
          session : Session, effort : Providers \cup {None}, override : Override]

NewEntry == [status |-> "queued", before |-> FALSE, attempt |-> 0, corrected |-> FALSE,
             session |-> NoSession, effort |-> None, override |-> NoOverride]

\* runPhase, from its checkpoint to the answer, and the end of the run.
Phases == {"before", "effort", "cold", "call", "wait_probe", "wait_agent"}
Labels == Phases \cup {"none", "return", "clear"}

Init ==
    /\ ProcessInit
    /\ disk = NewEntry /\ mem = NewEntry /\ at = "none" /\ run = 0
    /\ kept = NoSession /\ turn = 0 /\ fresh = FALSE /\ checked = FALSE
    /\ asked = {} /\ crashed = {} /\ calls = 0 /\ fruitless = 0 /\ corrections = 0

Remember(t) == mem' = t /\ UNCHANGED disk
Persist(t) == mem' = t /\ disk' = t
Go(label) == at' = label

\* The run is over: its locals, and what is known of its calls, are gone.
Finish ==
    /\ Go("none") /\ mem' = disk'
    /\ kept' = NoSession /\ turn' = 0 /\ fresh' = FALSE /\ checked' = FALSE
    /\ calls' = 0 /\ UNCHANGED run

SameCall == UNCHANGED <<run, kept, turn, fresh, checked>>
Pass == UNCHANGED <<processVars, history>>

\* The workflow returns the task with its failure, in memory.
Stop(status) == Remember([mem EXCEPT !.status = status]) /\ Go("return") /\ SameCall

Provider(t) ==
    IF t.override.run # 0 THEN t.override.provider
    ELSE IF t.session.last # None THEN t.session.last ELSE Configured

-----------------------------------------------------------------------------
(* applyPhaseOverrideForRun refuses a task that has an override, of a run   *)
(* that did not clear it.  A paused task is selected, and left alone.       *)

Select ==
    /\ at = "none" /\ run < MaxRuns
    /\ disk.status \in {"queued", "active", "paused"} /\ disk.override.run = 0
    /\ run' = run + 1
    /\ \/ disk' = disk /\ asked' = asked /\ kept' = NoSession
       \/ \E p \in Overrides :
             /\ disk' = [disk EXCEPT !.override = [run |-> run + 1, provider |-> p]]
             /\ asked' = asked \cup {run + 1}
             /\ kept' = disk.session
    /\ IF disk.status = "queued"
       THEN mem' = [disk' EXCEPT !.status = "active", !.attempt = 0, !.corrected = FALSE]
       ELSE mem' = disk'
    /\ Go(IF disk.status = "paused" THEN "clear" ELSE "before")
    /\ turn' = 0 /\ checked' = FALSE /\ fresh' = (disk.status = "queued")
    /\ UNCHANGED <<processVars, crashed, calls, fruitless, corrections>>

\* ensureSimplePhaseBeforeCheckpoint; `git rev-parse` may fail.
EnsureBefore ==
    /\ at = "before" /\ Pass
    /\ \/ mem.before /\ UNCHANGED <<disk, mem>> /\ Go("effort") /\ SameCall
       \/ ~mem.before /\ Persist([mem EXCEPT !.before = TRUE]) /\ Go("effort") /\ SameCall
       \/ ~mem.before /\ Stop("failed")

\* resolveAndPersistEffort; the effort may be one the provider does not have.
ResolveEffort ==
    LET p == Provider(mem) IN
    /\ at = "effort" /\ Pass
    /\ \/ /\ IF mem.effort = p /\ mem.session.last = p
             THEN UNCHANGED <<disk, mem>>
             ELSE Persist([mem EXCEPT !.effort = p, !.session.last = p])
          /\ Go(IF checked THEN "call" ELSE "cold") /\ SameCall
       \/ Stop("failed")

Cold == ~fresh /\ mem.before /\ Provider(mem) \notin mem.session.ids

\* Mutant of PrepareColdRestart: the count is not written.
PrepareColdRestart_InMemory ==
    LET t == [mem EXCEPT !.attempt = @ + 1] IN
    /\ at = "cold" /\ Pass
    /\ checked' = TRUE
    /\ IF ~Cold THEN UNCHANGED <<disk, mem>> /\ Go("call")
       ELSE IF t.attempt >= 3 THEN Persist([t EXCEPT !.status = "failed"]) /\ Go("return")
       ELSE Remember(t) /\ Go("call")
    /\ UNCHANGED <<run, kept, turn, fresh>>

\* prepareColdRestartAttempt: the third time the phase starts anew, without
\* a session to resume and without an answer in between, is the last.
PrepareColdRestart ==
    LET t == [mem EXCEPT !.attempt = @ + 1] IN
    /\ at = "cold" /\ Pass
    /\ checked' = TRUE
    /\ IF ~Cold THEN UNCHANGED <<disk, mem>> /\ Go("call")
       ELSE IF t.attempt >= 3 THEN Persist([t EXCEPT !.status = "failed"]) /\ Go("return")
       ELSE Persist(t) /\ Go("call")
    /\ UNCHANGED <<run, kept, turn, fresh>>

-----------------------------------------------------------------------------
(* options.runner: runClaude, or runCodex with its probe first              *)

\* The answer to the question of the turn before is longer than the prompt
\* may quote.  (After a correction there is no answer to quote; that turn is
\* not told apart.)  One unfed process at a time is followed, a bound.
AnswerTooLong == turn > 0 /\ \A c \in children : c.state # "unfed"

CallRunner ==
    /\ at = "call"
    /\ calls' = calls + 1
    /\ fruitless' = IF calls = 0 /\ Provider(mem) \notin mem.session.ids
                    THEN fruitless + 1 ELSE fruitless
    /\ \/ /\ Provider(mem) = "claude" /\ StartChild(run, "claude")
          /\ Go("wait_agent") /\ UNCHANGED <<disk, mem>> /\ SameCall
       \/ /\ Provider(mem) = "codex" /\ StartChild(run, "codex")
          /\ Go("wait_probe") /\ UNCHANGED <<disk, mem>> /\ SameCall
       \/ /\ Provider(mem) = "claude" /\ AnswerTooLong /\ StartNone
          /\ Go("wait_agent") /\ UNCHANGED <<disk, mem>> /\ SameCall
       \/ \* it cannot be started, or may not be in that directory
          (Stop("failed") \/ Stop("paused")) /\ UNCHANGED processVars
    /\ UNCHANGED <<asked, crashed, corrections>>

ProbeAnswers ==
    /\ at = "wait_probe" /\ verdict # "none"
    /\ \/ /\ verdict = "exited" /\ StartChild(run, "codex")
          /\ Go("wait_agent") /\ UNCHANGED <<disk, mem>> /\ SameCall
       \/ /\ verdict = "exited" /\ AnswerTooLong /\ LeaveUnfed(run, "codex")
          /\ Go("wait_agent") /\ UNCHANGED <<disk, mem>> /\ SameCall
       \/ /\ Stop("failed") \/ (verdict = "exited" /\ Stop("paused"))
          /\ verdict' = "none" /\ UNCHANGED children
    /\ UNCHANGED history

\* applyRunnerError: a failure, or a pause when the sandbox was violated.
RunnerThrows ==
    /\ at = "wait_agent"
    /\ \E told \in Told(Provider(mem), verdict) :
          /\ told.kind = "throws" /\ told.code # "prompt_contract_violation"
          /\ Stop(IF told.code = "sandbox_violation" THEN "paused" ELSE "failed")
    /\ verdict' = "none"
    /\ UNCHANGED <<children, history>>

\* Mutant of EndTurn: one turn too many.
EndTurn_OneMore(t) ==
    /\ IF turn < 3 THEN mem' = t /\ Go("before")
       ELSE mem' = [t EXCEPT !.status = "paused"] /\ Go("return")
    /\ turn' = turn + 1
    /\ UNCHANGED <<run, kept, fresh, checked>>

\* The next turn of runPhase, or none left: need_input_pending.
EndTurn(t) ==
    /\ IF turn + 1 < 3 THEN mem' = t /\ Go("before")
       ELSE mem' = [t EXCEPT !.status = "paused"] /\ Go("return")
    /\ turn' = turn + 1
    /\ UNCHANGED <<run, kept, fresh, checked>>

\* runWithSelfCorrection: once in a phase, and on disk before the agent is
\* called again.
Correct(t) ==
    /\ t.corrected = FALSE
    /\ disk' = [t EXCEPT !.corrected = TRUE]
    /\ corrections' = corrections + 1

\* An output or a prompt that breaks the contract: the turn is used up.
ContractViolated ==
    /\ at = "wait_agent"
    /\ \/ verdict = "refused"
       \/ Throws("prompt_contract_violation") \in Told(Provider(mem), verdict)
    /\ \/ Correct(mem) /\ EndTurn([mem EXCEPT !.corrected = TRUE])
       \/ mem.corrected /\ Stop("failed") /\ UNCHANGED corrections
    /\ verdict' = "none"
    /\ UNCHANGED <<children, asked, crashed, calls, fruitless>>

\* applyRunnerMetadata and resetPhaseAttemptAfterRunnerProgress
Heard(named) ==
    [mem EXCEPT !.attempt = 0,
                !.session = IF named THEN [ids |-> @.ids \cup {Provider(mem)},
                                           last |-> Provider(mem)] ELSE @]

WriteProgress(t) == disk' = IF mem.attempt = 0 THEN disk ELSE t

\* Data refused by validate: runPhase is called again.
BadData(t) ==
    \/ /\ Correct(t) /\ mem' = [t EXCEPT !.corrected = TRUE]
       /\ Go("before") /\ turn' = 0 /\ checked' = FALSE
       /\ UNCHANGED <<run, kept, fresh>>
    \/ /\ t.corrected /\ mem' = [t EXCEPT !.status = "failed"] /\ WriteProgress(t)
       /\ Go("return") /\ SameCall /\ UNCHANGED corrections

\* handleNonCompletedOutput, or the transition that completes the phase.
EndPhase(t, status) ==
    /\ mem' = [t EXCEPT !.status = status,
                        !.corrected = IF status = "next" THEN FALSE ELSE @]
    /\ WriteProgress(t)
    /\ Go("return") /\ SameCall /\ UNCHANGED corrections

\* A question is answered, or there is nobody to answer it.
Handle(t, status) ==
    CASE status = "need_input" ->
           \/ EndTurn(t) /\ WriteProgress(t) /\ UNCHANGED corrections
           \/ EndPhase(t, "paused")
      [] status = "completed" -> BadData(t) \/ EndPhase(t, "next")
      [] status = "failed" -> EndPhase(t, "failed")
      [] OTHER -> EndPhase(t, "paused")

AgentAnswers ==
    /\ at = "wait_agent"
    /\ \E told \in Told(Provider(mem), verdict) :
          told.kind = "answers" /\ Handle(Heard(told.named), told.status)
    /\ fruitless' = 0
    /\ verdict' = "none"
    /\ UNCHANGED <<children, asked, crashed, calls>>

-----------------------------------------------------------------------------
(* The end of the run                                                       *)

Return ==
    /\ at = "return" /\ Pass
    /\ Persist(mem) /\ Go("clear") /\ SameCall

\* Mutant of Cleared: the session of the phase is not put back.
Cleared_Override(t) == [t EXCEPT !.override = NoOverride]

Cleared(t) == [t EXCEPT !.override = NoOverride, !.session = kept]

\* clearPhaseOverrideForRun, also when the run fails.
Clear ==
    /\ at = "clear"
    /\ disk' = IF disk.override.run = run THEN Cleared(disk) ELSE disk
    /\ Finish
    /\ UNCHANGED <<processVars, asked, crashed, fruitless, corrections>>

Crash ==
    /\ at # "none" /\ Cardinality(crashed) < MaxCrashes
    /\ crashed' = crashed \cup {run}
    /\ Abandon(run)
    /\ UNCHANGED disk /\ Finish
    /\ UNCHANGED <<asked, fruitless, corrections>>

-----------------------------------------------------------------------------
(* The operator: `autokit resume`, and `autokit retry` of a failed task, or *)
(* of one that a crash left with an override.                               *)

Resume ==
    /\ at = "none" /\ disk.status = "paused"
    /\ Persist([disk EXCEPT !.status = "active"])
    /\ UNCHANGED at /\ SameCall /\ Pass

Retry ==
    /\ at = "none" /\ disk.status \in {"failed", "active", "paused"}
    /\ disk.status = "failed" \/ disk.override.run # 0
    /\ Persist(NewEntry)
    /\ fruitless' = 0 /\ corrections' = 0
    /\ UNCHANGED <<at, asked, crashed, calls>> /\ SameCall /\ UNCHANGED processVars

Run == \/ EnsureBefore \/ ResolveEffort \/ PrepareColdRestart \/ CallRunner
       \/ ProbeAnswers \/ RunnerThrows \/ ContractViolated \/ AgentAnswers
       \/ Return \/ Clear

Process == (\E c \in children : ChildCloses(c) \/ ChildTimesOut(c)
                                  \/ TermedEnds(c) \/ OrphanEnds(c))
             /\ UNCHANGED runnerVars

Next == Select \/ Run \/ Crash \/ Resume \/ Retry \/ Process

\* The timer of a live run fires, if what it waits for does not end before.
Timer == (\E c \in children : ChildTimesOut(c)) /\ UNCHANGED runnerVars

Spec == Init /\ [][Next]_vars /\ WF_vars(Run) /\ WF_vars(Timer)

-----------------------------------------------------------------------------

TypeOK ==
    /\ ProcessTypeOK
    /\ disk \in Entry /\ mem \in Entry /\ at \in Labels /\ run \in 0..MaxRuns
    /\ kept \in Session /\ turn \in 0..3 /\ {fresh, checked} \subseteq BOOLEAN
    /\ asked \subseteq Runs /\ crashed \subseteq Runs
    /\ {calls, fruitless, corrections} \subseteq Nat

(* However often the run crashes, is paused or is taken up again, a phase
   sends its agent off anew three times without an answer at most, corrects
   it once, and calls it six times in one run at most.  *)
RetriesBounded == fruitless <= 3 /\ corrections <= 1 /\ calls <= 6

(* Another provider works on the phase in the run that was asked to give it
   to that provider and in no later one, whatever became of that run; and an
   override is left behind only by a crash.  *)
OverrideForOneRun ==
    /\ \A c \in children : c.provider # Configured => c.run \in asked
    /\ at = "none" => disk.override.run \in {0} \cup crashed

(* A run never has two processes at work, the one it has given up on
   included: until a timed out agent is gone, the run does not start another
   beside it in the worktree.  Left out is a Codex process whose prompt was
   refused after it was started: it has no prompt to work on.  *)
AtMostOneOwn ==
    \A c, d \in children :
        c.run = d.run => c = d \/ "unfed" \in {c.state, d.state}

(* A run ends, whatever its agent does or fails to do.  (Its work, that is:
   the program itself stays as long as an unfed process does.)  *)
EachRunEnds == at # "none" ~> at = "none"
=============================================================================
