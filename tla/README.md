# Agent Autokit in TLA+

`autokit` carries a GitHub issue through planning, implementation, review, CI
and merge, with coding agents doing the work and a file, `.autokit/tasks.yaml`,
remembering how far each issue has come.  What is hard about it is not the agents
but the bookkeeping: every git and GitHub effect is recorded after it happened,
the process may die in between, a person may act on the pull request meanwhile,
and one `resume` or `retry` later the recorded state decides what is deleted
or merged.  Around it stand the lock that lets one command at a time do this, the
server that carries runs for a browser, and the runners that start the agents.
This directory models that bookkeeping, checks it with TLC and proves the parts
that must never go wrong with TLAPS.

Paths below are relative to `src/packages/`, SPEC is `src/docs/SPEC.md`.

## Inventory

| Component (source) | State | Operations | Correct when |
|---|---|---|---|
| Task state machine (`core/src/state-machine.ts`, `failure-codes.ts`) | a `TaskEntry` | the events of `transitionTask` | limits bound the rounds; a paused task can be resumed where it was; only a merge of the recorded head leads to cleaning |
| Planning (`workflows/src/index.ts` 289-402) | phase, round, plan body in memory, plan file | plan, verify, fix | the verifier and the implementer see the newest plan; failure by verdict only |
| Implement, review, fix (404-767, 1715-1830) | checkpoints of `implement` and `fix`, head, PR number, review rounds, reject history | agent, commit, push, create PR, rebase, review, supervise | one PR per branch; the recorded head is the published one; no finding slips past its review |
| CI wait, merge, cleaning (769-954, 1861-1930) | phase, reservation on GitHub, cleaning checkpoints | poll, reserve, recheck, cancel and wait, delete branch, remove worktree | nothing unreviewed is merged by the tool; nothing is deleted before the merge; no reservation outlives its wait |
| Executor (`cli/src/executor.ts`) | the copy in memory, the override of a run | load, dispatch on state, write after each workflow, stop, throw, set and clear the override | every run ends, and a workflow gets only tasks it accepts; an override is for one run |
| resume, retry, force-detach (`cli/src/index.ts`, `core/src/retry-cleanup.ts`) | `retry_cleanup_progress` | four recorded steps, clear, queue | a half retry is never run; a finished one leaves nothing of the old attempt |
| git and gh (`core/src/git.ts`, `gh.ts`, `pr.ts`) | repository, GitHub | the commands they build | - |
| Phase runner (`workflows` 979-1670) | attempts, effort, sessions, self-correction mark | cold restart, question turns, one correction | attempts and corrections bounded over crashes; one agent at a time; the run ends |
| Agent runners (`claude-runner`, `codex-runner`, `core/src/runner-contract.ts`) | child process | check the input, spawn, time out, parse, validate | what is told of an agent keeps the contract of its phase; only writing phases can write |
| tasks.yaml (`core/src/tasks.ts`) | file, backup, temporary file | load, atomic write, restore | readers see whole files; no update is lost; a crash loses at most the last write |
| Run lock (`core/src/process-lock.ts`) | lock directory, holder file, seizing file | acquire, recover, seize, release | one command at a time; given back by whoever goes on |
| Presets (`cli/src/preset.ts`, `core/src/assets-writer.ts`) | `.agents`, config.yaml, staged and set-aside trees, backup | apply, check, undo | the user's tree is never lost |
| Reconcile (`core/src/reconcile.ts`) | none | classify an entry | agrees with what a run does (no production code calls it) |
| HTTP server (`serve/src/index.ts`) | run records, lock, event buffer | start a run, mark interrupted ones, publish and replay events | no run twice, none forgotten; no event silently missed |
| Configuration, init | files | parse, copy | - |
| Logging, redaction, path safety, TUI | none or log files | text | - |

The components meet in four places: the task entry, which every workflow reads
and the executor writes; git and GitHub, which the workflows and the repair
commands change and everybody else may change too; the run lock, which admits one
of the writing commands at a time, the runs of the server included; and the agent's
process, which a run starts and may leave behind.  The hard behaviours, one by one
and with their lines, are the `hazards` of `PROJECT.json`.

## Modules

Four state machines, each with its composition and its instance for TLC, and three
modules of pure operators.

    TaskMachine        the task entry and transitionTask (operators only)
      Worker           disk, memory, the process; run, resume, write, crash
        Planning       runPlanningWorkflow
        Repository     git, GitHub and what others do to them
          Delivery     implement, review and supervise, fix
          Merging      CI wait, merge, cleaning
          Commands     retry, cleanup --force-detach
            IssuePipeline          all of it; the properties
              ReconciledPipeline   beside it, what reconcile would do (Reconcile)
                MCIssuePipeline    sets of faults for TLC
              DocumentedPromises   statements of SPEC the code does not keep
      Findings         one review after the other, finding by finding
      Reconcile        reconcileTask (operators only)

    RunLock            the run lock by system calls
    TasksFile          tasks.yaml by system calls
    PresetApply        preset apply by its steps
      LockedCommands   commands that take the lock and use one or the other
        implements SerialCommands    one at a time, no update lost

    ServeRuns          requests, run records, the lock of a background run
    SseHub             the event stream as a browser sees it
      Server           both: a run announces what it does

    AgentProcess       the process of an agent, its timer, its run's death
    AgentOutput        what the runner makes of its output (operators only)
      PhaseRunner      one phase of a task over several runs

    RunnerInput        what the workflow asks of a runner, what a runner takes
                       (operators only)

    TaskMachineProofs, FindingsProofs, LockedCommandsProofs, ServerProofs,
    PhaseRunnerProofs (with RunnerInput) and IssuePipelineInvariant, on it
    IssuePipelineSteps, on it IssuePipelineProofs: theorems and their proofs

### The pipeline

**State.**  `disk` is the entry in `tasks.yaml`, `mem` the copy of the process,
`pc` the workflow it is in and the wait inside it.  A task is a record of the
fields the control depends on: state, `runtime_phase` (`phase`), `previous_state`
(`prev`), failure code, the three rounds, `plan.state` (`verified`), `fix.origin`,
branch and worktree path (`named`: they are set and cleared together), PR number
(`pr`) and head, the checkpoints as sets of recorded steps, and the progress of
cleaning and of a retry.  A SHA is a number, 0 the absent one; commits are
numbered as they are made.  `worktree`, `local`, `edits`, `remote`, `ff`,
`behind`, `prState`, `prSha` and `armed` are the repository and the pull request;
`planFile`, `held` and `guard` the plan file and the locals of the planning
workflow; `reviewed` the head the last clean review saw (a history variable).

**Steps.**  An action is one handler between two waits.  An effect on git or GitHub
changes the repository and the copy in memory and leaves `dirty`; the write that
records it, `Save`, is the only next step, or a crash: that is the window the
checkpoints exist for.  `Return` is a workflow handing its task to the loop of the
executor, which writes it; `Throw` is an exception, after which nothing is written.
A poll that sees nothing to act on changes nothing and is no step; a timeout may
come at any poll.

**Simplifications.**  One task and one process (that the run lock admits one is
`LockedCommands`). Those guards of the workflows that no task of the executor fails are
not branches, and `GuardsAccept` checks that they cannot fire; those that can are in the
actions, and the two kinds of task that meet them are named there (`StoppedInSupervise`,
failed by the guard of the review, and `RetriedAndPlanned`, on which the executor throws).
The bound of 100 steps of the executor loop is never reached in the model and left out.
Failing writes of `tasks.yaml` (`queue_corruption`), a rebase left in progress and the
local half of `gh pr close --delete-branch` (its failure is a failing call) are left out.
`Crash` stands for a call of git or gh that throws as well as for the death of the
process, since both leave what is on disk; a run without crashes therefore has those
failing calls only that the code itself answers. Switching auto-merge off on a merged or
closed pull request does nothing. `removeTries` stops at `RemoveMax`, since the code only
asks whether it is reached. Agents, verifier, reviewer and supervisor are choices; the
question turns, cold restart, self-correction, effort and provider of a phase are inside
one step here, and steps of `PhaseRunner`.

### Findings

`IssuePipeline` knows a review by its outcome.  `Findings` starts a task in review and
follows each finding: what the reviewer reports (any set, each round), the supervisor's
decision (any, also one that names findings twice, leaves some out, invents reasons or
accepts what was rejected), its validation by the runner's contract and by the workflow,
the one correction, `reject_history` and `accept_ids`, and a crash before either is
written.  The rest of the pipeline is there by what it does to the entry.

### Commands under the lock

`RunLock` has one action per system call another process can see: `mkdir`, the three steps
of publishing the holder, the reading and rereading of a holder that may be dead, the
removal of what it left, the seizing file, the four steps of giving back.  Time is `aged`:
nothing in the directory changed for the grace period.  `TasksFile` and `PresetApply` have
the steps of replacing tasks.yaml and of applying a preset, each of which may fail or be
the last one.  A value of tasks.yaml is the set of the updates in it, so an update made on
an old copy shows as one that is missing; an audit record that cannot be written fails a
preset step like any other, and ends the undoing when it is the one the undoing begins
with.  `LockedCommands` runs one or the other inside the lock.  A process that dies leaves
what is on disk; its number may be given again.

The lock has three gaps, found while modelling, each enough to let two commands work at
once (below).  The model notes the circumstances in `doubt` and stops there:
what is checked is that nothing else breaks the exclusion, and what two holders would
then do to each other's updates is not followed.

`SerialCommands` is the abstract promise: at most one command active, each update added
to all that are there, and a step back, by the last update at most, only to replace a
file that was destroyed from outside.  `LockedCommands` implements it under the mapping
`active <- Holders, ledger <- latest, destroyed <- path = Torn, doubtful <- doubt # {}`.

### The server

A handler of `serve` runs from its last await to its end uninterrupted, so accepting a
request is one action, with its early answers (a known key, a run to be resumed, an
active task, a busy lock) as the guard.  The coordinator of a run is five stages,
between which the server may die; a new one marks what it finds.  A cleanup has the same
stages inside its request.  Every write of a record may fail under the fault
`record_write`, with what each of the places that write makes of it.  Commands started by
hand compete for the lock.  `SseHub` counts identifiers as the code does, from one in
each life of the server and for error frames too, and lets a write reach the browser in
full, in part or not at all.  A browser without an identifier, the first time or after a
stream that broke before its first frame, is sent what is published from then on; what it
has missed is noted as `early`, which is not a `gap`: no identifier tells the server of it.

### A phase

`PhaseRunner` is `runPhase` inside a run: checkpoint, effort, cold restart check, the
call of the runner, the wait, and what becomes of the answer.  What can come of the
wait is not listed there but taken from `AgentOutput`, the translation of the two
runners' reading of their process; the theorem `NothingElseIsTold` ties the two
together.  `AgentProcess` keeps the agents alive, those past their timeout and those
whose run is gone included.  The answer to a question is a choice.  That warm restarts
(with a session to resume) are not counted is how the code does it.  An answer too long
to be quoted refuses the next prompt: before there is a Claude process, but after a Codex
process has been started, which then waits for its input with nobody waiting for it
(`unfed`, `codex-runner/src/index.ts:252-258`).  Agents of one run in the same state are
one element of `children`; nothing checked counts them beyond one.

## Runs

| Run | Bounds | Shows | States, time |
|---|---|---|---|
| `deliver` | 2 plan rounds, 1 review, 1 CI fix, no crash, all everyday faults, an idle agent | types; no workflow refuses its task, but for the two named kinds; a reservation is held or being dropped; only reviewed heads are armed; a paused or failed task is one a command takes up; newest plan verified and used; every run ends | 129 500, 15 s |
| `crash` | 1 plan round, 2 crashes anywhere, somebody pushes | merge gate; deletion only after a merge or by a retry; never two PRs; recorded head is published; only reviewed heads are reserved; half retry never runs; finished retry leaves nothing; reconcile agrees with the next run | 2 250 000, 80 s |
| `operated` | 1 crash, moving base, closed PRs, a user who keeps at it | a merge during the wait is cleaned up after | 47 000, 10 s |
| `findings` | 3 findings, 2 review rounds, 1 CI fix, crashes, pauses and a retry at will | no finding slips past its review; a fix has its cause | 15 000, 3 s |
| `lock` | 3 processes on 2 hosts, 1 claim each, 2 crashes, 3 updates or a preset, tasks.yaml destroyed at will, up to the first doubt | exclusion; the lock is given back; whole files; a way back; the user's tree; each update on top of all that are there; `SerialCommands` | 3 910 000, 2 min |
| `server` | 2 runs, 2 lives of the server, 1 key, 1 issue or none, a browser that watches one run, buffer of 2, 3 events | no request carried out twice, no run forgotten, the lock spans the run, no silent gap after a browser's first identifier, every run ends | 378 000, 40 s |
| `phase` | 4 runs, 1 crash, one override each way, 3 turns | bounded restarts and corrections, an override for one run, one agent per run, every run ends | 1 380 000, 2 min |

The bounds of the pipeline are `MaxCrashes`, the round limits, `RemoveMax` (2: one retry,
then force) and the fault set.  Rounds of one let each limit be met and passed, with a
fix of each origin before it; commits are bounded by the rounds and by the crashes.  Two
crashes reach every window between an effect and its record, and the same or another one
again in the run that makes the first good; three were checked too (4 million states).
The proofs are for any number.  A merged task
has nothing left to do, so the runs do not ask for deadlock freedom; `RunEnds` and
`WayOut` ask what it would have been good for.

`findings`: two rounds let a finding be rejected in one and come back in the next; the
theorems lift the bounds.  `lock`: the third process is the one that meets what the first
left and the second is about to remove; two crashes leave a dead holder and a dead
recoverer; a process takes the lock twice at most in the code's own retry (`tries`), and
`MaxClaims = 1` keeps claims of their own to one each.  A second claim of one process was
checked with two processes.  The processes of one host are interchangeable and the
symmetry says so; the properties checked under it are safety properties.  `server`: the
second run meets whatever the first left, the second life of the server both.  A buffer of
two overflows with three events, and a gap needs no more.  `phase`: the third cold restart
is the last, so four runs show that a fourth is refused, and one crash that the count
survives it; the theorems lift both bounds.

`ArmedHeadWasReviewed`, `WayOut` and `VerifierHasThePlan` are checked without a crash, and
nothing under the fault `explicit_retry`, a retry that names an issue in any state: with
them they are not true of the code, or not all, see below.  `ReservedHeadWasReviewed` and
`HeadIsPublished` do not speak of a branch that somebody else has pushed to (`ff`).
`WayOut` says that `resume` or `retry` takes up a paused or failed task, and no more; that
a task taken up may be stuck is what `retried_task` and `refused_push` show.  `server`
leaves out the fault `record_write`.

**Fairness.**  `RunFairness`: a started process goes on (every wait polls, and the agents
have timeouts), and GitHub drops a reservation some time after it was told to:
`waitForAutoMergeDisabled` has no timeout, so a run ends only if GitHub does.
`OperatedSpec` adds a user who runs and resumes again and again, strong fairness of
`resume` because it is enabled only between runs, and strong fairness of seeing a merged
pull request: a poll of the merge loop is some time answered before the timeout.
`Server`: the coordinator of a run goes on, and its workflow ends, because each of its
phases has a timeout, but for the wait until GitHub has dropped a reservation, where the
same is assumed of GitHub as above.  `PhaseRunner`: a run takes its own steps, and the
timer of the agent it waits for fires if the agent does not end before.  Nothing is
assumed of agents, reviewers, checks, crashes, browsers or commands started by hand.

## Where the code and its documents disagree

Five statements have a run that ends in a counterexample (`DocumentedPromises`,
PROJECT.json `findings`):

- `plan_verify`: with `PlanMax = 4`, the default, the iteration guard of the planning loop
  (`workflows/src/index.ts:308`) fails a plan before the verdict that would exceed the
  rounds; SPEC:782.  (With one round the guard comes after the verdict.)
- `resumed_supervise`: a task paused in the supervise subphase is failed when resumed
  (`workflows/src/index.ts:412`); SPEC:878.
- `retried_task`: a retried task has no branch and no worktree path and is stuck in
  planned (`cli/src/executor.ts:507`); SPEC:1181.
- `refused_push`: a fix that was rebased cannot be pushed without force (`:565`) and
  the task stays fixing; SPEC:1541.
- `manual_merge`: a pull request merged by hand is not noticed on resume
  (`workflows/src/index.ts:826`); SPEC:1430.

These statements were found false under more faults than a passing run has, by
adding the constants named to a configuration:

| Statement | Fails with | What happens | Document |
|---|---|---|---|
| `VerifierHasThePlan` | a crash, no faults | the plan is completed and its body lost before the file is written | SPEC:1276, 1278 |
| `ImplementingEnds` | `OperatedSpec`, a crash | a commit made and not recorded is repeated, has nothing to commit, and throws for ever | SPEC:1311, 2352 |
| `RetrySkipsMissingWorktree` | `agent_fail` | removing a worktree that was never made fails the retry | SPEC:1170 |
| `DetachDeletesBranch` | `tool_failure` | forced detach declares the task merged and leaves the remote branch | SPEC:1230-1233 |
| `ReservedHeadWasReviewed` without `ff` | `human_push` | a push between the tool's push and its read of the head is recorded as its own | SPEC:2367, 2389 |
| `ReservedHeadWasReviewed`, `HeadIsPublished` | a crash, `explicit_retry` | a task retried in implementing after its push loses its branch; a run after a crash goes on with a new, empty one, and what is reviewed is not what the pull request shows | SPEC:2367, 2389 |
| `ArmedHeadWasReviewed` | a crash | a reservation made and not recorded survives the process | SPEC:2367, 2389 |
| `WayOut` | a crash, `tool_failure` | a failed retry is taken up again and dies after `fields_cleared`: the task is paused, its failure code and its previous state are cleared, so neither retry nor resume takes it | SPEC:1160-1163 |
| `HalfRetriedNeverRuns` | `explicit_retry`, no crash | a paused task whose retry fails keeps its first failure code, and resume takes it (with a crash, a task retried in an active state is carried on as well) | SPEC:1160-1163 |
| `RetriedStartsAfresh` | `explicit_retry`, no crash | such a task is carried on, and retried again with the steps of its first retry already recorded | SPEC:1160-1163 |

Of the others, `OnePullRequest`, `GuardsAccept` and `WayOut` were found to hold under
`explicit_retry` with none and with two crashes (14 million states), with the faults of
`deliver` but the idle agent; `WayOut` because a retry that names its issue takes any task.

`retry <issue>` takes merged tasks too (SPEC:1202 excludes them).

**The lock.**  `Exclusive` without `doubt = {} =>`, and `Next` without its guard, fails in
each of these ways alone:

- *overlap*: two processes find the same dead holder; the second removes the lock
  the first has just made (`process-lock.ts:293`; phase2-serve-dashboard.md:140).
- *slow*: a process that stands still for the grace period between `mkdir` and the
  rename is taken for dead (`:303`).
- *changed*: `--force-unlock` reads the holder anew after the operator was asked, so
  what is seized may not be what was confirmed (SPEC:605).

A crash while seizing leaves the seizing file; from then on every attempt at the lock is
refused, and `rmdir` of it fails (`:141`).

**The server**, seen in the model as states no property forbids.  With the fault
`record_write` (no run has it): a cleanup whose record cannot be written keeps the lock
until the server ends, and a run whose last record cannot be written stays `running` in it
with nobody carrying it.  A browser whose stream breaks before its first frame comes back
without an identifier, and is neither sent nor told what it missed
(`serve/src/index.ts:707-709`).  Further: an announcement that fails after a run records
the completed run as failed; a record marked `resume_required` keeps its mark, so the same
operation is answered 409 from then on; a second server marks the runs the first one
carries; a key whose run was cut off is answered 202 with that status; a stop does not
wait for background runs.  Identifiers of events start at one in each life of the server,
so a browser that comes back to a new one may be served from the middle (`stranger`), and
a browser whose last identifier was an error frame's is told to reload for nothing.

**A phase.**  An override that a crash left makes every run throw until the task is
retried; an agent of a run that was killed goes on beside the next one; an agent past its
timeout may work for five seconds after the lock was given back; corrections count as
turns of a question.  A Codex process whose prompt was refused stays beside the agents of
the corrected phase, and keeps `autokit` itself from ending: `bin.ts:5` only sets the exit
status, so what `EachRunEnds` says is that the run gives up or gets its phase done.

**Findings and reconcile.**  The fixer is not told which findings were accepted, and the
supervisor not which were rejected before, though accepting one of those twice fails the
task.  `reconcileTask` has no caller; where it is stricter than a run (a planned task, a
pushed branch without a pull request, a phase without a checkpoint) is the last conjunct
of `ReconcileAgreesWithRun`.  The lines and quotations are in PROJECT.json.

## Proofs

Nothing below bounds a constant: all limits, any number of crashes, all sets of findings,
configurations and outputs, and every set of faults where the theorem names none.  A
theorem that leaves a fault out, or speaks of the time before the first crash, says so,
and the tables above say what happens otherwise.

**The pipeline.**

| Theorem | Property | Holds for |
|---|---|---|
| `TypeCorrect` | `TypeOK` | every behaviour |
| `MergeGate` | `CleaningMeansMerged` | every behaviour |
| `NothingLost` | `DeletesOnlyMerged` | every behaviour |
| `NoTaskIsRefused` | `GuardsAccept` | every behaviour, but for the two named kinds of task |
| `NoSecondPullRequest` | `OnePullRequest` | every behaviour |
| `HalfRetriedTasksRest` | `HalfRetriedNeverRuns` | no `explicit_retry` |
| `RecordedHeadIsPublished` | `HeadIsPublished` | no `explicit_retry` |
| `RetryLeavesNothing` | `RetriedStartsAfresh` | no `explicit_retry` |
| `OnlyReviewedHeadsAreReserved` | `ReservedHeadWasReviewed` | no `explicit_retry`; until somebody else pushes (`ff`) |
| `NothingUnreviewedMayMerge` | `ArmedHeadWasReviewed` | no `explicit_retry`, no `human_push`, until the first crash |
| `NoReservationIsLeftBehind` | `ReservationHeld` | until the first crash |
| `NoTaskIsStuck` | `WayOut` | until the first crash |
| `VerifierReadsTheNewestPlan` | `VerifierHasThePlan` | until the first crash |
| `NewestPlanIsRead` | `FiledPlanIsNewest` | until the first crash |
| `ReconcileFollowsTheCheckpoints` | `ReconcileAgreesWithRun` | every behaviour |

Besides, they use the named assumptions on the constants (`RoundLimits`,
`TimeoutChoice`, `WorkerAssumption`, `MergingAssumption`).  Leaving out
`explicit_retry` means that `retry` takes failed tasks and those whose retry failed,
which is what it selects when no issue is named; the code does take a named issue in
any state, and then the four properties are not true of it (see the table above).
`ArmedHeadWasReviewed` needs it only because its proof goes through `BranchInv`.
"Until the first crash" is `crashes = 0 =>` in the statement, so nothing is asked of the
number of crashes a behaviour may have.

*The merge gate.*  `CleaningMeansMerged` is not inductive.  The merge workflow neither
sets nor checks the PR number, so the number has to be known to be there from the
implementation on; a pause remembers the state it leaves, so what a state asks for must
be asked of the paused task too; and the process works on a copy, so both copies must
satisfy it, and the label the process is at must fit the state of its copy, or a
checkpoint of the cleanup could be taken in another state.  The invariant is

    IInv == WorkerInv /\ PlanningTypeOK /\ RepositoryTypeOK /\ DeliveryTypeOK

where `WorkerInv` has the types, `Fits(mem, pc)` and, for each copy, `Good`, which is
`KnowsPr` (the PR number from its creation through review, fix, CI and merge, paused
there or not) and `Confirmed` (what the merge gate asks).  `IssuePipelineInvariant`
has the lemmas about `Good` under the transitions of `TaskMachine` and about the
effects of `Repository` (a merged pull request stays merged at its head: `MergedPrStays`),
one lemma per workflow and per command (`PlanningKeeps` ... `RetryStepKeeps`), and the
assembly (`InitIInv`, `NextIInv`, `Invariance`).  `NothingLost` follows because only the
effects of cleaning and retry delete, and cleaning works on a `Good` copy.

*Entry and repository.*  The other properties relate a copy of the entry to the
repository it was written about, and there are two copies, thirty handlers and some
twenty things the world may do to the repository.  `IssuePipelineSteps` therefore first
says what a handler is to such a pair: `View` is the repository as the entry speaks of it, and
every step of `Next` is a move of the copy in memory (`TaskMove`, `CommandMove`: to
stand still, to record a step, to go to another state, to pause, ...), which `Save`,
`Return` and a crash pass on to or take from the disk (`CopiesMove`), and a move of the
view (`ViewMove`: of the work, of a cleanup or a retry, from outside), each fit for
what that copy says.  `EveryMove` and `EveryEffect` show this once; an invariant is
then shown for each kind of move and not for each handler.  Four are:

- `CopiesInv`: the copies are the same when nothing runs or is unwritten; the recorded
  checkpoints and the PR number fit the pull request there is (`PrHasHead`, `CopyOK`).
  It needs `IInv` only, and gives `GuardsAccept` and `OnePullRequest`.
- `BranchInv`: what a copy records of the branch is there (`Claims`), the open pull
  request is at the remote branch (`Published`), a retry has swept what it has recorded
  as swept (`Swept`), and a task under retry rests in the shape the retry found it
  (`RetryShape`).  It includes `HalfRetriedNeverRuns`, which is what fails when a task
  is retried at work, hence the first condition.  `View.own` tells whether the branch is
  still the process's own alone: what `Claims` says of the reviewed head holds only as
  long, hence `ff` in two of the properties and the second condition of the third.
- `CalmInv`, in `IssuePipelineProofs`: the reservation belongs to the workflow that
  waits (`ReservationKept`), the plan in memory or on file is the newest (`PlanKept`),
  and the copy that is written when a workflow returns is one a command takes
  (`ComesToRest`).  A crash between an effect and its record breaks each of these, so
  it is shown to be kept while `crashes = 0`.
- `CheckpointsOK`, there too, of each copy: steps are recorded in their order
  (`InSequence`), an implementation begins with its first checkpoint and leaves its
  phase with the last, a cleared entry has no path, without which no implementation
  begins.  With `ImplementNext` and `FixNext` (the step after the furthest recorded one
  is due) each answer of `reconcileTask` is shown to agree (`CheckpointAgrees`,
  `PrBackedAgrees`, `PrePrAgrees`, `CleaningAgrees`).

**Findings.**

- `FindingsTypeCorrect == Spec => []TypeOK`
- `NoFindingSlips == Spec => []NothingSlips`
- `FixesHaveCause == Spec => []FixHasCause`

A decision is made in memory and written when the workflow returns, when the findings it
was made on are gone.  `Inv` therefore says of the copy in memory what `NothingSlips` and
`FixHasCause` say of the disk (`Fits`, from the decision on), that the entry on disk is
still in review meanwhile, so that a crash loses nothing but the round, that `findings`
are those of the last review until the decision, and from which states a task was paused,
which a resume needs.  `WorkflowStep` has the steps of the review, `PipelineStep` the
rest, through `FitsElsewhere`: a transition that does not enter a fix or leave a review
keeps `Fits`.  The lemmas on the transitions come from `TaskMachineProofs`.

**The lock and what it guards.**

- `TypesHold == Spec => []TypeOK`
- `RunLockExcludes == Spec => []Exclusive`
- `LockIsGivenBack == Spec => []HolderIsAtWork`
- `TasksFileIsWhole == Spec => []ReadersSeeWhole`
- `BackupIsTheWayBack == Spec => []RestorableToPrevious`
- `PresetKeepsTheOldTree == Spec => []OldTreeKept`
- `UpdatesAreNotLost == Spec => NoLostUpdate`
- `CommandsAreSerial == Spec => IsSerial`, the refinement of `SerialCommands`

`NoLostUpdate` says that a replacement by a command at work is the old set of updates and
one more; `IsSerial` allows a step back only while the file is destroyed.

They hold for any processes on any hosts, any number of claims, updates and crashes,
every set of faults and every mix of commands (of which one at most applies a preset:
`MixesAssumption`).  A behaviour of the model ends with its first doubt, so the theorems
say nothing of what follows one.

    IInv == TypeOK /\ CountInv /\ FilesInv /\ PresetInv /\ (doubt = {} => LockInv)

`Exclusive` speaks of those at work, but a process that takes, takes over or leaves the
lock changes the directory too.  `LockInv` therefore says that at most one process is
inside (`OneInside`), what the directory holds at each of its steps (`DirOf`), and that
a process that goes on to remove or seize has read a holder that is dead and stays dead
(`SeenBy`).  It is asked only while nothing is in doubt: the three interleavings the
model records as doubts are those that break it, and the proof needs no fourth.  Each
step of the lock is shown to be `Sound` (what it does to the directory is what the
place it goes to expects, and either it stays outside or nobody else is inside); one
lemma, `SoundKeeps`, makes the invariant of that, for every other process as well.
`FilesInv` relates the three files to the step of the command at work (`JobOf`): that
the backup is the value in the file until the replacement is what
`RestorableToPrevious` rests on.  `PresetInv` says where each old tree is at each stage;
that the backup is never the new tree, which none of the properties says, is what makes
the undoing right.  The refinement needs no more than that one process moves and at
most one is inside: `HoldersMove` reads off the step of `SerialCommands`, `DoubtMove`
that a doubt is not raised by a step of the work.

**The server.**

- `ServerTypeCorrect == Spec => []TypeOK`
- `OneRunForEachKey == Spec => []OneRunPerKey`
- `NoRunForgotten`: `Spec => []NoForgottenRun`
- `CutOffStaysCutOff`: `Spec => []CutOffNotRepeated`
- `LockHeldForRun`: `Spec => []LockSpansRun`, these three assuming
  `"record_write" \notin ServeFaults`
- `NoEventMissedSilently == Spec => []NoSilentGap`

They use the named assumptions `ServeAssumption` and `HubAssumption`.  The three named
leave out the record that cannot be written, after which the code keeps the lock of a run
that nobody carries, or a record open of a run that is over (see above); the others hold
under every set of faults.  The invariant of the runs, `Serve`, says that the server
carries one run at a time, the latest it accepted, and has used no record beyond it, and,
as long as records can be written (`Written`), that it holds the lock for that run and
that a record is open only of a run it carries.  `CutOffNotRepeated` rests on that: a new
server marks every open record as cut off, and only because an open record is the latest
can none be marked that later runs have already followed.  `Hub` is the invariant of the
stream: the buffer holds the last events, consecutive, under ascending identifiers, and
the identifier the browser will send is that of the last event it has or of no event in
the buffer (`KnowsWhatItHas`); the identifier of an error frame is of the second kind, so
that a stream that was closed as full is told to reload.  Each action of `ServeRuns` and
`SseHub` has its lemma; `ServeInvariant` and `HubInvariant` put them together.

**The phase and its agent.**

- `PhaseTypeCorrect == Spec => []TypeOK`
- `RetriesAreBounded == Spec => []RetriesBounded`
- `OverrideHoldsForOneRun == Spec => []OverrideForOneRun`
- `OneProcessOfEachRun == Spec => []AtMostOneOwn`

They hold for every number of runs and of crashes, which the run bounds at four and one.
`AtMostOneOwn` leaves a Codex process that was never given its prompt aside.
`Inv` joins what is counted to what is written, because a crash keeps only the latter:
`Copies` relates the copy in memory to the entry on disk at each point of a run;
`AttemptsCounted` says that a call made anew is already one of the attempts on disk, or
the first of a phase that has just started; `CallsCounted` allows three turns, and three
more behind the correction; `OverrideKept` that, without an override, no session of
another provider is left that would be chosen as the last one; `OneProcess` that a run
goes on only when nothing of it is alive, unless its time is up and it stops.  Each step
has its lemma; `HeardKeeps` is common to those that hear of the agent, `StopKeeps` to
those that give up.

**The runners.**  About pure operators, so their statements have no behaviour in them:

- `BuiltInputAccepted`: the input the workflow builds is accepted by the runner it goes
  to, for every configuration, override and entry, if the directory is there; two pieces
  of code that check each other agree.  `ResolvedIsSupported` is its part on the effort.
- `OnlyWritersWrite`: no input that a runner accepts lets the agent of another phase
  than implement and fix change files.
- `NothingElseIsTold`: whatever a process prints and however it ends, what the workflow
  is told is in `Told`, from which `PhaseRunner` goes on.
- `CompletedKeepsContract`: a phase is told `completed` only with data that keep the
  contract of that phase.

Only model-checked: the liveness properties (`RunEnds`, `MergedGetsCleaned`,
`EveryRunEnds`, `EachRunEnds`), since fairness is beyond the prover.

## Plan

1. *Done*: `TaskMachine`, `Worker`, `Planning`, `Repository`, `Delivery`, `Merging`,
   `Commands`, `IssuePipeline`, their runs, the first three theorems.
2. *Done*: `RunLock`, `TasksFile`, `PresetApply` and their composition, which implements
   `SerialCommands`; `ServeRuns`, `SseHub`, `Server`; `AgentProcess`, `AgentOutput`,
   `PhaseRunner`; `Findings`; `Reconcile` beside the pipeline; `RunnerInput`; the
   theorems on findings, server, phase and runners.
3. *Done*: the theorems on lock, tasks.yaml and preset, with the refinement of
   `SerialCommands`.
4. *Done*: the theorems on the properties of the pipeline.
5. Next: the statements of the table above that have no run of their own.

## Not modelled

- The reading requests of the server, its authentication, redaction and capping of texts;
  list, diff, logs, config and doctor: they change nothing.
- init and the other preset commands: one pass over files, undone by the transaction
  that `PresetApply` models.
- Arguments, environment and prompts of the agents, and the guard over the paths their
  tools may touch: text in, text out, no state.
- Parsing of config.yaml and of older entries of tasks.yaml, logging, log rotation,
  redaction, path safety, the TUI.
- Several tasks in one file: what the first unfinished task keeps from running is one
  line (`executor.ts:445`).
- `autokit add` enters as the initial state.
