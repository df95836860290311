---------------------------- MODULE AgentProcess ----------------------------
(***************************************************************************)
(* The processes a phase starts: the agent's command and, before Codex,    *)
(* the command that asks how it is logged in (packages/claude-runner and   *)
(* packages/codex-runner).  Each leads a process group of its own, so it   *)
(* survives the run that started it, and the timer that kills it does not. *)
(***************************************************************************)
EXTENDS Naturals, FiniteSets

CONSTANT MaxRuns  \* runs of `autokit run` that are followed (a bound)

ASSUME RunsAssumption == MaxRuns \in Nat \ {0}

VARIABLES
    children,  \* the processes that are alive
    verdict    \* how the process that is waited for ended

processVars == <<children, verdict>>

Runs == 1..MaxRuns
Providers == {"claude", "codex"}

\* "termed": past its time and sent SIGTERM; "orphan": its run has crashed;
\* "unfed": started, and left without a timer when its prompt was refused.
\* No two of a run are alike, but for unfed ones.
Child == [provider : Providers, run : Runs, state : {"running", "termed", "orphan", "unfed"}]

ProcessTypeOK ==
    /\ children \subseteq Child
    /\ verdict \in {"none", "exited", "failed", "timeout", "refused"}

ProcessInit == children = {} /\ verdict = "none"

Become(c, state) == children' = (children \ {c}) \cup {[c EXCEPT !.state = state]}

StartChild(r, p) ==
    /\ children' = children \cup {[provider |-> p, run |-> r, state |-> "running"]}
    /\ verdict' = "none"

\* formatCodexPrompt throws when the child is there already, with its input
\* open: nobody waits for it, and nobody ends it.
LeaveUnfed(r, p) ==
    /\ children' = children \cup {[provider |-> p, run |-> r, state |-> "unfed"]}
    /\ verdict' = "refused"

\* formatClaudePrompt throws before there is one.
StartNone == UNCHANGED children /\ verdict' = "refused"

\* "close" before the time is up, with status 0 or another.
ChildCloses(c) ==
    /\ c.state = "running"
    /\ children' = children \ {c}
    /\ verdict' \in {"exited", "failed"}

\* Mutants of ChildTimesOut: the timeout is taken for an end, or never told.
ChildTimesOut_TakenForEnd(c) ==
    /\ c.state = "running"
    /\ Become(c, "termed")
    /\ verdict' = "exited"

ChildTimesOut_NeverTold(c) ==
    /\ c.state = "running"
    /\ Become(c, "termed")
    /\ UNCHANGED verdict

\* waitForChild: the promise is rejected at once, and the group gets SIGTERM.
ChildTimesOut(c) ==
    /\ c.state = "running"
    /\ Become(c, "termed")
    /\ verdict' = "timeout"

\* It ends on SIGTERM, or on SIGKILL after the grace period.
TermedEnds(c) ==
    /\ c.state = "termed"
    /\ children' = children \ {c}
    /\ UNCHANGED verdict

\* At the latest when the program that holds its input is gone.
OrphanEnds(c) ==
    /\ c.state \in {"orphan", "unfed"}
    /\ children' = children \ {c}
    /\ UNCHANGED verdict

\* The run dies with its timers: what it started goes on.
Abandon(r) ==
    /\ children' = {IF c.run = r /\ c.state # "unfed" THEN [c EXCEPT !.state = "orphan"] ELSE c :
                      c \in children}
    /\ verdict' = "none"
=============================================================================
