------------------------------ MODULE Planning ------------------------------
(***************************************************************************)
(* runPlanningWorkflow, workflows/src/index.ts: plan, plan_verify and      *)
(* plan_fix until the verifier accepts, inside a loop guarded by a count.  *)
(*                                                                         *)
(* A plan body is known by how it relates to the planner's newest one.     *)
(* The workflow holds either no body or the newest (held); the file in     *)
(* .autokit/plans is absent, an older body or the newest (planFile).       *)
(***************************************************************************)
EXTENDS Worker

VARIABLES
  guard,      \* iterations of the planning loop so far
  held,       \* the workflow's planMarkdown is set
  planFile

planVars == <<guard, held, planFile>>

PlanningTypeOK ==
  /\ guard \in Nat
  /\ held \in BOOLEAN
  /\ planFile \in {"none", "stale", "newest"}

PlanningInit ==
  /\ guard = 0
  /\ held = FALSE
  /\ planFile = "none"

LoopLimit == PlanMax + 3

PlanEnter ==
  /\ At("loop")
  /\ mem.state \in {"queued", "planning"}
  /\ guard' = 0
  /\ held' = FALSE
  /\ Continue(IF mem.state = "queued" THEN RunStarted(mem) ELSE mem, "plan")
  /\ UNCHANGED planFile

(* The first run of a phase writes the task (its checkpoint, its effort)
   before it calls the agent.  *)
PlanPhaseStart ==
  /\ At("plan")
  /\ guard < LoopLimit
  /\ Record(mem, "plan_agent")
  /\ UNCHANGED planVars

(* plan and plan_fix return a new body; it stays in memory.  *)
PlannerWrites ==
  /\ At("plan_agent")
  /\ mem.phase \in {"plan", "plan_fix"}
  /\ held' = TRUE
  /\ planFile' = IF planFile = "none" THEN "none" ELSE "stale"
  /\ guard' = guard + 1
  /\ Continue(IF mem.phase = "plan" THEN PlanCompleted(mem) ELSE PlanFixCompleted(mem),
              "plan")

VerifierAccepts ==
  /\ At("plan_agent")
  /\ mem.phase = "plan_verify"
  /\ Continue(PlanVerifyAccepted(mem), "plan_write")
  /\ UNCHANGED planVars

VerifierRejects ==
  /\ At("plan_agent")
  /\ mem.phase = "plan_verify"
  /\ LET t == PlanVerifyRejected(mem)
     IN  Continue(t, IF t.state = "failed" THEN "plan_write" ELSE "plan")
  /\ guard' = guard + 1
  /\ UNCHANGED <<held, planFile>>

(* The planner or the verifier pauses or fails.  *)
PlanAgentStops ==
  /\ At("plan_agent")
  /\ \/ "agent_pause" \in Faults /\ Continue(Pause(mem, "rate_limited"), "plan_write")
     \/ "agent_fail" \in Faults /\ Continue(Fail(mem, "other"), "plan_write")
  /\ UNCHANGED planVars

PlanLoopExhausted ==
  /\ At("plan")
  /\ guard >= LoopLimit
  /\ Continue(Fail(mem, "plan_max"), "plan_write")
  /\ UNCHANGED planVars

(* Mutants of PlanWrite: the body is kept only when the plan is accepted, or
   only when there is no file yet.  *)
PlanWrite_OnlyAccepted ==
  /\ At("plan_write")
  /\ planFile' = IF held /\ mem.state = "planned" THEN "newest" ELSE planFile
  /\ held' = FALSE
  /\ guard' = 0
  /\ Return(mem)

PlanWrite_OnlyOnce ==
  /\ At("plan_write")
  /\ planFile' = IF held /\ planFile = "none" THEN "newest" ELSE planFile
  /\ held' = FALSE
  /\ guard' = 0
  /\ Return(mem)

(* The workflow returns: writePlan when it holds a body, then persistTask.  *)
PlanWrite ==
  /\ At("plan_write")
  /\ planFile' = IF held THEN "newest" ELSE planFile
  /\ held' = FALSE
  /\ guard' = 0
  /\ Return(mem)

PlanningStep ==
  \/ PlanEnter \/ PlanPhaseStart \/ PlannerWrites \/ VerifierAccepts
  \/ VerifierRejects \/ PlanAgentStops \/ PlanLoopExhausted \/ PlanWrite
=============================================================================
