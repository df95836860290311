--------------------------- MODULE MCIssuePipeline ---------------------------
(***************************************************************************)
(* The pipeline for TLC: what each run lets the surroundings do wrong.     *)
(* The bounds are in the .cfg files.                                       *)
(***************************************************************************)
EXTENDS ReconciledPipeline

(* Agents that stop half way, a moving base branch, failing calls of git and
   gh, and people who merge or close the pull request themselves.  *)
EverydayTrouble ==
  {"agent_pause", "agent_fail", "base_moves", "tool_failure", "human_merge",
   "human_close"}

(* Besides, an agent that reports completion and has changed nothing.  *)
IdleAgentToo == EverydayTrouble \cup {"idle_agent"}

(* Besides, somebody else pushes to the branch of the pull request.  *)
HumanPushToo == EverydayTrouble \cup {"human_push"}

(* Nothing the user's next run or resume could not get over.  *)
OperableTrouble == {"base_moves", "human_close"}
=============================================================================
