------------------------------ MODULE Merging ------------------------------
(***************************************************************************)
(* From a reviewed pull request to a cleaned-up task: runCiWaitWorkflow,   *)
(* runMergeWorkflow and runCleaningWorkflow, workflows/src/index.ts.       *)
(*                                                                         *)
(* A poll that finds nothing to act on changes nothing and is no step.  A  *)
(* timeout may come at any poll.  What GitHub answers about checks and     *)
(* mergeability is a choice; what it answers about the pull request is     *)
(* read from the state of the Repository module.                           *)
(***************************************************************************)
EXTENDS Repository

CONSTANTS
  AutoMerge,   \* config.auto_merge
  RemoveMax    \* config.merge.worktree_remove_retry_max

ASSUME MergingAssumption == AutoMerge \in BOOLEAN /\ RemoveMax \in Nat

Quiet == UNCHANGED repoVars

HeadMatches == prSha = mem.head

(* parseGhMergeability: a merged pull request is neither MERGEABLE nor
   BLOCKED, a closed one may still be called MERGEABLE.  *)
MaySayMergeable == prState \in {"OPEN", "CLOSED"}
MaySayBlocked == prState = "OPEN"

-----------------------------------------------------------------------------
CiEnter ==
  /\ At("loop")
  /\ mem.state = "ci_waiting"
  /\ Continue(mem, "ci")
  /\ Quiet

CiTimesOut ==
  /\ At("ci")
  /\ Return(CiTimeout(mem))
  /\ IF CiTimeoutFails THEN Disarm ELSE Quiet

CiChecksFail ==
  /\ At("ci")
  /\ Return(CiFailed(mem))
  /\ Quiet

CiHeadMismatch ==
  /\ At("ci")
  /\ ~HeadMatches
  /\ Return(Pause(mem, "merge_sha_mismatch"))
  /\ Quiet

CiBlocked ==
  /\ At("ci")
  /\ HeadMatches
  /\ MaySayBlocked
  /\ Return(Pause(mem, "branch_protection"))
  /\ Quiet

CiPassed ==
  /\ At("ci")
  /\ HeadMatches
  /\ MaySayMergeable
  /\ IF AutoMerge THEN Continue(mem, "reserve")
                  ELSE Return(Pause(mem, "manual_merge_required"))
  /\ Quiet

(* gh pr merge --auto --match-head-commit: refused for another head or a
   closed pull request, a warning for a merged one.  *)
CiReserve ==
  /\ At("reserve")
  /\ \/ /\ prState = "OPEN" /\ HeadMatches
        /\ armed' = "on"
        /\ UNCHANGED <<gitVars, prState, prSha, prs>>
        /\ Continue(mem, "reserved")
     \/ prState = "MERGED" /\ Continue(mem, "reserved") /\ Quiet
     \/ prState # "MERGED" /\ ~(prState = "OPEN" /\ HeadMatches) /\ Throw /\ Quiet

(* post_reservation_recheck.  On a mismatch the pause is returned once the
   reservation is seen to be gone (Barrier).  *)
CiRecheck ==
  /\ At("reserved")
  /\ IF HeadMatches
     THEN Return(AutoMergeReserved(mem)) /\ Quiet
     ELSE Continue(Pause(mem, "merge_sha_mismatch"), "barrier") /\ Disarm

CiStep ==
  \/ CiEnter \/ CiTimesOut \/ CiChecksFail \/ CiHeadMismatch \/ CiBlocked
  \/ CiPassed \/ CiReserve \/ CiRecheck

-----------------------------------------------------------------------------
MergeEnter ==
  /\ At("loop")
  /\ mem.state = "merging"
  /\ Continue(mem, "merge")
  /\ Quiet

(* Mutant of StopMerge: waits for the reservation to go without dropping it. *)
StopMerge_NoDisarm(t) == Continue(t, "barrier") /\ Quiet

(* disableAutoMergeAndWait, then the transition.  *)
StopMerge(t) == Continue(t, "barrier") /\ Disarm

MergeTimesOut == At("merge") /\ StopMerge(Pause(mem, "merge_timeout"))

MergeSeesMerged ==
  /\ At("merge")
  /\ prState = "MERGED"
  /\ IF HeadMatches THEN Return(PrMerged(mem, prSha)) /\ Quiet
                    ELSE StopMerge(PrMerged(mem, prSha))

(* Mutant of MergeSeesClosed: a closed pull request is done with as well.  *)
MergeSeesClosed_Cleans ==
  /\ At("merge")
  /\ prState = "CLOSED"
  /\ Return(PrMerged(mem, prSha))
  /\ Quiet

MergeSeesClosed == At("merge") /\ prState = "CLOSED" /\ StopMerge(Pause(mem, "other"))

(* Mutant of MergeBlocked: pauses without dropping the reservation.  *)
MergeBlocked_NoBarrier ==
  At("merge") /\ MaySayBlocked /\ Return(Pause(mem, "branch_protection")) /\ Quiet

MergeBlocked == At("merge") /\ MaySayBlocked /\ StopMerge(Pause(mem, "branch_protection"))

(* waitForAutoMergeDisabled: the wait has no timeout of its own.  *)
Barrier ==
  /\ At("barrier")
  /\ armed = "off"
  /\ Return(mem)
  /\ Quiet

MergeStep ==
  \/ MergeEnter \/ MergeTimesOut \/ MergeSeesMerged \/ MergeSeesClosed
  \/ MergeBlocked \/ Barrier

-----------------------------------------------------------------------------
MarkCleaning(t, step) == [t EXCEPT !.cleaning = @ \cup {step}]

CleanEnter ==
  /\ At("loop")
  /\ mem.state = "cleaning"
  /\ Continue(mem, "clean")
  /\ Quiet

CleanGrace ==
  /\ At("clean")
  /\ "grace_period" \notin mem.cleaning
  /\ Record(MarkCleaning(mem, "grace_period"), "clean")
  /\ Quiet

(* A remote branch that is already gone counts as deleted.  *)
CleanBranch ==
  /\ At("clean")
  /\ "grace_period" \in mem.cleaning /\ "branch_deleted" \notin mem.cleaning
  /\ \/ Record(MarkCleaning(mem, "branch_deleted"), "clean") /\ DeleteRemote
     \/ /\ "tool_failure" \in Faults
        /\ Return(Pause(mem, "branch_delete_failed"))
        /\ Quiet

WorktreeRemoved(t) == [MarkCleaning(t, "worktree_removed") EXCEPT !.removeTries = 0]

(* A plain removal fails on a dirty or a missing worktree.  The count stops
   at RemoveMax here; the code only asks whether it has reached it.  *)
CleanWorktree ==
  /\ At("clean")
  /\ {"grace_period", "branch_deleted"} \subseteq mem.cleaning
  /\ "worktree_removed" \notin mem.cleaning
  /\ \/ /\ worktree /\ ~edits
        /\ Record(WorktreeRemoved(mem), "clean")
        /\ RemoveWorktree
     \/ /\ edits \/ ~worktree \/ "tool_failure" \in Faults
        /\ LET tries == IF mem.removeTries < RemoveMax THEN mem.removeTries + 1 ELSE RemoveMax
           IN  Record([mem EXCEPT !.removeTries = tries],
                      IF tries = RemoveMax THEN "force_remove" ELSE "clean")
        /\ Quiet

(* Mutant of CleanForce: no prune for a worktree that is gone already.  *)
CleanForce_NoPrune ==
  /\ At("force_remove")
  /\ \/ worktree /\ Record(WorktreeRemoved(mem), "clean") /\ RemoveWorktree
     \/ ~worktree /\ Return(Pause(mem, "worktree_remove_failed")) /\ Quiet

(* git worktree remove --force, then git worktree prune, whose success is
   taken for the removal's.  *)
CleanForce ==
  /\ At("force_remove")
  /\ \/ worktree /\ Record(WorktreeRemoved(mem), "clean") /\ RemoveWorktree
     \/ /\ ~worktree \/ "tool_failure" \in Faults
        /\ Record(WorktreeRemoved(mem), "clean")
        /\ Quiet
     \/ /\ "tool_failure" \in Faults
        /\ Return(Pause(mem, "worktree_remove_failed"))
        /\ Quiet

CleanDone ==
  /\ At("clean")
  /\ {"grace_period", "branch_deleted", "worktree_removed"} \subseteq mem.cleaning
  /\ Record(CleaningCompleted(mem), "loop")
  /\ Quiet

CleanStep ==
  \/ CleanEnter \/ CleanGrace \/ CleanBranch \/ CleanWorktree \/ CleanForce
  \/ CleanDone

MergingStep == CiStep \/ MergeStep \/ CleanStep
=============================================================================
