----------------------------- MODULE Repository -----------------------------
(***************************************************************************)
(* The surroundings of a task, as the code uses them through git and gh:   *)
(* the worktree and its branch, the remote branch, and the pull request    *)
(* with its auto-merge reservation.  None of it is code of the repository. *)
(*                                                                         *)
(* Commits are numbered in the order they are made; 1 is the base the      *)
(* branch starts from and 0 stands for no branch.                          *)
(***************************************************************************)
EXTENDS Worker

VARIABLES
  worktree,   \* the worktree directory exists
  local,      \* head of the local branch
  edits,      \* the worktree holds uncommitted changes
  remote,     \* head of the remote branch
  ff,         \* a push of the local branch would be a fast-forward
  behind,     \* the base has moved since the branch was last based on it
  commits,    \* number of the newest commit
  prState, prSha,   \* the newest pull request of the branch, its headRefOid
  prs,        \* how many pull requests were made for the branch
  armed       \* auto-merge: off, on, or being switched off

gitVars == <<worktree, local, edits, remote, ff, behind, commits>>
prVars == <<prState, prSha, prs, armed>>
repoVars == <<gitVars, prVars>>

FlagsOK ==
  /\ worktree \in BOOLEAN /\ edits \in BOOLEAN /\ ff \in BOOLEAN /\ behind \in BOOLEAN

CountsOK ==
  /\ local \in Nat /\ remote \in Nat /\ commits \in Nat
  /\ prState \in {"NONE", "DRAFT", "OPEN", "CLOSED", "MERGED"}
  /\ prSha \in Nat /\ prs \in Nat
  /\ armed \in {"off", "on", "stopping"}

RepositoryTypeOK == FlagsOK /\ CountsOK

RepositoryInit ==
  /\ worktree = FALSE /\ edits = FALSE /\ ff = TRUE /\ behind = FALSE
  /\ local = 0 /\ remote = 0 /\ commits = 1
  /\ prState = "NONE" /\ prSha = 0 /\ prs = 0
  /\ armed = "off"

Unmerged == {"DRAFT", "OPEN"}

-----------------------------------------------------------------------------
(* Effects the workflows have.  Each says what happens to every variable.  *)

(* git worktree add: on a new branch at the base, which is no descendant of a
   remote branch left behind, or on the branch there is.  *)
AddWorktree ==
  /\ worktree' = TRUE
  /\ local' = IF local = 0 THEN 1 ELSE local
  /\ ff' = IF local = 0 THEN remote = 0 ELSE ff
  /\ behind' = (local # 0 /\ behind)
  /\ UNCHANGED <<edits, remote, commits, prVars>>

EnsureWorktree == IF worktree THEN UNCHANGED repoVars ELSE AddWorktree

EditFiles ==
  /\ edits' = TRUE
  /\ UNCHANGED <<worktree, local, remote, ff, behind, commits, prVars>>

(* git add -A, git commit *)
CommitEdits ==
  /\ local' = commits + 1
  /\ commits' = commits + 1
  /\ edits' = FALSE
  /\ UNCHANGED <<worktree, remote, ff, behind, prVars>>

(* git rebase rewrites the branch when the base has moved: what was pushed is
   then no ancestor of it.  *)
RebaseBranch ==
  IF behind
  THEN /\ local' = commits + 1
       /\ commits' = commits + 1
       /\ behind' = FALSE
       /\ ff' = (remote = 0)
       /\ UNCHANGED <<worktree, edits, remote, prVars>>
  ELSE UNCHANGED repoVars

(* git push, without --force; an unmerged pull request follows its branch.  *)
MayPush == ff /\ local # 0

PushBranch ==
  /\ MayPush
  /\ remote' = local
  /\ prSha' = IF prState \in Unmerged THEN local ELSE prSha
  /\ UNCHANGED <<worktree, local, edits, ff, behind, commits, prState, prs, armed>>

CreateDraft ==
  /\ prState' = "DRAFT"
  /\ prSha' = remote
  /\ prs' = prs + 1
  /\ UNCHANGED <<gitVars, armed>>

MarkReady ==
  /\ prState \in Unmerged
  /\ prState' = "OPEN"
  /\ UNCHANGED <<gitVars, prSha, prs, armed>>

Disarm ==
  /\ armed' = IF armed = "off" THEN "off" ELSE "stopping"
  /\ UNCHANGED <<gitVars, prState, prSha, prs>>

DeleteRemote ==
  /\ remote' = 0
  /\ ff' = TRUE
  /\ UNCHANGED <<worktree, local, edits, behind, commits, prVars>>

RemoveWorktree ==
  /\ worktree' = FALSE
  /\ edits' = FALSE
  /\ UNCHANGED <<local, remote, ff, behind, commits, prVars>>

-----------------------------------------------------------------------------
(* What happens around the process.  *)

BaseMoves ==
  /\ "base_moves" \in Faults
  /\ local # 0
  /\ behind' = TRUE
  /\ UNCHANGED <<worktree, local, edits, remote, ff, commits, prVars>>

(* One commit by somebody else: after it the local branch cannot be pushed,
   which also bounds the number of such commits.  Whether GitHub drops the
   reservation depends on who pushed.  *)
HumanPush ==
  /\ "human_push" \in Faults
  /\ remote # 0 /\ ff
  /\ prState \in Unmerged
  /\ remote' = commits + 1
  /\ prSha' = commits + 1
  /\ commits' = commits + 1
  /\ ff' = FALSE
  /\ armed' \in {armed, "off"}
  /\ UNCHANGED <<worktree, local, edits, behind, prState, prs>>

EndPullRequest(state) ==
  /\ prState' = state
  /\ armed' = "off"
  /\ UNCHANGED <<gitVars, prSha, prs>>

HumanMerge == "human_merge" \in Faults /\ prState = "OPEN" /\ EndPullRequest("MERGED")
HumanClose == "human_close" \in Faults /\ prState \in Unmerged /\ EndPullRequest("CLOSED")

(* A reservation may fire until GitHub has switched it off.  *)
AutoMergeFires == armed # "off" /\ prState = "OPEN" /\ EndPullRequest("MERGED")

StopTakesEffect ==
  /\ armed = "stopping"
  /\ armed' = "off"
  /\ UNCHANGED <<gitVars, prState, prSha, prs>>

RepositoryStep ==
  \/ BaseMoves \/ HumanPush \/ HumanMerge \/ HumanClose
  \/ AutoMergeFires \/ StopTakesEffect
=============================================================================
