------------------------ MODULE LockedCommandsProofs ------------------------
(***************************************************************************)
(* Theorems about LockedCommands, for any processes on any hosts, any      *)
(* number of claims, updates and crashes, and every mix of commands: the   *)
(* types, what the run lock, tasks.yaml and the preset promise, and that   *)
(* the commands implement SerialCommands.                                  *)
(***************************************************************************)
EXTENDS LockedCommands, FiniteSetTheorems, TLAPS

-----------------------------------------------------------------------------
(* The inductive invariant.                                                *)

(* p is taking, holding, taking over or leaving the lock: at most one
   process is.  *)
InsideLabels ==
    Publishing \cup Recovering \cup Seizing \cup Releasing \cup {"held", "rel_check"}
Inside(p) == at[p] \in InsideLabels

OneInside == \A p, q \in Procs : Inside(p) /\ Inside(q) => p = q

(* What is in the directory at each step of the process that is inside.  *)
Unpublished == {"pub_unlink", "pub_write", "pub_rename", "rel_tmp", "rel_rmdir"}
Published == {"held", "rel_check", "rel_unlink", "unseize"}
Ready == {"pub_rename", "seize_rename"}

DirOf(p) ==
    /\ Inside(p) => dir
    /\ at[p] \in Unpublished => holder = NoToken /\ ~aged
    /\ at[p] \in Published => holder = Mine(p)
    /\ at[p] \in Ready => tmp = Mine(p)
    /\ at[p] = "stat" /\ aged => holder = NoToken

(* A process that goes on to remove or to seize a lock has read a holder
   that is dead, and stays dead.  *)
SeenBy(p) ==
    /\ at[p] \in {"alive", "refused", "reread", "confirmed"} => seen[p] # NoToken
    /\ at[p] \in {"reread", "confirmed"} => ~Live(seen[p].proc)

NothingWithoutDir == ~dir => holder = NoToken /\ tmp = NoToken /\ ~seizing

LockInv ==
    /\ OneInside /\ NothingWithoutDir
    /\ \A p \in Procs : DirOf(p) /\ SeenBy(p)
    /\ HolderIsAtWork

(* The counters that bound the claims and the attempts.  *)
CountInv ==
    \A p \in Procs : /\ at[p] # "idle" => claim[p] >= 1
                     /\ at[p] = "mkdir" => tries[p] < 2

(* No update of S comes after u; T is S and the update u, after all of S.  *)
UpTo(S, u) == \A v \in S : v <= u
NextOn(S, u, T) == T = S \cup {u} /\ \A v \in S : v < u

(* tasks.yaml, its backup and the temporary file at each step of a command
   that goes on.  *)
JobOf(p) ==
    /\ job[p] # "none" => at[p] \in {"held", "dead", "reused"}
    /\ at[p] = "held" =>
        /\ job[p] \in {"loaded", "copying", "copied", "writing", "written"} => path = base[p]
        /\ job[p] \in {"copying", "copied"} => path # NoFile
        /\ job[p] \in {"copying", "copied", "writing"} => made < MaxUpdates
        /\ job[p] \in {"copied", "writing", "written"} => bak = path
        /\ job[p] = "written" => NextOn(base[p], made, tmpFile) /\ tmpFile \in Lists
        /\ job[p] = "restoring" => path = Torn /\ base[p] = bak /\ Whole(bak)

FilesInv ==
    /\ path = Torn => damaged
    /\ path # Torn => path = latest
    /\ path = NoFile => bak = NoFile
    /\ UpTo(latest, made)
    /\ bak \in {Torn, latest, AllButLast(latest)}
    /\ (\A p \in Writers : job[p] # "copying") => bak \in {latest, AllButLast(latest)}
    /\ \A p \in Writers : JobOf(p)

(* The two trees and config.yaml at each step of the preset command.  *)
Forward == {"stage", "write_config", "set_aside", "move_in", "check", "clear",
            "undo_remove", "undo_rename"}
BeforeSwap == {"none", "backup", "undo_config", "undo_agents", "undo_clear",
               "rolled_back", "rollback_failed"}

PresetInv ==
    /\ agentsBefore = "old" /\ stage # "applied" =>
          backup = "old" \/ (agents = "old" /\ stage \in BeforeSwap)
    /\ backup # "new"
    /\ stage \in {"none", "backup"} => agents = agentsBefore
    /\ stage = "rolled_back" => agents = agentsBefore
    /\ stage \in {"none", "backup", "backup_config", "stage", "write_config"} =>
          config = configBefore /\ ~created
    /\ stage \in {"stage", "write_config"} => savedConfig = configBefore
    /\ created => configBefore = "absent"
    /\ savedConfig = "old" => configBefore = "old"
    /\ configBefore = "old" /\ stage # "applied" =>
          savedConfig = "old" \/ (config = "old" /\ stage \notin Forward)
    /\ stage \notin {"applied", "rollback_failed"} /\ ~created /\ savedConfig # "old" =>
          config = configBefore
    /\ stage \in {"undo_agents", "undo_clear", "rolled_back"} => config = configBefore

IInv ==
    /\ TypeOK /\ CountInv /\ FilesInv /\ PresetInv
    /\ doubt = {} => LockInv
-----------------------------------------------------------------------------
(* Types and counters.                                                     *)

(* One process moves, and the doubts are those the model knows.  *)
LEMMA MoveTypes ==
  ASSUME TypeOK, NEW p \in Procs, NEW l \in Labels, Goto(p, l)
  PROVE  /\ at' \in [Procs -> Labels] /\ at'[p] = l
         /\ \A q \in Procs \ {p} : at'[q] = at[q]
         /\ doubt' \subseteq {"overlap", "slow", "changed"}
  BY DEF Goto, TypeOK

(* The labels of the program.  *)
LEMMA LabelsKnown ==
  /\ {"idle", "mkdir", "read", "alive", "reread", "stat", "refused", "confirmed",
      "held", "rel_check", "rel_unlink", "rel_tmp", "rel_rmdir",
      "dead", "reused", "gone"} \subseteq Labels
  /\ Publishing \subseteq Labels /\ Recovering \subseteq Labels /\ Seizing \subseteq Labels
  BY DEF Labels, Releasing, Stopped, Publishing, Recovering, Seizing

(* What p claims is a token, once it has claimed.  *)
LEMMA MineIsToken ==
  ASSUME TypeOK, CountInv, NEW p \in Procs, at[p] # "idle"
  PROVE  Mine(p) \in Tokens /\ Mine(p) # NoToken
<1>1. claim[p] \in 1..MaxClaims
  BY ClaimsAssumption DEF TypeOK, CountInv
<1> QED
  BY <1>1 DEF Mine, Tokens, NoToken

(* A step of the protocol keeps the types of the lock's variables and the
   counters.  (tryAcquireRunLock, recoverExistingLock, forceSeizeRunLock,
   releaseRunLock)  *)
LockTypeOK ==
    /\ {dir, seizing, aged} \subseteq BOOLEAN
    /\ {holder, tmp} \subseteq Tokens \cup {NoToken}
    /\ at \in [Procs -> Labels]
    /\ claim \in [Procs -> 0..MaxClaims]
    /\ tries \in [Procs -> 0..2]
    /\ seen \in [Procs -> Tokens \cup {NoToken}]
    /\ doubt \subseteq {"overlap", "slow", "changed"}

LEMMA TypesAcquire ==
  ASSUME TypeOK, CountInv, NEW p \in Procs, Acquire(p)
  PROVE  LockTypeOK' /\ CountInv'
<1>1. LockTypeOK /\ MaxClaims \in Nat
  BY ClaimsAssumption DEF TypeOK, LockTypeOK
<1>2. ASSUME Begin(p) PROVE LockTypeOK' /\ CountInv'
  <2>1. Goto(p, "mkdir") /\ UNCHANGED <<files, seen>> /\ claim[p] < MaxClaims
        /\ claim' = [claim EXCEPT ![p] = @ + 1] /\ tries' = [tries EXCEPT ![p] = 0]
    BY <1>2 DEF Begin
  <2>2. /\ at' \in [Procs -> Labels] /\ at'[p] = "mkdir"
        /\ \A q \in Procs \ {p} : at'[q] = at[q]
        /\ doubt' \subseteq {"overlap", "slow", "changed"}
    BY <2>1, MoveTypes, LabelsKnown
  <2>3. claim' \in [Procs -> 0..MaxClaims] /\ claim'[p] >= 1
        /\ tries' \in [Procs -> 0..2] /\ tries'[p] = 0
    BY <1>1, <2>1 DEF LockTypeOK
  <2>4. /\ {dir', seizing', aged'} \subseteq BOOLEAN
        /\ {holder', tmp'} \subseteq Tokens \cup {NoToken}
        /\ seen' \in [Procs -> Tokens \cup {NoToken}]
    BY <1>1, <2>1 DEF LockTypeOK, files
  <2>5. LockTypeOK'
    BY <2>2, <2>3, <2>4 DEF LockTypeOK
  <2>6. CountInv'
    BY <1>1, <2>1, <2>2, <2>3 DEF CountInv, LockTypeOK
  <2> QED BY <2>5, <2>6
<1>3. ASSUME MakeDir(p) PROVE LockTypeOK' /\ CountInv'
  <2>1. PICK l \in {"pub_unlink", "read"} : Goto(p, l)
    BY <1>3 DEF MakeDir
  <2>2. /\ at' \in [Procs -> Labels] /\ at'[p] = l
        /\ \A q \in Procs \ {p} : at'[q] = at[q]
        /\ doubt' \subseteq {"overlap", "slow", "changed"}
    BY <2>1, MoveTypes, LabelsKnown DEF Publishing
  <2>3. tries' \in [Procs -> 0..2] /\ \A q \in Procs \ {p} : tries'[q] = tries[q]
    BY <1>1, <1>3 DEF MakeDir, CountInv, LockTypeOK
  <2>4. /\ {dir', seizing', aged'} \subseteq BOOLEAN
        /\ {holder', tmp'} \subseteq Tokens \cup {NoToken}
        /\ seen' \in [Procs -> Tokens \cup {NoToken}]
        /\ claim' \in [Procs -> 0..MaxClaims]
    BY <1>1, <1>3 DEF MakeDir, Touch, LockTypeOK, files
  <2>5. LockTypeOK'
    BY <2>2, <2>3, <2>4 DEF LockTypeOK
  <2>6. CountInv'
    BY <1>1, <1>3, <2>1, <2>2, <2>3 DEF CountInv, MakeDir
  <2> QED BY <2>5, <2>6
<1>4. ASSUME PublishUnlink(p) \/ PublishWrite(p) \/ PublishRename(p)
      PROVE  LockTypeOK' /\ CountInv'
  <2>1. PICK l \in {"pub_write", "seize_write", "pub_rename", "seize_rename",
                    "unseize_fail", "read", "idle", "held", "unseize"} : Goto(p, l)
    BY <1>4 DEF PublishUnlink, PublishWrite, PublishRename
  <2>2. /\ at' \in [Procs -> Labels] /\ at'[p] = l
        /\ \A q \in Procs \ {p} : at'[q] = at[q]
        /\ doubt' \subseteq {"overlap", "slow", "changed"}
    BY <2>1, MoveTypes, LabelsKnown DEF Publishing, Seizing
  <2>3. Mine(p) \in Tokens
    BY <1>4, MineIsToken DEF PublishUnlink, PublishWrite, PublishRename
  <2>4. at[p] # "idle" /\ UNCHANGED <<claim, tries, seen>>
    BY <1>4 DEF PublishUnlink, PublishWrite, PublishRename
  <2>5. {dir', seizing', aged'} \subseteq BOOLEAN /\ {holder', tmp'} \subseteq Tokens \cup {NoToken}
    BY <1>1, <1>4, <2>3 DEF PublishUnlink, PublishWrite, PublishRename, LockTypeOK, Touch, files
  <2>6. /\ claim' \in [Procs -> 0..MaxClaims] /\ tries' \in [Procs -> 0..2]
        /\ seen' \in [Procs -> Tokens \cup {NoToken}]
    BY <1>1, <2>4 DEF LockTypeOK
  <2>8. LockTypeOK'
    BY <2>2, <2>5, <2>6 DEF LockTypeOK
  <2>7. CountInv'
    BY <2>1, <2>2, <2>4 DEF CountInv
  <2> QED BY <2>7, <2>8
<1> QED
  BY <1>2, <1>3, <1>4 DEF Acquire

LEMMA TypesRest ==
  ASSUME TypeOK, CountInv, NEW p \in Procs,
         Recover(p) \/ Seize(p) \/ Release(p) \/ Exit(p) \/ StartRelease(p)
           \/ Crash(p) \/ ReusePid(p)
  PROVE  LockTypeOK' /\ CountInv'
<1>1. LockTypeOK /\ MaxClaims \in Nat
  BY ClaimsAssumption DEF TypeOK, LockTypeOK
<1>2. at[p] # "idle" \/ claim[p] > 0
  BY DEF Recover, Seize, Release, Exit, StartRelease, Crash, ReusePid,
         ReadHolder, CheckAlive, Reread, RemoveHolder, RemoveTmp, RemoveDir, StatDir, ReadDir,
         Refuse, Confirm, SeizeRead, SeizeOpen, SeizeRecheck, Unseize,
         ReleaseCheck, ReleaseUnlink, ReleaseTmp, ReleaseDir
<1>3. claim[p] >= 1
  BY <1>1, <1>2 DEF CountInv, LockTypeOK
<1>4. UNCHANGED <<claim, tries>>
  BY DEF Recover, Seize, Release, Exit, StartRelease, Crash, ReusePid,
         ReadHolder, CheckAlive, Reread, RemoveHolder, RemoveTmp, RemoveDir, StatDir, ReadDir,
         Refuse, Confirm, SeizeRead, SeizeOpen, SeizeRecheck, Unseize,
         ReleaseCheck, ReleaseUnlink, ReleaseTmp, ReleaseDir
<1>5. /\ {dir', seizing', aged'} \subseteq BOOLEAN
      /\ {holder', tmp'} \subseteq Tokens \cup {NoToken}
      /\ seen' \in [Procs -> Tokens \cup {NoToken}]
  BY <1>1 DEF LockTypeOK, files, Touch, Empty,
         Recover, Seize, Release, Exit, StartRelease, Crash, ReusePid,
         ReadHolder, CheckAlive, Reread, RemoveHolder, RemoveTmp, RemoveDir, StatDir, ReadDir,
         Refuse, Confirm, SeizeRead, SeizeOpen, SeizeRecheck, Unseize,
         ReleaseCheck, ReleaseUnlink, ReleaseTmp, ReleaseDir
<1>6. PICK l \in Labels : /\ at' = [at EXCEPT ![p] = l]
                          /\ l = "mkdir" => tries[p] < 2
  BY LabelsKnown
     DEF Goto, GiveUp, Recovering, Seizing,
         Recover, Seize, Release, Exit, StartRelease, Crash, ReusePid,
         ReadHolder, CheckAlive, Reread, RemoveHolder, RemoveTmp, RemoveDir, StatDir, ReadDir,
         Refuse, Confirm, SeizeRead, SeizeOpen, SeizeRecheck, Unseize,
         ReleaseCheck, ReleaseUnlink, ReleaseTmp, ReleaseDir, Publishing
<1>7. doubt' \subseteq {"overlap", "slow", "changed"}
  BY <1>1 DEF LockTypeOK, Goto, GiveUp,
         Recover, Seize, Release, Exit, StartRelease, Crash, ReusePid,
         ReadHolder, CheckAlive, Reread, RemoveHolder, RemoveTmp, RemoveDir, StatDir, ReadDir,
         Refuse, Confirm, SeizeRead, SeizeOpen, SeizeRecheck, Unseize,
         ReleaseCheck, ReleaseUnlink, ReleaseTmp, ReleaseDir
<1>8. LockTypeOK'
  BY <1>1, <1>4, <1>5, <1>6, <1>7 DEF LockTypeOK
<1>9. CountInv'
  BY <1>1, <1>3, <1>4, <1>6 DEF CountInv, LockTypeOK
<1> QED
  BY <1>8, <1>9
-----------------------------------------------------------------------------
(* The run lock.                                                           *)

(* Nobody but p can be inside.  *)
Alone(p) == \A q \in Procs : Inside(q) => q = p

(* What a step of p to label l has to make sure of, so that the lock's
   invariant holds after it.  *)
Sound(p, l) ==
    /\ at' = [at EXCEPT ![p] = l]
    /\ l \in Stopped \/ Live(p)
    /\ \A q \in Procs \ {p} : claim'[q] = claim[q] /\ seen'[q] = seen[q]
    /\ UNCHANGED files \/ Alone(p)
    /\ l \in InsideLabels => Alone(p)
    /\ aged' => holder' = NoToken \/ (aged /\ holder' = holder)
    /\ \/ holder' = NoToken
       \/ /\ holder' = holder
          /\ at[p] \in Published => l \in Stopped \/ (l \in Published /\ claim'[p] = claim[p])
       \/ holder' = Mine(p)' /\ l \in Published
    /\ NothingWithoutDir'
    /\ DirOf(p)' /\ SeenBy(p)'

LEMMA LabelsApart ==
  /\ Published \subseteq InsideLabels /\ Unpublished \subseteq InsideLabels
  /\ Ready \subseteq InsideLabels /\ InsideLabels \cap Stopped = {}
  /\ InsideLabels \cap {"stat", "alive", "refused", "reread", "confirmed", "idle",
                        "mkdir", "read"} = {}
  BY DEF Published, Unpublished, Ready, InsideLabels, Publishing, Recovering, Seizing,
         Releasing, Stopped

LEMMA AloneInside ==
  ASSUME OneInside, NEW p \in Procs, Inside(p)
  PROVE  Alone(p)
  BY DEF OneInside, Alone

(* A sound step keeps the invariant of the lock: the others are where they
   were, and what they rely on is as it was.  *)
LEMMA SoundKeeps ==
  ASSUME TypeOK, LockInv, doubt = {}, NEW p \in Procs, NEW l \in Labels, Sound(p, l)
  PROVE  LockInv'
<1>1. at \in [Procs -> Labels] /\ holder \in Tokens \cup {NoToken}
      /\ seen \in [Procs -> Tokens \cup {NoToken}]
  BY DEF TypeOK
<1>2. at'[p] = l /\ \A q \in Procs \ {p} : at'[q] = at[q]
  BY <1>1 DEF Sound
<1>3. OneInside'
  BY <1>2 DEF Sound, Alone, OneInside, Inside, LockInv
<1>4. \A q \in Procs : ~Live(q) => ~Live(q)'
  BY <1>2 DEF Sound, Live
<1>5. ASSUME NEW q \in Procs \ {p} PROVE SeenBy(q)'
  <2>1. seen'[q] = seen[q] /\ at'[q] = at[q] /\ SeenBy(q)
    BY <1>2 DEF Sound, LockInv
  <2>2. seen[q] = NoToken \/ seen[q].proc \in Procs
    BY <1>1 DEF Tokens
  <2> QED
    BY <1>4, <2>1, <2>2 DEF SeenBy
<1>6. ASSUME NEW q \in Procs \ {p} PROVE DirOf(q)'
  <2>1. /\ claim'[q] = claim[q] /\ at'[q] = at[q] /\ DirOf(q)
        /\ UNCHANGED files \/ ~Inside(q)
    BY <1>2 DEF Sound, LockInv, Alone
  <2>2. CASE UNCHANGED files
    BY <2>1, <2>2 DEF DirOf, Inside, files, Mine
  <2>3. CASE ~Inside(q)
    <3>1. at[q] \notin InsideLabels
      BY <2>3 DEF Inside
    <3>2. at'[q] \notin Published \cup Unpublished \cup Ready /\ ~Inside(q)'
      BY <2>1, <3>1, LabelsApart DEF Inside
    <3>3. at'[q] = "stat" /\ aged' => holder' = NoToken
      BY <2>1 DEF Sound, DirOf
    <3> QED
      BY <3>2, <3>3 DEF DirOf
  <2> QED
    BY <2>1, <2>2, <2>3
<1>7. HolderIsAtWork'
  <2>1. CASE holder' = NoToken
    BY <2>1 DEF HolderIsAtWork
  <2>2. CASE /\ holder' = holder /\ holder # NoToken
             /\ at[p] \in Published => l \in Stopped \/ (l \in Published /\ claim'[p] = claim[p])
    <3> DEFINE r == holder.proc
    <3>1. r \in Procs
      BY <1>1, <2>2 DEF Tokens
    <3>2. SUFFICES ASSUME at'[r] \notin Stopped
                   PROVE  holder' = [proc |-> r, claim |-> claim'[r]] /\ at'[r] \in Published
      BY <2>2, <3>2 DEF HolderIsAtWork, Published, Live, Mine
    <3>3. at[r] \notin Stopped
      BY <1>4, <3>1, <3>2 DEF Live
    <3>4. holder = Mine(r) /\ at[r] \in Published
      BY <2>2, <3>3 DEF LockInv, HolderIsAtWork, Published, Live
    <3>5. CASE r = p
      BY <1>2, <2>2, <3>2, <3>4, <3>5 DEF Live, Mine
    <3>6. CASE r # p
      BY <1>2, <2>2, <3>1, <3>4, <3>6 DEF Sound, Mine
    <3> QED
      BY <3>5, <3>6
  <2>3. CASE holder' = Mine(p)' /\ l \in Published
    <3>1. holder'.proc = p
      BY <2>3 DEF Mine
    <3> QED
      BY <1>2, <2>3, <3>1 DEF HolderIsAtWork, Published
  <2> QED
    BY <2>1, <2>2, <2>3 DEF Sound
<1> QED
  BY <1>3, <1>5, <1>6, <1>7 DEF LockInv, Sound
(* A step outside the lock that changes no file is sound, if it goes nowhere
   inside.  *)
LEMMA QuietSound ==
  ASSUME TypeOK, LockInv, NEW p \in Procs, NEW l \in Labels \ InsideLabels,
         at' = [at EXCEPT ![p] = l], UNCHANGED files,
         l \in Stopped \/ (Live(p) /\ at[p] \notin Published),
         \A q \in Procs \ {p} : claim'[q] = claim[q] /\ seen'[q] = seen[q],
         l = "stat" /\ aged => holder = NoToken,
         SeenBy(p)'
  PROVE  Sound(p, l)
<1>1. at'[p] = l
  BY DEF TypeOK
<1>2. NothingWithoutDir'
  BY DEF NothingWithoutDir, files, LockInv
<1>3. DirOf(p)'
  <2>1. at'[p] \notin Published \cup Unpublished \cup Ready /\ ~Inside(p)'
    BY <1>1, LabelsApart DEF Inside
  <2> QED
    BY <1>1, <2>1 DEF DirOf, files
<1>4. aged' => aged /\ holder' = holder
  BY DEF files
<1>5. holder' = holder /\ l \notin InsideLabels
  BY DEF files
<1> QED
  BY <1>2, <1>3, <1>4, <1>5 DEF Sound

(* The steps of an acquisition.  *)
LEMMA AcquireSound ==
  ASSUME TypeOK, CountInv, LockInv, doubt = {}, doubt' = {}, NEW p \in Procs, Acquire(p)
  PROVE  \E l \in Labels : Sound(p, l)
<1>1. /\ at \in [Procs -> Labels] /\ claim \in [Procs -> 0..MaxClaims]
      /\ tries \in [Procs -> 0..2] /\ seen \in [Procs -> Tokens \cup {NoToken}]
      /\ DirOf(p) /\ SeenBy(p) /\ OneInside /\ NothingWithoutDir
  BY DEF TypeOK, LockInv
<1>2. Inside(p) => Alone(p)
  BY <1>1, AloneInside
<1>3. ASSUME Begin(p) PROVE Sound(p, "mkdir")
  <2>1. at' = [at EXCEPT ![p] = "mkdir"] /\ UNCHANGED <<files, seen>> /\ at[p] = "idle"
    BY <1>3 DEF Begin, Goto
  <2>2. \A q \in Procs \ {p} : claim'[q] = claim[q]
    BY <1>1, <1>3 DEF Begin
  <2>3. "mkdir" \in Labels \ InsideLabels /\ Live(p) /\ at[p] \notin Published
    BY <2>1, LabelsApart, LabelsKnown DEF Live, Stopped
  <2>4. SeenBy(p)'
    BY <1>1, <2>1 DEF SeenBy
  <2> QED
    BY <2>1, <2>2, <2>3, <2>4, QuietSound
<1>4. ASSUME MakeDir(p), ~dir PROVE Sound(p, "pub_unlink")
  <2>1. /\ at' = [at EXCEPT ![p] = "pub_unlink"] /\ UNCHANGED <<holder, tmp, seizing, claim, seen>>
        /\ at[p] = "mkdir" /\ dir' = TRUE /\ aged' = FALSE
    BY <1>4 DEF MakeDir, Goto, Touch
  <2>2. holder = NoToken /\ Alone(p)
    BY <1>1, <1>4 DEF NothingWithoutDir, Alone, LockInv, DirOf
  <2>3. DirOf(p)' /\ SeenBy(p)' /\ NothingWithoutDir'
    BY <1>1, <2>1, <2>2 DEF DirOf, SeenBy, NothingWithoutDir, Unpublished, Published, Ready
  <2> QED
    BY <2>1, <2>2, <2>3 DEF Sound, Live, Stopped
<1>5. ASSUME MakeDir(p), dir PROVE Sound(p, "read")
  <2>1. at' = [at EXCEPT ![p] = "read"] /\ UNCHANGED <<files, seen, claim>> /\ at[p] = "mkdir"
    BY <1>5 DEF MakeDir, Goto
  <2>2. "read" \in Labels \ InsideLabels /\ Live(p) /\ at[p] \notin Published
    BY <2>1, LabelsApart, LabelsKnown DEF Live, Stopped
  <2>3. SeenBy(p)'
    BY <1>1, <2>1 DEF SeenBy
  <2> QED
    BY <2>1, <2>2, <2>3, QuietSound
<1>6. ASSUME PublishUnlink(p) PROVE \E l \in Labels : Sound(p, l)
  <2> DEFINE l == IF at[p] = "pub_unlink" THEN "pub_write" ELSE "seize_write"
  <2>1. /\ at' = [at EXCEPT ![p] = l] /\ UNCHANGED <<dir, holder, seizing, claim, seen>>
        /\ at[p] \in {"pub_unlink", "seize_unlink"}
        /\ tmp' = NoToken /\ aged' = (aged /\ tmp = NoToken)
    BY <1>6 DEF PublishUnlink, Goto
  <2>2. Inside(p) /\ Live(p) /\ Alone(p) /\ l \in Labels /\ at[p] \notin Published
    BY <1>2, <2>1, LabelsKnown DEF Inside, InsideLabels, Publishing, Live, Stopped, Published
  <2>3. DirOf(p)' /\ SeenBy(p)' /\ NothingWithoutDir'
    BY <1>1, <2>1, <2>2 DEF DirOf, SeenBy, NothingWithoutDir, Unpublished, Published, Ready
  <2> QED
    BY <2>1, <2>2, <2>3 DEF Sound
<1>7. ASSUME PublishWrite(p), dir, tmp = NoToken PROVE \E l \in Labels : Sound(p, l)
  <2> DEFINE l == IF at[p] = "pub_write" THEN "pub_rename" ELSE "seize_rename"
  <2>1. /\ at' = [at EXCEPT ![p] = l] /\ UNCHANGED <<dir, holder, seizing, claim, seen>>
        /\ at[p] \in {"pub_write", "seize_write"}
        /\ tmp' = Mine(p) /\ aged' = FALSE
    BY <1>7 DEF PublishWrite, Goto, Touch
  <2>2. Inside(p) /\ Live(p) /\ Alone(p) /\ l \in Labels /\ at[p] \notin Published
    BY <1>2, <2>1, LabelsKnown DEF Inside, InsideLabels, Publishing, Live, Stopped, Published
  <2>3. DirOf(p)' /\ SeenBy(p)' /\ NothingWithoutDir'
    BY <1>1, <1>7, <2>1, <2>2 DEF DirOf, SeenBy, NothingWithoutDir, Unpublished, Published, Ready, Mine
  <2> QED
    BY <2>1, <2>2, <2>3 DEF Sound
<1>8. ASSUME PublishWrite(p), ~dir \/ tmp # NoToken PROVE \E l \in Labels : Sound(p, l)
  <2> DEFINE l == IF at[p] = "seize_write" THEN "unseize_fail"
                  ELSE IF dir THEN "read" ELSE "idle"
  <2>1. /\ at' = [at EXCEPT ![p] = l] /\ UNCHANGED <<files, claim, seen>>
        /\ at[p] \in {"pub_write", "seize_write"}
    BY <1>8 DEF PublishWrite, Goto
  <2>2. Inside(p) /\ Live(p) /\ Alone(p) /\ l \in Labels /\ at[p] \notin Published
    BY <1>2, <2>1, LabelsKnown DEF Inside, InsideLabels, Publishing, Seizing, Live, Stopped, Published
  <2>3. DirOf(p)' /\ SeenBy(p)' /\ NothingWithoutDir'
    BY <1>1, <2>1, <2>2
    DEF DirOf, SeenBy, NothingWithoutDir, Unpublished, Published, Ready, files, Inside
  <2> QED
    BY <2>1, <2>2, <2>3 DEF Sound, files
<1>9. ASSUME PublishRename(p) PROVE \E l \in Labels : Sound(p, l)
  <2> DEFINE l == IF at[p] = "pub_rename" THEN "held" ELSE "unseize"
  <2>1. at[p] \in {"pub_rename", "seize_rename"} /\ tmp = Mine(p) /\ tmp # NoToken
    BY <1>1, <1>9, MineIsToken DEF PublishRename, DirOf, Ready
  <2>2. /\ at' = [at EXCEPT ![p] = l] /\ UNCHANGED <<dir, seizing, claim, seen>>
        /\ holder' = tmp /\ tmp' = NoToken /\ aged' = FALSE
    BY <1>9, <2>1 DEF PublishRename, Goto, Touch
  <2>3. Inside(p) /\ Live(p) /\ Alone(p) /\ l \in Labels /\ l \in Published
    BY <1>2, <2>1, LabelsKnown DEF Inside, InsideLabels, Publishing, Seizing, Live, Stopped, Published
  <2>4. holder' = Mine(p)'
    BY <2>1, <2>2 DEF Mine
  <2>5. DirOf(p)' /\ SeenBy(p)' /\ NothingWithoutDir'
    BY <1>1, <2>1, <2>2, <2>3, <2>4
    DEF DirOf, SeenBy, NothingWithoutDir, Unpublished, Published, Ready, Mine
  <2> QED
    BY <2>2, <2>3, <2>4, <2>5 DEF Sound
<1> QED
  BY <1>3, <1>4, <1>5, <1>6, <1>7, <1>8, <1>9, LabelsKnown
  DEF Acquire, PublishWrite, MakeDir, Publishing
(* A lock that is abandoned, and that nobody else takes over, has nobody
   inside.  *)
LEMMA AbandonedIsFree ==
  ASSUME TypeOK, CountInv, LockInv, NEW p \in Procs, NEW l \in Recovering \cup Seizing,
         at[p] \notin InsideLabels, TakingOver \ {p} = {},
         \/ holder # NoToken /\ ~Live(holder.proc)
         \/ holder = NoToken /\ aged
  PROVE  Alone(p)
<1> SUFFICES ASSUME NEW q \in Procs, Inside(q), q # p
             PROVE  FALSE
  BY DEF Alone
<1>1. DirOf(q) /\ at[q] \in InsideLabels
  BY DEF LockInv, Inside
<1>2. at[q] \notin Unpublished
  BY <1>1 DEF DirOf
<1>3. at[q] \notin Published
  <2>1. SUFFICES ASSUME at[q] \in Published PROVE FALSE
    OBVIOUS
  <2>2. holder = Mine(q) /\ Mine(q) # NoToken /\ Live(q)
    BY <1>1, <2>1, MineIsToken DEF DirOf, Published, Live, Stopped
  <2>3. Mine(q).proc = q
    BY DEF Mine
  <2> QED
    BY <2>2, <2>3
<1>4. at[q] \in Recovering \cup Seizing /\ Live(q)
  BY <1>1, <1>2, <1>3
  DEF InsideLabels, Unpublished, Published, Publishing, Recovering, Seizing, Releasing,
      Live, Stopped
<1> QED
  BY <1>4 DEF TakingOver

(* A step that takes over raises no doubt only if nobody else does.  *)
LEMMA NoOverlap ==
  ASSUME doubt = {}, doubt' = {}, NEW p \in Procs, NEW l \in Recovering \cup Seizing,
         Goto(p, l)
  PROVE  TakingOver \ {p} = {}
  BY DEF Goto

(* The steps of a recovery.  *)
LEMMA RecoverSound ==
  ASSUME TypeOK, CountInv, LockInv, doubt = {}, doubt' = {}, NEW p \in Procs, Recover(p)
  PROVE  \E l \in Labels : Sound(p, l)
<1>1. /\ at \in [Procs -> Labels] /\ holder \in Tokens \cup {NoToken}
      /\ seen \in [Procs -> Tokens \cup {NoToken}]
      /\ DirOf(p) /\ SeenBy(p) /\ OneInside /\ NothingWithoutDir
  BY DEF TypeOK, LockInv
<1>2. Inside(p) => Alone(p)
  BY <1>1, AloneInside
<1>3. ASSUME ReadHolder(p) PROVE \E l \in Labels : Sound(p, l)
  <2> DEFINE l == IF holder = NoToken THEN "stat"
                  ELSE IF Host[holder.proc] # Host[p] THEN "refused" ELSE "alive"
  <2>1. /\ at' = [at EXCEPT ![p] = l] /\ UNCHANGED <<files, claim>> /\ at[p] = "read"
        /\ seen' = [seen EXCEPT ![p] = holder]
    BY <1>3 DEF ReadHolder, Goto
  <2>2. l \in Labels \ InsideLabels /\ Live(p) /\ at[p] \notin Published
    BY <2>1, LabelsApart, LabelsKnown DEF Live, Stopped
  <2>3. \A q \in Procs \ {p} : claim'[q] = claim[q] /\ seen'[q] = seen[q]
    BY <1>1, <2>1
  <2>4. SeenBy(p)'
    BY <1>1, <2>1 DEF SeenBy
  <2>5. l = "stat" => holder = NoToken
    OBVIOUS
  <2> HIDE DEF l
  <2> QED
    BY <2>1, <2>2, <2>3, <2>4, <2>5, QuietSound
<1>4. ASSUME CheckAlive(p) PROVE \E l \in Labels : Sound(p, l)
  <2> DEFINE l == IF PidAlive(seen[p].proc) THEN "idle" ELSE "reread"
  <2>1. /\ at' = [at EXCEPT ![p] = l] /\ UNCHANGED <<files, claim, seen>> /\ at[p] = "alive"
    BY <1>4 DEF CheckAlive, GiveUp, Goto
  <2>2. l \in Labels \ InsideLabels /\ Live(p) /\ at[p] \notin Published /\ l # "stat"
    BY <2>1, LabelsApart, LabelsKnown DEF Live, Stopped
  <2>3. seen[p] # NoToken /\ seen[p].proc \in Procs
    BY <1>1, <2>1 DEF SeenBy, Tokens
  <2>4. l = "reread" => at[seen[p].proc] \in Stopped /\ seen[p].proc # p
    BY <2>1 DEF PidAlive, Stopped
  <2>5. SeenBy(p)'
    BY <1>1, <2>1, <2>3, <2>4 DEF SeenBy, Live
  <2> HIDE DEF l
  <2> QED
    BY <2>1, <2>2, <2>5, QuietSound
<1>5. ASSUME Reread(p), holder = seen[p] PROVE Sound(p, "rm_holder")
  <2>1. /\ at' = [at EXCEPT ![p] = "rm_holder"] /\ UNCHANGED <<files, claim, seen>>
        /\ at[p] = "reread" /\ Goto(p, "rm_holder")
    BY <1>5 DEF Reread, Goto
  <2>2. holder # NoToken /\ ~Live(holder.proc)
    BY <1>1, <1>5, <2>1 DEF SeenBy
  <2>3. at[p] \notin InsideLabels /\ "rm_holder" \in Recovering \cup Seizing
    BY <2>1, LabelsApart DEF Recovering
  <2>4. Alone(p)
    BY <2>1, <2>2, <2>3, NoOverlap, AbandonedIsFree
  <2>5. dir
    BY <1>1, <2>2 DEF NothingWithoutDir
  <2>6. DirOf(p)' /\ SeenBy(p)' /\ NothingWithoutDir'
    BY <1>1, <2>1, <2>5
    DEF DirOf, SeenBy, NothingWithoutDir, Unpublished, Published, Ready, files
  <2> QED
    BY <2>1, <2>3, <2>4, <2>6, LabelsApart DEF Sound, files, Live, Stopped
<1>6. ASSUME Reread(p), holder # seen[p] PROVE Sound(p, "idle")
  <2>1. at' = [at EXCEPT ![p] = "idle"] /\ UNCHANGED <<files, claim, seen>> /\ at[p] = "reread"
    BY <1>6 DEF Reread, GiveUp, Goto
  <2>2. "idle" \in Labels \ InsideLabels /\ Live(p) /\ at[p] \notin Published
    BY <2>1, LabelsApart, LabelsKnown DEF Live, Stopped
  <2>3. SeenBy(p)'
    BY <1>1, <2>1 DEF SeenBy
  <2> QED
    BY <2>1, <2>2, <2>3, QuietSound
<1>7. ASSUME RemoveHolder(p) \/ RemoveTmp(p) PROVE \E l \in Labels : Sound(p, l)
  <2> DEFINE l == IF at[p] = "rm_holder" THEN "rm_tmp" ELSE "rm_dir"
  <2>1. /\ at' = [at EXCEPT ![p] = l] /\ UNCHANGED <<dir, seizing, claim, seen>>
        /\ at[p] \in {"rm_holder", "rm_tmp"} /\ holder' \in {holder, NoToken}
        /\ tmp' \in {tmp, NoToken}
        /\ aged' => holder' = NoToken \/ (aged /\ holder' = holder)
    BY <1>7 DEF RemoveHolder, RemoveTmp, Goto
  <2>2. Inside(p) /\ Live(p) /\ Alone(p) /\ l \in Labels /\ at[p] \notin Published
    BY <1>2, <2>1, LabelsKnown DEF Inside, InsideLabels, Recovering, Live, Stopped, Published
  <2>3. DirOf(p)' /\ SeenBy(p)' /\ NothingWithoutDir'
    BY <1>1, <2>1, <2>2 DEF DirOf, SeenBy, NothingWithoutDir, Unpublished, Published, Ready
  <2> QED
    BY <2>1, <2>2, <2>3 DEF Sound
<1>8. ASSUME RemoveDir(p), Empty PROVE \E l \in Labels : Sound(p, l)
  <2> DEFINE l == IF tries[p] < 2 THEN "mkdir" ELSE "idle"
  <2>1. /\ at' = [at EXCEPT ![p] = l] /\ UNCHANGED <<holder, tmp, seizing, claim, seen>>
        /\ at[p] \in {"rm_dir", "inc_rmdir"} /\ ~dir' /\ ~aged'
        /\ holder = NoToken /\ tmp = NoToken /\ ~seizing
    BY <1>8 DEF RemoveDir, GiveUp, Goto, Touch, Empty
  <2>2. /\ Inside(p) /\ Live(p) /\ Alone(p) /\ at[p] \notin Published
        /\ l \in Labels \ InsideLabels
    BY <1>2, <2>1, LabelsKnown, LabelsApart
    DEF Inside, InsideLabels, Recovering, Live, Stopped, Published
  <2>3. DirOf(p)' /\ SeenBy(p)' /\ NothingWithoutDir'
    BY <1>1, <2>1, <2>2, LabelsApart
    DEF DirOf, SeenBy, NothingWithoutDir, Unpublished, Published, Ready, Inside
  <2> QED
    BY <2>1, <2>2, <2>3 DEF Sound
<1>9. ASSUME RemoveDir(p), ~Empty PROVE Sound(p, "idle")
  <2>1. /\ at' = [at EXCEPT ![p] = "idle"] /\ UNCHANGED <<files, claim, seen>>
        /\ at[p] \in {"rm_dir", "inc_rmdir"}
    BY <1>9 DEF RemoveDir, GiveUp, Goto
  <2>2. "idle" \in Labels \ InsideLabels /\ Live(p) /\ at[p] \notin Published
    BY <2>1, LabelsApart, LabelsKnown DEF Live, Stopped, Published
  <2>3. SeenBy(p)'
    BY <1>1, <2>1 DEF SeenBy
  <2> QED
    BY <2>1, <2>2, <2>3, QuietSound
<1>10. ASSUME StatDir(p), dir, aged PROVE Sound(p, "readdir")
  <2>1. /\ at' = [at EXCEPT ![p] = "readdir"] /\ UNCHANGED <<files, claim, seen>>
        /\ at[p] = "stat" /\ Goto(p, "readdir")
    BY <1>10 DEF StatDir, Goto
  <2>2. holder = NoToken
    BY <1>1, <1>10, <2>1 DEF DirOf
  <2>3. at[p] \notin InsideLabels /\ "readdir" \in Recovering \cup Seizing
    BY <2>1, LabelsApart DEF Recovering
  <2>4. Alone(p)
    BY <1>10, <2>1, <2>2, <2>3, NoOverlap, AbandonedIsFree
  <2>5. DirOf(p)' /\ SeenBy(p)' /\ NothingWithoutDir'
    BY <1>1, <1>10, <2>1
    DEF DirOf, SeenBy, NothingWithoutDir, Unpublished, Published, Ready, files
  <2> QED
    BY <2>1, <2>2, <2>4, <2>5 DEF Sound, files, Live, Stopped
<1>11. ASSUME StatDir(p), ~(dir /\ aged) PROVE Sound(p, "idle")
  <2>1. at' = [at EXCEPT ![p] = "idle"] /\ UNCHANGED <<files, claim, seen>> /\ at[p] = "stat"
    BY <1>11 DEF StatDir, GiveUp, Goto
  <2>2. "idle" \in Labels \ InsideLabels /\ Live(p) /\ at[p] \notin Published
    BY <2>1, LabelsApart, LabelsKnown DEF Live, Stopped
  <2>3. SeenBy(p)'
    BY <1>1, <2>1 DEF SeenBy
  <2> QED
    BY <2>1, <2>2, <2>3, QuietSound
<1>12. ASSUME ReadDir(p), dir, ~seizing PROVE Sound(p, "inc_rmdir")
  <2>1. /\ at' = [at EXCEPT ![p] = "inc_rmdir"] /\ UNCHANGED <<dir, seizing, claim, seen>>
        /\ at[p] = "readdir" /\ holder' = NoToken /\ tmp' = NoToken
    BY <1>12 DEF ReadDir, Goto
  <2>2. Inside(p) /\ Live(p) /\ Alone(p)
    BY <1>2, <2>1 DEF Inside, InsideLabels, Recovering, Live, Stopped
  <2>3. DirOf(p)' /\ SeenBy(p)' /\ NothingWithoutDir'
    BY <1>1, <1>12, <2>1
    DEF DirOf, SeenBy, NothingWithoutDir, Unpublished, Published, Ready, Inside
  <2> QED
    BY <2>1, <2>2, <2>3 DEF Sound
<1>13. ASSUME ReadDir(p), ~dir \/ seizing PROVE Sound(p, "idle")
  <2>1. at' = [at EXCEPT ![p] = "idle"] /\ UNCHANGED <<files, claim, seen>> /\ at[p] = "readdir"
    BY <1>13 DEF ReadDir, GiveUp, Goto
  <2>2. "idle" \in Labels \ InsideLabels /\ Live(p) /\ at[p] \notin Published
    BY <2>1, LabelsApart, LabelsKnown DEF Live, Stopped, Published
  <2>3. SeenBy(p)'
    BY <1>1, <2>1 DEF SeenBy
  <2> QED
    BY <2>1, <2>2, <2>3, QuietSound
<1> QED
  BY <1>3, <1>4, <1>5, <1>6, <1>7, <1>8, <1>9, <1>10, <1>11, <1>12, <1>13, LabelsKnown
  DEF Recover, Recovering
(* The steps of a forced seizure.  *)
LEMMA SeizeSound ==
  ASSUME TypeOK, CountInv, LockInv, doubt = {}, doubt' = {}, NEW p \in Procs, Seize(p)
  PROVE  \E l \in Labels : Sound(p, l)
<1>1. /\ at \in [Procs -> Labels] /\ holder \in Tokens \cup {NoToken}
      /\ seen \in [Procs -> Tokens \cup {NoToken}]
      /\ DirOf(p) /\ SeenBy(p) /\ OneInside /\ NothingWithoutDir
  BY DEF TypeOK, LockInv
<1>2. Inside(p) => Alone(p)
  BY <1>1, AloneInside
<1>3. ASSUME Refuse(p) \/ Confirm(p) PROVE \E l \in Labels : Sound(p, l)
  <2>1. PICK l \in {"idle", "confirmed"} :
           /\ at' = [at EXCEPT ![p] = l] /\ UNCHANGED <<files, claim, seen>>
           /\ at[p] = "refused" /\ (l = "confirmed" => ~Live(seen[p].proc))
    BY <1>3 DEF Refuse, Confirm, GiveUp, Goto
  <2>2. /\ l \in Labels \ InsideLabels /\ Live(p) /\ at[p] \notin Published /\ l # "stat"
        /\ l # "alive" /\ l # "refused" /\ l # "reread"
    BY <2>1, LabelsApart, LabelsKnown DEF Live, Stopped
  <2>3. seen[p] # NoToken /\ seen[p].proc \in Procs
    BY <1>1, <2>1 DEF SeenBy, Tokens
  <2>4. l = "confirmed" => at[seen[p].proc] \in Stopped /\ seen[p].proc # p
    BY <2>1, <2>2 DEF Live, Stopped
  <2>5. SeenBy(p)'
    BY <1>1, <2>1, <2>2, <2>3, <2>4 DEF SeenBy, Live
  <2> QED
    BY <2>1, <2>2, <2>5, QuietSound
<1>4. ASSUME SeizeRead(p) PROVE \E l \in Labels : Sound(p, l)
  <2>1. CASE holder = NoToken \/ Host[holder.proc] = Host[p]
    <3>1. /\ at' = [at EXCEPT ![p] = "idle"] /\ UNCHANGED <<files, claim>>
          /\ at[p] = "confirmed" /\ seen' = [seen EXCEPT ![p] = holder]
      BY <1>4, <2>1 DEF SeizeRead, GiveUp, Goto
    <3>2. "idle" \in Labels \ InsideLabels /\ Live(p) /\ at[p] \notin Published
      BY <3>1, LabelsApart, LabelsKnown DEF Live, Stopped
    <3>3. SeenBy(p)'
      BY <1>1, <3>1 DEF SeenBy
    <3> QED
      BY <1>1, <3>1, <3>2, <3>3, QuietSound
  <2>2. CASE ~(holder = NoToken \/ Host[holder.proc] = Host[p])
    <3>1. /\ at' = [at EXCEPT ![p] = "seize_open"] /\ UNCHANGED <<files, claim>>
          /\ at[p] = "confirmed" /\ seen' = [seen EXCEPT ![p] = holder]
          /\ TakingOver \ {p} = {} /\ holder = seen[p]
      BY <1>4, <2>2 DEF SeizeRead
    <3>2. holder # NoToken /\ ~Live(holder.proc)
      BY <1>1, <3>1 DEF SeenBy
    <3>3. at[p] \notin InsideLabels /\ "seize_open" \in Recovering \cup Seizing
      BY <3>1, LabelsApart DEF Seizing
    <3>4. Alone(p)
      BY <3>1, <3>2, <3>3, AbandonedIsFree
    <3>5. dir
      BY <1>1, <3>2 DEF NothingWithoutDir
    <3>6. DirOf(p)' /\ SeenBy(p)' /\ NothingWithoutDir'
      BY <1>1, <3>1, <3>5
      DEF DirOf, SeenBy, NothingWithoutDir, Unpublished, Published, Ready, files
    <3>7. "seize_open" \in Labels /\ at[p] \notin Published
      BY <3>1, LabelsKnown DEF Seizing, Published
    <3>8. \A q \in Procs \ {p} : claim'[q] = claim[q] /\ seen'[q] = seen[q]
      BY <1>1, <3>1
    <3> QED
      BY <3>1, <3>4, <3>6, <3>7, <3>8 DEF Sound, files, Live, Stopped
  <2> QED
    BY <2>1, <2>2
<1>5. ASSUME SeizeOpen(p), dir, ~seizing PROVE \E l \in Labels : Sound(p, l)
  <2>1. /\ at' = [at EXCEPT ![p] = "seize_recheck"] /\ UNCHANGED <<dir, holder, tmp, claim, seen>>
        /\ at[p] = "seize_open" /\ ~aged'
    BY <1>5 DEF SeizeOpen, Goto, Touch
  <2>2. Inside(p) /\ Live(p) /\ Alone(p) /\ "seize_recheck" \in Labels /\ at[p] \notin Published
    BY <1>2, <2>1, LabelsKnown DEF Inside, InsideLabels, Seizing, Live, Stopped, Published
  <2>3. DirOf(p)' /\ SeenBy(p)' /\ NothingWithoutDir'
    BY <1>1, <1>5, <2>1
    DEF DirOf, SeenBy, NothingWithoutDir, Unpublished, Published, Ready, Inside
  <2> QED
    BY <2>1, <2>2, <2>3 DEF Sound
<1>6. ASSUME SeizeOpen(p), ~dir \/ seizing PROVE Sound(p, "idle")
  <2>1. at' = [at EXCEPT ![p] = "idle"] /\ UNCHANGED <<files, claim, seen>> /\ at[p] = "seize_open"
    BY <1>6 DEF SeizeOpen, GiveUp, Goto
  <2>2. "idle" \in Labels \ InsideLabels /\ Live(p) /\ at[p] \notin Published
    BY <2>1, LabelsApart, LabelsKnown DEF Live, Stopped, Published
  <2>3. SeenBy(p)'
    BY <1>1, <2>1 DEF SeenBy
  <2> QED
    BY <2>1, <2>2, <2>3, QuietSound
<1>7. ASSUME SeizeRecheck(p) PROVE \E l \in Labels : Sound(p, l)
  <2> DEFINE l == IF holder = seen[p] THEN "seize_unlink" ELSE "unseize_fail"
  <2>1. /\ at' = [at EXCEPT ![p] = l] /\ UNCHANGED <<files, claim, seen>>
        /\ at[p] = "seize_recheck"
    BY <1>7 DEF SeizeRecheck, Goto
  <2>2. Inside(p) /\ Live(p) /\ Alone(p) /\ l \in Labels /\ at[p] \notin Published
    BY <1>2, <2>1, LabelsKnown DEF Inside, InsideLabels, Seizing, Live, Stopped, Published
  <2>3. DirOf(p)' /\ SeenBy(p)' /\ NothingWithoutDir'
    BY <1>1, <2>1, <2>2
    DEF DirOf, SeenBy, NothingWithoutDir, Unpublished, Published, Ready, Inside, files
  <2> QED
    BY <2>1, <2>2, <2>3 DEF Sound, files
<1>8. ASSUME Unseize(p) PROVE \E l \in Labels : Sound(p, l)
  <2> DEFINE l == IF at[p] = "unseize" THEN "held" ELSE "idle"
  <2>1. /\ at' = [at EXCEPT ![p] = l] /\ UNCHANGED <<dir, holder, tmp, claim, seen>>
        /\ at[p] \in {"unseize", "unseize_fail"} /\ ~seizing' /\ (aged' => aged)
    BY <1>8 DEF Unseize, Goto
  <2>2. /\ Inside(p) /\ Live(p) /\ Alone(p) /\ l \in Labels
        /\ at[p] \in Published => l \in Published
    BY <1>2, <2>1, LabelsKnown DEF Inside, InsideLabels, Seizing, Live, Stopped, Published
  <2>3. DirOf(p)' /\ SeenBy(p)' /\ NothingWithoutDir'
    BY <1>1, <2>1, <2>2
    DEF DirOf, SeenBy, NothingWithoutDir, Unpublished, Published, Ready, Inside, Mine
  <2> QED
    BY <2>1, <2>2, <2>3 DEF Sound
<1> QED
  BY <1>3, <1>4, <1>5, <1>6, <1>7, <1>8, LabelsKnown DEF Seize, SeizeOpen

(* The steps of a release, the end of a process and its death.  *)
LEMMA ReleaseSound ==
  ASSUME TypeOK, CountInv, LockInv, doubt = {}, doubt' = {}, NEW p \in Procs,
         Release(p) \/ StartRelease(p) \/ Exit(p) \/ Crash(p) \/ ReusePid(p)
  PROVE  \E l \in Labels : Sound(p, l)
<1>1. /\ at \in [Procs -> Labels] /\ holder \in Tokens \cup {NoToken}
      /\ DirOf(p) /\ SeenBy(p) /\ OneInside /\ NothingWithoutDir
  BY DEF TypeOK, LockInv
<1>2. Inside(p) => Alone(p)
  BY <1>1, AloneInside
<1>3. ASSUME StartRelease(p) \/ ReleaseCheck(p) PROVE \E l \in Labels : Sound(p, l)
  <2> DEFINE l == IF at[p] = "held" THEN "rel_check" ELSE "rel_unlink"
  <2>1. at[p] \in {"held", "rel_check"}
    BY <1>3 DEF StartRelease, ReleaseCheck
  <2>2. holder = Mine(p)
    BY <1>1, <2>1 DEF DirOf, Published
  <2>3. at' = [at EXCEPT ![p] = l] /\ UNCHANGED <<files, claim, seen>>
    BY <1>3, <2>2 DEF StartRelease, ReleaseCheck, Goto
  <2>4. Inside(p) /\ Live(p) /\ Alone(p) /\ l \in Labels /\ l \in Published
    BY <1>2, <2>1, LabelsKnown DEF Inside, InsideLabels, Live, Stopped, Published
  <2>5. DirOf(p)' /\ SeenBy(p)' /\ NothingWithoutDir'
    BY <1>1, <2>1, <2>2, <2>3, <2>4
    DEF DirOf, SeenBy, NothingWithoutDir, Unpublished, Published, Ready, Inside, files, Mine
  <2> QED
    BY <2>3, <2>4, <2>5 DEF Sound, files
<1>4. ASSUME ReleaseUnlink(p) \/ ReleaseTmp(p) PROVE \E l \in Labels : Sound(p, l)
  <2> DEFINE l == IF at[p] = "rel_unlink" THEN "rel_tmp" ELSE "rel_rmdir"
  <2>1. at[p] \in {"rel_unlink", "rel_tmp"}
    BY <1>4 DEF ReleaseUnlink, ReleaseTmp
  <2>2. at[p] = "rel_unlink" => holder # NoToken
    BY <1>1, MineIsToken DEF DirOf, Published
  <2>3. at[p] = "rel_tmp" => holder = NoToken /\ ~aged
    BY <1>1 DEF DirOf, Unpublished
  <2>4. /\ at' = [at EXCEPT ![p] = l] /\ UNCHANGED <<dir, seizing, claim, seen>>
        /\ holder' = NoToken /\ ~aged' /\ tmp' \in {tmp, NoToken}
    BY <1>4, <2>2, <2>3 DEF ReleaseUnlink, ReleaseTmp, Goto
  <2>5. Inside(p) /\ Live(p) /\ Alone(p) /\ l \in Labels
    BY <1>2, <2>1, LabelsKnown DEF Inside, InsideLabels, Releasing, Live, Stopped
  <2>6. DirOf(p)' /\ SeenBy(p)' /\ NothingWithoutDir'
    BY <1>1, <2>1, <2>4, <2>5
    DEF DirOf, SeenBy, NothingWithoutDir, Unpublished, Published, Ready, Inside
  <2> QED
    BY <2>4, <2>5, <2>6 DEF Sound
<1>5. ASSUME ReleaseDir(p) PROVE Sound(p, "idle")
  <2>1. /\ at' = [at EXCEPT ![p] = "idle"] /\ UNCHANGED <<holder, tmp, seizing, claim, seen>>
        /\ at[p] = "rel_rmdir"
    BY <1>5 DEF ReleaseDir, GiveUp, Goto
  <2>2. holder = NoToken /\ ~aged
    BY <1>1, <2>1 DEF DirOf, Unpublished
  <2>3. ~dir' => ~dir \/ (tmp = NoToken /\ ~seizing)
    BY <1>5 DEF ReleaseDir, Empty
  <2>4. ~aged'
    BY <1>5, <2>2 DEF ReleaseDir
  <2>5. Inside(p) /\ Live(p) /\ Alone(p) /\ at[p] \notin Published
    BY <1>2, <2>1 DEF Inside, InsideLabels, Releasing, Live, Stopped, Published
  <2>6. DirOf(p)' /\ SeenBy(p)' /\ NothingWithoutDir'
    BY <1>1, <2>1, <2>2, <2>3, LabelsApart
    DEF DirOf, SeenBy, NothingWithoutDir, Unpublished, Published, Ready, Inside
  <2> QED
    BY <2>1, <2>2, <2>4, <2>5, <2>6 DEF Sound
<1>6. ASSUME Exit(p) \/ Crash(p) \/ ReusePid(p) PROVE \E l \in Labels : Sound(p, l)
  <2>1. PICK l \in {"gone", "dead", "reused"} :
           at' = [at EXCEPT ![p] = l] /\ UNCHANGED <<files, claim, seen>>
    BY <1>6 DEF Exit, Crash, ReusePid, Goto
  <2>2. /\ l \in Labels \ InsideLabels /\ l \in Stopped
        /\ l \notin {"stat", "alive", "refused", "reread", "confirmed"}
    BY <2>1, LabelsApart, LabelsKnown DEF Stopped
  <2>3. SeenBy(p)'
    BY <1>1, <2>1, <2>2 DEF SeenBy
  <2> QED
    BY <2>1, <2>2, <2>3, QuietSound
<1> QED
  BY <1>3, <1>4, <1>5, <1>6, LabelsKnown DEF Release
-----------------------------------------------------------------------------
(* tasks.yaml.                                                             *)

(* What a file may hold, with no look at the numbers.  *)
LEMMA ContentsKnown ==
  /\ Torn \in Contents /\ NoFile \in Lists /\ Torn # NoFile /\ ~Whole(Torn) /\ ~Whole(NoFile)
  /\ \A S \in Lists : S \in Contents /\ S # Torn
  /\ \A S \in Contents : S # Torn => S \in Lists
<1>1. \A S \in Lists : S # Torn
  BY DEF Lists, Torn
<1> QED
  BY <1>1 DEF Contents, Lists, Torn, NoFile, Whole

(* An update on top of S: it fits, it is the last one, S is what is left
   without it.  *)
LEMMA NextFits ==
  ASSUME NEW S \in Lists, NEW u \in Nat, u < MaxUpdates, UpTo(S, u)
  PROVE  /\ NextOn(S, u + 1, S \cup {u + 1}) /\ S \cup {u + 1} \in Lists
         /\ u + 1 \in 0..MaxUpdates /\ UpTo(S, u + 1)
<1>1. S \subseteq 1..MaxUpdates /\ MaxUpdates \in Nat
  BY UpdatesAssumption DEF Lists
<1>2. \A v \in S : v <= u /\ v \in Nat
  BY <1>1 DEF UpTo
<1>3. S \cup {u + 1} \subseteq 1..MaxUpdates
  BY <1>1
<1> QED
  BY <1>1, <1>2, <1>3 DEF NextOn, UpTo, Lists

LEMMA NextIsLast ==
  ASSUME NEW S \in Lists, NEW u \in Nat, NEW T, NextOn(S, u, T)
  PROVE  /\ AllButLast(T) = S /\ S \subseteq T /\ UpTo(T, u) /\ T # NoFile /\ u \in T
<1>1. \A v \in S : v \in Nat
  BY UpdatesAssumption DEF Lists
<1>2. T = S \cup {u} /\ \A v \in S : v < u
  BY DEF NextOn
<1>3. AllButLast(T) = S
  BY <1>1, <1>2 DEF AllButLast
<1> QED
  BY <1>1, <1>2, <1>3 DEF UpTo, NoFile

(* Taking the last update off leaves a list whose updates were there.  *)
LEMMA LessIsLess ==
  ASSUME NEW S \in Lists, NEW u, UpTo(S, u)
  PROVE  AllButLast(S) \in Lists /\ UpTo(AllButLast(S), u)
  BY DEF AllButLast, Lists, UpTo

(* The lock's steps leave tasks.yaml alone, and only a command that has put
   its job down gives the lock back.  *)
LEMMA FilesStay ==
  ASSUME TypeOK, FilesInv, NEW p \in Procs, NEW l,
         at' = [at EXCEPT ![p] = l], UNCHANGED tasksVars,
         job[p] = "none" \/ l \in {"dead", "reused"}
  PROVE  FilesInv'
<1>1. at'[p] = l /\ \A q \in Procs \ {p} : at'[q] = at[q]
  BY DEF TypeOK
<1>2. UNCHANGED <<path, bak, tmpFile, job, base, made, latest, damaged>>
  BY DEF tasksVars
<1>3. \A q \in Writers : JobOf(q)'
  BY <1>1, <1>2, WritersAssumption DEF FilesInv, JobOf
<1> QED
  BY <1>2, <1>3 DEF FilesInv

(* Every step of the one command at work keeps the files as they should be.
   (loadTasksFile, writeTasksFileAtomic)  *)
LEMMA TasksKeep ==
  ASSUME TypeOK, FilesInv, NEW p \in Procs, at[p] = "held",
         \A q \in Procs : at[q] = "held" => q = p,
         TasksStep(p), UNCHANGED at
  PROVE  FilesInv' /\ TasksTypeOK'
<1>1. /\ path \in Contents /\ bak \in Contents /\ tmpFile \in Contents
      /\ job \in [Procs -> Jobs] /\ base \in [Procs -> Lists]
      /\ made \in 0..MaxUpdates /\ made \in Nat /\ latest \in Lists /\ damaged \in BOOLEAN
      /\ base[p] \in Lists
  BY UpdatesAssumption, WritersAssumption DEF TypeOK, TasksTypeOK
<1>2. /\ path = Torn => damaged
      /\ path # Torn => path = latest
      /\ path = NoFile => bak = NoFile
      /\ UpTo(latest, made)
      /\ bak \in {Torn, latest, AllButLast(latest)}
      /\ (\A q \in Procs : job[q] # "copying") => bak \in {latest, AllButLast(latest)}
      /\ \A q \in Procs : job[q] # "none" => at[q] \in {"held", "dead", "reused"}
      /\ job[p] \in {"loaded", "copying", "copied", "writing", "written"} => path = base[p]
      /\ job[p] \in {"copying", "copied"} => path # NoFile
      /\ job[p] \in {"copying", "copied", "writing"} => made < MaxUpdates
      /\ job[p] \in {"copied", "writing", "written"} => bak = path
      /\ job[p] = "written" => NextOn(base[p], made, tmpFile) /\ tmpFile \in Lists
      /\ job[p] = "restoring" => path = Torn /\ base[p] = bak /\ Whole(bak)
  BY WritersAssumption DEF FilesInv, JobOf
<1>3. ASSUME \A q \in Procs \ {p} : job'[q] = job[q], JobOf(p)'
      PROVE  \A q \in Writers : JobOf(q)'
  BY <1>2, <1>3, WritersAssumption DEF JobOf
<1>4. ASSUME Load(p) PROVE FilesInv' /\ TasksTypeOK'
  <2>1. /\ job[p] = "none" /\ job' = [job EXCEPT ![p] = "loaded"] /\ path # Torn
        /\ base' = [base EXCEPT ![p] = path] /\ UNCHANGED <<path, bak, tmpFile, made, latest, damaged>>
    BY <1>4 DEF Load, Step
  <2>2. /\ job'[p] = "loaded" /\ base'[p] = path /\ path \in Lists /\ \A q \in Procs \ {p} : job'[q] = job[q]
    BY <1>1, <2>1, ContentsKnown
  <2>3. TasksTypeOK'
    BY <1>1, <2>1, <2>2, WritersAssumption, ContentsKnown DEF TasksTypeOK, Jobs
  <2>4. JobOf(p)'
    BY <2>1, <2>2 DEF JobOf
  <2>5. (\A q \in Procs : job'[q] # "copying") => \A q \in Procs : job[q] # "copying"
    BY <2>1, <2>2
  <2> QED
    BY <1>2, <1>3, <2>1, <2>2, <2>3, <2>4, <2>5, WritersAssumption DEF FilesInv
<1>5. ASSUME StartCopy(p) PROVE FilesInv' /\ TasksTypeOK'
  <2>1. /\ job[p] = "loaded" /\ job' = [job EXCEPT ![p] = "copying"] /\ path # NoFile
        /\ bak' = Torn /\ made < MaxUpdates /\ UNCHANGED <<path, tmpFile, base, made, latest, damaged>>
    BY <1>5 DEF StartCopy, Step
  <2>2. /\ job'[p] = "copying" /\ \A q \in Procs \ {p} : job'[q] = job[q]
    BY <1>1, <2>1
  <2>3. TasksTypeOK'
    BY <1>1, <2>1, WritersAssumption, ContentsKnown DEF TasksTypeOK, Jobs
  <2>4. JobOf(p)'
    BY <1>2, <2>1, <2>2 DEF JobOf
  <2> QED
    BY <1>2, <1>3, <2>1, <2>2, <2>3, <2>4, WritersAssumption DEF FilesInv
<1>6. ASSUME FinishCopy(p) PROVE FilesInv' /\ TasksTypeOK'
  <2>1. /\ job[p] = "copying" /\ job' = [job EXCEPT ![p] = "copied"] /\ bak' = path
        /\ UNCHANGED <<path, tmpFile, base, made, latest, damaged>>
    BY <1>6 DEF FinishCopy, Step
  <2>2. /\ job'[p] = "copied" /\ \A q \in Procs \ {p} : job'[q] = job[q]
    BY <1>1, <2>1
  <2>3. TasksTypeOK'
    BY <1>1, <2>1, WritersAssumption, ContentsKnown DEF TasksTypeOK, Jobs
  <2>4. JobOf(p)' /\ path = latest /\ path # NoFile
    BY <1>1, <1>2, <2>1, <2>2, ContentsKnown DEF JobOf
  <2> QED
    BY <1>2, <1>3, <2>1, <2>2, <2>3, <2>4, WritersAssumption DEF FilesInv
<1>7. ASSUME OpenTmp(p) PROVE FilesInv' /\ TasksTypeOK'
  <2>1. /\ job[p] = "copied" \/ (path = NoFile /\ job[p] = "loaded")
        /\ job' = [job EXCEPT ![p] = "writing"] /\ tmpFile' = Torn
        /\ made < MaxUpdates /\ UNCHANGED <<path, bak, base, made, latest, damaged>>
    BY <1>7 DEF OpenTmp, Step
  <2>2. /\ job'[p] = "writing" /\ \A q \in Procs \ {p} : job'[q] = job[q]
    BY <1>1, <2>1
  <2>3. TasksTypeOK'
    BY <1>1, <2>1, WritersAssumption, ContentsKnown DEF TasksTypeOK, Jobs
  <2>4. JobOf(p)'
    BY <1>1, <1>2, <2>1, <2>2 DEF JobOf
  <2>5. (\A q \in Procs : job'[q] # "copying") => \A q \in Procs : job[q] # "copying"
    BY <2>1, <2>2
  <2> QED
    BY <1>2, <1>3, <2>1, <2>2, <2>3, <2>4, <2>5, WritersAssumption DEF FilesInv
<1>8. ASSUME WriteTmp(p) PROVE FilesInv' /\ TasksTypeOK'
  <2>1. /\ job[p] = "writing" /\ job' = [job EXCEPT ![p] = "written"]
        /\ tmpFile' = base[p] \cup {made + 1} /\ made' = made + 1
        /\ UNCHANGED <<path, bak, base, latest, damaged>>
    BY <1>8 DEF WriteTmp, Step
  <2>2. /\ job'[p] = "written" /\ \A q \in Procs \ {p} : job'[q] = job[q]
    BY <1>1, <2>1
  <2>3. UpTo(base[p], made) /\ made < MaxUpdates
    BY <1>1, <1>2, <2>1, ContentsKnown
  <2>4. /\ NextOn(base[p], made + 1, tmpFile') /\ tmpFile' \in Lists
        /\ made + 1 \in 0..MaxUpdates /\ UpTo(latest, made + 1)
    BY <1>1, <1>2, <2>1, <2>3, NextFits
  <2>5. TasksTypeOK'
    BY <1>1, <2>1, <2>4, WritersAssumption, ContentsKnown DEF TasksTypeOK, Jobs
  <2>6. JobOf(p)'
    BY <1>1, <1>2, <2>1, <2>2, <2>4 DEF JobOf
  <2>7. (\A q \in Procs : job'[q] # "copying") => \A q \in Procs : job[q] # "copying"
    BY <2>1, <2>2
  <2> QED
    BY <1>2, <1>3, <2>1, <2>2, <2>4, <2>5, <2>6, <2>7, WritersAssumption DEF FilesInv
<1>9. ASSUME Replace(p) PROVE FilesInv' /\ TasksTypeOK'
  <2>1. /\ job[p] = "written" /\ job' = [job EXCEPT ![p] = "loaded"]
        /\ path' = tmpFile /\ tmpFile' = NoFile /\ latest' = tmpFile
        /\ base' = [base EXCEPT ![p] = tmpFile] /\ UNCHANGED <<bak, made, damaged>>
    BY <1>9 DEF Replace, Step
  <2>2. NextOn(base[p], made, tmpFile) /\ path = base[p] /\ bak = path
    BY <1>2, <2>1
  <2>3. /\ job'[p] = "loaded" /\ base'[p] = tmpFile /\ \A q \in Procs \ {p} : job'[q] = job[q]
    BY <1>1, <2>1
  <2>4. /\ AllButLast(tmpFile) = bak /\ UpTo(tmpFile, made) /\ tmpFile # NoFile
        /\ made \in tmpFile
    BY <1>1, <2>2, NextIsLast
  <2>5. tmpFile \in Lists /\ tmpFile # Torn
    BY <1>2, <2>1, ContentsKnown
  <2>6. TasksTypeOK'
    BY <1>1, <2>1, <2>5, WritersAssumption, ContentsKnown DEF TasksTypeOK, Jobs
  <2>7. JobOf(p)'
    BY <2>1, <2>3 DEF JobOf
  <2> QED
    BY <1>2, <1>3, <2>1, <2>3, <2>4, <2>5, <2>6, <2>7, WritersAssumption DEF FilesInv
<1>10. ASSUME Finish(p) PROVE FilesInv' /\ TasksTypeOK'
  <2>1. /\ job[p] = "loaded" /\ job' = [job EXCEPT ![p] = "none"]
        /\ UNCHANGED <<path, bak, tmpFile, base, made, latest, damaged>>
    BY <1>10 DEF Finish, Step
  <2>2. /\ job'[p] = "none" /\ \A q \in Procs \ {p} : job'[q] = job[q]
    BY <1>1, <2>1
  <2>3. TasksTypeOK'
    BY <1>1, <2>1, WritersAssumption, ContentsKnown DEF TasksTypeOK, Jobs
  <2>4. JobOf(p)'
    BY <2>1, <2>2 DEF JobOf
  <2>5. (\A q \in Procs : job'[q] # "copying") => \A q \in Procs : job[q] # "copying"
    BY <2>1, <2>2
  <2> QED
    BY <1>2, <1>3, <2>1, <2>2, <2>3, <2>4, <2>5, WritersAssumption DEF FilesInv
<1>11. ASSUME StartRestore(p) PROVE FilesInv' /\ TasksTypeOK'
  <2>1. /\ job[p] = "none" /\ job' = [job EXCEPT ![p] = "restoring"]
        /\ base' = [base EXCEPT ![p] = bak] /\ path' = Torn
        /\ UNCHANGED <<bak, tmpFile, made, latest, damaged>> /\ ~Whole(path) /\ Whole(bak)
    BY <1>11 DEF StartRestore, Step
  <2>2. path = Torn
    BY <1>2, <2>1 DEF Whole
  <2>3. /\ job'[p] = "restoring" /\ base'[p] = bak /\ \A q \in Procs \ {p} : job'[q] = job[q]
    BY <1>1, <2>1
  <2>4. bak \in Lists
    BY <1>1, <2>1, ContentsKnown
  <2>5. TasksTypeOK'
    BY <1>1, <2>1, <2>2, <2>4, WritersAssumption, ContentsKnown DEF TasksTypeOK, Jobs
  <2>6. JobOf(p)'
    BY <2>1, <2>3 DEF JobOf
  <2>7. (\A q \in Procs : job'[q] # "copying") => \A q \in Procs : job[q] # "copying"
    BY <2>1, <2>3
  <2> QED
    BY <1>2, <1>3, <2>1, <2>2, <2>3, <2>5, <2>6, <2>7, WritersAssumption DEF FilesInv
<1>12. ASSUME FinishRestore(p) PROVE FilesInv' /\ TasksTypeOK'
  <2>1. /\ job[p] = "restoring" /\ job' = [job EXCEPT ![p] = "none"]
        /\ path' = base[p] /\ latest' = base[p] /\ UNCHANGED <<bak, tmpFile, base, made, damaged>>
    BY <1>12 DEF FinishRestore, Step
  <2>2. base[p] = bak /\ Whole(bak) /\ bak \in {latest, AllButLast(latest)} /\ UpTo(bak, made)
    <3>1. base[p] = bak /\ Whole(bak)
      BY <1>2, <2>1
    <3> QED
      BY <1>1, <1>2, <3>1, LessIsLess DEF Whole
  <2>3. /\ job'[p] = "none" /\ \A q \in Procs \ {p} : job'[q] = job[q]
    BY <1>1, <2>1
  <2>4. path' # Torn /\ path' # NoFile
    BY <2>1, <2>2 DEF Whole
  <2>5. TasksTypeOK'
    BY <1>1, <2>1, <2>2, WritersAssumption, ContentsKnown DEF TasksTypeOK, Jobs
  <2>6. JobOf(p)'
    BY <2>1, <2>3 DEF JobOf
  <2> QED
    BY <1>2, <1>3, <2>1, <2>2, <2>3, <2>4, <2>5, <2>6, WritersAssumption DEF FilesInv
<1> QED
  BY <1>4, <1>5, <1>6, <1>7, <1>8, <1>9, <1>10, <1>11, <1>12 DEF TasksStep
(* Something that destroys tasks.yaml while nobody works on it leaves the
   backup as the way back.  *)
LEMMA DamageKeeps ==
  ASSUME TypeOK, FilesInv, Holders = {}, Damage, UNCHANGED at
  PROVE  FilesInv' /\ TasksTypeOK'
<1>1. \A q \in Procs : at[q] # "held"
  BY DEF Holders, InSection
<1>2. /\ path' = Torn /\ damaged' = TRUE /\ UNCHANGED <<bak, tmpFile, job, base, made, latest>>
  BY DEF Damage
<1>3. \A q \in Writers : JobOf(q)'
  BY <1>1, <1>2, WritersAssumption DEF FilesInv, JobOf
<1>4. Torn # NoFile /\ Torn \in Contents
  BY ContentsKnown
<1>5. TasksTypeOK'
  BY <1>2, <1>4 DEF TypeOK, TasksTypeOK
<1> QED
  BY <1>2, <1>3, <1>4, <1>5 DEF FilesInv

-----------------------------------------------------------------------------
(* The preset.                                                             *)

(* Every step of the command, and every failure of one, keeps a whole copy of
   what was there before.  (preset.ts, assets-writer.ts)  *)
LEMMA PresetKeeps ==
  ASSUME PresetTypeOK, PresetInv, PresetStep
  PROVE  PresetTypeOK' /\ PresetInv'
<1> USE DEF PresetTypeOK, Forms, Move, Fail, Stuck, trees, configs, befores
<1>1. CASE StartApply
  BY <1>1 DEF StartApply, Stages, PresetInv, Forward, BeforeSwap
<1>2. CASE BackupAgents
  BY <1>2 DEF BackupAgents, Stages, PresetInv, Forward, BeforeSwap
<1>3. CASE BackupConfig
  BY <1>3 DEF BackupConfig, Stages, PresetInv, Forward, BeforeSwap
<1>4. CASE StageTree
  BY <1>4 DEF StageTree, Stages, PresetInv, Forward, BeforeSwap
<1>5. CASE WriteConfig
  BY <1>5 DEF WriteConfig, Stages, PresetInv, Forward, BeforeSwap
<1>6. CASE SetAside
  BY <1>6 DEF SetAside, Stages, PresetInv, Forward, BeforeSwap
<1>7. CASE MoveIn
  BY <1>7 DEF MoveIn, Stages, PresetInv, Forward, BeforeSwap
<1>8. CASE PostApplyCheck
  BY <1>8 DEF PostApplyCheck, FailInPlace, Stages, PresetInv, Forward, BeforeSwap
<1>9. CASE ClearPrevious
  BY <1>9 DEF ClearPrevious, FailInPlace, Stages, PresetInv, Forward, BeforeSwap
<1>10. CASE UndoRemove
  BY <1>10 DEF UndoRemove, Stages, PresetInv, Forward, BeforeSwap
<1>11. CASE UndoRename
  BY <1>11 DEF UndoRename, Stages, PresetInv, Forward, BeforeSwap
<1>12. CASE UndoConfig
  BY <1>12 DEF UndoConfig, Stages, PresetInv, Forward, BeforeSwap
<1>13. CASE UndoAgents
  <2>1. /\ stage = "undo_agents" /\ stage' \in {"undo_clear", "rollback_failed"}
        /\ agents' = CopyOver(backup, agents) \/ backup = "old"
        /\ agents' \in Forms
        /\ UNCHANGED <<staging, previous, backup, config, savedConfig, created,
                       agentsBefore, configBefore>>
    BY <1>13 DEF UndoAgents, CopyOver
  <2>2. agents = "old" /\ backup # "old" => agents' = "old"
    BY <2>1 DEF CopyOver, PresetInv
  <2>3. PresetTypeOK'
    BY <2>1 DEF Stages
  <2>4. PresetInv'
    BY <2>1, <2>2 DEF PresetInv, Stages, Forward, BeforeSwap
  <2> QED
    BY <2>3, <2>4
<1>14. CASE UndoClear
  BY <1>14 DEF UndoClear, Stages, PresetInv, Forward, BeforeSwap
<1> QED
  BY <1>1, <1>2, <1>3, <1>4, <1>5, <1>6, <1>7, <1>8, <1>9, <1>10, <1>11, <1>12, <1>13, <1>14
  DEF PresetStep
-----------------------------------------------------------------------------
(* Every step keeps the invariant.                                         *)

LEMMA InitHolds == Init => IInv
<1> SUFFICES ASSUME Init PROVE IInv
  OBVIOUS
<1>1. /\ dir = FALSE /\ holder = NoToken /\ tmp = NoToken /\ seizing = FALSE /\ aged = FALSE
      /\ at = [p \in Procs |-> "idle"] /\ claim = [p \in Procs |-> 0]
      /\ tries = [p \in Procs |-> 0] /\ seen = [p \in Procs |-> NoToken] /\ doubt = {}
  BY DEF Init, LockInit
<1>2. /\ path = NoFile /\ bak = NoFile /\ tmpFile = NoFile /\ latest = NoFile
      /\ job = [p \in Writers |-> "none"] /\ base = [p \in Writers |-> NoFile]
      /\ made = 0 /\ damaged = FALSE
  BY DEF Init, TasksInit
<1>3. LockTypeOK
  <2>1. at \in [Procs -> Labels] /\ seen \in [Procs -> Tokens \cup {NoToken}]
    BY <1>1, LabelsKnown
  <2>2. claim \in [Procs -> 0..MaxClaims] /\ tries \in [Procs -> 0..2]
    BY <1>1, ClaimsAssumption
  <2> QED
    BY <1>1, <2>1, <2>2 DEF LockTypeOK
<1>4. TasksTypeOK
  <2>1. job \in [Writers -> Jobs] /\ base \in [Writers -> Lists]
    BY <1>2, ContentsKnown DEF Jobs
  <2>2. NoFile \in Contents /\ NoFile \in Lists /\ 0 \in 0..MaxUpdates
    BY UpdatesAssumption, ContentsKnown
  <2> QED
    BY <1>2, <2>1, <2>2 DEF TasksTypeOK
<1>5. PresetTypeOK /\ PresetInv
  BY DEF Init, PresetInit, PresetTypeOK, PresetInv, Forms, Stages, Forward, BeforeSwap
<1>6. command \in [Procs -> Commands]
  BY MixesAssumption DEF Init
<1>7. TypeOK
  BY <1>3, <1>4, <1>5, <1>6 DEF TypeOK, LockTypeOK
<1>8. CountInv
  BY <1>1 DEF CountInv
<1>9. FilesInv
  <2>1. UpTo(NoFile, 0)
    BY DEF UpTo, NoFile
  <2> QED
    BY <1>2, <2>1, ContentsKnown DEF FilesInv, JobOf
<1>10. LockInv
  <2>1. \A p \in Procs : DirOf(p) /\ SeenBy(p) /\ ~Inside(p)
    BY <1>1, LabelsApart DEF DirOf, SeenBy, Inside
  <2> QED
    BY <1>1, <2>1 DEF LockInv, OneInside, NothingWithoutDir, HolderIsAtWork
<1> QED
  BY <1>5, <1>7, <1>8, <1>9, <1>10 DEF IInv

(* A step of the lock moves one process, from a label where it has no job
   unless it dies there.  *)
LEMMA LockMoves ==
  ASSUME NEW p \in Procs,
         LockStep(p) \/ Crash(p) \/ ReusePid(p)
  PROVE  \E l : /\ at' = [at EXCEPT ![p] = l]
                /\ l \in {"dead", "reused"} \/ at[p] \notin {"held", "dead", "reused"}
<1>1. CASE Acquire(p)
  BY <1>1 DEF Acquire, Begin, MakeDir, PublishUnlink, PublishWrite, PublishRename, Goto
<1>2. CASE Recover(p)
  BY <1>2 DEF Recover, ReadHolder, CheckAlive, Reread, RemoveHolder, RemoveTmp, RemoveDir,
              StatDir, ReadDir, GiveUp, Goto
<1>3. CASE Seize(p)
  BY <1>3 DEF Seize, Refuse, Confirm, SeizeRead, SeizeOpen, SeizeRecheck, Unseize, GiveUp, Goto
<1>4. CASE Release(p) \/ Exit(p)
  BY <1>4 DEF Release, ReleaseCheck, ReleaseUnlink, ReleaseTmp, ReleaseDir, Exit, GiveUp, Goto
<1>5. CASE Crash(p) \/ ReusePid(p)
  BY <1>5 DEF Crash, ReusePid, Goto
<1> QED
  BY <1>1, <1>2, <1>3, <1>4, <1>5 DEF LockStep

(* The variables of tasks.yaml and of the preset, when they stand still.  *)
LEMMA OthersStay ==
  ASSUME TypeOK, FilesInv, PresetInv, LockTypeOK', UNCHANGED <<tasksVars, presetVars, command>>
  PROVE  TypeOK' /\ PresetInv'
<1>1. TasksTypeOK'
  BY DEF TypeOK, TasksTypeOK, tasksVars
<1>2. UNCHANGED <<agents, staging, previous, backup, config, savedConfig, created,
                  agentsBefore, configBefore, stage>>
  BY DEF presetVars, trees, configs, befores
<1>3. PresetTypeOK'
  BY <1>2 DEF TypeOK, PresetTypeOK
<1>4. PresetInv'
  BY <1>2 DEF PresetInv
<1>5. TypeOK'
  BY <1>1, <1>3 DEF TypeOK, LockTypeOK
<1> QED
  BY <1>4, <1>5

LEMMA MoveKeeps ==
  ASSUME IInv, doubt = {}, NEW p \in Procs,
         \/ LockStep(p) \/ Crash(p) \/ ReusePid(p)
         \/ StartRelease(p) /\ job[p] = "none",
         UNCHANGED <<tasksVars, presetVars, command>>
  PROVE  IInv'
<1>1. TypeOK /\ CountInv /\ FilesInv /\ PresetInv /\ LockInv
  BY DEF IInv
<1>2. LockTypeOK' /\ CountInv'
  BY <1>1, TypesAcquire, TypesRest DEF LockStep
<1>3. TypeOK' /\ PresetInv'
  BY <1>1, <1>2, OthersStay
<1>4. FilesInv'
  <2>1. PICK l : /\ at' = [at EXCEPT ![p] = l]
                 /\ \/ l \in {"dead", "reused"}
                    \/ at[p] \notin {"held", "dead", "reused"}
                    \/ job[p] = "none"
    <3>1. CASE StartRelease(p) /\ job[p] = "none"
      BY <3>1 DEF StartRelease, Goto
    <3> QED
      BY <3>1, LockMoves
  <2>2. job[p] = "none" \/ l \in {"dead", "reused"}
    BY <1>1, <2>1, WritersAssumption DEF FilesInv, JobOf
  <2> QED
    BY <1>1, <2>1, <2>2, FilesStay
<1>5. ASSUME doubt' = {} PROVE LockInv'
  BY <1>1, <1>5, AcquireSound, RecoverSound, SeizeSound, ReleaseSound, SoundKeeps DEF LockStep
<1> QED
  BY <1>2, <1>3, <1>4, <1>5 DEF IInv

(* The grace period passes.  *)
LEMMA AgeKeeps ==
  ASSUME IInv, doubt = {}, Age, UNCHANGED <<tasksVars, presetVars, command>>
  PROVE  IInv'
<1>1. TypeOK /\ CountInv /\ FilesInv /\ PresetInv /\ LockInv
  BY DEF IInv
<1>2. /\ UNCHANGED <<dir, holder, tmp, seizing, at, claim, tries, seen>>
      /\ aged' = TRUE /\ doubt' \in {doubt, doubt \cup {"slow"}}
      /\ doubt' = {} => Halfway = {}
  BY DEF Age
<1>3. LockTypeOK' /\ CountInv'
  BY <1>1, <1>2 DEF TypeOK, LockTypeOK, CountInv
<1>4. TypeOK' /\ PresetInv'
  BY <1>1, <1>3, OthersStay
<1>5. FilesInv'
  BY <1>1, <1>2 DEF FilesInv, JobOf, tasksVars
<1>6. ASSUME doubt' = {} PROVE LockInv'
  <2>1. \A p \in Procs : at[p] \in {"idle", "held", "refused"} \cup Stopped
    BY <1>2, <1>6 DEF Halfway
  <2>2. ASSUME NEW p \in Procs PROVE DirOf(p)' /\ SeenBy(p)'
    BY <1>1, <1>2, <2>1
    DEF LockInv, DirOf, SeenBy, Inside, Mine, Live, Stopped, Unpublished, Published, Ready
  <2>3. OneInside' /\ NothingWithoutDir' /\ HolderIsAtWork'
    BY <1>1, <1>2, <1>6
    DEF LockInv, OneInside, Inside, NothingWithoutDir, HolderIsAtWork, Live, Mine
  <2> QED
    BY <2>2, <2>3 DEF LockInv
<1> QED
  BY <1>3, <1>4, <1>5, <1>6 DEF IInv

(* The work under the lock leaves the lock alone.  *)
LEMMA LockStays ==
  ASSUME TypeOK, CountInv, LockInv, UNCHANGED lockVars
  PROVE  LockTypeOK' /\ CountInv' /\ LockInv'
<1>1. UNCHANGED <<dir, holder, tmp, seizing, aged, at, claim, tries, seen, doubt>>
  BY DEF lockVars
<1>2. LockTypeOK' /\ CountInv'
  BY <1>1 DEF TypeOK, LockTypeOK, CountInv
<1>3. \A p \in Procs : DirOf(p)' /\ SeenBy(p)'
  BY <1>1 DEF LockInv, DirOf, SeenBy, Inside, Mine, Live
<1>4. OneInside' /\ NothingWithoutDir' /\ HolderIsAtWork'
  BY <1>1 DEF LockInv, OneInside, Inside, NothingWithoutDir, HolderIsAtWork, Live, Mine
<1> QED
  BY <1>2, <1>3, <1>4 DEF LockInv

(* Only one command is at work.  *)
LEMMA OneHolder ==
  ASSUME LockInv, NEW p \in Procs, at[p] = "held", NEW q \in Procs, at[q] = "held"
  PROVE  q = p
  BY DEF LockInv, OneInside, Inside, InsideLabels

LEMMA WorkKeeps ==
  ASSUME IInv, doubt = {},
         (\E p \in Procs : UpdateTasks(p) \/ ApplyPreset(p)) \/ DamageTasks
  PROVE  IInv'
<1>1. TypeOK /\ CountInv /\ FilesInv /\ PresetInv /\ LockInv
  BY DEF IInv
<1>2. UNCHANGED lockVars /\ UNCHANGED at /\ UNCHANGED command
  BY DEF UpdateTasks, ApplyPreset, DamageTasks, lockVars
<1>3. LockTypeOK' /\ CountInv' /\ LockInv'
  BY <1>1, <1>2, LockStays
<1>4. ASSUME FilesInv', TasksTypeOK', UNCHANGED presetVars PROVE IInv'
  <2>1. UNCHANGED <<agents, staging, previous, backup, config, savedConfig, created,
                    agentsBefore, configBefore, stage>>
    BY <1>4 DEF presetVars, trees, configs, befores
  <2>2. PresetTypeOK' /\ PresetInv'
    BY <1>1, <2>1 DEF TypeOK, PresetTypeOK, PresetInv
  <2>3. TypeOK'
    BY <1>1, <1>2, <1>3, <1>4, <2>2 DEF TypeOK, LockTypeOK
  <2> QED
    BY <1>3, <1>4, <2>2, <2>3 DEF IInv
<1>5. ASSUME NEW p \in Procs, UpdateTasks(p) PROVE IInv'
  <2>1. TasksStep(p) /\ UNCHANGED presetVars /\ at[p] = "held"
    BY <1>5 DEF UpdateTasks, InSection
  <2> QED
    BY <1>1, <1>2, <1>4, <2>1, OneHolder, TasksKeep
<1>6. ASSUME DamageTasks PROVE IInv'
  BY <1>1, <1>2, <1>4, <1>6, DamageKeeps DEF DamageTasks
<1>7. ASSUME NEW p \in Procs, ApplyPreset(p) PROVE IInv'
  <2>1. PresetTypeOK' /\ PresetInv' /\ UNCHANGED tasksVars
    BY <1>1, <1>7, PresetKeeps DEF ApplyPreset, TypeOK
  <2>2. TasksTypeOK' /\ FilesInv'
    BY <1>1, <1>2, <2>1 DEF TypeOK, TasksTypeOK, tasksVars, FilesInv, JobOf
  <2>3. TypeOK'
    BY <1>1, <1>2, <1>3, <2>1, <2>2 DEF TypeOK, LockTypeOK
  <2> QED
    BY <1>3, <2>1, <2>2, <2>3 DEF IInv
<1> QED
  BY <1>5, <1>6, <1>7

LEMMA Invariance == IInv /\ [Next]_vars => IInv'
<1> SUFFICES ASSUME IInv, [Next]_vars PROVE IInv'
  OBVIOUS
<1>1. CASE UNCHANGED vars
  <2>1. UNCHANGED lockVars /\ UNCHANGED <<tasksVars, presetVars, command>> /\ UNCHANGED at
        /\ UNCHANGED doubt
    BY <1>1 DEF vars, lockVars
  <2>2. TypeOK /\ CountInv /\ FilesInv /\ PresetInv
    BY DEF IInv
  <2>3. LockTypeOK' /\ CountInv'
    BY <2>1, <2>2 DEF TypeOK, LockTypeOK, CountInv, lockVars
  <2>4. TypeOK' /\ PresetInv'
    BY <2>1, <2>2, <2>3, OthersStay
  <2>5. FilesInv'
    BY <2>1, <2>2 DEF FilesInv, JobOf, tasksVars
  <2>6. doubt' = {} => LockInv'
    BY <2>1, <2>2, LockStays DEF IInv
  <2> QED
    BY <2>3, <2>4, <2>5, <2>6 DEF IInv
<1>2. CASE Next
  <2>1. doubt = {}
    BY <1>2 DEF Next
  <2>2. ASSUME NEW p \in Procs, UpdateTasks(p) \/ ApplyPreset(p) PROVE IInv'
    BY <2>1, <2>2, WorkKeeps
  <2>3. ASSUME NEW p \in Procs, EndCommand(p) \/ Lock(p) PROVE IInv'
    BY <2>1, <2>3, MoveKeeps DEF EndCommand, Lock, AtWork
  <2>4. ASSUME Surroundings PROVE IInv'
    BY <2>1, <2>4, MoveKeeps, AgeKeeps DEF Surroundings
  <2>5. ASSUME DamageTasks PROVE IInv'
    BY <2>1, <2>5, WorkKeeps
  <2> QED
    BY <1>2, <2>2, <2>3, <2>4, <2>5 DEF Next
<1> QED
  BY <1>1, <1>2
-----------------------------------------------------------------------------
(* The theorems.                                                           *)

LEMMA InvariantHolds == Spec => []IInv
  BY InitHolds, Invariance, PTL DEF Spec

(* Every variable keeps its type, for any number of processes, claims and
   updates: no claim and no attempt exceeds its bound, and no file holds
   anything but an update that was made.  *)
THEOREM TypesHold == Spec => []TypeOK
<1>1. IInv => TypeOK
  BY DEF IInv
<1> QED
  BY <1>1, InvariantHolds, PTL

(* Mutual exclusion: two commands are never at work at once, as long as the
   exclusion is not in doubt.  (withWriteCommandLock)  *)
THEOREM RunLockExcludes == Spec => []Exclusive
<1>1. IInv => Exclusive
  <2> SUFFICES ASSUME IInv, doubt = {} PROVE Cardinality(Holders) <= 1
    BY DEF Exclusive
  <2>1. LockInv
    BY DEF IInv
  <2>2. CASE Holders = {}
    BY <2>2, FS_EmptySet
  <2>3. CASE Holders # {}
    <3>1. PICK p \in Procs : at[p] = "held"
      BY <2>3 DEF Holders, InSection
    <3>2. Holders = {p}
      BY <2>1, <3>1, OneHolder DEF Holders, InSection
    <3>3. Cardinality({p}) = 1
      BY FS_Singleton
    <3> QED
      BY <3>2, <3>3
  <2> QED
    BY <2>2, <2>3
<1> QED
  BY <1>1, InvariantHolds, PTL

(* The holder file never names a claim that a live process has forgotten.
   (releaseRunLock, and every failure of publishHolder)  *)
THEOREM LockIsGivenBack == Spec => []HolderIsAtWork
<1>1. IInv => HolderIsAtWork
  BY DEF IInv, LockInv, HolderIsAtWork
<1> QED
  BY <1>1, InvariantHolds, PTL

(* Whatever is cut off, tasks.yaml is replaced in one step: a torn file comes
   from outside.  (writeTasksFileAtomic)  *)
THEOREM TasksFileIsWhole == Spec => []ReadersSeeWhole
<1>1. IInv => ReadersSeeWhole
  BY DEF IInv, FilesInv, ReadersSeeWhole
<1> QED
  BY <1>1, InvariantHolds, PTL

(* The backup is the last update or the one before it, unless the copy to it
   was cut off.  (writeTasksFileAtomic, retry --recover-corruption)  *)
THEOREM BackupIsTheWayBack == Spec => []RestorableToPrevious
<1>1. IInv => RestorableToPrevious
  <2> SUFFICES ASSUME IInv, path = Torn,
                      ~\E p \in Writers : at[p] # "held" /\ job[p] = "copying"
               PROVE  bak \in {latest, AllButLast(latest)}
    BY DEF RestorableToPrevious
  <2>1. FilesInv /\ base \in [Writers -> Lists]
    BY DEF IInv, TypeOK, TasksTypeOK
  <2>2. ASSUME NEW p \in Writers, job[p] = "copying" PROVE FALSE
    <3>1. at[p] = "held"
      BY <2>2
    <3>2. path = base[p] /\ base[p] \in Lists
      BY <2>1, <2>2, <3>1 DEF FilesInv, JobOf
    <3> QED
      BY <3>2, ContentsKnown
  <2> QED
    BY <2>1, <2>2 DEF FilesInv
<1> QED
  BY <1>1, InvariantHolds, PTL

(* No failure and no crash of `preset apply` loses the user's tree or
   config.yaml, and a rollback that is reported has happened.  (preset.ts)  *)
THEOREM PresetKeepsTheOldTree == Spec => []OldTreeKept
<1>1. IInv => OldTreeKept
  BY DEF IInv, PresetInv, OldTreeKept
<1> QED
  BY <1>1, InvariantHolds, PTL

(* What a command at work does to tasks.yaml: the next update on top of all
   that are there, the way back, or nothing that shows.  *)
LEMMA WorkOnTasks ==
  ASSUME IInv, doubt = {}, NEW p \in Procs, UpdateTasks(p)
  PROVE  /\ Holders = {p} /\ Holders' = {p} /\ doubt' = {}
         /\ \/ /\ path # Torn /\ path' # Torn /\ path' = latest' /\ path \subseteq path'
               /\ made \in latest' /\ NextOn(latest, made, latest')
            \/ /\ path = Torn /\ path' # Torn /\ path' = latest'
               /\ latest' \in {latest, AllButLast(latest)}
            \/ latest' = latest /\ path' = path
<1>1. TypeOK /\ FilesInv /\ LockInv /\ at[p] = "held" /\ TasksStep(p)
      /\ UNCHANGED <<at, doubt>>
  BY DEF IInv, UpdateTasks, InSection, lockVars
<1>2. Holders = {p} /\ Holders' = {p} /\ doubt' = {}
  BY <1>1, OneHolder DEF Holders, InSection
<1>3. /\ base[p] \in Lists /\ tmpFile \in Contents /\ made \in Nat /\ JobOf(p)
  BY <1>1, UpdatesAssumption, WritersAssumption DEF TypeOK, TasksTypeOK, FilesInv
<1>4. CASE Replace(p)
  <2>1. job[p] = "written" /\ path' = tmpFile /\ latest' = tmpFile
    BY <1>4 DEF Replace, Step
  <2>2. NextOn(base[p], made, tmpFile) /\ path = base[p] /\ path # Torn /\ path = latest
    BY <1>1, <1>3, <2>1, ContentsKnown DEF JobOf, FilesInv
  <2>3. base[p] \subseteq tmpFile /\ made \in tmpFile /\ tmpFile # NoFile
    BY <1>3, <2>2, NextIsLast
  <2>4. tmpFile # Torn
    BY <1>1, <1>3, <2>1, ContentsKnown DEF JobOf
  <2> QED
    BY <1>2, <2>1, <2>2, <2>3, <2>4
<1>5. CASE FinishRestore(p)
  <2>1. job[p] = "restoring" /\ latest' = base[p] /\ path' = base[p]
    BY <1>5 DEF FinishRestore, Step
  <2>2. path = Torn /\ base[p] = bak /\ Whole(bak)
    BY <1>1, <1>3, <2>1 DEF JobOf
  <2>3. bak \in {latest, AllButLast(latest)} /\ bak # Torn
    BY <1>1, <2>2 DEF FilesInv, Whole
  <2> QED
    BY <1>2, <2>1, <2>2, <2>3
<1>6. CASE StartRestore(p)
  <2>1. path' = Torn /\ latest' = latest /\ ~Whole(path) /\ Whole(bak)
    BY <1>6 DEF StartRestore
  <2>2. path = Torn
    BY <1>1, <2>1 DEF FilesInv, Whole
  <2> QED
    BY <1>2, <2>1, <2>2
<1>7. CASE ~Replace(p) /\ ~FinishRestore(p) /\ ~StartRestore(p)
  <2>1. latest' = latest /\ path' = path
    BY <1>1, <1>7
    DEF TasksStep, Load, StartCopy, FinishCopy, OpenTmp, WriteTmp, Finish
  <2> QED
    BY <1>2, <2>1
<1> QED
  BY <1>4, <1>5, <1>6, <1>7

(* Every other step leaves the contents of tasks.yaml alone, or destroys it
   from outside while nobody works.  *)
LEMMA OtherSteps ==
  ASSUME Next, \A p \in Procs : ~UpdateTasks(p)
  PROVE  latest' = latest /\ path' \in {path, Torn}
  BY DEF Next, ApplyPreset, EndCommand, Lock, Surroundings, DamageTasks, Damage, tasksVars

(* No update of tasks.yaml is lost: what replaces the file holds every update
   that was there, and a file destroyed from outside is followed by its last
   contents or those before the last update.  This is said of behaviours up to
   the first doubt about the exclusion (see Next).  *)
THEOREM UpdatesAreNotLost == Spec => NoLostUpdate
<1> DEFINE Kept == Whole(path') => IF path = Torn THEN path' \in {latest, AllButLast(latest)}
                                   ELSE path \subseteq path'
<1>1. IInv /\ [Next]_vars => [Kept]_path
  <2> SUFFICES ASSUME IInv, Next, Whole(path'), path' # path
               PROVE  Kept
    BY DEF vars, tasksVars
  <2>1. doubt = {} /\ ~Whole(Torn)
    BY ContentsKnown DEF Next
  <2>2. CASE \E p \in Procs : UpdateTasks(p)
    BY <2>1, <2>2, WorkOnTasks
  <2>3. CASE \A p \in Procs : ~UpdateTasks(p)
    BY <2>1, <2>3, OtherSteps
  <2> QED
    BY <2>2, <2>3
<1> QED
  BY <1>1, InvariantHolds, PTL DEF Spec, NoLostUpdate

(* One process that moves enters, leaves, or is where it was.  *)
LEMMA HoldersMove ==
  ASSUME TypeOK, OneInside, OneInside', NEW p \in Procs, NEW l, at' = [at EXCEPT ![p] = l]
  PROVE  \/ Holders' = Holders
         \/ Holders = {} /\ Holders' = {p}
         \/ Holders = {p} /\ Holders' = {}
<1>1. at'[p] = l /\ \A q \in Procs \ {p} : at'[q] = at[q]
  BY DEF TypeOK
<1>2. "held" \in InsideLabels
  BY DEF InsideLabels
<1>3. CASE (at[p] = "held") <=> (l = "held")
  BY <1>1, <1>3 DEF Holders, InSection
<1>4. CASE at[p] = "held" /\ l # "held"
  BY <1>1, <1>2, <1>4 DEF Holders, InSection, OneInside, Inside
<1>5. CASE at[p] # "held" /\ l = "held"
  BY <1>1, <1>2, <1>5 DEF Holders, InSection, OneInside, Inside
<1> QED
  BY <1>3, <1>4, <1>5

(* A step that puts the exclusion in doubt is not one of the work.  *)
LEMMA DoubtMove ==
  ASSUME TypeOK, doubt = {}, doubt' # {}, NEW p \in Procs,
         LockStep(p) \/ StartRelease(p) \/ Crash(p) \/ ReusePid(p)
  PROVE  Holders' = Holders
<1>1. at[p] # "held"
  BY DEF LockStep, Acquire, Recover, Seize, Release, Exit, StartRelease, Crash, ReusePid,
         Begin, MakeDir, PublishUnlink, PublishWrite, PublishRename,
         ReadHolder, CheckAlive, Reread, RemoveHolder, RemoveTmp, RemoveDir, StatDir, ReadDir,
         Refuse, Confirm, SeizeRead, SeizeOpen, SeizeRecheck, Unseize,
         ReleaseCheck, ReleaseUnlink, ReleaseTmp, ReleaseDir, Goto, Recovering, Seizing
<1>2. PICK l : at' = [at EXCEPT ![p] = l]
  BY LockMoves DEF StartRelease, Goto
<1>3. at'[p] = l /\ \A q \in Procs \ {p} : at'[q] = at[q]
  BY <1>2 DEF TypeOK
<1>4. l # "held"
  <2>1. CASE SeizeRead(p)
    BY <1>3, <2>1 DEF SeizeRead, GiveUp, Goto, TypeOK
  <2>2. CASE ~SeizeRead(p)
    <3>1. PICK m : Goto(p, m)
      BY <2>2
      DEF LockStep, Acquire, Recover, Seize, Release, Exit, StartRelease, Crash, ReusePid,
         Begin, MakeDir, PublishUnlink, PublishWrite, PublishRename,
         ReadHolder, CheckAlive, Reread, RemoveHolder, RemoveTmp, RemoveDir, StatDir, ReadDir,
         Refuse, Confirm, SeizeOpen, SeizeRecheck, Unseize,
         ReleaseCheck, ReleaseUnlink, ReleaseTmp, ReleaseDir, GiveUp
    <3>2. m = l /\ m \in Recovering \cup Seizing
      BY <1>3, <3>1 DEF Goto, TypeOK
    <3> QED
      BY <3>2 DEF Recovering, Seizing
  <2> QED
    BY <2>1, <2>2
<1> QED
  BY <1>1, <1>3, <1>4 DEF Holders, InSection

(* A step of the lock enters, leaves, raises a doubt, or shows nothing.  *)
LEMMA MoveIsSerial ==
  ASSUME IInv, IInv', doubt = {}, UNCHANGED <<path, latest>>, NEW p \in Procs,
         LockStep(p) \/ StartRelease(p) \/ Crash(p) \/ ReusePid(p)
  PROVE  [Serial!Serve \/ Serial!Doubt]_Serial!serialVars
<1>1. TypeOK /\ LockInv
  BY DEF IInv
<1>2. CASE doubt' = {}
  <2>1. OneInside /\ OneInside'
    BY <1>1, <1>2 DEF IInv, LockInv
  <2>2. PICK l : at' = [at EXCEPT ![p] = l]
    BY LockMoves DEF StartRelease, Goto
  <2>3. \/ Holders' = Holders
        \/ Holders = {} /\ Holders' = {p}
        \/ Holders = {p} /\ Holders' = {}
    BY <1>1, <2>1, <2>2, HoldersMove
  <2> QED
    BY <1>2, <2>3 DEF Serial!Serve, Serial!Enter, Serial!Leave, Serial!serialVars
<1>3. CASE doubt' # {}
  BY <1>1, <1>3, DoubtMove DEF Serial!Doubt
<1> QED
  BY <1>2, <1>3

(* The commands implement SerialCommands: what is at work, and the updates
   they leave behind, are those of commands that run one at a time, each on
   all that the earlier ones left, up to the first doubt.  *)
THEOREM CommandsAreSerial == Spec => IsSerial
<1>1. Init => Serial!Init
  BY ContentsKnown DEF Init, LockInit, TasksInit, Holders, InSection, Serial!Init, NoFile
<1>2. IInv /\ IInv' /\ [Next]_vars => [Serial!Serve \/ Serial!Doubt]_Serial!serialVars
  <2> SUFFICES ASSUME IInv, IInv', [Next]_vars
               PROVE  [Serial!Serve \/ Serial!Doubt]_Serial!serialVars
    OBVIOUS
  <2>1. CASE UNCHANGED vars
    BY <2>1 DEF vars, lockVars, tasksVars, Serial!serialVars, Holders, InSection
  <2>2. ASSUME UNCHANGED <<at, path, latest>>, doubt = {}, doubt' = doubt \/ doubt' # {}
        PROVE  [Serial!Serve \/ Serial!Doubt]_Serial!serialVars
    BY <2>2 DEF Serial!Doubt, Serial!serialVars, Holders, InSection
  <2>3. ASSUME NEW p \in Procs, doubt = {}, UpdateTasks(p)
        PROVE  [Serial!Serve \/ Serial!Doubt]_Serial!serialVars
    <3>1. Holders = {p} /\ Holders' = {p} /\ doubt' = {}
      BY <2>3, WorkOnTasks
    <3>2. CASE /\ path # Torn /\ path' # Torn
               /\ made \in latest' /\ NextOn(latest, made, latest')
      BY <2>3, <3>1, <3>2 DEF Serial!Serve, Serial!Commit, NextOn
    <3>3. CASE /\ path = Torn /\ path' # Torn
               /\ latest' \in {latest, AllButLast(latest)}
      BY <2>3, <3>1, <3>3 DEF Serial!Serve, Serial!GoBack, AllButLast
    <3>4. CASE latest' = latest /\ path' = path
      BY <2>3, <3>1, <3>4 DEF Serial!serialVars
    <3> QED
      BY <2>3, <3>2, <3>3, <3>4, WorkOnTasks
  <2>4. ASSUME NEW p \in Procs, doubt = {}, EndCommand(p) \/ Lock(p)
        PROVE  [Serial!Serve \/ Serial!Doubt]_Serial!serialVars
    BY <2>4, MoveIsSerial DEF EndCommand, Lock, tasksVars
  <2>5. ASSUME doubt = {}, Surroundings
        PROVE  [Serial!Serve \/ Serial!Doubt]_Serial!serialVars
    BY <2>2, <2>5, MoveIsSerial DEF Surroundings, Age, tasksVars
  <2>6. ASSUME NEW p \in Procs, doubt = {}, ApplyPreset(p)
        PROVE  [Serial!Serve \/ Serial!Doubt]_Serial!serialVars
    BY <2>2, <2>6 DEF ApplyPreset, tasksVars, lockVars
  <2>7. ASSUME doubt = {}, DamageTasks
        PROVE  [Serial!Serve \/ Serial!Doubt]_Serial!serialVars
    <3>1. /\ Holders = {} /\ Holders' = {} /\ doubt' = doubt /\ latest' = latest
          /\ path # Torn /\ path' = Torn
      BY <2>7, ContentsKnown DEF DamageTasks, Damage, lockVars, Holders, InSection
    <3> QED
      BY <2>7, <3>1 DEF Serial!Serve, Serial!Destroy
  <2> QED
    BY <2>1, <2>3, <2>4, <2>5, <2>6, <2>7 DEF Next
<1> QED
  BY <1>1, <1>2, InvariantHolds, PTL DEF Spec, IsSerial, Serial!Spec
=============================================================================
