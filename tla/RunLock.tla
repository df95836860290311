------------------------------- MODULE RunLock -------------------------------
(***************************************************************************)
(* The cross-process run lock, .autokit/.lock: a directory made with an    *)
(* atomic mkdir, and in it holder.json, published by a rename of           *)
(* holder.json.tmp, and a seizing file while a lock of another host is     *)
(* taken over by force (packages/core/src/process-lock.ts).                *)
(*                                                                         *)
(* One action per system call that other processes can see.  A process is  *)
(* one operating-system process; it may take the lock several times (the   *)
(* server does), so a token is the process and the number of its claim.    *)
(***************************************************************************)
EXTENDS Naturals, FiniteSets

CONSTANTS
    Procs,      \* the processes that use the lock
    Host,       \* Host[p]: the host p runs on, as the holder file names it
    MaxClaims,  \* how many times one process takes the lock (a bound)
    LockFaults  \* subset of {"crash", "pid_reuse", "slow", "seize"}

ASSUME ClaimsAssumption == MaxClaims \in Nat \ {0}

VARIABLES
    dir,      \* .autokit/.lock exists
    holder,   \* the token in holder.json, or NoToken
    tmp,      \* the token in holder.json.tmp, or NoToken
    seizing,  \* the seizing file exists
    aged,     \* nothing in the directory changed for the grace period
    at,       \* at[p]: the next step of p
    claim,    \* claim[p]: how often p has tried to take the lock
    tries,    \* tries[p]: mkdir attempts of this claim, at most two
    seen,     \* seen[p]: the holder p has read
    doubt     \* (history) which circumstances put the exclusion in doubt

lockVars == <<dir, holder, tmp, seizing, aged, at, claim, tries, seen, doubt>>
files == <<dir, holder, tmp, seizing, aged>>

NoToken == [proc |-> "none", claim |-> 0]
Tokens == [proc : Procs, claim : 1..MaxClaims]
Mine(p) == [proc |-> p, claim |-> claim[p]]

\* Steps of publishHolder, for a new lock and for a seized one.
Publishing == {"pub_unlink", "pub_write", "pub_rename",
               "seize_unlink", "seize_write", "seize_rename"}
\* The lock was found abandoned, for good, and is being removed.
Recovering == {"rm_holder", "rm_tmp", "rm_dir", "readdir", "inc_rmdir"}
\* The seizing file is about to be made, or there.
Seizing == {"seize_open", "seize_recheck", "seize_unlink", "seize_write",
            "seize_rename", "unseize", "unseize_fail"}
Releasing == {"rel_unlink", "rel_tmp", "rel_rmdir"}
Stopped == {"dead", "reused", "gone"}
Labels == {"idle", "mkdir", "read", "alive", "reread", "stat", "refused",
           "confirmed", "held", "rel_check"}
            \cup Publishing \cup Recovering \cup Seizing \cup Releasing \cup Stopped

Live(p) == at[p] \notin Stopped
InSection(p) == at[p] = "held"
Holders == {p \in Procs : InSection(p)}
TakingOver == {p \in Procs : Live(p) /\ at[p] \in Recovering \cup Seizing}

\* process.kill(pid, 0): a process number in use again looks alive.
PidAlive(p) == at[p] \notin {"dead", "gone"}

LockInit ==
    /\ dir = FALSE /\ holder = NoToken /\ tmp = NoToken
    /\ seizing = FALSE /\ aged = FALSE
    /\ at = [p \in Procs |-> "idle"]
    /\ claim = [p \in Procs |-> 0]
    /\ tries = [p \in Procs |-> 0]
    /\ seen = [p \in Procs |-> NoToken]
    /\ doubt = {}

-----------------------------------------------------------------------------
(* Control flow of one process.                                            *)

\* A step to label l.  The exclusion is in doubt as soon as two processes
\* take over what is there at the same time.
Goto(p, l) ==
    /\ at' = [at EXCEPT ![p] = l]
    /\ doubt' = IF /\ l \in Recovering \cup Seizing
                   /\ TakingOver \ {p} # {}
                THEN doubt \cup {"overlap"} ELSE doubt

\* The attempt ends without the lock: busy, refused, or an exception.
GiveUp(p) == Goto(p, "idle")

Touch == aged' = FALSE

-----------------------------------------------------------------------------
(* tryAcquireRunLock                                                       *)

Begin(p) ==
    /\ at[p] = "idle" /\ claim[p] < MaxClaims
    /\ claim' = [claim EXCEPT ![p] = @ + 1]
    /\ tries' = [tries EXCEPT ![p] = 0]
    /\ Goto(p, "mkdir")
    /\ UNCHANGED <<files, seen>>

MakeDir(p) ==
    /\ at[p] = "mkdir"
    /\ tries' = [tries EXCEPT ![p] = @ + 1]
    /\ \/ /\ ~dir
          /\ dir' = TRUE /\ Touch
          /\ Goto(p, "pub_unlink")
          /\ UNCHANGED <<holder, tmp, seizing>>
       \/ /\ dir
          /\ Goto(p, "read")
          /\ UNCHANGED files
    /\ UNCHANGED <<claim, seen>>

(* publishHolder, called for a new directory and by a seizure.             *)

PublishUnlink(p) ==
    /\ at[p] \in {"pub_unlink", "seize_unlink"}
    /\ tmp' = NoToken
    /\ aged' = (aged /\ tmp = NoToken)
    /\ Goto(p, IF at[p] = "pub_unlink" THEN "pub_write" ELSE "seize_write")
    /\ UNCHANGED <<dir, holder, seizing, claim, tries, seen>>

\* Created with "wx".  An existing file is taken by tryAcquireRunLock for a
\* lock that exists already; a missing directory is an exception.
PublishWrite(p) ==
    /\ at[p] \in {"pub_write", "seize_write"}
    /\ \/ /\ dir /\ tmp = NoToken
          /\ tmp' = Mine(p) /\ Touch
          /\ Goto(p, IF at[p] = "pub_write" THEN "pub_rename" ELSE "seize_rename")
          /\ UNCHANGED <<dir, holder, seizing>>
       \/ /\ ~dir \/ tmp # NoToken
          /\ Goto(p, IF at[p] = "seize_write" THEN "unseize_fail"
                     ELSE IF dir THEN "read" ELSE "idle")
          /\ UNCHANGED files
    /\ UNCHANGED <<claim, tries, seen>>

\* The rename publishes whatever the temporary file holds by now.
PublishRename(p) ==
    /\ at[p] \in {"pub_rename", "seize_rename"}
    /\ \/ /\ tmp # NoToken
          /\ holder' = tmp /\ tmp' = NoToken /\ Touch
          /\ Goto(p, IF at[p] = "pub_rename" THEN "held" ELSE "unseize")
          /\ UNCHANGED <<dir, seizing>>
       \/ /\ tmp = NoToken
          /\ Goto(p, IF at[p] = "pub_rename" THEN "idle" ELSE "unseize_fail")
          /\ UNCHANGED files
    /\ UNCHANGED <<claim, tries, seen>>

-----------------------------------------------------------------------------
(* recoverExistingLock                                                     *)

ReadHolder(p) ==
    /\ at[p] = "read"
    /\ seen' = [seen EXCEPT ![p] = holder]
    /\ Goto(p, IF holder = NoToken THEN "stat"
               ELSE IF Host[holder.proc] # Host[p] THEN "refused"
               ELSE "alive")
    /\ UNCHANGED <<files, claim, tries>>

\* Mutant of CheckAlive: a process that lives is not spared.
CheckAlive_Skipped(p) ==
    /\ at[p] = "alive"
    /\ Goto(p, "reread")
    /\ UNCHANGED <<files, claim, tries, seen>>

CheckAlive(p) ==
    /\ at[p] = "alive"
    /\ IF PidAlive(seen[p].proc) THEN GiveUp(p) ELSE Goto(p, "reread")
    /\ UNCHANGED <<files, claim, tries, seen>>

\* Mutant of Reread: what was read before is believed.
Reread_Skipped(p) ==
    /\ at[p] = "reread"
    /\ Goto(p, "rm_holder")
    /\ UNCHANGED <<files, claim, tries, seen>>

Reread(p) ==
    /\ at[p] = "reread"
    /\ IF holder = seen[p] THEN Goto(p, "rm_holder") ELSE GiveUp(p)
    /\ UNCHANGED <<files, claim, tries, seen>>

\* unlinkIfExists(holder.json): whoever published it by now.
RemoveHolder(p) ==
    /\ at[p] = "rm_holder"
    /\ holder' = NoToken /\ aged' = (aged /\ holder = NoToken)
    /\ Goto(p, "rm_tmp")
    /\ UNCHANGED <<dir, tmp, seizing, claim, tries, seen>>

RemoveTmp(p) ==
    /\ at[p] = "rm_tmp"
    /\ tmp' = NoToken /\ aged' = (aged /\ tmp = NoToken)
    /\ Goto(p, "rm_dir")
    /\ UNCHANGED <<dir, holder, seizing, claim, tries, seen>>

Empty == dir /\ holder = NoToken /\ tmp = NoToken /\ ~seizing

\* Mutant of RemoveDir: the attempts are not counted.
RemoveDir_Uncounted(p) ==
    /\ at[p] \in {"rm_dir", "inc_rmdir"}
    /\ \/ Empty /\ dir' = FALSE /\ Touch /\ Goto(p, "mkdir")
          /\ UNCHANGED <<holder, tmp, seizing>>
       \/ ~Empty /\ GiveUp(p) /\ UNCHANGED files
    /\ UNCHANGED <<claim, tries, seen>>

\* rmdir, then the second and last attempt of the claim.
RemoveDir(p) ==
    /\ at[p] \in {"rm_dir", "inc_rmdir"}
    /\ \/ /\ Empty
          /\ dir' = FALSE /\ Touch
          /\ IF tries[p] < 2 THEN Goto(p, "mkdir") ELSE GiveUp(p)
          /\ UNCHANGED <<holder, tmp, seizing>>
       \/ /\ ~Empty
          /\ GiveUp(p)
          /\ UNCHANGED files
    /\ UNCHANGED <<claim, tries, seen>>

(* recoverIncompleteLock: no valid holder file.                            *)

\* Mutant of StatDir: no grace period for a lock that is being taken.
StatDir_NoGrace(p) ==
    /\ at[p] = "stat"
    /\ IF dir THEN Goto(p, "readdir") ELSE GiveUp(p)
    /\ UNCHANGED <<files, claim, tries, seen>>

StatDir(p) ==
    /\ at[p] = "stat"
    /\ IF dir /\ aged THEN Goto(p, "readdir") ELSE GiveUp(p)
    /\ UNCHANGED <<files, claim, tries, seen>>

\* readdir and the unlink of every entry it named.
ReadDir(p) ==
    /\ at[p] = "readdir"
    /\ \/ /\ dir /\ ~seizing
          /\ holder' = NoToken /\ tmp' = NoToken
          /\ aged' = (aged /\ holder = NoToken /\ tmp = NoToken)
          /\ Goto(p, "inc_rmdir")
          /\ UNCHANGED <<dir, seizing>>
       \/ /\ ~dir \/ seizing
          /\ GiveUp(p)
          /\ UNCHANGED files
    /\ UNCHANGED <<claim, tries, seen>>

-----------------------------------------------------------------------------
(* maybeForceSeizeLock and forceSeizeRunLock: the holder is on another     *)
(* host.  The operator confirms that the process they were refused by is   *)
(* dead; forceSeizeRunLock reads the holder again on its own.              *)

Refuse(p) ==
    /\ at[p] = "refused"
    /\ GiveUp(p)
    /\ UNCHANGED <<files, claim, tries, seen>>

Confirm(p) ==
    /\ "seize" \in LockFaults
    /\ at[p] = "refused" /\ ~Live(seen[p].proc)
    /\ Goto(p, "confirmed")
    /\ UNCHANGED <<files, claim, tries, seen>>

SeizeRead(p) ==
    /\ at[p] = "confirmed"
    /\ seen' = [seen EXCEPT ![p] = holder]
    /\ IF holder = NoToken \/ Host[holder.proc] = Host[p]
       THEN GiveUp(p)
       ELSE /\ at' = [at EXCEPT ![p] = "seize_open"]
            /\ doubt' = doubt \cup (IF TakingOver \ {p} # {} THEN {"overlap"} ELSE {})
                              \cup (IF holder # seen[p] THEN {"changed"} ELSE {})
    /\ UNCHANGED <<files, claim, tries>>

SeizeOpen(p) ==
    /\ at[p] = "seize_open"
    /\ \/ /\ dir /\ ~seizing
          /\ seizing' = TRUE /\ Touch
          /\ Goto(p, "seize_recheck")
          /\ UNCHANGED <<dir, holder, tmp>>
       \/ /\ ~dir \/ seizing
          /\ GiveUp(p)
          /\ UNCHANGED files
    /\ UNCHANGED <<claim, tries, seen>>

SeizeRecheck(p) ==
    /\ at[p] = "seize_recheck"
    /\ Goto(p, IF holder = seen[p] THEN "seize_unlink" ELSE "unseize_fail")
    /\ UNCHANGED <<files, claim, tries, seen>>

\* The finally block: the seizing file goes, whatever happened.
Unseize(p) ==
    /\ at[p] \in {"unseize", "unseize_fail"}
    /\ seizing' = FALSE /\ aged' = (aged /\ ~seizing)
    /\ Goto(p, IF at[p] = "unseize" THEN "held" ELSE "idle")
    /\ UNCHANGED <<dir, holder, tmp, claim, tries, seen>>

-----------------------------------------------------------------------------
(* releaseRunLock                                                          *)

ReleaseCheck(p) ==
    /\ at[p] = "rel_check"
    /\ IF holder = Mine(p) THEN Goto(p, "rel_unlink") ELSE GiveUp(p)
    /\ UNCHANGED <<files, claim, tries, seen>>

\* Mutant of ReleaseUnlink: only the temporary file is removed.
ReleaseUnlink_Kept(p) ==
    /\ at[p] = "rel_unlink"
    /\ Goto(p, "rel_tmp")
    /\ UNCHANGED <<files, claim, tries, seen>>

ReleaseUnlink(p) ==
    /\ at[p] = "rel_unlink"
    /\ holder' = NoToken /\ aged' = (aged /\ holder = NoToken)
    /\ Goto(p, "rel_tmp")
    /\ UNCHANGED <<dir, tmp, seizing, claim, tries, seen>>

ReleaseTmp(p) ==
    /\ at[p] = "rel_tmp"
    /\ tmp' = NoToken /\ aged' = (aged /\ tmp = NoToken)
    /\ Goto(p, "rel_rmdir")
    /\ UNCHANGED <<dir, holder, seizing, claim, tries, seen>>

ReleaseDir(p) ==
    /\ at[p] = "rel_rmdir"
    /\ dir' = (dir /\ ~Empty)
    /\ aged' = (aged /\ ~Empty)
    /\ GiveUp(p)
    /\ UNCHANGED <<holder, tmp, seizing, claim, tries, seen>>

\* The command is over: withWriteCommandLock's finally block.
StartRelease(p) ==
    /\ at[p] = "held"
    /\ Goto(p, "rel_check")
    /\ UNCHANGED <<files, claim, tries, seen>>

\* A command-line process ends after its command.
Exit(p) ==
    /\ at[p] = "idle" /\ claim[p] > 0
    /\ Goto(p, "gone")
    /\ UNCHANGED <<files, claim, tries, seen>>

-----------------------------------------------------------------------------
(* The environment                                                         *)

Crash(p) ==
    /\ "crash" \in LockFaults
    /\ Live(p) /\ at[p] # "idle"
    /\ Goto(p, "dead")
    /\ UNCHANGED <<files, claim, tries, seen>>

\* The system gives the number of a dead process to another one.
ReusePid(p) ==
    /\ "pid_reuse" \in LockFaults
    /\ at[p] = "dead"
    /\ Goto(p, "reused")
    /\ UNCHANGED <<files, claim, tries, seen>>

\* The grace period passes.  It is far longer than the few system calls of
\* an acquisition or a release, unless a process is stopped ("slow").
Halfway == {p \in Procs : at[p] \notin {"idle", "held", "refused"} \cup Stopped}

Age ==
    /\ dir /\ ~aged
    /\ Halfway # {} => "slow" \in LockFaults
    /\ aged' = TRUE
    /\ doubt' = IF Halfway # {} THEN doubt \cup {"slow"} ELSE doubt
    /\ UNCHANGED <<dir, holder, tmp, seizing, at, claim, tries, seen>>

Acquire(p) == \/ Begin(p) \/ MakeDir(p)
              \/ PublishUnlink(p) \/ PublishWrite(p) \/ PublishRename(p)
Recover(p) == \/ ReadHolder(p) \/ CheckAlive(p) \/ Reread(p) \/ RemoveHolder(p)
              \/ RemoveTmp(p) \/ RemoveDir(p) \/ StatDir(p) \/ ReadDir(p)
Seize(p) == \/ Refuse(p) \/ Confirm(p) \/ SeizeRead(p) \/ SeizeOpen(p)
            \/ SeizeRecheck(p) \/ Unseize(p)
Release(p) == \/ ReleaseCheck(p) \/ ReleaseUnlink(p) \/ ReleaseTmp(p) \/ ReleaseDir(p)

\* Everything but the work under the lock and its end.
LockStep(p) == Acquire(p) \/ Recover(p) \/ Seize(p) \/ Release(p) \/ Exit(p)
=============================================================================
