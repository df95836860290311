------------------------------ MODULE TasksFile ------------------------------
(***************************************************************************)
(* How a command reads and replaces .autokit/tasks.yaml: the backup, the   *)
(* temporary file, the rename, and the way back from a damaged file        *)
(* (loadTasksFile and writeTasksFileAtomic, packages/core/src/tasks.ts).   *)
(*                                                                         *)
(* The contents of a file is the set of the updates it holds: an update is *)
(* a number that no other has, added to the copy it was made from.         *)
(***************************************************************************)
EXTENDS Integers

CONSTANTS
    Writers,     \* the processes whose commands update tasks.yaml
    MaxUpdates   \* how many updates there are (a bound)

ASSUME UpdatesAssumption == MaxUpdates \in Nat

VARIABLES
    path,     \* tasks.yaml
    bak,      \* tasks.yaml.bak
    tmpFile,  \* tasks.yaml.tmp
    job,      \* job[p]: where p's command is
    base,     \* base[p]: p's copy in memory
    made,     \* (history) the number of the last update written to a file
    latest,   \* (history) what was put in place last, by an update or restored
    damaged   \* (history) something outside autokit destroyed tasks.yaml

tasksVars == <<path, bak, tmpFile, job, base, made, latest, damaged>>

NoFile == {}
Torn == {0}         \* empty, or cut off
Lists == SUBSET (1..MaxUpdates)
Contents == Lists \cup {Torn}
Whole(c) == c \notin {NoFile, Torn}

\* The updates S without the last one.
AllButLast(S) == {u \in S : \E v \in S : u < v}

Jobs == {"none", "loaded", "copying", "copied", "writing", "written", "restoring"}

TasksTypeOK ==
    /\ path \in Contents /\ bak \in Contents /\ tmpFile \in Contents
    /\ job \in [Writers -> Jobs]
    /\ base \in [Writers -> Lists]
    /\ made \in 0..MaxUpdates
    /\ latest \in Lists
    /\ damaged \in BOOLEAN

TasksInit ==
    /\ path = NoFile /\ bak = NoFile /\ tmpFile = NoFile
    /\ job = [p \in Writers |-> "none"]
    /\ base = [p \in Writers |-> NoFile]
    /\ made = 0 /\ latest = NoFile
    /\ damaged = FALSE

Step(p, from, to) ==
    /\ job[p] = from
    /\ job' = [job EXCEPT ![p] = to]

\* loadTasksOrEmpty: no file is an empty list.  A torn file is an exception,
\* which ends the command: there is no step for it.
Load(p) ==
    /\ Step(p, "none", "loaded")
    /\ path # Torn
    /\ base' = [base EXCEPT ![p] = path]
    /\ UNCHANGED <<path, bak, tmpFile, made, latest, damaged>>

\* writeTasksFileAtomic.  The copy to .bak is not atomic.
StartCopy(p) ==
    /\ made < MaxUpdates
    /\ Step(p, "loaded", "copying")
    /\ path # NoFile
    /\ bak' = Torn
    /\ UNCHANGED <<path, tmpFile, base, made, latest, damaged>>

FinishCopy(p) ==
    /\ Step(p, "copying", "copied")
    /\ bak' = path
    /\ UNCHANGED <<path, tmpFile, base, made, latest, damaged>>

\* Mutants of OpenTmp: the file is written in place, or without its backup.
OpenTmp_InPlace(p) ==
    /\ made < MaxUpdates
    /\ \/ Step(p, "copied", "writing")
       \/ path = NoFile /\ Step(p, "loaded", "writing")
    /\ path' = Torn /\ tmpFile' = Torn
    /\ UNCHANGED <<bak, base, made, latest, damaged>>

OpenTmp_NoBackup(p) ==
    /\ made < MaxUpdates
    /\ Step(p, "copied", "writing") \/ Step(p, "loaded", "writing")
    /\ tmpFile' = Torn
    /\ UNCHANGED <<path, bak, base, made, latest, damaged>>

OpenTmp(p) ==
    /\ made < MaxUpdates
    /\ \/ Step(p, "copied", "writing")
       \/ path = NoFile /\ Step(p, "loaded", "writing")
    /\ tmpFile' = Torn
    /\ UNCHANGED <<path, bak, base, made, latest, damaged>>

WriteTmp(p) ==
    /\ Step(p, "writing", "written")
    /\ made' = made + 1
    /\ tmpFile' = base[p] \cup {made + 1}
    /\ UNCHANGED <<path, bak, base, latest, damaged>>

\* The command goes on with what it wrote, and may write again.
Replace(p) ==
    /\ Step(p, "written", "loaded")
    /\ path' = tmpFile /\ tmpFile' = NoFile
    /\ latest' = tmpFile
    /\ base' = [base EXCEPT ![p] = tmpFile]
    /\ UNCHANGED <<bak, made, damaged>>

Finish(p) ==
    /\ Step(p, "loaded", "none")
    /\ UNCHANGED <<path, bak, tmpFile, base, made, latest, damaged>>

\* retry --recover-corruption: the backup is written over a file that cannot
\* be read, in place.
StartRestore(p) ==
    /\ ~Whole(path) /\ Whole(bak)
    /\ Step(p, "none", "restoring")
    /\ base' = [base EXCEPT ![p] = bak]
    /\ path' = Torn
    /\ UNCHANGED <<bak, tmpFile, made, latest, damaged>>

FinishRestore(p) ==
    /\ Step(p, "restoring", "none")
    /\ path' = base[p]
    /\ latest' = base[p]
    /\ UNCHANGED <<bak, tmpFile, base, made, damaged>>

Damage ==
    /\ Whole(path) /\ ~damaged
    /\ path' = Torn
    /\ damaged' = TRUE
    /\ UNCHANGED <<bak, tmpFile, job, base, made, latest>>

TasksStep(p) ==
    \/ Load(p) \/ StartCopy(p) \/ FinishCopy(p) \/ OpenTmp(p) \/ WriteTmp(p)
    \/ Replace(p) \/ Finish(p) \/ StartRestore(p) \/ FinishRestore(p)

(* Nobody reads half a file that autokit itself wrote.  *)
ReadersSeeWhole ==
    path = Torn => damaged

(* No update is lost: whatever is put in place of tasks.yaml holds every update
   that was there, and a file destroyed from outside is followed by the last
   contents or those before the last update.  An update made from a copy that
   is out of date is not allowed, however many updates it is behind.  *)
NoLostUpdate ==
    [][Whole(path') => IF path = Torn THEN path' \in {latest, AllButLast(latest)}
                       ELSE path \subseteq path']_path
=============================================================================
