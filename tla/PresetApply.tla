----------------------------- MODULE PresetApply -----------------------------
(***************************************************************************)
(* `autokit preset apply`: .agents is replaced by a staged tree with two   *)
(* renames, config.yaml by an atomic write, and a failure on the way is    *)
(* rolled back from a backup (packages/cli/src/preset.ts, and the          *)
(* transaction of packages/core/src/assets-writer.ts).                     *)
(*                                                                         *)
(* A tree or a file is absent, as it was before, as the preset makes it,   *)
(* or neither ("part": a copy or a removal that did not get to its end).   *)
(* Every operation on files may fail.                                      *)
(***************************************************************************)

VARIABLES
    agents,       \* .agents
    staging,      \* .agents.autokit-staging-*
    previous,     \* .agents.autokit-prev-*
    backup,       \* the transaction's copy of .agents
    config,       \* .autokit/config.yaml
    savedConfig,  \* the transaction's copy of config.yaml
    created,      \* the transaction made a config.yaml where there was none
    agentsBefore, \* .agents when the command began
    configBefore, \* (history) config.yaml when the command began
    stage         \* the next step of the command

trees == <<agents, staging, previous, backup>>
configs == <<config, savedConfig, created>>
befores == <<agentsBefore, configBefore>>
presetVars == <<trees, configs, befores, stage>>

Forms == {"absent", "old", "new", "part"}
Stages == {"none", "backup", "backup_config", "stage", "write_config", "set_aside",
           "move_in", "check", "clear", "undo_remove", "undo_rename",
           "undo_config", "undo_agents", "undo_clear",
           "applied", "rolled_back", "rollback_failed"}

PresetTypeOK ==
    /\ {agents, staging, previous, backup, config, savedConfig} \subseteq Forms
    /\ {agentsBefore, configBefore} \subseteq {"absent", "old"}
    /\ created \in BOOLEAN
    /\ stage \in Stages

PresetInit ==
    /\ agentsBefore \in {"absent", "old"} /\ agents = agentsBefore
    /\ configBefore \in {"absent", "old"} /\ config = configBefore
    /\ staging = "absent" /\ previous = "absent"
    /\ backup = "absent" /\ savedConfig = "absent" /\ created = FALSE
    /\ stage = "none"

Move(from, to) ==
    /\ stage = from
    /\ stage' = to
    /\ UNCHANGED befores

\* A failure before the new tree is in place: the rollback copies back.  It
\* is recorded first, and is not done when that fails.
Fail(from) == Move(from, "undo_config") \/ Move(from, "rollback_failed")

\* A failure after it: the new tree is taken away first.
FailInPlace(from) == Move(from, "undo_remove") \/ Move(from, "rollback_failed")

StartApply ==
    /\ Move("none", "backup") \/ Fail("none")
    /\ UNCHANGED <<trees, configs>>

\* Mutant of BackupAgents: the tree that is set aside is the only copy.
BackupAgents_None ==
    /\ Move("backup", "backup_config")
    /\ UNCHANGED <<trees, configs>>

\* transaction.backupExisting(".agents"); a copy that is cut off is not in
\* the transaction's list, so it is never copied back.
BackupAgents ==
    /\ \/ backup' = agents /\ Move("backup", "backup_config")
       \/ agents # "absent" /\ backup' = "part" /\ Fail("backup")
    /\ UNCHANGED <<agents, staging, previous, configs>>

BackupConfig ==
    /\ \/ savedConfig' = config /\ Move("backup_config", "stage")
       \/ config # "absent" /\ savedConfig' = "part" /\ Fail("backup_config")
    /\ UNCHANGED <<trees, config, created>>

\* stageAgentsTree and assertPromptNames
StageTree ==
    /\ \/ staging' = "new" /\ Move("stage", "write_config")
       \/ staging' \in {"new", "part"} /\ Fail("stage")
    /\ UNCHANGED <<agents, previous, backup, configs>>

\* transaction.writeFileAtomic: an absent file is recorded before it is made.
WriteConfig ==
    /\ created' = (config = "absent")
    /\ \/ config' = "new" /\ Move("write_config", "set_aside")
       \/ config' = config /\ Fail("write_config")
    /\ UNCHANGED <<trees, savedConfig>>

\* replaceAgentsTree: two renames, the first one only of a tree that exists.
SetAside ==
    /\ \/ /\ previous' = agents /\ agents' = "absent"
          /\ Move("set_aside", "move_in")
       \/ /\ Fail("set_aside") /\ UNCHANGED <<agents, previous>>
    /\ UNCHANGED <<staging, backup, configs>>

MoveIn ==
    /\ \/ /\ agents' = staging /\ staging' = "absent"
          /\ Move("move_in", "check")
       \/ /\ Fail("move_in") /\ UNCHANGED <<agents, staging>>
    /\ UNCHANGED <<previous, backup, configs>>

\* presetPostApplyCheck: doctor's checks on what is in place now.
PostApplyCheck ==
    /\ Move("check", "clear") \/ FailInPlace("check")
    /\ UNCHANGED <<trees, configs>>

\* The removal may fail, and so may the record that the preset is applied.
ClearPrevious ==
    /\ \/ previous' = "absent" /\ (Move("clear", "applied") \/ FailInPlace("clear"))
       \/ previous # "absent" /\ previous' = "part" /\ FailInPlace("clear")
    /\ UNCHANGED <<agents, staging, backup, configs>>

-----------------------------------------------------------------------------
(* The rollback.  A failure in it ends the command where it is.            *)

Stuck(from) == Move(from, "rollback_failed")

\* Copying a tree over another one leaves what only the other one has.
CopyOver(copy, there) ==
    IF copy \in {"absent", "part"} THEN there
    ELSE IF there = "new" THEN "part" ELSE copy

\* restoreRenamedAgents, only when the new tree was already in place.
UndoRemove ==
    /\ \/ agents' = "absent" /\ Move("undo_remove", "undo_rename")
       \/ agents' = "part" /\ Stuck("undo_remove")
    /\ UNCHANGED <<staging, previous, backup, configs>>

UndoRename ==
    /\ \/ /\ agents' = previous /\ previous' = "absent"
          /\ Move("undo_rename", "undo_config")
       \/ /\ previous # "absent" /\ Stuck("undo_rename")
          /\ UNCHANGED <<agents, previous>>
    /\ UNCHANGED <<staging, backup, configs>>

\* transaction.rollback: what it created is removed, the copies are put back
\* in the reverse order.
UndoConfig ==
    /\ \/ /\ config' = IF created THEN "absent"
                       ELSE IF savedConfig = "old" THEN "old" ELSE config
          /\ Move("undo_config", "undo_agents")
       \/ /\ config' \in {config, IF savedConfig = "old" THEN "part" ELSE config}
          /\ Stuck("undo_config")
    /\ UNCHANGED <<trees, savedConfig, created>>

UndoAgents ==
    /\ \/ agents' = CopyOver(backup, agents) /\ Move("undo_agents", "undo_clear")
       \/ /\ backup = "old"
          /\ agents' = IF agents = "old" THEN "old" ELSE "part"
          /\ Stuck("undo_agents")
    /\ UNCHANGED <<staging, previous, backup, configs>>

\* rmSync of the working trees, assertManifestEqual, and the last record
UndoClear ==
    /\ \/ /\ staging' = "absent" /\ previous' = "absent"
          /\ \/ agents = agentsBefore /\ Move("undo_clear", "rolled_back")
             \/ Stuck("undo_clear")
       \/ /\ staging' = (IF staging = "absent" THEN "absent" ELSE "part")
          /\ previous' = previous
          /\ Stuck("undo_clear")
       \/ /\ previous # "absent"
          /\ staging' = "absent" /\ previous' = "part"
          /\ Stuck("undo_clear")
    /\ UNCHANGED <<agents, backup, configs>>

PresetStep ==
    \/ StartApply \/ BackupAgents \/ BackupConfig \/ StageTree \/ WriteConfig
    \/ SetAside \/ MoveIn \/ PostApplyCheck \/ ClearPrevious
    \/ UndoRemove \/ UndoRename \/ UndoConfig \/ UndoAgents \/ UndoClear

ApplyEnded == stage \in {"none", "applied", "rolled_back", "rollback_failed"}

(* The user's tree is never lost: it is whole in .agents, beside it, or in
   the backup until the preset is in place for good, whatever failed or
   crashed.  A run that reports that it restored the state before has.  *)
OldTreeKept ==
    /\ agentsBefore = "old" /\ stage # "applied" =>
          "old" \in {agents, previous, backup}
    /\ configBefore = "old" /\ stage # "applied" => "old" \in {config, savedConfig}
    /\ stage = "rolled_back" => agents = agentsBefore /\ config = configBefore
=============================================================================
