---------------------------- MODULE SerialCommands ----------------------------
(***************************************************************************)
(* What the run lock and the atomic replacement of tasks.yaml promise      *)
(* together: commands work one at a time, and every update is made on top  *)
(* of all that are there; one is given up only to replace a file that was  *)
(* destroyed from outside.  LockedCommands implements it.                  *)
(***************************************************************************)
EXTENDS Naturals

CONSTANT Procs

VARIABLES
    active,     \* the processes at work
    ledger,     \* the updates that tasks.yaml holds, or held when it was destroyed
    destroyed,  \* tasks.yaml cannot be read
    doubtful    \* the exclusion is in doubt: nothing is promised any more

serialVars == <<active, ledger, destroyed, doubtful>>

Init == active = {} /\ ledger = {} /\ destroyed = FALSE /\ doubtful = FALSE

Enter(p) ==
    /\ active = {}
    /\ active' = {p}
    /\ UNCHANGED <<ledger, destroyed>>

\* The command ends, or its process dies.
Leave(p) ==
    /\ active = {p}
    /\ active' = {}
    /\ UNCHANGED <<ledger, destroyed>>

Commit(p) ==
    /\ active = {p} /\ ~destroyed
    /\ \E u \in ledger' : /\ \A v \in ledger : v < u
                         /\ ledger' = ledger \cup {u}
    /\ UNCHANGED <<active, destroyed>>

Destroy ==
    /\ active = {} /\ ~destroyed
    /\ destroyed' = TRUE
    /\ UNCHANGED <<active, ledger>>

\* The backup is put back, which may be without the last update.
GoBack(p) ==
    /\ active = {p} /\ destroyed
    /\ ledger' \in {ledger, {u \in ledger : \E v \in ledger : u < v}}
    /\ destroyed' = FALSE
    /\ UNCHANGED active

Serve == /\ ~doubtful /\ UNCHANGED doubtful
         /\ \/ \E p \in Procs : Enter(p) \/ Leave(p) \/ Commit(p) \/ GoBack(p)
            \/ Destroy

Doubt == /\ ~doubtful /\ doubtful' = TRUE
         /\ UNCHANGED <<active, ledger, destroyed>>

Spec == Init /\ [][Serve \/ Doubt]_serialVars
=============================================================================
