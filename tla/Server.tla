-------------------------------- MODULE Server --------------------------------
(***************************************************************************)
(* `autokit serve`: the runs it carries (ServeRuns) and the stream that    *)
(* tells a browser about them (SseHub).  A run announces the state of its  *)
(* task when it begins and when its status is on disk, and its workflow    *)
(* reports the phases it begins (publishTaskState and runServeWorkflow).   *)
(***************************************************************************)
EXTENDS ServeRuns, SseHub

CONSTANT WatchedRuns  \* how many runs are followed with a browser (a bound)

VARIABLE watched  \* a browser watches

vars == <<serveVars, hubVars, watched>>

Init == ServeInit /\ HubInit /\ watched \in BOOLEAN

StartServer == Start /\ NewHub
StopServer == Die /\ connected' = FALSE
              /\ UNCHANGED <<nextId, buffer, published, lastId, got, stranger, surprises>>

Request ==
    /\ watched => made < WatchedRuns
    /\ \E op \in Operations, i \in Issues \cup {None}, k \in Keys \cup {None} :
          Accept(op, i, k)
    /\ UNCHANGED hubVars

\* Events that nobody watches, or beyond the bound, are not followed.
Tell == IF watched /\ published < MaxEvents THEN Publish ELSE UNCHANGED hubVars

\* A run without an issue, or a cleanup at its start, has nothing to announce,
\* and an announcement that fails publishes nothing.
Speaks(r) == record[r].issue # None

BeginRun(r) ==
    /\ Begin(r)
    /\ IF Speaks(r) /\ record[r].operation # "cleanup" /\ stage'[r] = "working"
       THEN Tell ELSE UNCHANGED hubVars

WorkOn(r) ==
    /\ Work(r)
    /\ Tell \/ UNCHANGED hubVars

EndWorkflow(r) == WorkflowEnds(r) /\ UNCHANGED hubVars
RecordRun(r) == RecordResult(r) /\ UNCHANGED hubVars

AnnounceRun(r) ==
    /\ Announce(r)
    /\ \/ Speaks(r) /\ record' = record /\ Tell
       \/ (Speaks(r) => AnnounceFails) /\ UNCHANGED hubVars

ReleaseRun(r) == Release(r) /\ UNCHANGED hubVars

CoordinateRun(r) == \/ BeginRun(r) \/ EndWorkflow(r) \/ RecordRun(r)
                    \/ AnnounceRun(r) \/ ReleaseRun(r)

CommandByHand == ByHand /\ UNCHANGED hubVars

Stream == up /\ watched /\ HubStep /\ UNCHANGED serveVars

Next ==
    /\ \/ StartServer \/ StopServer \/ Request
       \/ \E r \in Runs : CoordinateRun(r) \/ WorkOn(r)
       \/ CommandByHand \/ Stream
    /\ UNCHANGED watched

\* The server's own steps are taken.  That a workflow ends is an assumption: its
\* phases have timeouts, but its wait for GitHub to drop a reservation has none,
\* so it is also assumed that GitHub drops it.
Spec == Init /\ [][Next]_vars /\ \A r \in Runs : WF_vars(CoordinateRun(r) /\ UNCHANGED watched)

TypeOK == ServeTypeOK /\ HubTypeOK /\ watched \in BOOLEAN
=============================================================================
