----------------------------- MODULE ServerProofs -----------------------------
(***************************************************************************)
(* What Server promises of its runs and of its event stream, for any       *)
(* number of issues, keys, runs and events.                                *)
(*                                                                         *)
(* Serve is the inductive invariant of the runs.  The server carries one   *)
(* run at a time, the latest it accepted, and holds the lock for it; as    *)
(* long as its records can be written, at most one of them is open when    *)
(* the server dies, and the next server cannot mark a run as cut off that  *)
(* others have followed since.                                             *)
(***************************************************************************)
EXTENDS Server, SequenceTheorems, TLAPS

Open == {"accepted", "running"}

\* Nothing is written to a record before its number is used.
Unused == \A r \in Runs : made < r => record[r] = NoRecord

CarriedIsLatest ==
    \A r \in Runs : stage[r] # None =>
        /\ up /\ r = made /\ lock = r /\ ~stale
        /\ record[r].operation \in Operations

HolderIsCarried == \A r \in Runs : lock = r /\ ~stale => stage[r] # None

OpenIsLatest ==
    \A r \in Runs : record[r].status \in Open =>
        r = made /\ record[r].operation \in Operations

OpenIsCarried == \A r \in Runs : up /\ record[r].status \in Open => stage[r] # None

ClosedAtTheEnd ==
    \A r \in Runs : stage[r] \in {"announcing", "recorded"} => record[r].status \notin Open

\* What a write of a record that fails takes away.
Written == /\ HolderIsCarried /\ OpenIsLatest /\ OpenIsCarried /\ ClosedAtTheEnd
           /\ CutOffNotRepeated

Serve ==
    /\ ServeTypeOK /\ Unused /\ CarriedIsLatest /\ OneRunPerKey
    /\ ~WriteFails => Written

LEMMA ServeInitially ==
    ASSUME ServeInit
    PROVE  Serve
<1>1. /\ up = FALSE /\ starts = 0 /\ made = 0 /\ lock = 0 /\ stale = FALSE
      /\ \A r \in Runs : stage[r] = None /\ record[r] = NoRecord
      /\ NoRecord.status = None /\ NoRecord.key = None
  BY DEF ServeInit, Free, NoRecord
<1>2. ServeTypeOK
  <2>1. NoRecord \in Records
    BY DEF NoRecord, Records, Statuses
  <2>2. /\ record \in [Runs -> Records]
        /\ stage \in [Runs -> CarriedAt \cup {None}]
        /\ result \in [Runs -> Results \cup {"threw", None}]
        /\ task \in [Issues -> {"waiting", "active"}]
    BY <2>1 DEF ServeInit
  <2>3. starts \in 0..MaxStarts /\ made \in 0..MaxRuns
    BY <1>1, ServeAssumption
  <2> QED BY <1>1, <2>2, <2>3 DEF ServeTypeOK, Free
<1>3. Unused /\ CarriedIsLatest /\ ClosedAtTheEnd
  BY <1>1 DEF Unused, CarriedIsLatest, ClosedAtTheEnd, None
<1>4. HolderIsCarried
  BY <1>1, ServeAssumption DEF HolderIsCarried, Runs
<1>5. OpenIsLatest /\ OpenIsCarried /\ OneRunPerKey /\ CutOffNotRepeated
  BY <1>1 DEF OpenIsLatest, OpenIsCarried, OneRunPerKey, CutOffNotRepeated, Open, None
<1> QED BY <1>2, <1>3, <1>4, <1>5 DEF Serve, Written

(* A status is written over and nothing else of the record.  *)
LEMMA StatusWritten ==
    ASSUME ServeTypeOK, NEW r \in Runs, NEW s \in Statuses, SetStatus(r, s)
    PROVE  /\ record' \in [Runs -> Records]
           /\ \A q \in Runs : q # r => record'[q] = record[q]
           /\ \A q \in Runs : /\ record'[q].operation = record[q].operation
                              /\ record'[q].issue = record[q].issue
                              /\ record'[q].key = record[q].key
           /\ record'[r].status = s
  BY DEF SetStatus, ServeTypeOK, Records

(* Who was accepted for what is settled by the identity of the records and by
   which of them are cut off.  *)
LEMMA HistoryKept ==
    ASSUME OneRunPerKey,
           \A q \in Runs : /\ record'[q].operation = record[q].operation
                           /\ record'[q].issue = record[q].issue
                           /\ record'[q].key = record[q].key,
           \A q \in Runs : record'[q].status = "resume_required"
                             => record[q].status = "resume_required"
    PROVE  OneRunPerKey' /\ (CutOffNotRepeated => CutOffNotRepeated')
<1>1. OneRunPerKey'
  BY DEF OneRunPerKey
<1>2. CutOffNotRepeated => CutOffNotRepeated'
  BY DEF CutOffNotRepeated
<1> QED BY <1>1, <1>2

-----------------------------------------------------------------------------
(* The server starts and stops, and accepts.                               *)

LEMMA StartKeeps ==
    ASSUME Serve, Start
    PROVE  Serve'
<1>1. /\ \A q \in Runs : stage[q] = None
      /\ UNCHANGED <<made, stage, result, lock, stale, task>>
      /\ record' = [r \in Runs |-> IF record[r].status \in Open
                                   THEN [record[r] EXCEPT !.status = "resume_required"]
                                   ELSE record[r]]
  BY DEF Serve, Start, CarriedIsLatest, Open
<1>2. ServeTypeOK'
  <2>1. record' \in [Runs -> Records]
    <3>1. record \in [Runs -> Records]
      BY DEF Serve, ServeTypeOK
    <3>2. "resume_required" \in Statuses
      BY DEF Statuses
    <3>3. \A q \in Runs : [record[q] EXCEPT !.status = "resume_required"] \in Records
      BY <3>1, <3>2 DEF Records
    <3> QED BY <1>1, <3>1, <3>3
  <2>2. starts' \in 0..MaxStarts /\ up' = TRUE
    BY ServeAssumption DEF Start, Serve, ServeTypeOK
  <2> QED BY <1>1, <2>1, <2>2 DEF Serve, ServeTypeOK
<1>3. \A q \in Runs : /\ record'[q].operation = record[q].operation
                      /\ record'[q].issue = record[q].issue
                      /\ record'[q].key = record[q].key
                      /\ record'[q].status \notin Open
                      /\ record'[q].status = "resume_required" =>
                            record[q].status \in Open \cup {"resume_required"}
                      /\ record[q].status \notin Open => record'[q] = record[q]
  BY <1>1 DEF Serve, ServeTypeOK, Records, Open
<1>4. Unused'
  BY <1>1, <1>3 DEF Serve, Unused, NoRecord, Open, None
<1>5. CarriedIsLatest' /\ ClosedAtTheEnd' /\ (HolderIsCarried => HolderIsCarried')
  BY <1>1, <1>3 DEF CarriedIsLatest, HolderIsCarried, ClosedAtTheEnd, None
<1>6. OpenIsLatest' /\ OpenIsCarried'
  BY <1>3 DEF OpenIsLatest, OpenIsCarried
<1>7. OneRunPerKey'
  BY <1>3 DEF Serve, OneRunPerKey
<1>8. ASSUME Written PROVE CutOffNotRepeated'
  <2> SUFFICES ASSUME NEW r \in Runs, NEW s \in Runs, r < s,
                      record'[r].status = "resume_required",
                      record'[r].operation = record'[s].operation
               PROVE  record'[s].issue \notin {record'[r].issue, None}
    BY DEF CutOffNotRepeated
  <2>1. CASE record[r].status = "resume_required"
    BY <1>3, <1>8, <2>1 DEF Written, CutOffNotRepeated
  <2>2. CASE record[r].status \in Open
    \* It is the latest, so that s was not used yet and asks for nothing.
    <3>1. r = made /\ record[r].operation \in Operations /\ record[s].operation = None
      BY <1>8, <2>2 DEF Serve, Written, OpenIsLatest, Unused, NoRecord
    <3> QED BY <1>3, <3>1, ServeAssumption DEF None
  <2> QED BY <1>3, <2>1, <2>2
<1> QED BY <1>2, <1>4, <1>5, <1>6, <1>7, <1>8 DEF Serve, Written

LEMMA DieKeeps ==
    ASSUME Serve, Die
    PROVE  Serve'
<1>1. UNCHANGED <<starts, record, made, lock, task>> /\ up' = FALSE
      /\ stage' = [r \in Runs |-> None] /\ result' = [r \in Runs |-> None]
      /\ stale' = (stale \/ lock \in Runs)
  BY DEF Die
<1>2. ServeTypeOK'
  BY <1>1 DEF Serve, ServeTypeOK
<1>3. Unused' /\ CarriedIsLatest' /\ OpenIsCarried' /\ ClosedAtTheEnd'
  BY <1>1 DEF Serve, Unused, CarriedIsLatest, OpenIsCarried, ClosedAtTheEnd, None
<1>4. HolderIsCarried' /\ (OpenIsLatest => OpenIsLatest')
  BY <1>1 DEF HolderIsCarried, OpenIsLatest
<1>5. OneRunPerKey' /\ (CutOffNotRepeated => CutOffNotRepeated')
  BY <1>1, HistoryKept DEF Serve
<1> QED BY <1>2, <1>3, <1>4, <1>5 DEF Serve, Written

LEMMA AcceptKeeps ==
    ASSUME Serve, NEW op \in Operations, NEW i \in Issues \cup {None},
           NEW k \in Keys \cup {None}, Accept(op, i, k)
    PROVE  Serve'
<1> DEFINE new == made + 1
           entry == [operation |-> op, issue |-> i, key |-> k, status |-> "accepted"]
\* The lock could be taken, so that no run is carried and none is open.
<1>1. /\ new \in Runs /\ new \in 0..MaxRuns /\ made \in 0..MaxRuns /\ up
      /\ \A q \in Runs : stage[q] = None
      /\ Written => \A q \in Runs : record[q].status \notin Open
      /\ \A q \in Runs : q > made => record[q] = NoRecord
  <2>1. new \in Runs /\ new \in 0..MaxRuns /\ made \in 0..MaxRuns /\ up
    BY ServeAssumption DEF Accept, Serve, ServeTypeOK, Runs
  <2>2. \A q \in Runs : stage[q] = None
    BY ServeAssumption DEF Accept, CanLock, Free, Serve, CarriedIsLatest, Runs
  <2> QED BY <2>1, <2>2 DEF Serve, Written, OpenIsCarried, Unused, Runs
<1>2. /\ made' = new /\ lock' = new /\ stale' = FALSE
      /\ UNCHANGED <<up, starts, result, task>>
  BY DEF Accept
<1>3. CASE record' = [record EXCEPT ![new] = entry] /\ Goto(new, "accepted")
  <2>1. /\ record'[new] = entry /\ \A q \in Runs : q # new => record'[q] = record[q]
        /\ stage'[new] = "accepted" /\ \A q \in Runs : q # new => stage'[q] = None
        /\ record' \in [Runs -> Records]
        /\ stage' \in [Runs -> CarriedAt \cup {None}]
    <3>1. entry \in Records
      BY DEF Records, Statuses
    <3> HIDE DEF entry, new
    <3> QED BY <1>1, <1>3, <3>1 DEF Goto, Serve, ServeTypeOK, CarriedAt
  <2>2. /\ entry.operation = op /\ entry.issue = i /\ entry.key = k
        /\ entry.status = "accepted"
    OBVIOUS
  <2> HIDE DEF entry
  <2>3. ServeTypeOK'
    BY <1>1, <1>2, <2>1 DEF Serve, ServeTypeOK
  <2>4. Unused' /\ CarriedIsLatest' /\ (Written => OpenIsLatest')
    BY <1>1, <1>2, <2>1, <2>2 DEF Unused, CarriedIsLatest, OpenIsLatest, Runs, None
  <2>5. Written => HolderIsCarried' /\ OpenIsCarried' /\ ClosedAtTheEnd'
    BY <1>1, <1>2, <2>1, <2>2 DEF HolderIsCarried, OpenIsCarried, ClosedAtTheEnd, None
  <2>6. OneRunPerKey'
    BY <1>1, <2>1, <2>2 DEF Accept, Known, Serve, OneRunPerKey
  <2>7. ASSUME Written PROVE CutOffNotRepeated'
    <3> SUFFICES ASSUME NEW r \in Runs, NEW s \in Runs, r < s,
                        record'[r].status = "resume_required",
                        record'[r].operation = record'[s].operation
                 PROVE  record'[s].issue \notin {record'[r].issue, None}
      BY DEF CutOffNotRepeated
    <3>1. r # new
      BY <2>1, <2>2
    <3>2. CASE s = new
      BY <2>1, <2>2, <3>1, <3>2 DEF Accept, ResumeRequired
    <3>3. CASE s # new
      BY <2>1, <2>7, <3>1, <3>3 DEF Written, CutOffNotRepeated
    <3> QED BY <3>2, <3>3
  <2> QED BY <2>3, <2>4, <2>5, <2>6, <2>7 DEF Serve, Written
<1>4. CASE WriteFails /\ UNCHANGED <<record, stage>>
  <2>1. ServeTypeOK'
    BY <1>1, <1>2, <1>4 DEF Serve, ServeTypeOK
  <2>2. Unused' /\ CarriedIsLatest'
    BY <1>1, <1>2, <1>4 DEF Unused, CarriedIsLatest, Runs
  <2>3. OneRunPerKey'
    BY <1>4, HistoryKept DEF Serve
  <2> QED BY <1>4, <2>1, <2>2, <2>3 DEF Serve, WriteFails
<1> QED BY <1>3, <1>4 DEF Accept

-----------------------------------------------------------------------------
(* The server carries a run.                                               *)

(* A step of the run that is carried: its record takes a status that does not
   say it was cut off, and its stage moves on.  *)
LEMMA CarriedStep ==
    ASSUME Serve, NEW r \in Runs, Carried(r), NEW s \in CarriedAt, Goto(r, s),
           \/ UNCHANGED record
           \/ \E x \in Statuses \ {"resume_required"} : SetStatus(r, x),
           UNCHANGED <<up, made, lock, stale>>,
           s \in {"announcing", "recorded"} /\ Written => record'[r].status \notin Open,
           result' \in [Runs -> Results \cup {"threw", None}],
           task' \in [Issues -> {"waiting", "active"}],
           UNCHANGED starts
    PROVE  Serve'
<1>1. /\ up /\ r = made /\ lock = r /\ ~stale /\ stage[r] # None
      /\ record[r].operation \in Operations
      /\ \A q \in Runs : q # r => stage[q] = None
      /\ Written => \A q \in Runs : q # r => record[q].status \notin Open
  BY DEF Carried, Serve, CarriedIsLatest, Written, OpenIsLatest
<1>2. /\ stage'[r] = s /\ s # None /\ \A q \in Runs : q # r => stage'[q] = None
      /\ stage' \in [Runs -> CarriedAt \cup {None}]
  BY <1>1 DEF Goto, Serve, ServeTypeOK, CarriedAt, None
<1>3. /\ record' \in [Runs -> Records]
      /\ \A q \in Runs : q # r => record'[q] = record[q]
      /\ \A q \in Runs : /\ record'[q].operation = record[q].operation
                         /\ record'[q].issue = record[q].issue
                         /\ record'[q].key = record[q].key
      /\ \A q \in Runs : record'[q].status = "resume_required"
                           => record[q].status = "resume_required"
  <2>1. CASE UNCHANGED record
    BY <2>1 DEF Serve, ServeTypeOK
  <2>2. CASE \E x \in Statuses \ {"resume_required"} : SetStatus(r, x)
    BY <2>2, StatusWritten DEF Serve
  <2> QED BY <2>1, <2>2
<1>4. ServeTypeOK'
  BY <1>2, <1>3 DEF Serve, ServeTypeOK
<1>5. Unused' /\ CarriedIsLatest' /\ (Written => OpenIsLatest')
  BY <1>1, <1>2, <1>3
  DEF Serve, ServeTypeOK, Unused, CarriedIsLatest, Written, OpenIsLatest, Runs
<1>6. Written => HolderIsCarried' /\ OpenIsCarried' /\ ClosedAtTheEnd'
  BY <1>1, <1>2, <1>3
  DEF Written, HolderIsCarried, OpenIsCarried, ClosedAtTheEnd, None
<1>7. OneRunPerKey' /\ (CutOffNotRepeated => CutOffNotRepeated')
  BY <1>3, HistoryKept DEF Serve
<1> QED BY <1>4, <1>5, <1>6, <1>7 DEF Serve, Written, WriteFails

(* A step whose record could not be written.  *)
LEMMA SilentStep ==
    ASSUME Serve, NEW r \in Runs, Carried(r), WriteFails, UNCHANGED record,
           \E s \in {None, "recorded"} : Goto(r, s),
           UNCHANGED <<up, starts, made, lock, stale>>,
           result' \in [Runs -> Results \cup {"threw", None}],
           task' \in [Issues -> {"waiting", "active"}]
    PROVE  Serve'
<1>1. PICK s \in {None, "recorded"} : Goto(r, s)
  OBVIOUS
<1>2. /\ up /\ r = made /\ lock = r /\ ~stale /\ record[r].operation \in Operations
      /\ \A q \in Runs : q # r => stage[q] = None
  BY DEF Carried, Serve, CarriedIsLatest
<1>3. /\ stage'[r] = s /\ \A q \in Runs : q # r => stage'[q] = None
      /\ stage' \in [Runs -> CarriedAt \cup {None}]
  BY <1>1, <1>2 DEF Goto, Serve, ServeTypeOK, CarriedAt, None
<1>4. ServeTypeOK'
  BY <1>3 DEF Serve, ServeTypeOK
<1>5. Unused' /\ CarriedIsLatest'
  BY <1>2, <1>3 DEF Serve, Unused, CarriedIsLatest
<1>6. OneRunPerKey'
  BY HistoryKept DEF Serve
<1> QED BY <1>4, <1>5, <1>6 DEF Serve, WriteFails

LEMMA BeginKeeps ==
    ASSUME Serve, NEW r \in Runs, Begin(r)
    PROVE  Serve'
<1>1. PICK s \in {"working", "ended"} : Goto(r, s)
  BY DEF Begin, Threw
<1>2. \/ UNCHANGED record
      \/ \E x \in Statuses \ {"resume_required"} : SetStatus(r, x)
  BY DEF Begin, Statuses
<1>3. result' \in [Runs -> Results \cup {"threw", None}]
  BY DEF Begin, Threw, Serve, ServeTypeOK
<1>4. Carried(r) /\ UNCHANGED <<up, starts, made, lock, stale, task>>
  BY DEF Begin
<1>5. s \in CarriedAt /\ s \notin {"announcing", "recorded"} /\ s # None
  BY DEF CarriedAt, None
<1>6. task' \in [Issues -> {"waiting", "active"}]
  BY <1>4 DEF Serve, ServeTypeOK
<1> QED BY <1>1, <1>2, <1>3, <1>4, <1>5, <1>6, CarriedStep

LEMMA WorkflowEndsKeeps ==
    ASSUME Serve, NEW r \in Runs, WorkflowEnds(r)
    PROVE  Serve'
<1>1. /\ Carried(r) /\ Goto(r, "ended") /\ "ended" \in CarriedAt /\ "ended" # None
      /\ UNCHANGED <<up, starts, record, made, lock, stale>>
  BY DEF WorkflowEnds, CarriedAt, None
<1>2. \E x \in Results \cup {"threw"} : result' = [result EXCEPT ![r] = x]
  BY DEF WorkflowEnds, Results
<1>3. result' \in [Runs -> Results \cup {"threw", None}]
  BY <1>2 DEF Serve, ServeTypeOK
<1>4. task' \in [Issues -> {"waiting", "active"}]
  BY DEF WorkflowEnds, Serve, ServeTypeOK
<1> QED BY <1>1, <1>3, <1>4, CarriedStep

LEMMA RecordResultKeeps ==
    ASSUME Serve, NEW r \in Runs, RecordResult(r)
    PROVE  Serve'
<1>1. /\ Carried(r) /\ UNCHANGED <<up, starts, made, lock, stale, task>>
      /\ result' = [result EXCEPT ![r] = None]
  BY DEF RecordResult
<1>2. /\ result' \in [Runs -> Results \cup {"threw", None}]
      /\ task' \in [Issues -> {"waiting", "active"}]
  BY <1>1 DEF Serve, ServeTypeOK
<1>3. CASE \E x \in Statuses \ {"resume_required"}, s \in {"announcing", "recorded"} :
              SetStatus(r, x) /\ x \notin Open /\ Goto(r, s)
  <2>1. PICK x \in Statuses \ {"resume_required"}, s \in {"announcing", "recorded"} :
              SetStatus(r, x) /\ x \notin Open /\ Goto(r, s)
    BY <1>3
  <2>2. record'[r].status \notin Open
    BY <2>1, StatusWritten DEF Serve
  <2>3. s \in CarriedAt /\ s # None
    BY DEF CarriedAt, None
  <2> QED BY <1>1, <1>2, <2>1, <2>2, <2>3, CarriedStep
<1>4. CASE WriteFails /\ UNCHANGED record /\ \E s \in {None, "recorded"} : Goto(r, s)
  BY <1>1, <1>2, <1>4, SilentStep
<1>5. CASE result[r] # "threw" /\ SetStatus(r, result[r]) /\ Goto(r, "announcing")
  <2>1. result[r] \in Results \cup {"threw", None}
    BY DEF Serve, ServeTypeOK
  <2>2. result[r] \in Statuses \ {"resume_required"} /\ result[r] \notin Open
    BY <1>5, <2>1 DEF Statuses, Results, Open, None
  <2> QED BY <1>3, <1>5, <2>2
<1>6. CASE /\ SetStatus(r, "failed")
           /\ Goto(r, IF Cleanup(r) THEN "recorded" ELSE "announcing")
  <2>1. "failed" \in Statuses \ {"resume_required"} /\ "failed" \notin Open
    BY DEF Statuses, Results, Open
  <2> QED BY <1>3, <1>6, <2>1
<1> QED BY <1>4, <1>5, <1>6 DEF RecordResult

LEMMA AnnounceKeeps ==
    ASSUME Serve, NEW r \in Runs, Announce(r)
    PROVE  Serve'
<1>1. /\ Carried(r) /\ stage[r] = "announcing" /\ "recorded" \in CarriedAt /\ "recorded" # None
      /\ UNCHANGED <<up, starts, made, result, lock, stale, task>>
  BY DEF Announce, CarriedAt, None
<1>2. /\ result' \in [Runs -> Results \cup {"threw", None}]
      /\ task' \in [Issues -> {"waiting", "active"}]
  BY <1>1 DEF Serve, ServeTypeOK
<1>3. CASE Goto(r, "recorded") /\ (UNCHANGED record \/ SetStatus(r, "failed"))
  <2>1. /\ "failed" \in Statuses \ {"resume_required"} /\ "failed" \notin Open
    BY DEF Statuses, Results, Open
  <2>2. Written => record'[r].status \notin Open
    BY <1>1, <1>3, <2>1, StatusWritten DEF Serve, Written, ClosedAtTheEnd
  <2> QED BY <1>1, <1>2, <1>3, <2>1, <2>2, CarriedStep
<1>4. CASE WriteFails /\ UNCHANGED record /\ \E s \in {None, "recorded"} : Goto(r, s)
  BY <1>1, <1>2, <1>4, SilentStep
<1> QED BY <1>3, <1>4 DEF Announce

(* The run is over: its status was recorded before, and nobody carries a run
   any more.  *)
LEMMA ReleaseKeeps ==
    ASSUME Serve, NEW r \in Runs, Release(r)
    PROVE  Serve'
<1>1. /\ up /\ r = made /\ lock = r /\ ~stale /\ record[r].operation \in Operations
      /\ \A q \in Runs : q # r => stage[q] = None
      /\ Written => \A q \in Runs : record[q].status \notin Open
  BY DEF Release, Carried, None, Serve, CarriedIsLatest, Written, ClosedAtTheEnd, OpenIsLatest
<1>2. /\ UNCHANGED <<up, starts, made, result, stale, task>>
      /\ lock' \in {Free, Jammed}
      /\ \A q \in Runs : stage'[q] = None
      /\ stage' \in [Runs -> CarriedAt \cup {None}]
  BY <1>1 DEF Release, Goto, Serve, ServeTypeOK
<1>3. /\ record' \in [Runs -> Records]
      /\ \A q \in Runs : q # r => record'[q] = record[q]
      /\ \A q \in Runs : /\ record'[q].operation = record[q].operation
                         /\ record'[q].issue = record[q].issue
                         /\ record'[q].key = record[q].key
      /\ \A q \in Runs : record'[q].status = "resume_required"
                           => record[q].status = "resume_required"
      /\ Written => \A q \in Runs : record'[q].status \notin Open
  <2>1. CASE UNCHANGED record
    BY <1>1, <2>1 DEF Serve, ServeTypeOK
  <2>2. CASE SetStatus(r, "failed")
    <3>1. "failed" \in Statuses /\ "failed" \notin Open /\ "failed" # "resume_required"
      BY DEF Statuses, Results, Open
    <3> QED BY <1>1, <2>2, <3>1, StatusWritten DEF Serve
  <2> QED BY <2>1, <2>2 DEF Release
<1>4. ServeTypeOK'
  BY <1>2, <1>3 DEF Serve, ServeTypeOK
<1>5. Unused' /\ CarriedIsLatest' /\ (Written => OpenIsLatest')
  BY <1>1, <1>2, <1>3 DEF Serve, Unused, CarriedIsLatest, OpenIsLatest, Runs
<1>6. HolderIsCarried'
  BY <1>2, ServeAssumption DEF HolderIsCarried, Free, Jammed, Runs
<1>7. Written => OpenIsCarried' /\ ClosedAtTheEnd'
  BY <1>2, <1>3 DEF OpenIsCarried, ClosedAtTheEnd, None
<1>8. OneRunPerKey' /\ (CutOffNotRepeated => CutOffNotRepeated')
  BY <1>3, HistoryKept DEF Serve
<1> QED BY <1>4, <1>5, <1>6, <1>7, <1>8 DEF Serve, Written

-----------------------------------------------------------------------------
(* The tasks, and the lock in other hands.                                 *)

LEMMA TasksMove ==
    ASSUME Serve, task' \in [Issues -> {"waiting", "active"}],
           UNCHANGED <<up, starts, record, made, stage, result, lock, stale>>
    PROVE  Serve'
<1>1. ServeTypeOK'
  BY DEF Serve, ServeTypeOK
<1>2. Unused' /\ CarriedIsLatest' /\ (HolderIsCarried => HolderIsCarried')
  BY DEF Serve, Unused, CarriedIsLatest, HolderIsCarried
<1>3. Written => OpenIsLatest' /\ OpenIsCarried' /\ ClosedAtTheEnd'
  BY DEF Written, OpenIsLatest, OpenIsCarried, ClosedAtTheEnd
<1>4. OneRunPerKey' /\ (CutOffNotRepeated => CutOffNotRepeated')
  BY HistoryKept DEF Serve
<1> QED BY <1>1, <1>2, <1>3, <1>4 DEF Serve, Written, WriteFails

LEMMA ByHandKeeps ==
    ASSUME Serve, ByHand
    PROVE  Serve'
<1>1. CASE WorkByHand
  <2>1. task' \in [Issues -> {"waiting", "active"}]
    BY <1>1 DEF WorkByHand, Serve, ServeTypeOK
  <2> QED BY <1>1, <2>1, TasksMove DEF WorkByHand
<1>2. CASE TakeByHand \/ LeaveByHand
  <2>1. /\ UNCHANGED <<up, starts, record, made, stage, result, task>>
        /\ lock' \in {Free, Command} /\ stale' \in BOOLEAN
    BY <1>2 DEF TakeByHand, LeaveByHand, Serve, ServeTypeOK
  <2>2. \A q \in Runs : stage[q] = None
    BY <1>2, ServeAssumption
    DEF TakeByHand, LeaveByHand, CanLock, Free, Command, Serve, CarriedIsLatest, Runs
  <2>3. ServeTypeOK'
    BY <2>1 DEF Serve, ServeTypeOK
  <2>4. Unused' /\ CarriedIsLatest' /\ (OpenIsLatest => OpenIsLatest')
    BY <2>1, <2>2 DEF Serve, Unused, CarriedIsLatest, OpenIsLatest
  <2>5. HolderIsCarried'
    BY <2>1, ServeAssumption DEF HolderIsCarried, Free, Command, Runs
  <2>6. Written => OpenIsCarried' /\ ClosedAtTheEnd'
    BY <2>1 DEF Written, OpenIsCarried, ClosedAtTheEnd
  <2>7. OneRunPerKey' /\ (CutOffNotRepeated => CutOffNotRepeated')
    BY <2>1, HistoryKept DEF Serve
  <2> QED BY <2>3, <2>4, <2>5, <2>6, <2>7 DEF Serve, Written, WriteFails
<1> QED BY <1>1, <1>2 DEF ByHand

LEMMA ServeInvariant == Spec => []Serve
<1>1. Init => Serve
  BY ServeInitially DEF Init
<1>2. Serve /\ [Next]_vars => Serve'
  <2> SUFFICES ASSUME Serve, [Next]_vars PROVE Serve'
    OBVIOUS
  <2>1. CASE UNCHANGED serveVars
    <3>1. task' \in [Issues -> {"waiting", "active"}]
      BY <2>1 DEF serveVars, Serve, ServeTypeOK
    <3> QED BY <2>1, <3>1, TasksMove DEF serveVars
  <2>2. CASE StartServer
    BY <2>2, StartKeeps DEF StartServer
  <2>3. CASE StopServer
    BY <2>3, DieKeeps DEF StopServer
  <2>4. CASE Request
    BY <2>4, AcceptKeeps DEF Request
  <2>5. CASE \E r \in Runs : CoordinateRun(r)
    BY <2>5, BeginKeeps, WorkflowEndsKeeps, RecordResultKeeps, AnnounceKeeps, ReleaseKeeps
    DEF CoordinateRun, BeginRun, EndWorkflow, RecordRun, AnnounceRun, ReleaseRun
  <2>6. CASE \E r \in Runs : WorkOn(r)
    <3>1. /\ UNCHANGED <<up, starts, record, made, stage, result, lock, stale>>
          /\ \E i \in Issues : task' = [task EXCEPT ![i] = "active"]
      BY <2>6 DEF WorkOn, Work
    <3>2. task' \in [Issues -> {"waiting", "active"}]
      BY <3>1 DEF Serve, ServeTypeOK
    <3> QED BY <3>1, <3>2, TasksMove
  <2>7. CASE CommandByHand
    BY <2>7, ByHandKeeps DEF CommandByHand
  <2> QED BY <2>1, <2>2, <2>3, <2>4, <2>5, <2>6, <2>7 DEF Next, vars, Stream
<1> QED BY <1>1, <1>2, PTL DEF Spec

(* A request repeated with its key never starts a second run, whatever became
   of the first: the server may have died in the middle of it, and several
   times.  (findRunByIdempotency, tryAcquireRunLock)  *)
THEOREM OneRunForEachKey == Spec => []OneRunPerKey
<1>1. Serve => OneRunPerKey
  BY DEF Serve
<1> QED BY ServeInvariant, <1>1, PTL

(* A record that says its run goes on belongs to a run the server that listens
   carries, as long as records can be written.
   (markInterruptedRunsResumeRequired, runCoordinator)  *)
THEOREM NoRunForgotten ==
    ASSUME "record_write" \notin ServeFaults
    PROVE  Spec => []NoForgottenRun
<1>1. Serve => NoForgottenRun
  BY DEF Serve, Written, WriteFails, CarriedIsLatest, OpenIsCarried, NoForgottenRun, Carried,
         Open
<1> QED BY ServeInvariant, <1>1, PTL

(* A run that was cut off is not begun anew behind the operator's back, as long
   as records can be written.  (findResumeRequiredRun)  *)
THEOREM CutOffStaysCutOff ==
    ASSUME "record_write" \notin ServeFaults
    PROVE  Spec => []CutOffNotRepeated
<1>1. Serve => CutOffNotRepeated
  BY DEF Serve, Written, WriteFails
<1> QED BY ServeInvariant, <1>1, PTL

(* The lock is held for as long as a run is carried, and no longer, as long as
   records can be written.  (handleMutation takes the lock, the finally block
   of runCoordinator gives it back)  *)
THEOREM LockHeldForRun ==
    ASSUME "record_write" \notin ServeFaults
    PROVE  Spec => []LockSpansRun
<1>1. Serve => LockSpansRun
  BY DEF Serve, Written, WriteFails, CarriedIsLatest, HolderIsCarried, LockSpansRun, Carried
<1> QED BY ServeInvariant, <1>1, PTL

-----------------------------------------------------------------------------
(* The event stream.  The buffer holds the last events, all of them, under *)
(* identifiers that ascend; the identifier the browser will send is that   *)
(* of the last event it has, or of no event in the buffer.                 *)

Numbered ==
    \A n \in DOMAIN buffer : /\ buffer[n].event = (published - Len(buffer)) + n
                             /\ buffer[n].id < nextId

Ascending == \A m, n \in DOMAIN buffer : m < n => buffer[m].id < buffer[n].id

\* Error frames use up identifiers, as many as the bound allows.
Counted == /\ published < nextId /\ Len(buffer) <= published
           /\ (nextId - 1) - published <= MaxNotices

KnowsWhatItHas ==
    ~stranger => /\ lastId < nextId
                 /\ lastId # 0 => \A n \in Found : buffer[n].event = got

Hub ==
    /\ HubTypeOK /\ Numbered /\ Ascending /\ Counted /\ KnowsWhatItHas
    /\ connected /\ lastId # 0 => got = published
    /\ NoSilentGap

LEMMA HubInitially ==
    ASSUME HubInit
    PROVE  Hub
<1>1. buffer = <<>> /\ Len(buffer) = 0 /\ DOMAIN buffer = {} /\ buffer \in Seq(Frames)
  BY DEF HubInit
<1>2. HubTypeOK
  <2>1. nextId \in Ids \ {0} /\ lastId \in Ids /\ {published, got} \subseteq 0..MaxEvents
    BY HubAssumption DEF HubInit, Ids
  <2>2. Len(buffer) <= Capacity
    BY <1>1, HubAssumption
  <2>3. {connected, stranger} \subseteq BOOLEAN /\ surprises = {}
    BY DEF HubInit
  <2> QED BY <1>1, <2>1, <2>2, <2>3 DEF HubTypeOK
<1>3. Numbered /\ Ascending /\ Counted /\ KnowsWhatItHas
  BY <1>1, HubAssumption DEF HubInit, Numbered, Ascending, Counted, KnowsWhatItHas, Found
<1> QED BY <1>2, <1>3 DEF HubInit, Hub, NoSilentGap

(* What becomes of the frames fs: the first k of them arrive, and all if the
   stream stays open.  *)
LEMMA WriteOutcome ==
    ASSUME NEW fs \in Seq(Frames), NEW next \in Nat, stranger \in BOOLEAN, Write(fs, next)
    PROVE  \E k \in 0..Len(fs) :
              /\ connected' \in BOOLEAN
              /\ connected' => k = Len(fs)
              /\ \/ nextId' = next
                 \/ nextId' = next + 1 /\ MayNotify
              /\ k = 0 => UNCHANGED <<lastId, got, stranger, surprises>>
              /\ k > 0 => /\ got' = fs[k].event /\ stranger' = FALSE
                          /\ \/ lastId' = fs[k].id
                             \/ lastId' = next /\ nextId' = next + 1
                          /\ fs[1].event = got + 1 => surprises' = surprises
                          /\ lastId = 0 => surprises' \in {surprises, surprises \cup {"early"}}
<1>1. PICK k \in 0..Len(fs), end \in {"open", "broken", "full", "full_heard"} :
        /\ end = "open" => k = Len(fs)
        /\ end = "full_heard" => k > 0
        /\ end \in {"full", "full_heard"} => MayNotify
        /\ nextId' = IF end \in {"full", "full_heard"} THEN next + 1 ELSE next
        /\ connected' = (end = "open")
        /\ lastId' = CASE end = "full_heard" -> next
                       [] k > 0 /\ end # "full_heard" -> fs[k].id
                       [] OTHER -> lastId
        /\ stranger' = (stranger /\ k = 0)
        /\ got' = IF k > 0 THEN fs[k].event ELSE got
        /\ surprises' = IF k > 0 /\ fs[1].event # got + 1
                        THEN surprises \cup {IF lastId = 0 THEN "early" ELSE "gap"}
                        ELSE surprises
  BY DEF Write
<1> QED
  <2>1. connected' \in BOOLEAN /\ (connected' => k = Len(fs))
    BY <1>1
  <2>2. nextId' = next \/ (nextId' = next + 1 /\ MayNotify)
    BY <1>1
  <2>3. ASSUME k = 0
        PROVE  UNCHANGED <<lastId, got, stranger, surprises>>
    <3>1. stranger' = stranger
      BY <1>1, <2>3
    <3>2. end # "full_heard" /\ ~(k > 0)
      BY <1>1, <2>3
    <3> QED BY <1>1, <3>1, <3>2
  <2>4. ASSUME k > 0
        PROVE  /\ got' = fs[k].event /\ stranger' = FALSE
               /\ \/ lastId' = fs[k].id
                  \/ lastId' = next /\ nextId' = next + 1
               /\ fs[1].event = got + 1 => surprises' = surprises
               /\ lastId = 0 => surprises' \in {surprises, surprises \cup {"early"}}
    <3>1. stranger' = FALSE
      <4>1. k # 0
        BY <2>4
      <4>2. stranger' = (stranger /\ k = 0)
        BY <1>1
      <4> QED BY <4>1, <4>2, Zenon
    <3>2. lastId' = fs[k].id \/ (lastId' = next /\ nextId' = next + 1)
      <4>1. CASE end = "full_heard"
        BY <1>1, <2>4, <4>1
      <4>2. CASE end # "full_heard"
        BY <1>1, <2>4, <4>2
      <4> QED BY <4>1, <4>2
    <3>3. got' = fs[k].event
      BY <1>1, <2>4
    <3>4. /\ fs[1].event = got + 1 => surprises' = surprises
          /\ lastId = 0 => surprises' \in {surprises, surprises \cup {"early"}}
      BY <1>1, <2>4
    <3> QED BY <3>1, <3>2, <3>3, <3>4
  <2> QED BY <2>1, <2>2, <2>3, <2>4

(* The ring buffer takes a frame at its end, and loses at most the oldest.  *)
LEMMA RingBuffer ==
    ASSUME NEW b \in Seq(Frames), Len(b) <= Capacity, NEW f \in Frames
    PROVE  LET c == LastOf(Append(b, f)) IN
           /\ c \in Seq(Frames) /\ Len(c) \in 1..Capacity
           /\ c[Len(c)] = f
           /\ \E d \in {0, 1} : /\ Len(c) = (Len(b) + 1) - d
                                /\ \A n \in 1..(Len(c) - 1) : c[n] = b[n + d]
<1> DEFINE a == Append(b, f)
<1>1. /\ a \in Seq(Frames) /\ Len(a) = Len(b) + 1 /\ a[Len(b) + 1] = f
      /\ \A n \in 1..Len(b) : a[n] = b[n]
  OBVIOUS
<1>2. Len(b) \in Nat /\ Capacity \in Nat \ {0}
  BY HubAssumption
<1> HIDE DEF a
<1>3. CASE Len(a) > Capacity
  <2>1. /\ Tail(a) \in Seq(Frames) /\ Len(Tail(a)) = Len(b)
        /\ \A n \in 1..Len(b) : Tail(a)[n] = a[n + 1]
    BY <1>1, <1>2
  <2>2. LastOf(a) = Tail(a) /\ Len(b) \in 1..Capacity
    BY <1>1, <1>2, <1>3 DEF LastOf
  <2>3. Tail(a)[Len(b)] = f /\ \A n \in 1..(Len(b) - 1) : Tail(a)[n] = b[n + 1]
    BY <1>1, <1>2, <2>1, <2>2
  <2> QED BY <1>2, <2>1, <2>2, <2>3 DEF a
<1>4. CASE ~(Len(a) > Capacity)
  <2>1. LastOf(a) = a /\ Len(a) \in 1..Capacity
    BY <1>1, <1>2, <1>4 DEF LastOf
  <2>2. Len(a) = (Len(b) + 1) - 0 /\ \A n \in 1..(Len(a) - 1) : a[n] = b[n + 0]
    BY <1>1, <1>2
  <2>3. a[Len(a)] = f
    BY <1>1
  <2> QED BY <1>1, <2>1, <2>2, <2>3 DEF a
<1> QED BY <1>3, <1>4

(* The types follow from what is counted.  *)
LEMMA WithinIds ==
    ASSUME NEW next \in Int, NEW events \in 0..MaxEvents,
           events < next, (next - 1) - events <= MaxNotices
    PROVE  next \in Ids \ {0} /\ \A i \in Nat : i < next => i \in Ids
  BY HubAssumption DEF Ids

LEMMA HubNumbers ==
    ASSUME Hub
    PROVE  /\ nextId \in Nat /\ nextId > 0 /\ lastId \in Nat
           /\ published \in Nat /\ published <= MaxEvents /\ got \in 0..MaxEvents
           /\ Capacity \in Nat \ {0} /\ MaxEvents \in Nat /\ MaxNotices \in Nat
<1>1. MaxEvents \in Nat /\ MaxNotices \in Nat /\ Capacity \in Nat \ {0}
  BY HubAssumption
<1>2. \A i \in Ids : i \in Nat
  BY <1>1 DEF Ids
<1>3. /\ nextId \in Ids \ {0} /\ lastId \in Ids
      /\ published \in 0..MaxEvents /\ got \in 0..MaxEvents
  BY DEF Hub, HubTypeOK
<1>4. nextId \in Nat /\ nextId > 0 /\ lastId \in Nat
  BY <1>2, <1>3
<1> QED BY <1>1, <1>3, <1>4

LEMMA HubBuffer ==
    ASSUME Hub
    PROVE  /\ buffer \in Seq(Frames) /\ Len(buffer) \in Nat
           /\ DOMAIN buffer = 1..Len(buffer)
           /\ Len(buffer) <= Capacity /\ Len(buffer) <= published
           /\ \A n \in DOMAIN buffer : /\ buffer[n] \in Frames
                                       /\ buffer[n].id \in Nat /\ buffer[n].event \in Nat
<1>1. buffer \in Seq(Frames) /\ Len(buffer) <= Capacity /\ Len(buffer) <= published
  BY DEF Hub, HubTypeOK, Counted
<1>2. /\ Len(buffer) \in Nat /\ DOMAIN buffer = 1..Len(buffer)
      /\ \A n \in DOMAIN buffer : buffer[n] \in Frames
  BY <1>1
<1>3. \A f \in Frames : f.id \in Nat /\ f.event \in Nat
  BY HubAssumption DEF Frames, Ids
<1> QED BY <1>1, <1>2, <1>3

LEMMA PublishKeeps ==
    ASSUME Hub, Publish
    PROVE  Hub'
<1>0. /\ nextId \in Nat /\ nextId > 0 /\ lastId \in Nat
      /\ published \in Nat /\ published < MaxEvents
      /\ Capacity \in Nat \ {0} /\ MaxEvents \in Nat /\ MaxNotices \in Nat
      /\ Len(buffer) \in Nat /\ Len(buffer) <= published /\ Len(buffer) <= Capacity
      /\ published < nextId /\ (nextId - 1) - published <= MaxNotices
      /\ DOMAIN buffer = 1..Len(buffer) /\ buffer \in Seq(Frames)
  BY HubNumbers, HubBuffer DEF Publish, Hub, Counted
<1> DEFINE frame == [id |-> nextId, event |-> published + 1]
<1>1. /\ published + 1 \in 1..MaxEvents /\ published' = published + 1
      /\ frame.id = nextId /\ frame.event = published + 1
      /\ frame \in Frames
      /\ buffer' = LastOf(Append(buffer, frame))
  <2>1. published + 1 \in 1..MaxEvents
    BY <1>0
  <2>2. frame \in Frames
    BY <2>1 DEF Hub, HubTypeOK, Frames
  <2> QED BY <2>1, <2>2 DEF Publish
<1>2. /\ nextId' \in Int /\ nextId' >= nextId + 1
      /\ connected' \in BOOLEAN /\ stranger' \in BOOLEAN
      /\ nextId' = nextId + 1 \/ (nextId' = nextId + 2 /\ MayNotify)
      /\ connected' /\ lastId' # 0 => got' = published + 1
      /\ \/ UNCHANGED <<lastId, got, stranger, surprises>>
         \/ /\ got' = published + 1 /\ stranger' = FALSE
            /\ surprises' \in {surprises, surprises \cup {"early"}}
            /\ lastId' = nextId \/ (lastId' = nextId + 1 /\ nextId' = nextId + 2)
  <2>1. CASE ~connected
    BY <1>0, <2>1 DEF Publish, browser, Hub, HubTypeOK
  <2>2. CASE connected
    <3>1. (lastId # 0 => got = published) /\ stranger \in BOOLEAN
      BY <2>2 DEF Hub, HubTypeOK
    <3>2. Write(<<frame>>, nextId + 1)
      BY <2>2 DEF Publish
    <3>3. <<frame>> \in Seq(Frames) /\ Len(<<frame>>) = 1 /\ <<frame>>[1] = frame
      BY <1>1
    <3>4. nextId + 1 \in Nat /\ (nextId + 1) + 1 = nextId + 2
      BY <1>0
    <3> HIDE DEF frame
    <3>5. PICK k \in 0..1 :
            /\ connected' \in BOOLEAN
            /\ connected' => k = 1
            /\ \/ nextId' = nextId + 1
               \/ nextId' = nextId + 2 /\ MayNotify
            /\ k = 0 => UNCHANGED <<lastId, got, stranger, surprises>>
            /\ k > 0 => /\ got' = (<<frame>>)[k].event /\ stranger' = FALSE
                        /\ \/ lastId' = (<<frame>>)[k].id
                           \/ lastId' = nextId + 1 /\ nextId' = nextId + 2
                        /\ frame.event = got + 1 => surprises' = surprises
                        /\ lastId = 0 => surprises' \in {surprises, surprises \cup {"early"}}
      BY <3>1, <3>2, <3>3, <3>4, WriteOutcome
    <3>6. /\ nextId' \in Int /\ nextId' >= nextId + 1
          /\ nextId' = nextId + 1 \/ (nextId' = nextId + 2 /\ MayNotify)
      BY <1>0, <3>5
    <3>7. CASE k = 0
      <4>1. k # 1 /\ UNCHANGED <<lastId, got, stranger, surprises>>
        BY <3>5, <3>7
      <4> QED BY <3>1, <3>5, <3>6, <4>1
    <3>8. CASE k = 1
      <4>1. /\ got' = published + 1 /\ stranger' = FALSE
            /\ lastId' = nextId \/ (lastId' = nextId + 1 /\ nextId' = nextId + 2)
            /\ surprises' \in {surprises, surprises \cup {"early"}}
        BY <1>1, <3>1, <3>3, <3>5, <3>8
      <4> QED BY <3>5, <3>6, <4>1
    <3>9. k = 0 \/ k = 1
      OBVIOUS
    <3> QED BY <3>7, <3>8, <3>9
  <2> QED BY <2>1, <2>2
<1> HIDE DEF frame
<1>3. PICK d \in {0, 1} :
        /\ buffer' \in Seq(Frames) /\ Len(buffer') \in 1..Capacity
        /\ buffer'[Len(buffer')] = frame
        /\ Len(buffer') = (Len(buffer) + 1) - d
        /\ \A n \in 1..(Len(buffer') - 1) : buffer'[n] = buffer[n + d]
  <2> DEFINE c == LastOf(Append(buffer, frame))
  <2>1. /\ c \in Seq(Frames) /\ Len(c) \in 1..Capacity /\ c[Len(c)] = frame
        /\ \E d \in {0, 1} : /\ Len(c) = (Len(buffer) + 1) - d
                             /\ \A n \in 1..(Len(c) - 1) : c[n] = buffer[n + d]
    BY <1>0, <1>1, RingBuffer
  <2>2. buffer' = c
    BY <1>1
  <2> HIDE DEF c
  <2> QED BY <2>1, <2>2
<1>4. /\ DOMAIN buffer' = 1..Len(buffer')
      /\ \A n \in DOMAIN buffer' : \/ n = Len(buffer') /\ buffer'[n] = frame
                                   \/ n < Len(buffer') /\ n + d \in DOMAIN buffer
                                      /\ buffer'[n] = buffer[n + d]
  <2>1. Len(buffer') \in Nat /\ DOMAIN buffer' = 1..Len(buffer')
    BY <1>3
  <2>2. ASSUME NEW n \in DOMAIN buffer', n # Len(buffer')
        PROVE  n < Len(buffer') /\ n + d \in DOMAIN buffer /\ buffer'[n] = buffer[n + d]
    <3>1. n \in Nat /\ n < Len(buffer') /\ n \in 1..(Len(buffer') - 1)
      BY <2>1, <2>2
    <3>2. n + d \in 1..Len(buffer)
      <4>1. Len(buffer') = (Len(buffer) + 1) - d /\ d \in {0, 1}
        BY <1>3
      <4> QED BY <1>0, <2>1, <3>1, <4>1
    <3> QED BY <1>0, <1>3, <3>1, <3>2
  <2> QED BY <1>3, <2>1, <2>2
<1>5. Counted'
  <2>1. Len(buffer') <= published'
    BY <1>0, <1>1, <1>3
  <2>2. published' < nextId' /\ (nextId' - 1) - published' <= MaxNotices
    <3>1. nextId' = nextId + 1 \/ (nextId' = nextId + 2 /\ (nextId - 1) - published < MaxNotices)
      BY <1>2 DEF MayNotify
    <3>2. published' = published + 1
      BY <1>1
    <3>3. /\ nextId \in Nat /\ published \in Nat /\ MaxNotices \in Nat
          /\ published < nextId /\ (nextId - 1) - published <= MaxNotices
      BY <1>0
    <3> QED BY <3>1, <3>2, <3>3
  <2> QED BY <2>1, <2>2 DEF Counted
<1>6. HubTypeOK'
  <2>1. /\ lastId' \in Nat /\ got' \in 0..MaxEvents
        /\ surprises' \subseteq {"early", "gap", "restart", "needless"}
    <3>1. surprises \subseteq {"early", "gap", "restart", "needless"}
      BY DEF Hub, HubTypeOK
    <3>2. got \in 0..MaxEvents
      BY HubNumbers
    <3>3. lastId' \in Nat
      BY <1>0, <1>2
    <3>4. got' \in 0..MaxEvents
      BY <1>0, <1>2, <3>2
    <3>5. surprises' \subseteq {"early", "gap", "restart", "needless"}
      BY <1>2, <3>1
    <3> QED BY <3>3, <3>4, <3>5
  <2>2. lastId' \in Ids
    <3>1. CASE lastId' = lastId
      BY <3>1 DEF Hub, HubTypeOK
    <3>2. CASE lastId' < nextId'
      BY <1>1, <1>2, <1>5, <2>1, <3>2, WithinIds DEF Counted
    <3> QED BY <1>2, <3>1, <3>2, <1>0, HubNumbers, HubBuffer
  <2>3. nextId' \in Ids \ {0} /\ published' \in 0..MaxEvents
    BY <1>1, <1>2, <1>5, WithinIds DEF Counted
  <2> QED BY <1>2, <1>3, <2>1, <2>2, <2>3 DEF Hub, HubTypeOK
<1>7. Numbered'
  <2> SUFFICES ASSUME NEW n \in DOMAIN buffer'
               PROVE  /\ buffer'[n].event = (published' - Len(buffer')) + n
                      /\ buffer'[n].id < nextId'
    BY DEF Numbered
  <2>1. /\ Len(buffer') \in Nat /\ Len(buffer') = (Len(buffer) + 1) - d
        /\ d \in {0, 1} /\ n \in Nat
    BY <1>3, <1>4
  <2>2. published' = published + 1 /\ nextId' > nextId /\ nextId' \in Int
    BY <1>0, <1>1, <1>2
  <2> DEFINE len == Len(buffer)
             len2 == Len(buffer')
  <2>3. /\ len \in Nat /\ published \in Nat /\ nextId \in Nat
        /\ len2 \in Nat /\ len2 = (len + 1) - d /\ d \in Nat /\ n \in Nat
    BY <1>0, <2>1
  <2> HIDE DEF len, len2
  <2>4. (published' - len2) + n = (published - len) + (n + d)
    BY <2>2, <2>3
  <2>5. CASE n = Len(buffer') /\ buffer'[n] = frame
    <3>1. n = len2 /\ buffer'[n].event = published' /\ buffer'[n].id = nextId
      BY <1>1, <2>5 DEF len2
    <3>2. (published' - len2) + n = published'
      BY <2>2, <2>3, <3>1
    <3> QED BY <2>2, <2>3, <3>1, <3>2 DEF len2
  <2>6. CASE n + d \in DOMAIN buffer /\ buffer'[n] = buffer[n + d]
    <3>1. /\ buffer[n + d].event = (published - Len(buffer)) + (n + d)
          /\ buffer[n + d].id < nextId /\ buffer[n + d].id \in Nat
      BY <2>6, HubBuffer DEF Hub, Numbered
    <3>2. buffer'[n].event = (published' - len2) + n
      BY <2>6, <2>4, <3>1 DEF len
    <3>3. buffer'[n].id < nextId'
      BY <2>2, <2>6, <2>3, <3>1
    <3> QED BY <3>2, <3>3 DEF len2
  <2> QED BY <1>4, <2>5, <2>6
<1>8. Ascending'
  <2> SUFFICES ASSUME NEW m \in DOMAIN buffer', NEW n \in DOMAIN buffer', m < n
               PROVE  buffer'[m].id < buffer'[n].id
    BY DEF Ascending
  <2>1. /\ Len(buffer') \in Nat /\ DOMAIN buffer' = 1..Len(buffer') /\ d \in {0, 1}
        /\ m \in Nat /\ n \in Nat /\ m # Len(buffer')
    BY <1>3, <1>4
  <2>2. m + d \in DOMAIN buffer /\ buffer'[m] = buffer[m + d]
    BY <1>4, <2>1
  <2>3. CASE n = Len(buffer') /\ buffer'[n] = frame
    BY <1>1, <2>2, <2>3 DEF Hub, Numbered
  <2>4. CASE n + d \in DOMAIN buffer /\ buffer'[n] = buffer[n + d]
    <3>1. m + d < n + d
      BY <2>1
    <3> QED BY <2>2, <2>4, <3>1 DEF Hub, Ascending
  <2> QED BY <1>4, <2>3, <2>4
<1>9. KnowsWhatItHas'
  <2> SUFFICES ASSUME ~stranger'
               PROVE  /\ lastId' < nextId'
                      /\ lastId' # 0 => \A n \in DOMAIN buffer' :
                            buffer'[n].id = lastId' => buffer'[n].event = got'
    BY DEF KnowsWhatItHas, Found
  <2>1. CASE UNCHANGED <<lastId, got, stranger, surprises>>
    BY <1>1, <1>2, <1>4, <2>1, <1>0, HubNumbers, HubBuffer DEF Hub, KnowsWhatItHas, Found
  <2>2. CASE /\ got' = published + 1
             /\ lastId' = nextId \/ (lastId' = nextId + 1 /\ nextId' = nextId + 2)
    BY <1>1, <1>2, <1>4, <2>2, <1>0, HubNumbers, HubBuffer DEF Hub, Numbered
  <2> QED BY <1>2, <2>1, <2>2
<1>10. NoSilentGap' /\ (connected' /\ lastId' # 0 => got' = published')
  BY <1>1, <1>2 DEF Hub, NoSilentGap
<1> QED BY <1>5, <1>6, <1>7, <1>8, <1>9, <1>10 DEF Hub

(* Steps that leave the buffer alone.  *)
LEMMA BufferAlone ==
    ASSUME Hub, UNCHANGED <<buffer, published>>,
           nextId' = nextId \/ (nextId' = nextId + 1 /\ MayNotify),
           connected' \in BOOLEAN, stranger' \in BOOLEAN,
           lastId' = lastId \/ (lastId' \in Nat /\ lastId' < nextId'),
           got' \in 0..MaxEvents,
           surprises' \subseteq {"early", "gap", "restart", "needless"}, "gap" \notin surprises',
           connected' /\ lastId' # 0 => got' = published,
           KnowsWhatItHas'
    PROVE  Hub'
<1>1. /\ nextId \in Nat /\ published \in Nat /\ published <= MaxEvents /\ MaxNotices \in Nat
      /\ published < nextId /\ (nextId - 1) - published <= MaxNotices
  BY HubNumbers DEF Hub, Counted
<1>2. /\ nextId' \in Int /\ nextId' >= nextId /\ published < nextId'
      /\ (nextId' - 1) - published <= MaxNotices
  BY <1>1 DEF MayNotify
<1>3. Counted'
  BY <1>2 DEF Hub, Counted
<1>4. nextId' \in Ids \ {0} /\ lastId' \in Ids
  <2>1. nextId' \in Ids \ {0} /\ \A i \in Nat : i < nextId' => i \in Ids
    <3>1. published \in 0..MaxEvents
      BY <1>1, HubNumbers
    <3> QED BY <1>2, <3>1, WithinIds
  <2> QED BY <2>1 DEF Hub, HubTypeOK
<1>5. HubTypeOK'
  BY <1>4 DEF Hub, HubTypeOK
<1>6. Numbered' /\ Ascending'
  <2>1. \A n \in DOMAIN buffer : buffer[n].id \in Nat
    BY HubBuffer
  <2>2. Numbered'
    BY <1>1, <1>2, <2>1 DEF Hub, Numbered
  <2> QED BY <2>2 DEF Hub, Ascending
<1> QED BY <1>3, <1>5, <1>6 DEF Hub, NoSilentGap

(* The replay sends the frames behind the one the browser has, to the last of
   the buffer, so that nothing is missing in front of them or after them.  *)
LEMMA ConnectReplayKeeps ==
    ASSUME Hub, ConnectReplay
    PROVE  Hub'
<1>1. PICK n \in Found : Write(SubSeq(buffer, n + 1, Len(buffer)), nextId)
  BY DEF ConnectReplay
<1>2. /\ n \in DOMAIN buffer /\ n \in 1..Len(buffer) /\ Len(buffer) \in Nat
      /\ buffer[n].id = lastId /\ buffer[n].event = got
      /\ lastId # 0 /\ ~stranger /\ lastId < nextId
      /\ UNCHANGED <<buffer, published>>
  BY HubBuffer DEF ConnectReplay, Hub, KnowsWhatItHas, Found
<1>3. got = (published - Len(buffer)) + n
  BY <1>2 DEF Hub, Numbered
<1> DEFINE fs == SubSeq(buffer, n + 1, Len(buffer))
<1>4. /\ fs \in Seq(Frames) /\ Len(fs) = Len(buffer) - n
      /\ \A k \in 1..Len(fs) : n + k \in DOMAIN buffer /\ fs[k] = buffer[n + k]
  <2>1. n \in Nat /\ n <= Len(buffer) /\ n + 1 \in Int /\ Len(buffer) \in Int
    BY <1>2
  <2>2. \A i \in (n + 1)..Len(buffer) : buffer[i] \in Frames
    BY <2>1, HubBuffer
  <2>3. /\ fs \in Seq(Frames)
        /\ Len(fs) = IF n + 1 <= Len(buffer) THEN Len(buffer) - (n + 1) + 1 ELSE 0
        /\ \A k \in 1..(Len(buffer) - (n + 1) + 1) : fs[k] = buffer[(n + 1) + k - 1]
    BY <2>1, <2>2, SubSeqProperties
  <2> HIDE DEF fs
  <2>4. Len(fs) = Len(buffer) - n
    BY <1>2, <2>1, <2>3
  <2>5. ASSUME NEW k \in 1..Len(fs)
        PROVE  n + k \in DOMAIN buffer /\ fs[k] = buffer[n + k]
    <3>1. k \in Nat /\ k >= 1 /\ k <= Len(buffer) - n
      BY <2>1, <2>4
    <3>2. k \in 1..(Len(buffer) - (n + 1) + 1) /\ (n + 1) + k - 1 = n + k
      BY <2>1, <3>1
    <3>3. n + k \in 1..Len(buffer)
      BY <2>1, <3>1
    <3> QED BY <2>3, <3>2, <3>3, HubBuffer
  <2> QED BY <2>3, <2>4, <2>5
<1>5. Write(fs, nextId)
  BY <1>1
<1> HIDE DEF fs
<1>6. /\ nextId \in Nat /\ stranger \in BOOLEAN /\ published \in Nat /\ got \in 0..MaxEvents
      /\ surprises \subseteq {"early", "gap", "restart", "needless"} /\ "gap" \notin surprises
  BY HubNumbers DEF Hub, HubTypeOK, NoSilentGap
<1>7. PICK k \in 0..Len(fs) :
        /\ connected' \in BOOLEAN
        /\ connected' => k = Len(fs)
        /\ \/ nextId' = nextId
           \/ nextId' = nextId + 1 /\ MayNotify
        /\ k = 0 => UNCHANGED <<lastId, got, stranger, surprises>>
        /\ k > 0 => /\ got' = fs[k].event /\ stranger' = FALSE
                    /\ \/ lastId' = fs[k].id
                       \/ lastId' = nextId /\ nextId' = nextId + 1
                    /\ fs[1].event = got + 1 => surprises' = surprises
  BY <1>4, <1>5, <1>6, WriteOutcome
<1>8. k \in Nat /\ k <= Len(fs) /\ (k = 0 \/ k > 0)
  BY <1>2, <1>4, <1>7
<1>9. CASE k = 0
  <2>1. connected' => got = published
    BY <1>2, <1>3, <1>4, <1>6, <1>7, <1>9
  <2>2. UNCHANGED <<lastId, got, stranger, surprises>>
    BY <1>7, <1>9
  <2>3. KnowsWhatItHas'
    <3>1. lastId' = lastId /\ got' = got /\ Found' = Found /\ buffer' = buffer
      BY <1>2, <2>2 DEF Found
    <3>2. lastId < nextId'
      BY <1>2, <1>6, <1>7, HubNumbers
    <3> QED BY <1>2, <3>1, <3>2 DEF Hub, KnowsWhatItHas
  <2> QED BY <1>2, <1>6, <1>7, <2>1, <2>2, <2>3, BufferAlone
<1>10. CASE k > 0
  <2>1. /\ n + k \in DOMAIN buffer /\ n + 1 \in DOMAIN buffer
        /\ fs[k] = buffer[n + k] /\ fs[1] = buffer[n + 1]
    BY <1>4, <1>8, <1>10
  <2>2. /\ buffer[n + k].event = (published - Len(buffer)) + (n + k)
        /\ buffer[n + 1].event = (published - Len(buffer)) + (n + 1)
        /\ buffer[n + k].id < nextId /\ buffer[n + k].id \in Nat
        /\ buffer[n + k].event \in 0..MaxEvents
    <3>1. buffer[n + k] \in Frames
      BY <2>1, HubBuffer
    <3>2. buffer[n + k].event \in 0..MaxEvents
      BY <3>1, HubAssumption DEF Frames
    <3> QED BY <2>1, <3>2, HubBuffer DEF Hub, Numbered
  <2>3. fs[1].event = got + 1
    BY <1>2, <1>3, <1>6, <2>1, <2>2
  <2>4. /\ got' = buffer[n + k].event /\ stranger' = FALSE /\ surprises' = surprises
        /\ \/ lastId' = buffer[n + k].id
           \/ lastId' = nextId /\ nextId' = nextId + 1
    BY <1>7, <1>10, <2>1, <2>3
  <2>5. connected' => got' = published
    <3>1. connected' => n + k = Len(buffer)
      BY <1>2, <1>4, <1>7, <1>8
    <3> QED BY <1>2, <1>6, <2>2, <2>4, <3>1
  <2>6. lastId' \in Nat /\ lastId' < nextId'
    BY <1>6, <1>7, <2>2, <2>4
  <2>7. KnowsWhatItHas'
    <3> SUFFICES ASSUME NEW m \in DOMAIN buffer, buffer[m].id = lastId'
                 PROVE  buffer[m].event = got'
      BY <1>2, <2>6 DEF KnowsWhatItHas, Found
    <3>1. buffer[m].id < nextId /\ buffer[m].id \in Nat /\ m \in Nat
      BY HubBuffer DEF Hub, Numbered
    <3>2. lastId' = buffer[n + k].id
      BY <1>6, <2>4, <3>1
    <3>3. m = n + k
      <4>1. ~(m < n + k) /\ ~(n + k < m)
        BY <2>1, <2>2, <3>1, <3>2 DEF Hub, Ascending
      <4>2. n + k \in Nat
        BY <1>2, <1>8
      <4> QED BY <3>1, <4>1, <4>2
    <3> QED BY <2>4, <3>3
  <2> QED BY <1>2, <1>6, <1>7, <2>2, <2>4, <2>5, <2>6, <2>7, BufferAlone
<1> QED BY <1>8, <1>9, <1>10

LEMMA HubStepKeeps ==
    ASSUME Hub, HubStep
    PROVE  Hub'
<1>1. /\ nextId \in Nat /\ lastId \in Nat /\ published \in 0..MaxEvents /\ got \in 0..MaxEvents
      /\ connected \in BOOLEAN /\ stranger \in BOOLEAN
      /\ surprises \subseteq {"early", "gap", "restart", "needless"} /\ "gap" \notin surprises
  BY HubNumbers DEF Hub, HubTypeOK, NoSilentGap
<1>2. CASE NotifyAnother
  <2>1. /\ UNCHANGED <<buffer, published, browser>> /\ nextId' = nextId + 1 /\ MayNotify
        /\ nextId < nextId'
    BY <1>1, <1>2 DEF NotifyAnother
  <2>2. KnowsWhatItHas'
    <3>1. lastId < nextId => lastId < nextId'
      BY <1>1, <2>1
    <3> QED BY <2>1, <3>1 DEF browser, Hub, KnowsWhatItHas, Found
  <2>3. connected /\ lastId # 0 => got = published
    BY DEF Hub
  <2> QED BY <1>1, <2>1, <2>2, <2>3, BufferAlone DEF browser
<1>3. CASE ConnectWithoutId
  <2>1. /\ UNCHANGED <<nextId, buffer, published, lastId, stranger, surprises>>
        /\ lastId = 0 /\ connected' = TRUE /\ got' \in 0..MaxEvents
    BY <1>1, <1>3, HubNumbers DEF ConnectWithoutId
  <2>2. KnowsWhatItHas'
    BY <2>1 DEF Hub, KnowsWhatItHas
  <2> QED BY <1>1, <2>1, <2>2, BufferAlone
<1>4. CASE ConnectReplay
  BY <1>4, ConnectReplayKeeps
<1>5. CASE ConnectStranger
  <2>1. PICK n \in Found : got' = buffer[n].event
    BY <1>5 DEF ConnectStranger
  <2>2. /\ UNCHANGED <<nextId, buffer, published, connected, lastId>>
        /\ stranger' = FALSE /\ surprises' = surprises \cup {"restart"} /\ connected = FALSE
    BY <1>1, <1>5 DEF ConnectStranger
  <2>3. /\ n \in DOMAIN buffer /\ buffer[n].id = lastId /\ lastId < nextId
        /\ got' \in 0..MaxEvents
    <3>1. n \in DOMAIN buffer /\ buffer[n].id = lastId
      BY <2>1 DEF Found
    <3>2. buffer[n].event \in 0..MaxEvents
      BY <3>1, HubBuffer, HubAssumption DEF Frames
    <3> QED BY <2>1, <3>1, <3>2 DEF Hub, Numbered
  <2>4. KnowsWhatItHas'
    <3> SUFFICES ASSUME NEW m \in DOMAIN buffer, buffer[m].id = lastId
                 PROVE  buffer[m].event = got'
      BY <2>2, <2>3 DEF KnowsWhatItHas, Found
    <3>1. m \in Nat /\ n \in Nat
      BY <2>3, HubBuffer
    <3>2. ~(m < n) /\ ~(n < m)
      BY <1>1, <2>3 DEF Hub, Ascending
    <3>3. m = n
      BY <3>1, <3>2
    <3> QED BY <2>1, <3>3
  <2>5. /\ surprises' \subseteq {"early", "gap", "restart", "needless"} /\ "gap" \notin surprises'
    BY <1>1, <2>2
  <2> QED BY <1>1, <2>2, <2>3, <2>4, <2>5, BufferAlone
<1>6. CASE ConnectUnavailable
  <2>1. UNCHANGED <<buffer, published>> /\ nextId' = nextId + 1 /\ MayNotify
    BY <1>6 DEF ConnectUnavailable
  <2>2. CASE UNCHANGED browser
    BY <1>2, <2>1, <2>2 DEF NotifyAnother
  <2>3. CASE /\ connected' = TRUE /\ lastId' = nextId /\ got' = published /\ stranger' = FALSE
             /\ surprises' \in {surprises, surprises \cup {"needless"}}
    <3>1. lastId' \in Nat /\ lastId' < nextId'
      BY <1>1, <2>1, <2>3
    <3>2. KnowsWhatItHas'
      <4>1. \A n \in DOMAIN buffer : buffer[n].id # nextId
        BY <1>1, HubBuffer DEF Hub, Numbered
      <4> QED BY <2>1, <2>3, <3>1, <4>1 DEF KnowsWhatItHas, Found
    <3>3. /\ surprises' \subseteq {"early", "gap", "restart", "needless"} /\ "gap" \notin surprises'
      BY <1>1, <2>3
    <3> QED BY <1>1, <2>1, <2>3, <3>1, <3>2, <3>3, BufferAlone
  <2> QED BY <1>6, <2>2, <2>3 DEF ConnectUnavailable
<1>7. CASE Disconnect
  <2>1. /\ UNCHANGED <<nextId, buffer, published, lastId, got, stranger, surprises>>
        /\ connected' = FALSE
    BY <1>7 DEF Disconnect
  <2>2. KnowsWhatItHas'
    BY <2>1 DEF Hub, KnowsWhatItHas, Found
  <2> QED BY <1>1, <2>1, <2>2, BufferAlone
<1> QED BY <1>2, <1>3, <1>4, <1>5, <1>6, <1>7 DEF HubStep

LEMMA NewHubKeeps ==
    ASSUME Hub, NewHub
    PROVE  Hub'
<1>1. /\ nextId' = 1 /\ buffer' = <<>> /\ published' = 0 /\ connected' = FALSE /\ got' = 0
      /\ stranger' = (lastId # 0) /\ UNCHANGED <<lastId, surprises>>
  BY DEF NewHub
<1>2. /\ buffer' \in Seq(Frames) /\ Len(buffer') = 0 /\ DOMAIN buffer' = {}
  BY <1>1
<1>3. HubTypeOK'
  <2>1. nextId' \in Ids \ {0} /\ {published', got'} \subseteq 0..MaxEvents
    BY <1>1, HubAssumption DEF Ids
  <2>2. Len(buffer') <= Capacity
    BY <1>2, HubAssumption
  <2> QED BY <1>1, <1>2, <2>1, <2>2 DEF Hub, HubTypeOK
<1>4. Numbered' /\ Ascending' /\ Counted'
  BY <1>1, <1>2, HubAssumption DEF Numbered, Ascending, Counted
<1>5. KnowsWhatItHas'
  <2> SUFFICES ASSUME ~stranger'
               PROVE  lastId' < nextId' /\ lastId' = 0
    BY DEF KnowsWhatItHas
  <2>1. lastId = 0
    BY <1>1, Zenon
  <2> QED BY <1>1, <2>1
<1> QED BY <1>1, <1>3, <1>4, <1>5 DEF Hub, NoSilentGap

LEMMA HubInvariant == Spec => []Hub
<1>1. Init => Hub
  BY HubInitially DEF Init
<1>2. Hub /\ [Next]_vars => Hub'
  <2> SUFFICES ASSUME Hub, [Next]_vars PROVE Hub'
    OBVIOUS
  <2>1. CASE UNCHANGED hubVars
    BY <2>1 DEF hubVars, Hub, HubTypeOK, Numbered, Ascending, Counted, KnowsWhatItHas,
                Found, NoSilentGap
  <2>2. CASE Publish
    BY <2>2, PublishKeeps
  <2>3. CASE StartServer
    BY <2>3, NewHubKeeps DEF StartServer
  <2>4. CASE StopServer
    <3>1. CASE connected
      BY <2>4, <3>1, HubStepKeeps DEF StopServer, HubStep, Disconnect
    <3>2. CASE ~connected
      BY <2>1, <2>4, <3>2 DEF StopServer, hubVars, Hub, HubTypeOK
    <3> QED BY <3>1, <3>2
  <2>5. CASE Stream
    BY <2>5, HubStepKeeps DEF Stream
  <2>6. CASE \/ Request \/ CommandByHand
             \/ \E r \in Runs : CoordinateRun(r) \/ WorkOn(r)
    BY <2>1, <2>2, <2>6
    DEF Request, CommandByHand, CoordinateRun, BeginRun, EndWorkflow, RecordRun,
        AnnounceRun, ReleaseRun, WorkOn, Tell
  <2> QED BY <2>1, <2>3, <2>4, <2>5, <2>6 DEF Next, vars
<1> QED BY <1>1, <1>2, PTL DEF Spec

(* A browser that comes back with the identifier of a frame of this server
   misses no event without being told to reload, whatever the capacity of the
   buffer and however often its stream breaks or is closed.  Before the first
   identifier, and across a restart of the server, nothing is promised.
   (SseHub.replay, connect and writeBackpressureAndClose)  *)
THEOREM NoEventMissedSilently == Spec => []NoSilentGap
<1>1. Hub => NoSilentGap
  BY DEF Hub
<1> QED BY HubInvariant, <1>1, PTL

(* The server's records, its lock and its stream are well formed.  *)
THEOREM ServerTypeCorrect == Spec => []TypeOK
<1>1. Spec => [](watched \in BOOLEAN)
  <2>1. Init => watched \in BOOLEAN
    BY DEF Init
  <2>2. watched \in BOOLEAN /\ [Next]_vars => (watched \in BOOLEAN)'
    BY DEF Next, vars
  <2> QED BY <2>1, <2>2, PTL DEF Spec
<1>2. Serve /\ Hub /\ watched \in BOOLEAN => TypeOK
  BY DEF Serve, Hub, TypeOK
<1> QED BY ServeInvariant, HubInvariant, <1>1, <1>2, PTL
=============================================================================
