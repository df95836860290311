-------------------------- MODULE PhaseRunnerProofs --------------------------
(***************************************************************************)
(* The input a phase gives its runner, and the one the runner accepts;     *)
(* what the runners make of any output whatever, for every contract; and   *)
(* what PhaseRunner goes on from that to do, over any number of runs and   *)
(* crashes.                                                                *)
(***************************************************************************)
EXTENDS PhaseRunner, RunnerInput, TLAPS

-----------------------------------------------------------------------------
(* The input.  The workflow derives what it asks for from the phase in one  *)
(* way, the runners check it in another; a disagreement would fail every    *)
(* task in that phase.                                                      *)

(* The provider of a phase is always one that can be selected.  *)
LEMMA ProviderSelectable ==
    ASSUME NEW t, NEW c, NEW p \in capabilityPhases, ConfigHolds(c), EntryHolds(t)
    PROVE  ProviderFor(t, p, c) \in capabilityProviders
  BY DEF ProviderFor, ConfigHolds, EntryHolds, Selectable, capabilityProviders

LEMMA EffortKnown ==
    ASSUME NEW t, NEW c, NEW p \in capabilityPhases, ConfigHolds(c), EntryHolds(t)
    PROVE  EffortFor(t, p, c) \in effortLevels
  BY DEF EffortFor, ConfigHolds, EntryHolds, effortLevels

LEMMA StepIsLevel ==
    ASSUME NEW e \in effortLevels
    PROVE  StepBelow[e] \in effortLevels \cup {"none"}
  BY DEF effortLevels, StepBelow

LEMMA CandidateKnown ==
    ASSUME NEW provider, NEW model, NEW effort \in effortLevels, NEW downgrade,
           NEW e \in Candidates(provider, model, effort, downgrade)
    PROVE  e \in effortLevels
  BY StepIsLevel DEF Candidates

LEMMA TimeoutPositive ==
    ASSUME NEW c, NEW p \in capabilityPhases, ConfigHolds(c), NEW e \in effortLevels
    PROVE  TimeoutFor(c, p, e) \in Nat /\ TimeoutFor(c, p, e) > 0
  BY DEF TimeoutFor, ConfigHolds, TimeoutOfEffort, effortLevels

(* An effort is resolved to one the provider has with that model, and it is
   the one that was asked for or, where the configuration allows it, the one
   below.  (resolveEffort)  *)
THEOREM ResolvedIsSupported ==
    ASSUME NEW provider, NEW model, NEW effort \in effortLevels, NEW downgrade \in BOOLEAN,
           NEW e \in Candidates(provider, model, effort, downgrade)
    PROVE  /\ Supported(provider, model, e)
           /\ \/ e = effort
              \/ /\ downgrade /\ e = StepBelow[effort]
                 /\ ~Supported(provider, model, effort)
  BY DEF Candidates

(* What the configuration leaves of Claude's tools is within the cap of the
   phase, and every tool it takes away is denied by name.  *)
LEMMA ConfiguredWithinCap ==
    ASSUME NEW c, NEW p \in capabilityPhases
    PROVE  /\ WithinCap(ConfiguredClaude(p, c), ClaudePerm(p))
           /\ ConfiguredClaude(p, c) # NoClaude
           /\ \A tool \in ClaudePerm(p).allowed :
                 tool \in ConfiguredClaude(p, c).allowed \cup ConfiguredClaude(p, c).denied
  BY DEF WithinCap, ConfiguredClaude, ClaudePerm, NoClaude

(* Where the workflow sends a phase is where the runner wants it.  *)
LEMMA SidesAgree ==
    ASSUME NEW p \in capabilityPhases
    PROVE  /\ Place(p) = ScopeOf(Profile(p))
           /\ (IF p \in Writing THEN "workspace-write" ELSE "readonly") = ModeOf(Profile(p))
  BY DEF capabilityPhases, Place, ScopeOf, Profile, ModeOf, Writing

(* Whatever the configuration, the override, the provider of the last turn
   and the model: the input the workflow builds, once an effort has been
   resolved for the provider it goes to, is one that provider's runner
   accepts, if the directory is there.  *)
THEOREM BuiltInputAccepted ==
    ASSUME NEW t, NEW c, NEW p \in capabilityPhases, ConfigHolds(c), EntryHolds(t),
           NEW resolved \in Resolutions(t, p, c),
           NEW there, Place(p) \in there
    PROVE  Accepts(Input(t, p, c, resolved), there)
<1> DEFINE provider == ProviderFor(t, p, c)
           i == Input(t, p, c, resolved)
<1>1. PICK e \in effortLevels :
         resolved = [phase |-> p, provider |-> provider, effort |-> e,
                     timeout |-> TimeoutFor(c, p, e)]
  BY EffortKnown, CandidateKnown DEF Resolutions
<1>2. provider \in capabilityProviders
  BY ProviderSelectable
<1>3. i.timeout > 0 /\ i.timeout = i.effort.timeout /\ EffortHolds(i, provider)
  BY <1>1, TimeoutPositive DEF Input, EffortHolds
<1>4. RootHolds(i, there)
  BY DEF RootHolds, Input, Inside, Place
<1>5. i.mode = ModeOf(Profile(i.phase)) /\ i.scope = ScopeOf(Profile(i.phase)) /\ ~i.network
  BY SidesAgree DEF Input
<1>6. i.phase = p /\ i.provider = provider /\ i.profile = Profile(p) /\ i.contract = Contract(p)
  BY DEF Input
<1>7. CASE provider = "claude"
  <2>1. i.claude = ConfiguredClaude(p, c)
    BY <1>7 DEF Input
  <2>2. ClaudeAccepts(i, there)
    BY <1>2, <1>3, <1>4, <1>5, <1>6, <1>7, <2>1, ConfiguredWithinCap
       DEF ClaudeAccepts, Selectable
  <2> QED BY <2>2 DEF Accepts
<1>8. CASE provider = "codex"
  <2>1. i.codex = CodexPerm(p)
    BY <1>8 DEF Input
  <2>2. CodexAccepts(i, there)
    BY <1>2, <1>3, <1>4, <1>5, <1>6, <1>8, <2>1 DEF CodexAccepts, Selectable
  <2> QED BY <2>2 DEF Accepts
<1> QED BY <1>2, <1>7, <1>8 DEF capabilityProviders

(* No runner accepts an input, wherever it comes from, that would let the
   agent of another phase than implement or fix change files, and Claude has
   every tool of the web denied.  *)
THEOREM OnlyWritersWrite ==
    ASSUME NEW i, NEW there, Accepts(i, there)
    PROVE  /\ CanWrite(i) => i.phase \in Writing
           /\ i.provider = "claude" => WebTools \subseteq i.claude.denied
<1>1. CASE ClaudeAccepts(i, there)
  BY <1>1 DEF ClaudeAccepts, WithinCap, ClaudePerm, CanWrite, ModeOf, Profile,
              ReadTools, WriteTools, WebTools
<1>2. CASE CodexAccepts(i, there)
  BY <1>2 DEF CodexAccepts, CodexPerm, CanWrite, ModeOf, Profile
<1> QED BY <1>1, <1>2 DEF Accepts

-----------------------------------------------------------------------------
(* The output.  *)

(* An answer that keeps its contract has a status of the contract; the
   judgement of any other is the one violation.  *)
LEMMA Judged ==
    ASSUME NEW c \in Contracts, NEW p, NEW named \in BOOLEAN
    PROVE  \/ Judge(c, p, named) = Throws("prompt_contract_violation")
           \/ /\ Holds(c, p) /\ p.status \in Statuses
              /\ Judge(c, p, named) = Answers(p.status, named)
  BY DEF Judge, Holds

(* What leaves runClaude and runCodex is among what the model of the phase
   goes on from, whatever the process has printed.  (Told, PhaseRunner)  *)
THEOREM NothingElseIsTold ==
    ASSUME NEW c \in Contracts, NEW how \in {"timeout", "failed", "exited"}
    PROVE  /\ \A out \in ClaudeOutput : RunClaude(c, how, out) \in Told("claude", how)
           /\ \A out \in CodexOutput : RunCodex(c, how, out) \in Told("codex", how)
<1>1. ASSUME NEW out \in ClaudeOutput
      PROVE  RunClaude(c, how, out) \in Told("claude", how)
  <2>1. out.session \in BOOLEAN /\ out.object \in BOOLEAN /\ out.isError \in BOOLEAN
    BY DEF ClaudeOutput
  <2>2. CASE how = "timeout"
    BY <2>2 DEF RunClaude, Told
  <2>3. CASE how = "failed"
    BY <2>3 DEF RunClaude, FailedExit, Told
  <2>4. CASE how = "exited"
    <3>1. RunClaude(c, how, out) = ReadClaude(c, out)
      BY <2>4 DEF RunClaude
    <3>2. \/ ReadClaude(c, out) \in {Throws("prompt_contract_violation"), Throws("other")}
          \/ \E s \in Statuses \cup {"rate_limited"} : ReadClaude(c, out) = Answers(s, out.session)
      <4>1. CASE out.object /\ ~out.isError /\ (out.structured \/ out.yaml)
        <5>1. ReadClaude(c, out) = Judge(c, out.payload, out.session)
          BY <4>1 DEF ReadClaude
        <5> QED BY <2>1, <5>1, Judged
      <4>2. CASE ~(out.object /\ ~out.isError /\ (out.structured \/ out.yaml))
        BY <2>1, <4>2 DEF ReadClaude
      <4> QED BY <4>1, <4>2
    <3> QED BY <2>1, <2>4, <3>1, <3>2 DEF Told
  <2> QED BY <2>2, <2>3, <2>4
<1>2. ASSUME NEW out \in CodexOutput
      PROVE  RunCodex(c, how, out) \in Told("codex", how)
  <2>1. out.complaint \in Complaints
    BY DEF CodexOutput
  <2>2. CASE how = "timeout"
    BY <2>2 DEF RunCodex, Told
  <2>3. CASE how = "failed"
    BY <2>3 DEF RunCodex, FailedExit, Told
  <2>4. CASE how = "exited"
    <3>1. RunCodex(c, how, out) = ReadCodex(c, out)
      BY <2>4 DEF RunCodex
    <3>2. \/ ReadCodex(c, out) \in {Throws("prompt_contract_violation"), Throws("other"),
                                    Throws("sandbox_violation")}
          \/ \E s \in Statuses : ReadCodex(c, out) = Answers(s, TRUE)
      <4>1. CASE out.complaint = "none" /\ out.file
        <5>1. ReadCodex(c, out) = Judge(c, Normalized(out.payload), TRUE)
          BY <4>1 DEF ReadCodex
        <5> QED BY <5>1, Judged
      <4>2. CASE ~(out.complaint = "none" /\ out.file)
        BY <2>1, <4>2 DEF ReadCodex, Complaints
      <4> QED BY <4>1, <4>2
    <3>3. Told("codex", how) =
            {Throws("prompt_contract_violation"), Throws("other")}
              \cup ({Answers(s, TRUE) : s \in Statuses} \cup {Throws("sandbox_violation")})
      BY <2>4 DEF Told
    <3> QED BY <3>1, <3>2, <3>3
  <2> QED BY <2>2, <2>3, <2>4
<1> QED BY <1>1, <1>2

(* A phase is told "completed" only by a process that ended by itself with
   status 0 and gave data that keep the contract of that very phase; by Codex,
   only if no event asked for an approval or reported a denial.
   (validatePromptContractPayload, validateCodexJsonlEvent)  *)
THEOREM CompletedKeepsContract ==
    ASSUME NEW c \in Contracts, NEW how \in {"timeout", "failed", "exited"},
           NEW named \in BOOLEAN
    PROVE  /\ \A out \in ClaudeOutput :
                 RunClaude(c, how, out) = Answers("completed", named) =>
                    how = "exited" /\ DataHolds(c, out.payload.data)
           /\ \A out \in CodexOutput :
                 RunCodex(c, how, out) = Answers("completed", named) =>
                    /\ how = "exited" /\ out.complaint = "none"
                    /\ DataHolds(c, out.payload.data)
<1>1. ASSUME NEW code
      PROVE  Throws(code) # Answers("completed", named)
  BY DEF Throws, Answers
<1>2. ASSUME NEW n PROVE Answers("rate_limited", n) # Answers("completed", named)
  BY DEF Answers
<1>3. ASSUME NEW p, NEW n \in BOOLEAN, Judge(c, p, n) = Answers("completed", named)
      PROVE  DataHolds(c, p.data)
  <2>1. Holds(c, p) /\ Answers(p.status, n) = Answers("completed", named)
    BY <1>1, <1>3, Judged
  <2>2. p.status = "completed"
    BY <2>1 DEF Answers
  <2> QED BY <2>1, <2>2 DEF Holds
<1>4. ASSUME NEW out \in ClaudeOutput, RunClaude(c, how, out) = Answers("completed", named)
      PROVE  how = "exited" /\ DataHolds(c, out.payload.data)
  <2>1. how = "exited" /\ ReadClaude(c, out) = Answers("completed", named)
    BY <1>1, <1>2, <1>4 DEF RunClaude, FailedExit
  <2>2. out.session \in BOOLEAN /\ out.object \in BOOLEAN /\ out.isError \in BOOLEAN
    BY DEF ClaudeOutput
  <2>3. Judge(c, out.payload, out.session) = Answers("completed", named)
    BY <1>1, <1>2, <2>1, <2>2 DEF ReadClaude
  <2> QED BY <1>3, <2>1, <2>2, <2>3
<1>5. ASSUME NEW out \in CodexOutput, RunCodex(c, how, out) = Answers("completed", named)
      PROVE  /\ how = "exited" /\ out.complaint = "none"
             /\ DataHolds(c, out.payload.data)
  <2>1. how = "exited" /\ ReadCodex(c, out) = Answers("completed", named)
    BY <1>1, <1>2, <1>5 DEF RunCodex, FailedExit
  <2>2. out.complaint \in Complaints /\ out.payload \in Payload
    BY DEF CodexOutput
  <2>3. out.complaint = "none" /\ Judge(c, Normalized(out.payload), TRUE) = Answers("completed", named)
    BY <1>1, <2>1, <2>2 DEF ReadCodex, Complaints
  <2>4. DataHolds(c, Normalized(out.payload).data)
    BY <1>3, <2>3
  <2>5. Normalized(out.payload).data.given = "object"
    BY <2>4 DEF DataHolds, KeysHold
  <2>6. Normalized(out.payload).data = out.payload.data
    BY <2>2, <2>5 DEF Normalized, Payload, Part
  <2> QED BY <2>1, <2>3, <2>4, <2>6
<1> QED BY <1>4, <1>5

-----------------------------------------------------------------------------
(* The phase over its runs.                                                *)

Calling == {"before", "effort", "cold", "call"}
Waiting == {"wait_probe", "wait_agent"}
Unheard == verdict \in {"exited", "failed", "refused"}

\* The copy the workflow works on, and the entry on disk.
Copies ==
    /\ mem.attempt = disk.attempt /\ mem.override = disk.override
    /\ at \in {"none", "clear"} => mem = disk
    /\ at \in Phases => /\ mem.status = "active" /\ mem.corrected = disk.corrected
                        /\ disk.status \in {"queued", "active"}
    /\ at \in Phases \ {"before"} => disk.status = "active"
    /\ at = "before" /\ disk.status = "queued" => mem.before = FALSE
    /\ at \in {"effort", "cold", "call"} => mem.before = TRUE
    /\ at = "return" => /\ mem.status \in {"paused", "failed", "next"}
                        /\ disk.status \in {"queued", "active", mem.status} \ {"next"}
                        /\ mem.status # "next" => mem.corrected = disk.corrected
    /\ disk.status = "queued" =>
          disk.attempt = 0 /\ disk.corrected = FALSE /\ disk.before = FALSE
    /\ disk.status # "failed" => disk.attempt <= 2

\* A call that is made anew is one of the attempts on disk, or the first.
AttemptsCounted ==
    /\ fruitless <= 3 /\ fruitless <= disk.attempt + 1
    /\ disk.status = "queued" => fruitless = 0 /\ corrections = 0
    /\ at \in Phases /\ fresh /\ calls = 0 => fruitless = 0
    /\ at = "call" /\ ~fresh /\ calls = 0 /\ Provider(mem) \notin mem.session.ids =>
          fruitless <= mem.attempt
    /\ at \in {"before", "effort"} /\ checked => calls > 0
    /\ corrections <= 1
    /\ corrections > 0 => disk.corrected = TRUE \/ disk.status = "next"

\* Three turns, and three more behind the one correction.
Second == IF mem.corrected = TRUE THEN 3 ELSE 0

CallsCounted ==
    /\ calls <= 6
    /\ at = "none" => calls = 0
    /\ at \in Phases => turn <= 2
    /\ at \in Calling => calls <= turn + Second
    /\ at \in Waiting => calls > 0 /\ calls <= (turn + Second) + 1

OverrideKept ==
    /\ at # "none" => run > 0 /\ disk.override.run \in {0, run}
    /\ at = "none" => disk.override.run \in {0} \cup crashed
    /\ disk.override.run # 0 => disk.override.run \in asked
    /\ disk.override.run = 0 => {mem.session.last, disk.session.last} \subseteq {None, Configured}
    /\ kept.last \in {None, Configured}
    /\ \A c \in children : c.provider # Configured => c.run \in asked

OneProcess ==
    /\ \A c \in children : c.run <= run
    /\ \A c \in children : c.state = "running" =>
          c.run = run /\ at \in Waiting /\ verdict = "none"
    /\ at \in Calling \/ (at \in Waiting /\ Unheard) =>
          \A c \in children : c.run = run => c.state = "unfed"
    /\ AtMostOneOwn
    /\ at = "wait_probe" => Provider(mem) = "codex"

Inv == /\ TypeOK /\ Copies /\ AttemptsCounted /\ CallsCounted
       /\ OverrideKept /\ OneProcess

LEMMA EntryFields ==
    ASSUME NEW t \in Entry
    PROVE  /\ t.status \in {"queued", "active", "paused", "failed", "next"}
           /\ t.before \in BOOLEAN /\ t.corrected \in BOOLEAN
           /\ t.attempt \in 0..3 /\ t.attempt \in Nat
           /\ t.session \in Session /\ t.session.ids \subseteq Providers
           /\ t.session.last \in Providers \cup {None}
           /\ t.effort \in Providers \cup {None}
           /\ t.override \in Override /\ t.override.run \in 0..MaxRuns /\ t.override.run \in Nat
           /\ t.override.provider \in Providers
  BY RunsAssumption DEF Entry, Session, Override

LEMMA ProviderOf ==
    ASSUME NEW t \in Entry
    PROVE  /\ Provider(t) \in Providers
           /\ t.override.run = 0 /\ t.session.last \in {None, Configured}
                => Provider(t) = Configured
  BY EntryFields, RunnerAssumption DEF Provider

(* The entry under the edits of the workflow.  *)
LEMMA WithStatus ==
    ASSUME NEW t \in Entry, NEW s \in {"queued", "active", "paused", "failed", "next"},
           NEW u, u = [t EXCEPT !.status = s]
    PROVE  /\ u \in Entry /\ u.status = s
           /\ u.attempt = t.attempt /\ u.corrected = t.corrected /\ u.before = t.before
           /\ u.session = t.session /\ u.override = t.override
  BY DEF Entry

LEMMA WithBefore ==
    ASSUME NEW t \in Entry, NEW u, u = [t EXCEPT !.before = TRUE]
    PROVE  /\ u \in Entry /\ u.before = TRUE
           /\ u.status = t.status /\ u.attempt = t.attempt /\ u.corrected = t.corrected
           /\ u.session = t.session /\ u.override = t.override
  BY DEF Entry

LEMMA WithAttempt ==
    ASSUME NEW t \in Entry, NEW n \in 0..3, NEW u, u = [t EXCEPT !.attempt = n]
    PROVE  /\ u \in Entry /\ u.attempt = n
           /\ u.status = t.status /\ u.corrected = t.corrected /\ u.before = t.before
           /\ u.session = t.session /\ u.override = t.override
  BY DEF Entry

LEMMA WithCorrected ==
    ASSUME NEW t \in Entry, NEW b \in BOOLEAN, NEW u, u = [t EXCEPT !.corrected = b]
    PROVE  /\ u \in Entry /\ u.corrected = b
           /\ u.status = t.status /\ u.attempt = t.attempt /\ u.before = t.before
           /\ u.session = t.session /\ u.override = t.override
  BY DEF Entry

LEMMA WithSession ==
    ASSUME NEW t \in Entry, NEW s \in Session, NEW u, u = [t EXCEPT !.session = s]
    PROVE  /\ u \in Entry /\ u.session = s
           /\ u.status = t.status /\ u.attempt = t.attempt /\ u.corrected = t.corrected
           /\ u.before = t.before /\ u.override = t.override
  BY DEF Entry

LEMMA WithOverride ==
    ASSUME NEW t \in Entry, NEW o \in Override, NEW u, u = [t EXCEPT !.override = o]
    PROVE  /\ u \in Entry /\ u.override = o
           /\ u.status = t.status /\ u.attempt = t.attempt /\ u.corrected = t.corrected
           /\ u.before = t.before /\ u.session = t.session
  BY DEF Entry

LEMMA Activated ==
    ASSUME NEW t \in Entry,
           NEW u, u = [t EXCEPT !.status = "active", !.attempt = 0, !.corrected = FALSE]
    PROVE  /\ u \in Entry /\ u.status = "active" /\ u.attempt = 0 /\ u.corrected = FALSE
           /\ u.before = t.before /\ u.session = t.session /\ u.override = t.override
<1> DEFINE v == [t EXCEPT !.status = "active"]
           w == [v EXCEPT !.attempt = 0]
<1>1. v \in Entry /\ v.status = "active"
      /\ v.before = t.before /\ v.session = t.session /\ v.override = t.override
  BY WithStatus
<1>2. u = [w EXCEPT !.corrected = FALSE]
  OBVIOUS
<1> HIDE DEF v
<1>3. 0 \in 0..3
  OBVIOUS
<1>4. w \in Entry /\ w.attempt = 0 /\ w.status = v.status
      /\ w.before = v.before /\ w.session = v.session /\ w.override = v.override
  BY <1>1, <1>3, WithAttempt
<1> HIDE DEF w
<1>5. u \in Entry /\ u.corrected = FALSE /\ u.attempt = w.attempt /\ u.status = w.status
      /\ u.before = w.before /\ u.session = w.session /\ u.override = w.override
  BY <1>2, <1>4, WithCorrected
<1> QED BY <1>1, <1>4, <1>5

Resolved(t, p) == [t EXCEPT !.effort = p, !.session.last = p]

LEMMA WithEffort ==
    ASSUME NEW t \in Entry, NEW p \in Providers, NEW u, u = Resolved(t, p)
    PROVE  /\ u \in Entry /\ u.session.last = p /\ u.session.ids = t.session.ids
           /\ u.status = t.status /\ u.attempt = t.attempt /\ u.corrected = t.corrected
           /\ u.before = t.before /\ u.override = t.override
<1> DEFINE v == [t EXCEPT !.effort = p]
           session == [t.session EXCEPT !.last = p]
<1>1. v \in Entry /\ v.session = t.session /\ v.status = t.status
      /\ v.attempt = t.attempt /\ v.corrected = t.corrected
      /\ v.before = t.before /\ v.override = t.override
  BY DEF Entry
<1>2. session \in Session /\ session.last = p /\ session.ids = t.session.ids
  BY EntryFields DEF Session
<1>3. u = [v EXCEPT !.session = session]
  BY DEF Resolved, Entry
<1> HIDE DEF v, session
<1>4. /\ u \in Entry /\ u.session = session
      /\ u.status = v.status /\ u.attempt = v.attempt /\ u.corrected = v.corrected
      /\ u.before = v.before /\ u.override = v.override
  BY <1>1, <1>2, <1>3 DEF Entry
<1>5. u.session.last = p /\ u.session.ids = t.session.ids
  BY <1>2, <1>4
<1> QED BY <1>1, <1>4, <1>5

LEMMA HeardFields ==
    ASSUME mem \in Entry, NEW named \in BOOLEAN
    PROVE  LET u == Heard(named) IN
           /\ u \in Entry /\ u.attempt = 0
           /\ u.status = mem.status /\ u.corrected = mem.corrected /\ u.before = mem.before
           /\ u.override = mem.override
           /\ u.session.last \in {mem.session.last, Provider(mem)}
<1> DEFINE session == IF named THEN [ids |-> mem.session.ids \cup {Provider(mem)},
                                     last |-> Provider(mem)] ELSE mem.session
           v == [mem EXCEPT !.attempt = 0]
<1>1. session \in Session /\ session.last \in {mem.session.last, Provider(mem)}
  BY EntryFields, ProviderOf DEF Session
<1>2. Heard(named) = [v EXCEPT !.session = session]
  BY DEF Heard, Entry
<1> HIDE DEF session
<1>3. 0 \in 0..3
  OBVIOUS
<1>4. v \in Entry /\ v.attempt = 0 /\ v.status = mem.status
      /\ v.corrected = mem.corrected /\ v.before = mem.before /\ v.override = mem.override
  BY <1>3, WithAttempt
<1> HIDE DEF v
<1> DEFINE u == Heard(named)
<1> HIDE DEF u
<1>5. /\ u \in Entry /\ u.session = session /\ u.attempt = v.attempt
      /\ u.status = v.status /\ u.corrected = v.corrected /\ u.before = v.before
      /\ u.override = v.override
  BY <1>1, <1>2, <1>4, WithSession DEF u
<1>6. u.session.last \in {mem.session.last, Provider(mem)}
  BY <1>1, <1>5
<1>7. /\ u \in Entry /\ u.attempt = 0
      /\ u.status = mem.status /\ u.corrected = mem.corrected /\ u.before = mem.before
      /\ u.override = mem.override
  BY <1>4, <1>5
<1> QED BY <1>6, <1>7 DEF u

LEMMA NumbersOf ==
    ASSUME TypeOK
    PROVE  /\ run \in Nat /\ run <= MaxRuns /\ MaxRuns \in Nat /\ turn \in 0..3
           /\ calls \in Nat /\ fruitless \in Nat /\ corrections \in Nat
           /\ disk \in Entry /\ mem \in Entry
           /\ disk.attempt \in Nat /\ mem.attempt \in Nat
           /\ disk.override.run \in Nat /\ mem.override.run \in Nat
           /\ fresh \in BOOLEAN /\ checked \in BOOLEAN
           /\ \A c \in children : /\ c \in Child /\ c.run \in Nat /\ c.run \in Runs
                                  /\ c.provider \in Providers
<1>1. /\ run \in Nat /\ run <= MaxRuns /\ MaxRuns \in Nat /\ turn \in 0..3
      /\ calls \in Nat /\ fruitless \in Nat /\ corrections \in Nat
      /\ disk \in Entry /\ mem \in Entry /\ fresh \in BOOLEAN /\ checked \in BOOLEAN
  BY RunsAssumption DEF TypeOK
<1>2. \A c \in children : /\ c \in Child /\ c.run \in Nat /\ c.run \in Runs
                         /\ c.provider \in Providers
  <2>1. \A c \in Child : c.run \in Runs /\ c.provider \in Providers
    BY DEF Child
  <2>2. \A r \in Runs : r \in Nat
    BY RunsAssumption DEF Runs
  <2> QED BY <2>1, <2>2 DEF TypeOK, ProcessTypeOK
<1> QED BY <1>1, <1>2, EntryFields

LEMMA NewEntryFits ==
    /\ NewEntry \in Entry /\ NewEntry.status = "queued" /\ NewEntry.before = FALSE
    /\ NewEntry.attempt = 0 /\ NewEntry.corrected = FALSE
    /\ NewEntry.session = NoSession /\ NewEntry.override = NoOverride
    /\ NoSession \in Session /\ NoSession.last = None
    /\ NoOverride \in Override /\ NoOverride.run = 0
<1>1. NoSession \in Session /\ NoSession.last = None
  BY DEF NoSession, Session
<1>2. NoOverride \in Override /\ NoOverride.run = 0
  BY RunsAssumption, RunnerAssumption DEF NoOverride, Override
<1> QED BY <1>1, <1>2 DEF NewEntry, Entry

LEMMA PhaseInit ==
    ASSUME Init
    PROVE  Inv
<1>1. /\ disk = NewEntry /\ mem = NewEntry /\ at = "none" /\ run = 0 /\ kept = NoSession
      /\ turn = 0 /\ fresh = FALSE /\ checked = FALSE /\ asked = {} /\ crashed = {}
      /\ calls = 0 /\ fruitless = 0 /\ corrections = 0
      /\ children = {} /\ verdict = "none"
  BY DEF Init, ProcessInit
<1>2. TypeOK
  <2>1. ProcessTypeOK
    BY <1>1 DEF ProcessTypeOK
  <2>2. run \in 0..MaxRuns /\ turn \in 0..3 /\ {calls, fruitless, corrections} \subseteq Nat
    BY <1>1, RunsAssumption
  <2>3. at \in Labels /\ {fresh, checked} \subseteq BOOLEAN
    BY <1>1 DEF Labels
  <2> QED BY <1>1, <2>1, <2>2, <2>3, NewEntryFits DEF TypeOK
<1>3. Copies /\ AttemptsCounted
  BY <1>1, NewEntryFits DEF Copies, AttemptsCounted, Phases
<1>4. CallsCounted /\ OverrideKept /\ OneProcess
  BY <1>1, NewEntryFits
  DEF CallsCounted, OverrideKept, OneProcess, AtMostOneOwn, Phases, Calling, Waiting
<1> QED BY <1>2, <1>3, <1>4 DEF Inv

-----------------------------------------------------------------------------
(* What most steps leave as it is.                                         *)

(* No process comes or goes, and what is waited for has been heard.  *)
LEMMA ProcessesLeft ==
    ASSUME Inv, UNCHANGED <<children, run>>,
           at' \notin Waiting, at \notin Waiting \/ verdict # "none",
           at' \in Calling => at \in Calling \/ (at \in Waiting /\ Unheard)
    PROVE  OneProcess'
  BY DEF Inv, OneProcess, AtMostOneOwn, Unheard, Waiting

(* Inside a run the provider stays the one that the override names, or the
   one of the session.  *)
LEMMA OverrideStays ==
    ASSUME Inv, at # "none", at' # "none", UNCHANGED <<run, kept, asked, crashed>>,
           children' \subseteq children \cup
                [provider : {Provider(mem)}, run : {run}, state : {"running", "unfed"}],
           mem'.override = mem.override, disk'.override = disk.override,
           {mem'.session.last, disk'.session.last} \subseteq
                {mem.session.last, disk.session.last, Provider(mem)}
    PROVE  OverrideKept'
<1>1. mem \in Entry /\ mem.override = disk.override
  BY DEF Inv, Copies, TypeOK
<1>2. CASE disk.override.run = 0
  <2>1. Provider(mem) = Configured
    BY <1>1, <1>2, ProviderOf DEF Inv, OverrideKept
  <2>2. {mem'.session.last, disk'.session.last} \subseteq {None, Configured}
    BY <1>2, <2>1 DEF Inv, OverrideKept
  <2>3. \A c \in children' : c.provider # Configured => c.run \in asked
    BY <2>1 DEF Inv, OverrideKept
  <2> QED BY <1>2, <2>2, <2>3 DEF Inv, OverrideKept
<1>3. CASE disk.override.run # 0
  <2>1. run \in asked
    BY <1>3 DEF Inv, OverrideKept
  <2>2. \A c \in children' : c.provider # Configured => c.run \in asked
    BY <2>1 DEF Inv, OverrideKept
  <2> QED BY <1>3, <2>2 DEF Inv, OverrideKept
<1> QED BY <1>2, <1>3

-----------------------------------------------------------------------------
(* The beginning of a run.                                                 *)

LEMMA SelectKeeps ==
    ASSUME Inv, Select
    PROVE  Inv'
<1>1. /\ at = "none" /\ run' = run + 1 /\ run + 1 \in 1..MaxRuns /\ mem = disk
      /\ disk.status \in {"queued", "active", "paused"} /\ disk.override.run = 0
      /\ turn' = 0 /\ checked' = FALSE /\ fresh' = (disk.status = "queued")
      /\ at' = IF disk.status = "paused" THEN "clear" ELSE "before"
      /\ UNCHANGED <<children, verdict, crashed, calls, fruitless, corrections>>
      /\ calls = 0
  <2>1. run \in Nat /\ run < MaxRuns /\ MaxRuns \in Nat
    BY NumbersOf DEF Select, Inv
  <2> QED BY <2>1 DEF Select, Inv, Copies, CallsCounted, Go, processVars
<1>2. /\ disk' \in Entry /\ disk'.override.run \in {0, run + 1}
      /\ disk'.override.run # 0 => run + 1 \in asked'
      /\ asked \subseteq asked' /\ asked' \subseteq Runs
      /\ disk'.session = disk.session /\ disk'.status = disk.status
      /\ disk'.before = disk.before /\ disk'.attempt = disk.attempt
      /\ disk'.corrected = disk.corrected
      /\ kept' \in {NoSession, disk.session}
  <2>1. disk \in Entry /\ asked \subseteq Runs /\ run + 1 \in Runs /\ run + 1 \in 0..MaxRuns
    BY <1>1, RunsAssumption DEF Inv, TypeOK, Runs
  <2>2. CASE disk' = disk /\ asked' = asked /\ kept' = NoSession
    BY <1>1, <2>1, <2>2
  <2>3. CASE \E p \in Overrides :
               /\ disk' = [disk EXCEPT !.override = [run |-> run + 1, provider |-> p]]
               /\ asked' = asked \cup {run + 1}
               /\ kept' = disk.session
    <3>1. PICK p \in Overrides :
               /\ disk' = [disk EXCEPT !.override = [run |-> run + 1, provider |-> p]]
               /\ asked' = asked \cup {run + 1}
               /\ kept' = disk.session
      BY <2>3
    <3>2. [run |-> run + 1, provider |-> p] \in Override
      BY <2>1, RunnerAssumption DEF Override
    <3> QED BY <2>1, <3>1, <3>2 DEF Entry
  <2> QED BY <2>2, <2>3 DEF Select
<1>3. /\ mem' \in Entry /\ mem'.override = disk'.override /\ mem'.session = disk'.session
      /\ disk.status = "queued" =>
            /\ mem'.status = "active" /\ mem'.attempt = 0 /\ mem'.corrected = FALSE
            /\ mem'.before = disk'.before
      /\ disk.status # "queued" => mem' = disk'
  <2>1. CASE disk.status = "queued"
    <3>1. mem' = [disk' EXCEPT !.status = "active", !.attempt = 0, !.corrected = FALSE]
      BY <2>1 DEF Select
    <3>2. disk' \in Entry
      BY <1>2
    <3> QED BY <1>2, <2>1, <3>1, <3>2, Activated
  <2>2. CASE disk.status # "queued"
    BY <1>2, <2>2 DEF Select
  <2> QED BY <2>1, <2>2
<1>4. disk.session \in Session /\ disk.session.last \in {None, Configured}
  BY <1>1, EntryFields DEF Inv, TypeOK, OverrideKept
<1>5. TypeOK'
  <2>1. at' \in Labels /\ {fresh', checked'} \subseteq BOOLEAN
    BY <1>1 DEF Labels, Phases
  <2>2. run' \in 0..MaxRuns /\ turn' \in 0..3
    BY <1>1, NumbersOf DEF Inv
  <2>3. kept' \in Session
    BY <1>2, <1>4, NewEntryFits
  <2> QED BY <1>1, <1>2, <1>3, <2>1, <2>2, <2>3 DEF Inv, TypeOK, ProcessTypeOK
<1>6. Copies'
  <2>1. CASE disk.status = "queued"
    <3>1. /\ mem'.status = "active" /\ mem'.attempt = 0 /\ mem'.corrected = FALSE
          /\ mem'.before = disk'.before /\ mem'.override = disk'.override
      BY <1>3, <2>1
    <3>2. /\ disk'.status = "queued" /\ disk'.attempt = 0 /\ disk'.corrected = FALSE
          /\ disk'.before = FALSE /\ at' = "before"
      BY <1>1, <1>2, <2>1 DEF Inv, Copies
    <3>3. mem'.corrected = disk'.corrected /\ mem'.before = FALSE
      BY <3>1, <3>2
    <3>4. mem'.attempt = disk'.attempt /\ disk'.attempt <= 2
      BY <3>1, <3>2
    <3> QED BY <3>1, <3>2, <3>3, <3>4 DEF Copies, Phases
  <2>2. CASE disk.status # "queued"
    <3>1. mem' = disk' /\ disk'.status \in {"active", "paused"}
      BY <1>1, <1>2, <1>3, <2>2
    <3>2. /\ disk'.attempt <= 2
          /\ at' = "before" => disk'.status = "active"
          /\ at' \in {"before", "clear"}
      BY <1>1, <1>2, <2>2, <3>1 DEF Inv, Copies
    <3>3. CASE at' = "before"
      BY <3>1, <3>2, <3>3 DEF Copies, Phases
    <3>4. CASE at' = "clear"
      BY <3>1, <3>2, <3>4 DEF Copies, Phases
    <3> QED BY <3>2, <3>3, <3>4
  <2> QED BY <2>1, <2>2
<1>7. AttemptsCounted'
  BY <1>1, <1>2 DEF Inv, AttemptsCounted
<1>8. CallsCounted'
  BY <1>1 DEF CallsCounted, Calling, Waiting, Second
<1>9. OverrideKept'
  BY <1>1, <1>2, <1>3, <1>4, NumbersOf, NewEntryFits DEF Inv, OverrideKept
<1>10. OneProcess'
  <2>1. \A c \in children : c.run <= run /\ c.run \in Nat /\ c.state # "running"
    BY <1>1, NumbersOf DEF Inv, OneProcess, Waiting
  <2>2. \A c \in children : c.run < run + 1
    BY <2>1, NumbersOf DEF Inv
  <2>3. at' \notin Waiting
    BY <1>1 DEF Waiting
  <2>4. \A c \in children : c.run <= run + 1 /\ c.run # run + 1
    BY <2>1, <2>2, NumbersOf DEF Inv
  <2> QED BY <1>1, <2>1, <2>3, <2>4 DEF Inv, OneProcess, AtMostOneOwn
<1> QED BY <1>5, <1>6, <1>7, <1>8, <1>9, <1>10 DEF Inv

-----------------------------------------------------------------------------
(* The phase, up to the call of the agent.                                 *)

(* The workflow returns with a failure or a pause.  *)
LEMMA StopKeeps ==
    ASSUME Inv, at \in Phases, at \notin Waiting \/ verdict # "none",
           NEW s \in {"paused", "failed"}, Stop(s),
           UNCHANGED <<children, asked, crashed, corrections>>,
           verdict' \in {verdict, "none"}, calls' \in Nat, calls' <= 6,
           fruitless' \in Nat, fruitless' <= 3, fruitless' <= disk.attempt + 1,
           disk.status = "queued" => fruitless' = 0
    PROVE  Inv'
<1>1. /\ mem' = [mem EXCEPT !.status = s] /\ disk' = disk /\ at' = "return"
      /\ UNCHANGED <<run, kept, turn, fresh, checked>>
  BY DEF Stop, Remember, Go, SameCall
<1>2. /\ mem' \in Entry /\ mem'.status = s
      /\ mem'.attempt = mem.attempt /\ mem'.corrected = mem.corrected
      /\ mem'.session = mem.session /\ mem'.override = mem.override
  <2>1. mem \in Entry /\ s \in {"queued", "active", "paused", "failed", "next"}
    BY DEF Inv, TypeOK
  <2> QED BY <1>1, <2>1, WithStatus
<1>3. TypeOK'
  <2>1. at' \in Labels /\ verdict' \in {"none", "exited", "failed", "timeout", "refused"}
    BY <1>1 DEF Labels, Inv, TypeOK, ProcessTypeOK
  <2>2. {calls', fruitless', corrections'} \subseteq Nat
    BY NumbersOf DEF Inv
  <2> QED BY <1>1, <1>2, <2>1, <2>2 DEF Inv, TypeOK, ProcessTypeOK
<1>4. Copies'
  <2>1. /\ mem'.attempt = disk'.attempt /\ mem'.override = disk'.override
        /\ mem'.corrected = disk'.corrected /\ disk'.status \in {"queued", "active"}
    BY <1>1, <1>2 DEF Inv, Copies
  <2>2. /\ disk'.status = "queued" =>
              disk'.attempt = 0 /\ disk'.corrected = FALSE /\ disk'.before = FALSE
        /\ disk'.status # "failed" => disk'.attempt <= 2
    BY <1>1 DEF Inv, Copies
  <2> QED BY <1>1, <1>2, <2>1, <2>2 DEF Copies, Phases
<1>5. AttemptsCounted'
  <2>1. at' \notin Phases /\ at' \notin {"call", "before", "effort"}
    BY <1>1 DEF Phases
  <2> QED BY <1>1, <2>1 DEF Inv, AttemptsCounted
<1>6. CallsCounted'
  BY <1>1 DEF CallsCounted, Phases, Calling, Waiting
<1>7. OverrideKept'
  <2>1. at # "none" /\ at' # "none"
    BY <1>1 DEF Phases
  <2> QED BY <1>1, <1>2, <2>1, OverrideStays
<1>8. OneProcess'
  BY <1>1, ProcessesLeft DEF Calling, Waiting
<1> QED BY <1>3, <1>4, <1>5, <1>6, <1>7, <1>8 DEF Inv

(* What it is about to do is counted.  *)
LEMMA AtCalling ==
    ASSUME Inv, at \in Calling
    PROVE  /\ at \in Phases /\ at \notin Waiting /\ at # "none"
           /\ mem.status = "active" /\ mem.corrected = disk.corrected
           /\ disk.status \in {"queued", "active"} /\ disk.attempt <= 2
           /\ calls \in Nat /\ calls <= 5 /\ calls <= turn + Second /\ turn <= 2
           /\ fruitless \in Nat /\ fruitless <= 3 /\ fruitless <= disk.attempt + 1
           /\ disk.status = "queued" => fruitless = 0
<1>1. at \in Phases /\ at \notin Waiting /\ at # "none"
  BY DEF Calling, Phases, Waiting
<1>2. calls <= turn + Second /\ turn <= 2 /\ turn \in Nat /\ calls \in Nat
  BY <1>1, NumbersOf DEF Inv, CallsCounted
<1>3. Second \in {0, 3}
  BY DEF Second
<1>4. calls <= 5
  BY <1>2, <1>3
<1> QED BY <1>1, <1>2, <1>4, NumbersOf DEF Inv, Copies, AttemptsCounted

LEMMA EnsureBeforeKeeps ==
    ASSUME Inv, EnsureBefore
    PROVE  Inv'
<1>1. at = "before" /\ at \in Calling /\ UNCHANGED <<children, verdict, history>>
  BY DEF EnsureBefore, Calling, Pass, processVars
<1>2. CASE Stop("failed")
  BY <1>1, <1>2, StopKeeps, AtCalling DEF history
<1>3. CASE ~Stop("failed")
  <2>1. /\ at' = "effort" /\ UNCHANGED <<run, kept, turn, fresh, checked>>
        /\ UNCHANGED <<asked, crashed, calls, fruitless, corrections>>
    BY <1>1, <1>3 DEF EnsureBefore, Go, SameCall, history
  <2>2. /\ mem' \in Entry /\ disk' \in Entry /\ mem'.before = TRUE
        /\ mem'.status = "active" /\ disk'.status = "active"
        /\ mem'.attempt = mem.attempt /\ disk'.attempt = disk.attempt
        /\ mem'.corrected = mem.corrected /\ disk'.corrected = disk.corrected
        /\ mem'.override = mem.override /\ disk'.override = disk.override
        /\ mem'.session = mem.session /\ disk'.session \in {mem.session, disk.session}
    <3>1. /\ mem \in Entry /\ disk \in Entry /\ mem.before \in BOOLEAN
          /\ mem.status = "active" /\ disk.status \in {"queued", "active"}
          /\ mem.corrected = disk.corrected
          /\ mem.attempt = disk.attempt /\ mem.override = disk.override
          /\ disk.status = "queued" => mem.before = FALSE
      BY <1>1, AtCalling, EntryFields DEF Inv, TypeOK, Copies
    <3>2. CASE mem.before /\ UNCHANGED <<disk, mem>>
      BY <3>1, <3>2
    <3>3. CASE Persist([mem EXCEPT !.before = TRUE])
      <4>1. mem' = [mem EXCEPT !.before = TRUE] /\ disk' = mem'
        BY <3>3 DEF Persist
      <4> HIDE <3>3
      <4>2. /\ mem' \in Entry /\ mem'.before = TRUE
            /\ mem'.status = mem.status /\ mem'.attempt = mem.attempt
            /\ mem'.corrected = mem.corrected
            /\ mem'.session = mem.session /\ mem'.override = mem.override
        BY <3>1, <4>1, WithBefore
      <4> QED BY <3>1, <4>1, <4>2
    <3> QED BY <1>3, <3>2, <3>3 DEF EnsureBefore
  <2>3. TypeOK'
    BY <1>1, <2>1, <2>2 DEF Inv, TypeOK, ProcessTypeOK, Labels, Phases
  <2>4. Copies'
    <3>1. mem'.corrected = disk'.corrected
      BY <1>1, <2>2, AtCalling
    <3>2. mem'.attempt = disk'.attempt /\ mem'.override = disk'.override /\ disk'.attempt <= 2
      BY <1>1, <2>2, AtCalling DEF Inv, Copies
    <3> QED BY <2>1, <2>2, <3>1, <3>2 DEF Copies, Phases
  <2>5. AttemptsCounted'
    <3>1. corrections > 0 => disk'.corrected = TRUE
      BY <1>1, <2>2, AtCalling DEF Inv, AttemptsCounted
    <3>2. at \in Phases /\ at' \in Phases /\ at' # "call"
      BY <1>1, <2>1 DEF Phases
    <3> QED BY <1>1, <2>1, <2>2, <3>1, <3>2 DEF Inv, AttemptsCounted
  <2>6. CallsCounted'
    <3>1. Second' = Second
      BY <2>2 DEF Second
    <3>2. at' \in Calling /\ at' \notin Waiting /\ at' # "none"
      BY <2>1 DEF Calling, Waiting
    <3>3. calls <= 6
      BY <1>1, AtCalling
    <3> QED BY <1>1, <2>1, <3>1, <3>2, <3>3, AtCalling DEF CallsCounted
  <2>7. OverrideKept'
    BY <1>1, <2>1, <2>2, OverrideStays
  <2>8. OneProcess'
    BY <1>1, <2>1, ProcessesLeft DEF Calling, Waiting
  <2> QED BY <2>3, <2>4, <2>5, <2>6, <2>7, <2>8 DEF Inv
<1> QED BY <1>2, <1>3

LEMMA ResolveEffortKeeps ==
    ASSUME Inv, ResolveEffort
    PROVE  Inv'
<1> DEFINE p == Provider(mem)
<1>1. at = "effort" /\ at \in Calling /\ UNCHANGED <<children, verdict, history>>
  BY DEF ResolveEffort, Calling, Pass, processVars
<1>2. CASE Stop("failed")
  BY <1>1, <1>2, StopKeeps, AtCalling DEF history
<1>3. CASE ~Stop("failed")
  <2>1. /\ at' = IF checked THEN "call" ELSE "cold"
        /\ UNCHANGED <<run, kept, turn, fresh, checked>>
        /\ UNCHANGED <<asked, crashed, calls, fruitless, corrections>>
    BY <1>1, <1>3 DEF ResolveEffort, Go, SameCall, history
  <2>2. /\ mem \in Entry /\ disk \in Entry /\ p \in Providers
        /\ mem.status = "active" /\ disk.status = "active"
        /\ mem.before = TRUE /\ mem.corrected = disk.corrected
        /\ mem.attempt = disk.attempt /\ mem.override = disk.override
    BY <1>1, AtCalling, ProviderOf DEF Inv, TypeOK, Copies, Phases
  <2>3. /\ mem' \in Entry /\ disk' \in Entry /\ mem'.before = TRUE
        /\ mem'.status = "active" /\ disk'.status = "active"
        /\ mem'.attempt = mem.attempt /\ disk'.attempt = disk.attempt
        /\ mem'.corrected = mem.corrected /\ disk'.corrected = disk.corrected
        /\ mem'.override = mem.override /\ disk'.override = disk.override
        /\ {mem'.session.last, disk'.session.last} \subseteq
              {mem.session.last, disk.session.last, p}
    <3>1. CASE UNCHANGED <<disk, mem>>
      BY <2>2, <3>1
    <3>2. CASE Persist([mem EXCEPT !.effort = p, !.session.last = p])
      <4>1. mem' = [mem EXCEPT !.effort = p, !.session.last = p] /\ disk' = mem'
        BY <3>2 DEF Persist
      <4> HIDE DEF p
      <4> HIDE <3>2
      <4>2. /\ mem' \in Entry /\ mem'.session.last = p
            /\ mem'.status = mem.status /\ mem'.attempt = mem.attempt
            /\ mem'.corrected = mem.corrected
            /\ mem'.before = mem.before /\ mem'.override = mem.override
        <5>1. mem \in Entry /\ p \in Providers
          BY <2>2
        <5>2. mem' = Resolved(mem, p)
          BY <4>1 DEF Resolved
        <5> QED BY <5>1, <5>2, WithEffort
      <4> QED BY <2>2, <4>1, <4>2
    <3> QED BY <1>3, <3>1, <3>2 DEF ResolveEffort
  <2> HIDE DEF p
  <2>4. TypeOK'
    <3>1. at' \in Labels
      BY <2>1 DEF Labels, Phases
    <3> QED BY <1>1, <2>1, <2>3, <3>1 DEF Inv, TypeOK, ProcessTypeOK
  <2>5. Copies'
    <3>1. mem'.corrected = disk'.corrected
      BY <2>2, <2>3
    <3>2. mem'.attempt = disk'.attempt /\ mem'.override = disk'.override /\ disk'.attempt <= 2
      BY <1>1, <2>2, <2>3, AtCalling
    <3>3. at' \in {"call", "cold"}
      BY <2>1
    <3> QED BY <2>3, <3>1, <3>2, <3>3 DEF Copies, Phases
  <2>6. AttemptsCounted'
    <3>1. corrections > 0 => disk'.corrected = TRUE
      BY <1>1, <2>2, <2>3 DEF Inv, AttemptsCounted
    <3>2. at \in Phases /\ at' \in Phases /\ at' \notin {"before", "effort"}
      BY <1>1, <2>1 DEF Phases
    <3>3. at' = "call" => calls > 0
      BY <1>1, <2>1 DEF Inv, AttemptsCounted
    <3>4. at' = "call" => calls # 0
      BY <3>3, NumbersOf DEF Inv
    <3> QED BY <1>1, <2>1, <2>3, <3>1, <3>2, <3>4 DEF Inv, AttemptsCounted
  <2>7. CallsCounted'
    <3>1. Second' = Second
      BY <2>3 DEF Second
    <3>2. at' \in Calling /\ at' \notin Waiting /\ at' # "none"
      BY <2>1 DEF Calling, Waiting
    <3>3. calls <= 6
      BY <1>1, AtCalling
    <3> QED BY <1>1, <2>1, <3>1, <3>2, <3>3, AtCalling DEF CallsCounted
  <2>8. OverrideKept'
    <3>1. at # "none" /\ at' # "none" /\ children' = children
      BY <1>1, <2>1
    <3> QED BY <2>1, <2>3, <3>1, OverrideStays DEF p
  <2>9. OneProcess'
    BY <1>1, <2>1, ProcessesLeft DEF Calling, Waiting
  <2> QED BY <2>4, <2>5, <2>6, <2>7, <2>8, <2>9 DEF Inv
<1> QED BY <1>2, <1>3

(* The attempt is on disk before the agent is called anew.  *)
LEMMA PrepareColdRestartKeeps ==
    ASSUME Inv, PrepareColdRestart
    PROVE  Inv'
<1> DEFINE t == [mem EXCEPT !.attempt = @ + 1]
<1>1. /\ at = "cold" /\ at \in Calling /\ checked' = TRUE
      /\ UNCHANGED <<children, verdict, run, kept, turn, fresh>>
      /\ UNCHANGED <<asked, crashed, calls, fruitless, corrections>>
  BY DEF PrepareColdRestart, Calling, Pass, processVars, history
<1>2. /\ mem \in Entry /\ disk \in Entry
      /\ mem.status = "active" /\ disk.status = "active"
      /\ mem.before = TRUE /\ mem.corrected = disk.corrected
      /\ mem.attempt = disk.attempt /\ mem.override = disk.override
      /\ mem.attempt \in Nat /\ mem.attempt <= 2
  BY <1>1, AtCalling, NumbersOf DEF Inv, Copies, Phases
<1>3. /\ t \in Entry /\ t.attempt = mem.attempt + 1 /\ t.status = "active"
      /\ t.corrected = mem.corrected /\ t.before = TRUE
      /\ t.session = mem.session /\ t.override = mem.override
  <2>1. mem.attempt + 1 \in 0..3
    BY <1>2
  <2>2. /\ t \in Entry /\ t.attempt = mem.attempt + 1 /\ t.status = mem.status
        /\ t.corrected = mem.corrected /\ t.before = mem.before
        /\ t.session = mem.session /\ t.override = mem.override
    BY <1>2, <2>1, WithAttempt
  <2> QED BY <1>2, <2>2
<1>4. /\ mem' \in Entry /\ disk' \in Entry /\ at' \in {"call", "return"}
      /\ mem'.before = TRUE
      /\ mem'.attempt = disk'.attempt /\ disk.attempt <= disk'.attempt
      /\ mem'.corrected = mem.corrected /\ disk'.corrected = mem.corrected
      /\ mem'.override = mem.override /\ disk'.override = mem.override
      /\ mem'.session = mem.session /\ disk'.session \in {mem.session, disk.session}
      /\ at' = "call" =>
            /\ mem'.status = "active" /\ disk'.status = "active" /\ disk'.attempt <= 2
            /\ ~Cold \/ fruitless <= mem'.attempt
      /\ at' = "return" => mem'.status = "failed" /\ disk'.status = "failed"
  <2>1. CASE ~Cold
    <3>1. UNCHANGED <<disk, mem>> /\ at' = "call"
      BY <2>1 DEF PrepareColdRestart, Go
    <3>2. disk.attempt <= disk.attempt
      BY <1>2
    <3> QED BY <1>2, <2>1, <3>1, <3>2
  <2>2. CASE Cold /\ t.attempt >= 3
    <3>1. mem' = [t EXCEPT !.status = "failed"] /\ disk' = mem' /\ at' = "return"
      BY <2>2 DEF PrepareColdRestart, Go, Persist
    <3> HIDE DEF t
    <3>2. /\ mem' \in Entry /\ mem'.status = "failed"
          /\ mem'.attempt = t.attempt /\ mem'.corrected = t.corrected /\ mem'.before = t.before
          /\ mem'.session = t.session /\ mem'.override = t.override
      BY <1>3, <3>1, WithStatus
    <3>3. disk.attempt <= disk'.attempt
      BY <1>2, <1>3, <3>1, <3>2
    <3> QED BY <1>3, <3>1, <3>2, <3>3
  <2>3. CASE Cold /\ ~(t.attempt >= 3)
    <3>1. mem' = t /\ disk' = t /\ at' = "call"
      BY <2>3 DEF PrepareColdRestart, Go, Persist
    <3> HIDE DEF t
    <3>2. disk.attempt <= t.attempt /\ t.attempt <= 2
      BY <1>2, <1>3, <2>3
    <3>3. fruitless <= t.attempt
      BY <1>1, <1>2, <1>3, AtCalling
    <3> QED BY <1>3, <3>1, <3>2, <3>3
  <2> QED BY <2>1, <2>2, <2>3
<1> HIDE DEF t
<1>5. TypeOK'
  <2>1. at' \in Labels /\ checked' \in BOOLEAN
    BY <1>1, <1>4 DEF Labels, Phases
  <2> QED BY <1>1, <1>4, <2>1 DEF Inv, TypeOK, ProcessTypeOK
<1>6. Copies'
  <2>1. mem'.corrected = disk'.corrected
    BY <1>4
  <2>2. mem'.override = disk'.override
    BY <1>4
  <2>3. CASE at' = "call"
    BY <1>4, <2>1, <2>2, <2>3 DEF Copies, Phases
  <2>4. CASE at' = "return"
    BY <1>4, <2>1, <2>2, <2>4 DEF Copies, Phases
  <2> QED BY <1>4, <2>3, <2>4
<1>7. AttemptsCounted'
  <2>1. corrections > 0 => disk'.corrected = TRUE
    BY <1>1, <1>2, <1>4 DEF Inv, AttemptsCounted
  <2>2. fruitless <= disk'.attempt + 1
    <3>1. fruitless <= disk.attempt + 1 /\ fruitless \in Nat /\ disk.attempt \in Nat
      BY <1>1, AtCalling, NumbersOf DEF Inv
    <3>2. disk'.attempt \in Nat /\ disk.attempt <= disk'.attempt
      BY <1>4, EntryFields
    <3> QED BY <3>1, <3>2
  <2>3. at' = "call" /\ ~fresh /\ Provider(mem') \notin mem'.session.ids => fruitless <= mem'.attempt
    <3>1. Provider(mem') = Provider(mem) /\ mem'.session.ids = mem.session.ids
      BY <1>4 DEF Provider
    <3> QED BY <1>2, <1>4, <3>1 DEF Cold
  <2>4. at \in Phases /\ at' \notin {"before", "effort"} /\ disk'.status # "queued"
    BY <1>1, <1>4 DEF Phases
  <2>5. fruitless <= 3 /\ corrections <= 1
    BY DEF Inv, AttemptsCounted
  <2>6. fresh /\ calls = 0 => fruitless = 0
    BY <2>4 DEF Inv, AttemptsCounted
  <2> QED BY <1>1, <2>1, <2>2, <2>3, <2>4, <2>5, <2>6 DEF AttemptsCounted
<1>8. CallsCounted'
  <2>1. Second' = Second
    BY <1>4 DEF Second
  <2>2. at' \in Calling \cup {"return"} /\ at' \notin Waiting /\ at' # "none"
    BY <1>4 DEF Calling, Waiting
  <2>3. calls <= 6 /\ turn <= 2 /\ calls <= turn + Second
    BY <1>1, AtCalling
  <2> QED BY <1>1, <2>1, <2>2, <2>3 DEF CallsCounted
<1>9. OverrideKept'
  <2>1. at # "none" /\ at' # "none" /\ children' = children
    BY <1>1, <1>4
  <2>2. mem'.override = mem.override /\ disk'.override = disk.override
    BY <1>2, <1>4
  <2> QED BY <1>1, <1>4, <2>1, <2>2, OverrideStays
<1>10. OneProcess'
  BY <1>1, <1>4, ProcessesLeft DEF Calling, Waiting
<1> QED BY <1>5, <1>6, <1>7, <1>8, <1>9, <1>10 DEF Inv

-----------------------------------------------------------------------------
(* The call of the agent, and what is heard of it.                         *)

(* A process of this run is started when there is none.  *)
LEMMA StartKeeps ==
    ASSUME Inv, at = "call" \/ (at = "wait_probe" /\ Unheard), run > 0,
           NEW p, p = Provider(mem), StartChild(run, p),
           at' \in Waiting, at' = "wait_probe" => p = "codex",
           UNCHANGED <<disk, mem, run, kept, asked, crashed>>
    PROVE  ProcessTypeOK' /\ OverrideKept' /\ OneProcess'
<1> DEFINE c0 == [provider |-> p, run |-> run, state |-> "running"]
<1>1. children' = children \cup {c0} /\ verdict' = "none"
  BY DEF StartChild
<1>2. c0.provider = p /\ c0.run = run /\ c0.state = "running" /\ c0 \in Child
  <2>1. run \in Runs /\ p \in Providers
    BY NumbersOf, ProviderOf DEF Inv, Runs
  <2> QED BY <2>1 DEF Child
<1>3. c0 \in [provider : {Provider(mem)}, run : {run}, state : {"running", "unfed"}]
  OBVIOUS
<1> HIDE DEF c0
<1>4. ProcessTypeOK'
  BY <1>1, <1>2 DEF Inv, TypeOK, ProcessTypeOK
<1>5. OverrideKept'
  <2>1. at # "none" /\ at' # "none"
    BY DEF Waiting
  <2> QED BY <1>1, <1>3, <2>1, OverrideStays
<1>6. OneProcess'
  <2>1. \A c \in children : c.run = run => c.state = "unfed"
    BY DEF Inv, OneProcess, Calling, Waiting
  <2>2. \A c \in children : c.run <= run /\ c.state # "running"
    BY <2>1 DEF Inv, OneProcess
  <2>3. \A c \in children' : c.run <= run
    BY <1>1, <1>2, <2>2, NumbersOf DEF Inv
  <2>4. \A c \in children' : c.state = "running" => c.run = run
    BY <1>1, <1>2, <2>2
  <2>5. AtMostOneOwn'
    BY <1>1, <1>2, <2>1 DEF Inv, OneProcess, AtMostOneOwn
  <2>6. ~(at' \in Calling \/ (at' \in Waiting /\ Unheard'))
    BY <1>1 DEF Calling, Waiting, Unheard
  <2>7. Provider(mem)' = Provider(mem)
    BY DEF Provider
  <2> QED BY <1>1, <2>3, <2>4, <2>5, <2>6, <2>7 DEF OneProcess
<1> QED BY <1>4, <1>5, <1>6

(* The prompt is refused, before a process is there or behind one.  *)
LEMMA RefusedKeeps ==
    ASSUME Inv, at = "call" \/ (at = "wait_probe" /\ Unheard), run > 0,
           NEW p, p = Provider(mem), LeaveUnfed(run, p) \/ StartNone,
           at' = "wait_agent",
           UNCHANGED <<disk, mem, run, kept, asked, crashed>>
    PROVE  ProcessTypeOK' /\ OverrideKept' /\ OneProcess'
<1> DEFINE c0 == [provider |-> p, run |-> run, state |-> "unfed"]
<1>1. children' \subseteq children \cup {c0} /\ verdict' = "refused"
  BY DEF LeaveUnfed, StartNone
<1>2. c0.provider = p /\ c0.run = run /\ c0.state = "unfed" /\ c0 \in Child
  <2>1. run \in Runs /\ p \in Providers
    BY NumbersOf, ProviderOf DEF Inv, Runs
  <2> QED BY <2>1 DEF Child
<1>3. c0 \in [provider : {Provider(mem)}, run : {run}, state : {"running", "unfed"}]
  OBVIOUS
<1> HIDE DEF c0
<1>4. ProcessTypeOK'
  BY <1>1, <1>2 DEF Inv, TypeOK, ProcessTypeOK
<1>5. OverrideKept'
  <2>1. at # "none" /\ at' # "none"
    OBVIOUS
  <2> QED BY <1>1, <1>3, <2>1, OverrideStays
<1>6. OneProcess'
  <2>1. \A c \in children : c.run = run => c.state = "unfed"
    BY DEF Inv, OneProcess, Calling, Waiting
  <2>2. \A c \in children : c.run <= run /\ c.state # "running"
    BY <2>1 DEF Inv, OneProcess
  <2>3. \A c \in children' : c.run <= run /\ c.state # "running"
    BY <1>1, <1>2, <2>2, NumbersOf DEF Inv
  <2>4. \A c \in children' : c.run = run => c.state = "unfed"
    BY <1>1, <1>2, <2>1
  <2>5. AtMostOneOwn'
    BY <1>1, <1>2, <2>1 DEF Inv, OneProcess, AtMostOneOwn
  <2> QED BY <2>3, <2>4, <2>5 DEF OneProcess
<1> QED BY <1>4, <1>5, <1>6

LEMMA CallRunnerKeeps ==
    ASSUME Inv, CallRunner
    PROVE  Inv'
<1>1. /\ at = "call" /\ at \in Calling /\ calls' = calls + 1
      /\ UNCHANGED <<asked, crashed, corrections>>
  BY DEF CallRunner, Calling
<1>2. /\ disk.status = "active" /\ mem.attempt = disk.attempt
      /\ calls \in Nat /\ calls' \in Nat /\ calls' <= 6 /\ calls' > 0
      /\ calls' <= (turn + Second) + 1
  <2>1. disk.status = "active" /\ mem.attempt = disk.attempt
    BY <1>1 DEF Inv, Copies, Phases
  <2>2. calls \in Nat /\ calls <= 5 /\ calls <= turn + Second /\ turn \in Nat
    BY <1>1, AtCalling, NumbersOf DEF Inv
  <2>3. Second \in {0, 3}
    BY DEF Second
  <2> QED BY <1>1, <2>1, <2>2, <2>3
<1>3. fruitless' \in Nat /\ fruitless' <= 3 /\ fruitless' <= disk.attempt + 1
  <2>1. /\ fruitless \in Nat /\ fruitless <= 3 /\ fruitless <= disk.attempt + 1
        /\ disk.attempt <= 2 /\ disk.attempt \in Nat
    BY <1>1, AtCalling, NumbersOf DEF Inv
  <2>2. CASE calls = 0 /\ Provider(mem) \notin mem.session.ids
    <3>1. fruitless' = fruitless + 1
      BY <2>2 DEF CallRunner
    <3>2. fruitless <= disk.attempt
      <4>1. CASE fresh
        BY <1>1, <2>1, <2>2, <4>1 DEF Inv, AttemptsCounted, Phases
      <4>2. CASE ~fresh
        BY <1>1, <1>2, <2>2, <4>2 DEF Inv, AttemptsCounted
      <4> QED BY <4>1, <4>2
    <3> QED BY <2>1, <3>1, <3>2
  <2>3. CASE ~(calls = 0 /\ Provider(mem) \notin mem.session.ids)
    <3>1. fruitless' = fruitless
      BY <2>3 DEF CallRunner
    <3> QED BY <2>1, <3>1
  <2> QED BY <2>2, <2>3
<1>4. CASE (Stop("failed") \/ Stop("paused")) /\ UNCHANGED processVars
  <2>1. UNCHANGED <<children, verdict>> /\ at \in Phases /\ at \notin Waiting
    BY <1>1, <1>4 DEF processVars, Phases, Waiting
  <2> QED BY <1>1, <1>2, <1>3, <1>4, <2>1, StopKeeps
<1>5. CASE ~((Stop("failed") \/ Stop("paused")) /\ UNCHANGED processVars)
  <2>1. /\ UNCHANGED <<disk, mem, run, kept, turn, fresh, checked>>
        /\ at' \in Waiting
        /\ \/ StartChild(run, Provider(mem)) /\ (at' = "wait_probe" => Provider(mem) = "codex")
           \/ StartNone /\ at' = "wait_agent"
    BY <1>5 DEF CallRunner, SameCall, Go, Waiting
  <2>2. ProcessTypeOK' /\ OverrideKept' /\ OneProcess'
    <3>1. run > 0
      BY <1>1 DEF Inv, OverrideKept
    <3> QED BY <1>1, <2>1, <3>1, StartKeeps, RefusedKeeps
  <2>3. TypeOK'
    <3>1. at' \in Labels
      BY <2>1 DEF Waiting, Labels, Phases
    <3>2. {calls', fruitless', corrections'} \subseteq Nat
      BY <1>1, <1>2, <1>3, NumbersOf DEF Inv
    <3> QED BY <1>1, <2>1, <2>2, <3>1, <3>2 DEF Inv, TypeOK
  <2>4. Copies'
    <3>1. /\ at' \notin {"none", "clear", "before", "effort", "cold", "call", "return"}
          /\ at \in Phases
      BY <1>1, <2>1 DEF Waiting, Phases
    <3> QED BY <1>2, <2>1, <3>1 DEF Inv, Copies
  <2>5. AttemptsCounted'
    <3>1. calls' # 0 /\ at' \notin {"before", "effort", "call"}
      BY <1>2, <2>1 DEF Waiting
    <3>2. corrections' <= 1 /\ (corrections' > 0 => disk'.corrected = TRUE \/ disk'.status = "next")
      BY <1>1, <2>1 DEF Inv, AttemptsCounted
    <3>3. fruitless' <= 3 /\ fruitless' <= disk'.attempt + 1 /\ disk'.status # "queued"
      BY <1>2, <1>3, <2>1
    <3> QED BY <3>1, <3>2, <3>3 DEF AttemptsCounted
  <2>6. CallsCounted'
    <3>1. Second' = Second
      BY <2>1 DEF Second
    <3>2. at' # "none" /\ at' \notin Calling
      BY <2>1 DEF Waiting, Calling
    <3> QED BY <1>1, <1>2, <2>1, <3>1, <3>2, AtCalling DEF CallsCounted
  <2> QED BY <2>2, <2>3, <2>4, <2>5, <2>6 DEF Inv
<1> QED BY <1>4, <1>5

(* What waits for an answer.  *)
LEMMA AtWaiting ==
    ASSUME Inv, at \in Waiting
    PROVE  /\ at \in Phases /\ at # "none" /\ at \notin Calling
           /\ mem \in Entry /\ disk \in Entry
           /\ mem.status = "active" /\ mem.corrected = disk.corrected
           /\ disk.status = "active" /\ disk.attempt <= 2
           /\ mem.attempt = disk.attempt /\ mem.override = disk.override
           /\ calls \in Nat /\ calls <= 6 /\ calls > 0
           /\ calls <= (turn + Second) + 1 /\ turn <= 2 /\ turn \in Nat
           /\ fruitless \in Nat /\ fruitless <= 3 /\ fruitless <= disk.attempt + 1
<1>1. at \in Phases \ {"before"} /\ at # "none" /\ at \notin Calling
  BY DEF Calling, Phases, Waiting
<1>2. /\ calls <= (turn + Second) + 1 /\ turn <= 2 /\ turn \in Nat
      /\ calls \in Nat /\ calls > 0 /\ calls <= 6
  BY <1>1, NumbersOf DEF Inv, CallsCounted
<1> QED BY <1>1, <1>2, NumbersOf DEF Inv, Copies, AttemptsCounted

LEMMA ProbeAnswersKeeps ==
    ASSUME Inv, ProbeAnswers
    PROVE  Inv'
<1>1. /\ at = "wait_probe" /\ at \in Waiting /\ verdict # "none"
      /\ UNCHANGED <<asked, crashed, calls, fruitless, corrections>>
  BY DEF ProbeAnswers, Waiting, history
<1>2. CASE /\ Stop("failed") \/ Stop("paused")
           /\ verdict' = "none" /\ UNCHANGED children
  BY <1>1, <1>2, StopKeeps, AtWaiting
<1>3. CASE /\ verdict = "exited"
           /\ StartChild(run, "codex") \/ LeaveUnfed(run, "codex")
           /\ Go("wait_agent") /\ UNCHANGED <<disk, mem>> /\ SameCall
  <2>1. /\ UNCHANGED <<disk, mem, run, kept, turn, fresh, checked>>
        /\ at' = "wait_agent" /\ at' \in Waiting /\ Unheard /\ Provider(mem) = "codex"
    BY <1>1, <1>3 DEF Go, SameCall, Waiting, Unheard, Inv, OneProcess
  <2>2. ProcessTypeOK' /\ OverrideKept' /\ OneProcess'
    <3>1. run > 0
      BY <1>1 DEF Inv, OverrideKept
    <3> QED BY <1>1, <1>3, <2>1, <3>1, StartKeeps, RefusedKeeps
  <2>3. TypeOK'
    <3>1. at' \in Labels
      BY <2>1 DEF Labels, Phases
    <3> QED BY <1>1, <2>1, <2>2, <3>1 DEF Inv, TypeOK
  <2>4. Copies'
    BY <1>1, <2>1 DEF Inv, Copies, Phases
  <2>5. AttemptsCounted'
    BY <1>1, <2>1 DEF Inv, AttemptsCounted, Phases
  <2>6. CallsCounted'
    <3>1. Second' = Second
      BY <2>1 DEF Second
    <3> QED BY <1>1, <2>1, <3>1, AtWaiting DEF CallsCounted, Calling
  <2> QED BY <2>2, <2>3, <2>4, <2>5, <2>6 DEF Inv
<1> QED BY <1>2, <1>3 DEF ProbeAnswers

LEMMA ToldNothing ==
    ASSUME NEW how \in {"none", "refused"}
    PROVE  \A p : Told(p, how) = {}
<1> TAKE p
<1>1. how # "timeout" /\ how # "failed" /\ how # "exited"
  OBVIOUS
<1> QED BY <1>1 DEF Told, Statuses, Throws, Answers

LEMMA RunnerThrowsKeeps ==
    ASSUME Inv, RunnerThrows
    PROVE  Inv'
<1> DEFINE S == Told(Provider(mem), verdict)
<1>1. /\ at = "wait_agent" /\ at \in Waiting /\ verdict' = "none"
      /\ UNCHANGED <<children, asked, crashed, calls, fruitless, corrections>>
  BY DEF RunnerThrows, Waiting, history
<1>2. verdict # "none"
  <2>1. S # {}
    BY DEF RunnerThrows
  <2> QED BY <2>1, ToldNothing
<1>3. Stop("failed") \/ Stop("paused")
  <2> HIDE DEF S
  <2> QED BY DEF RunnerThrows
<1> QED BY <1>1, <1>2, <1>3, StopKeeps, AtWaiting

(* An answer and a broken contract are heard of a process that has ended.  *)
LEMMA ToldOfEnd ==
    ASSUME NEW p, NEW how \in {"none", "exited", "failed", "timeout", "refused"},
           NEW told \in Told(p, how),
           told.kind = "answers" \/ told = Throws("prompt_contract_violation")
    PROVE  how \in {"exited", "failed"} /\ told.named \in BOOLEAN
<1>1. CASE how \in {"none", "refused"}
  BY <1>1, ToldNothing
<1>2. CASE how = "timeout"
  <2>1. told = Throws("runner_timeout")
    BY <1>2 DEF Told
  <2>2. "runner_timeout" # "prompt_contract_violation"
    OBVIOUS
  <2> QED BY <2>1, <2>2 DEF Throws
<1>3. \A s : \A n \in BOOLEAN : Answers(s, n).named \in BOOLEAN
  BY DEF Answers
<1>4. \A code : Throws(code).named \in BOOLEAN
  BY DEF Throws
<1>5. CASE how = "failed"
  <2>1. Told(p, how) =
          {Answers("rate_limited", FALSE), Throws("other")}
            \cup (IF p = "codex" THEN {Throws("sandbox_violation")} ELSE {})
    BY <1>5 DEF Told
  <2>2. told \in {Answers("rate_limited", FALSE), Throws("other"), Throws("sandbox_violation")}
    BY <2>1
  <2> QED BY <1>5, <1>3, <1>4, <2>2
<1>6. CASE how = "exited"
  <2>1. \/ told \in {Throws("prompt_contract_violation"), Throws("other"),
                     Throws("sandbox_violation")}
        \/ \E s \in Statuses : told = Answers(s, TRUE)
        \/ \E s \in Statuses \cup {"rate_limited"}, n \in BOOLEAN : told = Answers(s, n)
    <3> DEFINE A == {Throws("prompt_contract_violation"), Throws("other")}
               B == {Answers(s, TRUE) : s \in Statuses} \cup {Throws("sandbox_violation")}
               C == {Answers(s, n) : s \in Statuses \cup {"rate_limited"}, n \in BOOLEAN}
    <3>1. Told(p, how) = A \cup (IF p = "codex" THEN B ELSE C)
      BY <1>6 DEF Told
    <3>2. ASSUME told \in C
          PROVE  \E s \in Statuses \cup {"rate_limited"}, n \in BOOLEAN : told = Answers(s, n)
      BY <3>2
    <3>3. told \in B => told = Throws("sandbox_violation") \/ \E s \in Statuses : told = Answers(s, TRUE)
      OBVIOUS
    <3>4. told \in A => told = Throws("prompt_contract_violation") \/ told = Throws("other")
      OBVIOUS
    <3> HIDE DEF A, B, C
    <3>5. told \in A \/ told \in B \/ told \in C
      BY <3>1
    <3> QED BY <3>2, <3>3, <3>4, <3>5
  <2> QED BY <1>6, <1>3, <1>4, <2>1
<1> QED BY <1>1, <1>2, <1>5, <1>6

(* The phase goes on to its next turn, or stops, with the entry t in memory
   and what is on disk no less counted.  *)
LEMMA HeardKeeps ==
    ASSUME Inv, at = "wait_agent", Unheard \/ at' = "return", verdict # "none",
           UNCHANGED <<children, run, kept, fresh, asked, crashed, calls>>,
           verdict' = "none", at' \in {"before", "return"},
           mem' \in Entry, disk' \in Entry, turn' \in 0..3, checked' \in BOOLEAN,
           disk'.status = "active", disk'.attempt <= 2, mem'.attempt = disk'.attempt,
           mem'.override = mem.override, disk'.override = disk.override,
           {mem'.session.last, disk'.session.last} \subseteq
                {mem.session.last, disk.session.last, Provider(mem)},
           at' = "before" =>
                /\ mem'.status = "active" /\ turn' <= 2 /\ mem'.corrected = disk'.corrected
                /\ calls <= turn' + Second',
           at' = "return" =>
                /\ mem'.status \in {"paused", "failed", "next"}
                /\ mem'.status # "next" => mem'.corrected = disk'.corrected,
           fruitless' \in Nat, fruitless' <= 3, fruitless' <= disk'.attempt + 1,
           corrections' \in Nat, corrections' <= 1,
           corrections' > 0 => disk'.corrected = TRUE
    PROVE  Inv'
<1>1. at \in Waiting /\ at # "none" /\ at' # "none" /\ at' \notin Waiting
  BY DEF Waiting
<1>2. calls > 0 /\ calls <= 6 /\ calls # 0
  BY <1>1, AtWaiting
<1>3. TypeOK'
  <2>1. at' \in Labels /\ {calls', fruitless', corrections'} \subseteq Nat
    BY NumbersOf DEF Labels, Phases, Inv
  <2> QED BY <2>1 DEF Inv, TypeOK, ProcessTypeOK
<1>4. Copies'
  <2>1. mem'.override = disk'.override
    BY <1>1, AtWaiting
  <2>2. CASE at' = "before"
    BY <2>1, <2>2 DEF Copies, Phases
  <2>3. CASE at' = "return"
    BY <2>1, <2>3 DEF Copies, Phases
  <2> QED BY <2>2, <2>3
<1>5. AttemptsCounted'
  BY <1>2 DEF AttemptsCounted
<1>6. CallsCounted'
  BY <1>1, <1>2 DEF CallsCounted, Phases, Calling
<1>7. OverrideKept'
  <2>1. children' \subseteq children \cup
             [provider : {Provider(mem)}, run : {run}, state : {"running", "unfed"}]
    OBVIOUS
  <2> QED BY <1>1, <2>1, OverrideStays
<1>8. OneProcess'
  BY <1>1, ProcessesLeft DEF Calling
<1> QED BY <1>3, <1>4, <1>5, <1>6, <1>7, <1>8 DEF Inv

(* The one correction of a phase.  *)
LEMMA Uncorrected ==
    ASSUME Inv, at \in Waiting, mem.corrected = FALSE
    PROVE  corrections = 0
<1>1. disk.corrected = FALSE /\ disk.status = "active"
  BY AtWaiting
<1> QED BY <1>1, NumbersOf DEF Inv, AttemptsCounted

LEMMA ContractViolatedKeeps ==
    ASSUME Inv, ContractViolated
    PROVE  Inv'
<1> DEFINE t == [mem EXCEPT !.corrected = TRUE]
<1>1. /\ at = "wait_agent" /\ at \in Waiting /\ verdict' = "none" /\ Unheard /\ verdict # "none"
      /\ UNCHANGED <<children, asked, crashed, calls, fruitless>>
  <2>1. verdict \in {"none", "exited", "failed", "timeout", "refused"}
    BY DEF Inv, TypeOK, ProcessTypeOK
  <2>2. \/ verdict = "refused"
        \/ Throws("prompt_contract_violation") \in Told(Provider(mem), verdict)
    BY DEF ContractViolated
  <2>3. verdict \in {"exited", "failed", "refused"}
    BY <2>1, <2>2, ToldOfEnd
  <2> QED BY <2>3 DEF ContractViolated, Waiting, Unheard
<1>2. CASE Stop("failed") /\ UNCHANGED corrections
  BY <1>1, <1>2, StopKeeps, AtWaiting
<1>3. CASE Correct(mem) /\ EndTurn(t)
  <2>1. /\ mem.corrected = FALSE /\ disk' = t /\ corrections' = corrections + 1
        /\ turn' = turn + 1 /\ UNCHANGED <<run, kept, fresh, checked>>
        /\ \/ turn + 1 < 3 /\ mem' = t /\ at' = "before"
           \/ mem' = [t EXCEPT !.status = "paused"] /\ at' = "return"
    <3>1. mem.corrected = FALSE /\ disk' = t /\ corrections' = corrections + 1
      BY <1>3 DEF Correct
    <3>2. turn' = turn + 1 /\ UNCHANGED <<run, kept, fresh, checked>>
      BY <1>3 DEF EndTurn
    <3> HIDE DEF t
    <3>3. \/ turn + 1 < 3 /\ mem' = t /\ at' = "before"
          \/ mem' = [t EXCEPT !.status = "paused"] /\ at' = "return"
      BY <1>3 DEF EndTurn, Go
    <3> QED BY <3>1, <3>2, <3>3
  <2>2. /\ t \in Entry /\ t.corrected = TRUE /\ t.status = "active"
        /\ t.attempt = mem.attempt /\ t.session = mem.session /\ t.override = mem.override
    <3>1. mem \in Entry /\ mem.status = "active" /\ TRUE \in BOOLEAN
      BY <1>1, AtWaiting
    <3>2. /\ t \in Entry /\ t.corrected = TRUE /\ t.status = mem.status
          /\ t.attempt = mem.attempt /\ t.session = mem.session /\ t.override = mem.override
      BY <3>1, WithCorrected
    <3> QED BY <3>1, <3>2
  <2> HIDE DEF t
  <2>3. /\ mem' \in Entry /\ mem'.corrected = TRUE /\ mem'.attempt = mem.attempt
        /\ mem'.session = mem.session /\ mem'.override = mem.override
        /\ at' = "before" => mem'.status = "active" /\ turn + 1 < 3
        /\ at' = "return" => mem'.status = "paused"
        /\ at' \in {"before", "return"}
    <3>1. CASE turn + 1 < 3 /\ mem' = t /\ at' = "before"
      BY <2>2, <3>1
    <3>2. CASE mem' = [t EXCEPT !.status = "paused"] /\ at' = "return"
      <4>1. /\ mem' \in Entry /\ mem'.status = "paused"
            /\ mem'.attempt = t.attempt /\ mem'.corrected = t.corrected
            /\ mem'.session = t.session /\ mem'.override = t.override
        BY <2>2, <3>2, WithStatus
      <4> QED BY <2>2, <3>2, <4>1
    <3> QED BY <2>1, <3>1, <3>2
  <2>4. corrections' = 1
    <3>1. mem.corrected = FALSE
      BY <2>1
    <3>2. corrections = 0
      BY <1>1, <3>1, Uncorrected, Zenon
    <3> QED BY <2>1, <3>2
  <2>5. /\ turn' \in 0..3 /\ calls <= turn' + Second' /\ (at' = "before" => turn' <= 2)
    <3>1. turn \in Nat /\ turn <= 2 /\ calls <= (turn + Second) + 1 /\ calls \in Nat
      BY <1>1, AtWaiting
    <3>2. Second = 0 /\ Second' = 3
      BY <2>1, <2>3 DEF Second
    <3> QED BY <2>1, <2>3, <3>1, <3>2
  <2>6. /\ mem.attempt = disk.attempt /\ disk.attempt <= 2 /\ mem.override = disk.override
        /\ fruitless \in Nat /\ fruitless <= 3 /\ fruitless <= disk.attempt + 1
    BY <1>1, AtWaiting
  <2>7. checked' \in BOOLEAN /\ mem'.corrected = disk'.corrected /\ disk'.corrected = TRUE
    BY <2>1, <2>2, <2>3, NumbersOf DEF Inv
  <2>8. disk' \in Entry /\ disk'.status = "active" /\ disk'.attempt <= 2
        /\ mem'.attempt = disk'.attempt /\ disk'.override = disk.override
        /\ disk'.session = mem.session /\ fruitless <= disk'.attempt + 1
    BY <2>1, <2>2, <2>3, <2>6
  <2>9. UNCHANGED <<children, run, kept, fresh, asked, crashed, calls>>
    BY <1>1, <2>1
  <2>10. {mem'.session.last, disk'.session.last} \subseteq
              {mem.session.last, disk.session.last, Provider(mem)}
    BY <2>3, <2>8
  <2>11. /\ at' = "before" =>
                /\ mem'.status = "active" /\ turn' <= 2 /\ mem'.corrected = disk'.corrected
                /\ calls <= turn' + Second'
         /\ at' = "return" =>
                /\ mem'.status \in {"paused", "failed", "next"}
                /\ mem'.status # "next" => mem'.corrected = disk'.corrected
    BY <2>3, <2>5, <2>7
  <2>12. /\ fruitless' \in Nat /\ fruitless' <= 3 /\ fruitless' <= disk'.attempt + 1
         /\ corrections' \in Nat /\ corrections' <= 1
    BY <1>1, <2>4, <2>6, <2>8
  <2> QED BY <1>1, <2>3, <2>5, <2>7, <2>8, <2>9, <2>10, <2>11, <2>12, HeardKeeps
<1> QED BY <1>2, <1>3 DEF ContractViolated

(* What an answer leaves on disk.  *)
LEMMA WroteProgress ==
    ASSUME Inv, at \in Waiting, NEW named \in BOOLEAN, NEW t, t = Heard(named), WriteProgress(t)
    PROVE  /\ disk' \in Entry /\ disk'.status = "active" /\ disk'.attempt = 0
           /\ disk'.corrected = mem.corrected /\ disk'.override = disk.override
           /\ disk'.session.last \in {mem.session.last, disk.session.last, Provider(mem)}
<1>1. /\ mem \in Entry /\ disk \in Entry /\ mem.attempt = disk.attempt
      /\ mem.status = "active" /\ disk.status = "active"
      /\ mem.corrected = disk.corrected /\ mem.override = disk.override
  BY AtWaiting
<1>2. CASE mem.attempt = 0
  <2>1. disk' = disk
    BY <1>2 DEF WriteProgress
  <2> QED BY <1>1, <1>2, <2>1
<1>3. CASE mem.attempt # 0
  <2>1. disk' = t
    BY <1>3 DEF WriteProgress
  <2>2. /\ t \in Entry /\ t.attempt = 0 /\ t.status = mem.status
        /\ t.corrected = mem.corrected /\ t.override = mem.override
        /\ t.session.last \in {mem.session.last, Provider(mem)}
    BY <1>1, HeardFields
  <2> QED BY <1>1, <2>1, <2>2
<1> QED BY <1>2, <1>3

LEMMA AgentAnswersKeeps ==
    ASSUME Inv, AgentAnswers
    PROVE  Inv'
<1>1. /\ at = "wait_agent" /\ at \in Waiting /\ verdict' = "none"
      /\ UNCHANGED <<children, asked, crashed, calls>> /\ fruitless' = 0
  BY DEF AgentAnswers, Waiting
<1>2. PICK told \in Told(Provider(mem), verdict) :
             told.kind = "answers" /\ Handle(Heard(told.named), told.status)
  BY DEF AgentAnswers
<1>3. verdict \in {"exited", "failed"} /\ told.named \in BOOLEAN
  <2>1. verdict \in {"none", "exited", "failed", "timeout", "refused"}
    BY DEF Inv, TypeOK, ProcessTypeOK
  <2> QED BY <1>2, <2>1, ToldOfEnd
<1> DEFINE t == Heard(told.named)
<1>4. /\ t \in Entry /\ t.attempt = 0 /\ t.status = "active" /\ t.corrected = mem.corrected
      /\ t.override = mem.override /\ t.session.last \in {mem.session.last, Provider(mem)}
  <2>1. mem \in Entry /\ mem.status = "active"
    BY <1>1, AtWaiting
  <2> QED BY <1>3, <2>1, HeardFields
<1>5. \/ EndTurn(t) /\ WriteProgress(t) /\ UNCHANGED corrections
      \/ \E s \in {"paused", "failed", "next"} : EndPhase(t, s)
      \/ BadData(t)
  BY <1>2 DEF Handle
<1>6. ASSUME WriteProgress(t)
      PROVE  /\ disk' \in Entry /\ disk'.status = "active" /\ disk'.attempt = 0
             /\ disk'.corrected = mem.corrected /\ disk'.override = disk.override
             /\ disk'.session.last \in {mem.session.last, disk.session.last, Provider(mem)}
  BY <1>1, <1>3, <1>6, WroteProgress
<1> HIDE DEF t
<1>7. /\ turn \in Nat /\ turn <= 2 /\ calls \in Nat /\ calls <= (turn + Second) + 1
      /\ Unheard /\ verdict # "none" /\ fresh \in BOOLEAN /\ checked \in BOOLEAN
      /\ disk.status = "active" /\ mem.corrected = disk.corrected
      /\ corrections \in Nat /\ corrections <= 1
  BY <1>1, <1>3, AtWaiting, NumbersOf DEF Unheard, Inv, AttemptsCounted
<1>8. corrections > 0 => mem.corrected = TRUE
  BY <1>7 DEF Inv, AttemptsCounted
<1>9. fruitless' \in Nat /\ fruitless' <= 3
  BY <1>1
<1>10. ASSUME disk' \in Entry, disk'.attempt = 0
       PROVE  fruitless' <= disk'.attempt + 1 /\ disk'.attempt <= 2
  BY <1>1, <1>10
<1>11. CASE EndTurn(t) /\ WriteProgress(t) /\ UNCHANGED corrections
  <2>1. /\ turn' = turn + 1 /\ UNCHANGED <<run, kept, fresh, checked>>
        /\ \/ turn + 1 < 3 /\ mem' = t /\ at' = "before"
           \/ mem' = [t EXCEPT !.status = "paused"] /\ at' = "return"
    BY <1>11 DEF EndTurn, Go
  <2>2. /\ mem' \in Entry /\ mem'.attempt = 0 /\ mem'.corrected = mem.corrected
        /\ mem'.override = mem.override
        /\ mem'.session.last \in {mem.session.last, Provider(mem)}
        /\ at' = "before" => mem'.status = "active" /\ turn + 1 < 3
        /\ at' = "return" => mem'.status = "paused"
        /\ at' \in {"before", "return"}
    <3>1. CASE turn + 1 < 3 /\ mem' = t /\ at' = "before"
      BY <1>4, <3>1
    <3>2. CASE mem' = [t EXCEPT !.status = "paused"] /\ at' = "return"
      <4>1. /\ mem' \in Entry /\ mem'.status = "paused"
            /\ mem'.attempt = t.attempt /\ mem'.corrected = t.corrected
            /\ mem'.session = t.session /\ mem'.override = t.override
        BY <1>4, <3>2, WithStatus
      <4> QED BY <1>4, <3>2, <4>1
    <3> QED BY <2>1, <3>1, <3>2
  <2>3. turn' \in 0..3 /\ calls <= turn' + Second' /\ (at' = "before" => turn' <= 2)
    <3>1. Second' = Second /\ Second \in {0, 3}
      BY <2>2 DEF Second
    <3> QED BY <1>7, <2>1, <2>2, <3>1
  <2>4. /\ disk' \in Entry /\ disk'.status = "active" /\ disk'.attempt = 0
        /\ disk'.corrected = mem.corrected /\ disk'.override = disk.override
        /\ disk'.session.last \in {mem.session.last, disk.session.last, Provider(mem)}
    BY <1>6, <1>11
  <2>5. mem'.corrected = disk'.corrected /\ mem'.attempt = disk'.attempt
    BY <2>2, <2>4
  <2>6. corrections' > 0 => disk'.corrected = TRUE
    BY <1>8, <1>11, <2>4
  <2>7. {mem'.session.last, disk'.session.last} \subseteq
              {mem.session.last, disk.session.last, Provider(mem)}
    BY <2>2, <2>4
  <2>8. fruitless' <= disk'.attempt + 1 /\ disk'.attempt <= 2
    BY <1>10, <2>4
  <2>9. corrections' \in Nat /\ corrections' <= 1 /\ checked' \in BOOLEAN
    BY <1>7, <1>11, <2>1
  <2>10. UNCHANGED <<children, run, kept, fresh, asked, crashed, calls>>
    BY <1>1, <2>1
  <2>11. /\ at' = "before" =>
                /\ mem'.status = "active" /\ turn' <= 2 /\ mem'.corrected = disk'.corrected
                /\ calls <= turn' + Second'
         /\ at' = "return" =>
                /\ mem'.status \in {"paused", "failed", "next"}
                /\ mem'.status # "next" => mem'.corrected = disk'.corrected
    BY <2>2, <2>3, <2>5
  <2> QED BY <1>1, <1>7, <1>9, <2>2, <2>3, <2>4, <2>5, <2>6, <2>7, <2>8, <2>9, <2>10, <2>11,
             HeardKeeps
<1>12. ASSUME NEW s \in {"paused", "failed", "next"}, NEW b \in BOOLEAN,
              s # "next" => b = t.corrected,
              mem' \in Entry, mem'.attempt = 0, mem'.corrected = b, mem'.status = s,
              mem'.override = mem.override, mem'.session = t.session,
              WriteProgress(t), at' = "return", UNCHANGED <<run, kept, turn, fresh, checked>>,
              UNCHANGED corrections
       PROVE  Inv'
  <2>1. mem'.session.last \in {mem.session.last, Provider(mem)}
    BY <1>4, <1>12
  <2>2. /\ disk' \in Entry /\ disk'.status = "active" /\ disk'.attempt = 0
        /\ disk'.corrected = mem.corrected /\ disk'.override = disk.override
        /\ disk'.session.last \in {mem.session.last, disk.session.last, Provider(mem)}
    BY <1>6, <1>12
  <2>3. mem'.attempt = disk'.attempt /\ (s # "next" => mem'.corrected = disk'.corrected)
    BY <1>4, <1>12, <2>2
  <2>4. corrections' > 0 => disk'.corrected = TRUE
    BY <1>8, <1>12, <2>2
  <2>5. {mem'.session.last, disk'.session.last} \subseteq
              {mem.session.last, disk.session.last, Provider(mem)}
    BY <2>1, <2>2
  <2>6. fruitless' <= disk'.attempt + 1 /\ disk'.attempt <= 2
    BY <1>10, <2>2
  <2>7. corrections' \in Nat /\ corrections' <= 1 /\ checked' \in BOOLEAN /\ turn' \in 0..3
    BY <1>7, <1>12
  <2>8. UNCHANGED <<children, run, kept, fresh, asked, crashed, calls>>
    BY <1>1, <1>12
  <2>9. /\ at' # "before" /\ at' \in {"before", "return"}
        /\ mem'.status \in {"paused", "failed", "next"}
        /\ mem'.status # "next" => mem'.corrected = disk'.corrected
    BY <1>12, <2>3
  <2> QED BY <1>1, <1>7, <1>9, <1>12, <2>2, <2>3, <2>4, <2>5, <2>6, <2>7, <2>8, <2>9, HeardKeeps
<1>13. CASE \E s \in {"paused", "failed", "next"} : EndPhase(t, s)
  <2>1. PICK s \in {"paused", "failed", "next"} : EndPhase(t, s)
    BY <1>13
  <2> DEFINE b == IF s = "next" THEN FALSE ELSE t.corrected
  <2>2. mem' = [t EXCEPT !.status = s, !.corrected = b]
    BY <1>4, <2>1 DEF EndPhase, Entry
  <2>3. b \in BOOLEAN /\ (s # "next" => b = t.corrected)
    BY <1>4, EntryFields
  <2>4. /\ WriteProgress(t) /\ at' = "return" /\ UNCHANGED <<run, kept, turn, fresh, checked>>
        /\ UNCHANGED corrections
    BY <2>1 DEF EndPhase, Go, SameCall
  <2> HIDE DEF b
  <2>5. /\ mem' \in Entry /\ mem'.attempt = 0 /\ mem'.corrected = b /\ mem'.status = s
        /\ mem'.override = mem.override
        /\ mem'.session = t.session
    <3> DEFINE u == [t EXCEPT !.status = s]
    <3>1. /\ u \in Entry /\ u.status = s /\ u.attempt = t.attempt
          /\ u.session = t.session /\ u.override = t.override
      BY <1>4, <2>1, WithStatus
    <3>2. mem' = [u EXCEPT !.corrected = b]
      BY <2>2
    <3> HIDE DEF u
    <3>3. /\ mem' \in Entry /\ mem'.corrected = b /\ mem'.status = u.status
          /\ mem'.attempt = u.attempt /\ mem'.session = u.session /\ mem'.override = u.override
      BY <2>3, <3>1, <3>2, WithCorrected
    <3> QED BY <1>4, <3>1, <3>3
  <2> QED BY <1>12, <2>3, <2>4, <2>5
<1>14. CASE BadData(t)
  <2>1. CASE /\ t.corrected /\ mem' = [t EXCEPT !.status = "failed"] /\ WriteProgress(t)
             /\ Go("return") /\ SameCall /\ UNCHANGED corrections
    <3>1. t.corrected \in BOOLEAN
      BY <1>4, EntryFields
    <3>2. /\ mem' \in Entry /\ mem'.status = "failed" /\ mem'.attempt = t.attempt
          /\ mem'.corrected = t.corrected /\ mem'.session = t.session
          /\ mem'.override = t.override
      <4>1. t \in Entry /\ mem' = [t EXCEPT !.status = "failed"]
        BY <1>4, <2>1
      <4> HIDE <2>1
      <4> QED BY <4>1, WithStatus
    <3>3. /\ WriteProgress(t) /\ at' = "return" /\ UNCHANGED <<run, kept, turn, fresh, checked>>
          /\ UNCHANGED corrections
      BY <2>1 DEF Go, SameCall
    <3> QED BY <1>4, <1>12, <3>1, <3>2, <3>3
  <2>2. CASE /\ Correct(t) /\ mem' = [t EXCEPT !.corrected = TRUE]
             /\ Go("before") /\ turn' = 0 /\ checked' = FALSE
             /\ UNCHANGED <<run, kept, fresh>>
    <3>1. /\ t.corrected = FALSE /\ mem' = [t EXCEPT !.corrected = TRUE] /\ disk' = mem'
          /\ corrections' = corrections + 1 /\ at' = "before"
      BY <2>2 DEF Correct, Go
    <3>2. /\ mem' \in Entry /\ mem'.corrected = TRUE /\ mem'.status = t.status
          /\ mem'.attempt = t.attempt /\ mem'.session = t.session /\ mem'.override = t.override
      <4>1. TRUE \in BOOLEAN
        OBVIOUS
      <4> QED BY <1>4, <3>1, <4>1, WithCorrected
    <3>3. /\ disk' \in Entry /\ disk'.corrected = TRUE
          /\ mem'.status = "active" /\ disk'.status = "active"
          /\ mem'.attempt = 0 /\ disk'.attempt = 0 /\ mem'.attempt = disk'.attempt
          /\ mem'.corrected = disk'.corrected
          /\ mem'.override = mem.override /\ disk'.override = disk.override
          /\ {mem'.session.last, disk'.session.last} \subseteq
                {mem.session.last, disk.session.last, Provider(mem)}
      <4>1. disk.override = mem.override
        BY <1>1, AtWaiting
      <4> QED BY <1>4, <3>1, <3>2, <4>1
    <3>4. corrections' = 1
      <4>1. mem.corrected = FALSE
        BY <1>4, <3>1
      <4>2. corrections = 0
        BY <1>1, <4>1, Uncorrected, Zenon
      <4> QED BY <3>1, <4>2
    <3>5. turn' \in 0..3 /\ turn' <= 2 /\ calls <= turn' + Second'
      <4>1. Second = 0 /\ Second' = 3
        BY <1>4, <3>1, <3>2 DEF Second
      <4> QED BY <1>7, <2>2, <4>1
    <3>6. fruitless' <= disk'.attempt + 1 /\ disk'.attempt <= 2
      BY <1>10, <3>3
    <3>7. corrections' \in Nat /\ corrections' <= 1 /\ checked' \in BOOLEAN
      <4>1. checked' \in BOOLEAN
        BY <2>2
      <4>2. corrections' \in Nat /\ corrections' <= 1
        BY <3>4
      <4> QED BY <4>1, <4>2
    <3>8. UNCHANGED <<children, run, kept, fresh, asked, crashed, calls>>
      BY <1>1, <2>2
    <3>9. at' # "return" /\ at' \in {"before", "return"}
      BY <3>1
    <3> QED BY <1>1, <1>7, <1>9, <3>2, <3>3, <3>5, <3>6, <3>7, <3>8, <3>9, HeardKeeps
  <2> QED BY <1>14, <2>1, <2>2 DEF BadData
<1> QED BY <1>5, <1>11, <1>13, <1>14

-----------------------------------------------------------------------------
(* The end of the run, and what comes between two of them.                 *)

LEMMA ReturnKeeps ==
    ASSUME Inv, Return
    PROVE  Inv'
<1>1. /\ at = "return" /\ at' = "clear" /\ mem' = mem /\ disk' = mem
      /\ UNCHANGED <<children, verdict, run, kept, turn, fresh, checked>>
      /\ UNCHANGED <<asked, crashed, calls, fruitless, corrections>>
  BY DEF Return, Pass, processVars, history, Persist, Go, SameCall
<1>2. /\ mem \in Entry /\ disk \in Entry /\ mem.attempt = disk.attempt
      /\ mem.override = disk.override /\ mem.status \in {"paused", "failed", "next"}
      /\ mem.status # "next" => mem.corrected = disk.corrected
      /\ mem.status # "failed" => disk.attempt <= 2
      /\ disk.status # "next"
  BY <1>1 DEF Inv, TypeOK, Copies
<1>3. TypeOK'
  BY <1>1, <1>2 DEF Inv, TypeOK, ProcessTypeOK, Labels
<1>4. Copies'
  BY <1>1, <1>2 DEF Copies, Phases
<1>5. AttemptsCounted'
  <2>1. corrections > 0 => mem.corrected = TRUE \/ mem.status = "next"
    BY <1>2 DEF Inv, AttemptsCounted
  <2>2. fruitless <= 3 /\ fruitless <= mem.attempt + 1 /\ corrections <= 1
    BY <1>2 DEF Inv, AttemptsCounted
  <2>3. at' \notin Phases
    BY <1>1 DEF Phases
  <2> QED BY <1>1, <1>2, <2>1, <2>2, <2>3 DEF AttemptsCounted
<1>6. CallsCounted'
  BY <1>1 DEF Inv, CallsCounted, Phases, Calling, Waiting
<1>7. OverrideKept'
  BY <1>1, <1>2, OverrideStays
<1>8. OneProcess'
  BY <1>1, ProcessesLeft DEF Calling, Waiting
<1> QED BY <1>3, <1>4, <1>5, <1>6, <1>7, <1>8 DEF Inv

(* The run is over, with the entry that is on disk then.  *)
LEMMA FinishKeeps ==
    ASSUME Inv, at # "none", Finish, disk' \in Entry,
           disk'.status = disk.status, disk'.attempt = disk.attempt,
           disk'.corrected = disk.corrected, disk'.before = disk.before,
           disk'.override.run \in {0} \cup crashed',
           disk'.override.run = disk.override.run \/ disk'.override.run = 0,
           disk'.override.run = 0 => disk'.session.last \in {None, Configured},
           crashed' \subseteq Runs, UNCHANGED <<asked, fruitless, corrections>>,
           ProcessTypeOK', AtMostOneOwn',
           \A c \in children' : /\ c.state # "running" /\ c.run <= run
                                /\ c.provider # Configured => c.run \in asked
    PROVE  Inv'
<1>1. /\ at' = "none" /\ mem' = disk' /\ kept' = NoSession /\ turn' = 0 /\ fresh' = FALSE
      /\ checked' = FALSE /\ calls' = 0 /\ run' = run
  BY DEF Finish, Go
<1>2. at' \notin Phases /\ at' \notin Calling /\ at' \notin Waiting
  BY <1>1 DEF Phases, Calling, Waiting
<1>3. TypeOK'
  <2>1. at' \in Labels /\ {fresh', checked'} \subseteq BOOLEAN
    BY <1>1 DEF Labels
  <2>2. turn' \in 0..3 /\ {calls', fruitless', corrections'} \subseteq Nat
    BY <1>1, NumbersOf DEF Inv
  <2> QED BY <1>1, <2>1, <2>2, NewEntryFits DEF Inv, TypeOK
<1>4. Copies'
  BY <1>1, <1>2 DEF Inv, Copies, Phases
<1>5. AttemptsCounted'
  BY <1>1, <1>2 DEF Inv, AttemptsCounted
<1>6. CallsCounted'
  BY <1>1, <1>2 DEF CallsCounted
<1>7. OverrideKept'
  <2>1. mem'.session.last = disk'.session.last /\ kept'.last = None
    BY <1>1, NewEntryFits
  <2>2. disk'.override.run # 0 => disk'.override.run \in asked
    BY DEF Inv, OverrideKept
  <2> QED BY <1>1, <2>1, <2>2 DEF OverrideKept
<1>8. OneProcess'
  BY <1>1, <1>2 DEF OneProcess
<1> QED BY <1>3, <1>4, <1>5, <1>6, <1>7, <1>8 DEF Inv

LEMMA ClearKeeps ==
    ASSUME Inv, Clear
    PROVE  Inv'
<1>1. /\ at = "clear" /\ Finish /\ UNCHANGED <<children, verdict, asked, crashed>>
      /\ UNCHANGED <<fruitless, corrections>>
      /\ disk' = IF disk.override.run = run THEN Cleared(disk) ELSE disk
  BY DEF Clear, processVars
<1>2. disk \in Entry /\ kept \in Session /\ crashed \subseteq Runs
  BY DEF Inv, TypeOK
<1>3. /\ disk.override.run \in {0, run} /\ kept.last \in {None, Configured}
      /\ disk.override.run = 0 => disk.session.last \in {None, Configured}
  BY <1>1 DEF Inv, OverrideKept
<1>4. /\ disk' \in Entry
      /\ disk'.status = disk.status /\ disk'.attempt = disk.attempt
      /\ disk'.corrected = disk.corrected /\ disk'.before = disk.before
      /\ disk'.override.run = 0 /\ disk'.session.last \in {None, Configured}
  <2>1. CASE disk.override.run = run
    <3> DEFINE u == [disk EXCEPT !.override = NoOverride]
    <3>1. /\ u \in Entry /\ u.override = NoOverride /\ u.status = disk.status
          /\ u.attempt = disk.attempt /\ u.corrected = disk.corrected
          /\ u.before = disk.before
      BY <1>2, NewEntryFits, WithOverride
    <3>2. disk' = [u EXCEPT !.session = kept]
      BY <1>1, <2>1 DEF Cleared
    <3> HIDE DEF u
    <3>3. /\ disk' \in Entry /\ disk'.session = kept /\ disk'.status = u.status
          /\ disk'.attempt = u.attempt /\ disk'.corrected = u.corrected
          /\ disk'.before = u.before /\ disk'.override = u.override
      BY <1>2, <3>1, <3>2, WithSession
    <3> QED BY <1>3, <3>1, <3>3, NewEntryFits
  <2>2. CASE disk.override.run # run
    BY <1>1, <1>2, <1>3, <2>2
  <2> QED BY <2>1, <2>2
<1>5. \A c \in children' : /\ c.state # "running" /\ c.run <= run
                           /\ c.provider # Configured => c.run \in asked
  BY <1>1 DEF Inv, OneProcess, OverrideKept, Waiting
<1>6. ProcessTypeOK' /\ AtMostOneOwn'
  BY <1>1 DEF Inv, TypeOK, ProcessTypeOK, OneProcess, AtMostOneOwn
<1> QED BY <1>1, <1>2, <1>4, <1>5, <1>6, FinishKeeps

LEMMA CrashKeeps ==
    ASSUME Inv, Crash
    PROVE  Inv'
<1> DEFINE Left(c) == IF c.run = run /\ c.state # "unfed"
                     THEN [c EXCEPT !.state = "orphan"] ELSE c
<1>1. /\ at # "none" /\ Finish /\ disk' = disk /\ crashed' = crashed \cup {run}
      /\ children' = {Left(c) : c \in children} /\ verdict' = "none"
      /\ UNCHANGED <<asked, fruitless, corrections>>
  BY DEF Crash, Abandon
<1>2. ASSUME NEW c \in children
      PROVE  /\ Left(c) \in Child /\ Left(c).run = c.run /\ Left(c).provider = c.provider
             /\ Left(c).state # "running" /\ (c.state = "unfed" => Left(c).state = "unfed")
  <2>1. c \in Child
    BY NumbersOf DEF Inv
  <2>2. CASE c.run = run /\ c.state # "unfed"
    BY <2>1, <2>2 DEF Child
  <2>3. CASE ~(c.run = run /\ c.state # "unfed")
    BY <2>1, <2>3 DEF Inv, OneProcess
  <2> QED BY <2>2, <2>3
<1> HIDE DEF Left
<1>3. \A c \in children' : /\ c.state # "running" /\ c.run <= run
                           /\ c.provider # Configured => c.run \in asked
  <2>1. ASSUME NEW c \in children
        PROVE  /\ Left(c).state # "running" /\ Left(c).run <= run
               /\ Left(c).provider # Configured => Left(c).run \in asked
    BY <1>2 DEF Inv, OneProcess, OverrideKept
  <2> QED BY <1>1, <2>1
<1>4. ProcessTypeOK'
  <2>1. children' \subseteq Child
    BY <1>1, <1>2
  <2> QED BY <1>1, <2>1 DEF ProcessTypeOK
<1>5. AtMostOneOwn'
  <2>1. ASSUME NEW c \in children, NEW d \in children, Left(c).run = Left(d).run
        PROVE  Left(c) = Left(d) \/ "unfed" \in {Left(c).state, Left(d).state}
    <3>1. c = d \/ "unfed" \in {c.state, d.state}
      BY <1>2, <2>1 DEF Inv, OneProcess, AtMostOneOwn
    <3> QED BY <1>2, <3>1
  <2> QED BY <1>1, <2>1 DEF AtMostOneOwn
<1>6. disk \in Entry /\ crashed' \subseteq Runs /\ disk.override.run \in {0} \cup crashed'
  <2>1. run \in Runs
    BY <1>1, NumbersOf DEF Inv, OverrideKept, Runs
  <2> QED BY <1>1, <2>1 DEF Inv, TypeOK, OverrideKept
<1>7. disk.override.run = 0 => disk.session.last \in {None, Configured}
  BY DEF Inv, OverrideKept
<1> QED BY <1>1, <1>3, <1>4, <1>5, <1>6, <1>7, FinishKeeps

(* The operator writes the entry while nothing runs.  *)
LEMMA ResumeKeeps ==
    ASSUME Inv, Resume
    PROVE  Inv'
<1>1. /\ at = "none" /\ disk.status = "paused" /\ mem' = [disk EXCEPT !.status = "active"]
      /\ disk' = mem' /\ UNCHANGED <<children, verdict, at, run, kept, turn, fresh, checked>>
      /\ UNCHANGED <<asked, crashed, calls, fruitless, corrections>>
  BY DEF Resume, Persist, SameCall, Pass, processVars, history
<1>2. /\ mem' \in Entry /\ mem'.status = "active"
      /\ mem'.attempt = disk.attempt /\ mem'.corrected = disk.corrected
      /\ mem'.before = disk.before
      /\ mem'.session = disk.session /\ mem'.override = disk.override
  <2>1. disk \in Entry
    BY DEF Inv, TypeOK
  <2> QED BY <1>1, <2>1, WithStatus
<1>3. at' = "none" /\ at' \notin Phases /\ at' \notin Calling /\ at' \notin Waiting
  BY <1>1 DEF Phases, Calling, Waiting
<1>4. TypeOK'
  BY <1>1, <1>2 DEF Inv, TypeOK, ProcessTypeOK
<1>5. Copies'
  <2>1. disk'.attempt <= 2
    BY <1>1, <1>2 DEF Inv, Copies
  <2> QED BY <1>1, <1>2, <1>3, <2>1 DEF Copies, Phases
<1>6. AttemptsCounted'
  <2>1. corrections > 0 => disk'.corrected = TRUE
    BY <1>1, <1>2 DEF Inv, AttemptsCounted
  <2>2. fruitless <= 3 /\ fruitless <= disk'.attempt + 1 /\ corrections <= 1
    BY <1>1, <1>2 DEF Inv, AttemptsCounted
  <2> QED BY <1>1, <1>2, <1>3, <2>1, <2>2 DEF AttemptsCounted
<1>7. CallsCounted'
  BY <1>1, <1>3 DEF Inv, CallsCounted
<1>8. OverrideKept'
  BY <1>1, <1>2, <1>3 DEF Inv, OverrideKept
<1>9. OneProcess'
  BY <1>1, <1>3 DEF Inv, OneProcess, AtMostOneOwn
<1> QED BY <1>4, <1>5, <1>6, <1>7, <1>8, <1>9 DEF Inv

LEMMA RetryKeeps ==
    ASSUME Inv, Retry
    PROVE  Inv'
<1>1. /\ at = "none" /\ mem' = NewEntry /\ disk' = NewEntry
      /\ UNCHANGED <<children, verdict, at, run, kept, turn, fresh, checked>>
      /\ UNCHANGED <<asked, crashed, calls>> /\ fruitless' = 0 /\ corrections' = 0
  BY DEF Retry, Persist, SameCall, processVars
<1>2. at' = "none" /\ at' \notin Phases /\ at' \notin Calling /\ at' \notin Waiting
  BY <1>1 DEF Phases, Calling, Waiting
<1>3. TypeOK'
  <2>1. {calls', fruitless', corrections'} \subseteq Nat
    BY <1>1, NumbersOf DEF Inv
  <2> QED BY <1>1, <2>1, NewEntryFits DEF Inv, TypeOK, ProcessTypeOK
<1>4. Copies' /\ AttemptsCounted'
  BY <1>1, <1>2, NewEntryFits DEF Copies, AttemptsCounted, Phases
<1>5. CallsCounted'
  BY <1>1, <1>2 DEF Inv, CallsCounted
<1>6. OverrideKept'
  BY <1>1, <1>2, NewEntryFits DEF Inv, OverrideKept
<1>7. OneProcess'
  BY <1>1, <1>2 DEF Inv, OneProcess, AtMostOneOwn
<1> QED BY <1>3, <1>4, <1>5, <1>6, <1>7 DEF Inv

(* A process that is waited for ends or is given up, or one that is left
   ends.  *)
LEMMA ProcessKeeps ==
    ASSUME Inv, Process
    PROVE  Inv'
<1>1. PICK c \in children : ChildCloses(c) \/ ChildTimesOut(c) \/ TermedEnds(c) \/ OrphanEnds(c)
  BY DEF Process
<1>2. /\ UNCHANGED <<disk, mem, at, run, kept, turn, fresh, checked>>
      /\ UNCHANGED <<asked, crashed, calls, fruitless, corrections>>
  BY DEF Process, runnerVars
<1>3. Second' = Second /\ Provider(mem)' = Provider(mem)
  BY <1>2 DEF Second, Provider
<1>4. Copies' /\ AttemptsCounted' /\ CallsCounted'
  <2>1. Copies'
    BY <1>2 DEF Inv, Copies
  <2>2. AttemptsCounted'
    BY <1>2, <1>3 DEF Inv, AttemptsCounted
  <2>3. CallsCounted'
    BY <1>2, <1>3 DEF Inv, CallsCounted
  <2> QED BY <2>1, <2>2, <2>3
<1>5. children \subseteq Child /\ c \in Child
  BY DEF Inv, TypeOK, ProcessTypeOK
<1> DEFINE gone == [c EXCEPT !.state = "termed"]
<1>6. gone \in Child /\ gone.run = c.run /\ gone.provider = c.provider /\ gone.state = "termed"
  BY <1>5 DEF Child
<1>7. CASE ChildTimesOut(c)
  <2>1. /\ c.state = "running" /\ children' = (children \ {c}) \cup {gone}
        /\ verdict' = "timeout"
    BY <1>7 DEF ChildTimesOut, Become
  <2> HIDE DEF gone
  <2>2. /\ c.run = run /\ at \in Waiting
        /\ \A d \in children \ {c} : d.state # "running" /\ (d.run = run => d.state = "unfed")
    BY <1>1, <2>1 DEF Inv, OneProcess, AtMostOneOwn
  <2>3. TypeOK'
    BY <1>2, <1>5, <1>6, <2>1 DEF Inv, TypeOK, ProcessTypeOK
  <2>4. OverrideKept'
    BY <1>1, <1>2, <1>6, <2>1 DEF Inv, OverrideKept
  <2>5. OneProcess'
    <3>1. \A d \in children' : d.run <= run /\ d.state # "running"
      BY <1>1, <1>6, <2>1, <2>2 DEF Inv, OneProcess
    <3>2. at' \notin Calling /\ ~Unheard'
      BY <1>2, <2>1, <2>2 DEF Calling, Waiting, Unheard
    <3>3. AtMostOneOwn'
      BY <1>6, <2>1, <2>2 DEF Inv, OneProcess, AtMostOneOwn
    <3>4. at' = "wait_probe" => Provider(mem)' = "codex"
      BY <1>2, <1>3 DEF Inv, OneProcess
    <3> QED BY <1>2, <3>1, <3>2, <3>3, <3>4 DEF OneProcess
  <2> QED BY <1>4, <2>3, <2>4, <2>5 DEF Inv
<1>8. CASE ChildCloses(c) \/ TermedEnds(c) \/ OrphanEnds(c)
  <2>1. /\ children' = children \ {c}
        /\ \/ c.state = "running" /\ verdict' \in {"exited", "failed"}
           \/ verdict' = verdict
    BY <1>8 DEF ChildCloses, TermedEnds, OrphanEnds
  <2>2. TypeOK'
    BY <1>2, <1>5, <2>1 DEF Inv, TypeOK, ProcessTypeOK
  <2>3. OverrideKept'
    BY <1>2, <2>1 DEF Inv, OverrideKept
  <2>4. OneProcess'
    <3>1. /\ \A d \in children' : d.run <= run
          /\ AtMostOneOwn'
          /\ at' = "wait_probe" => Provider(mem)' = "codex"
      BY <1>2, <1>3, <2>1 DEF Inv, OneProcess, AtMostOneOwn
    <3>2. CASE c.state = "running" /\ verdict' \in {"exited", "failed"}
      <4>1. /\ at \in Waiting
            /\ \A d \in children' : d.state # "running" /\ (d.run = run => d.state = "unfed")
        BY <1>1, <2>1, <3>2 DEF Inv, OneProcess, AtMostOneOwn
      <4> QED BY <1>2, <3>1, <4>1 DEF OneProcess
    <3>3. CASE verdict' = verdict
      <4>1. Unheard' = Unheard
        BY <3>3 DEF Unheard
      <4> QED BY <1>2, <2>1, <3>1, <3>3, <4>1 DEF Inv, OneProcess
    <3> QED BY <2>1, <3>2, <3>3
  <2> QED BY <1>4, <2>2, <2>3, <2>4 DEF Inv
<1> QED BY <1>1, <1>7, <1>8

LEMMA PhaseStep ==
    ASSUME Inv, [Next]_vars
    PROVE  Inv'
<1>1. CASE Select
  BY <1>1, SelectKeeps
<1>2. CASE Run
  <2>1. CASE EnsureBefore
    BY <2>1, EnsureBeforeKeeps
  <2>2. CASE ResolveEffort
    BY <2>2, ResolveEffortKeeps
  <2>3. CASE PrepareColdRestart
    BY <2>3, PrepareColdRestartKeeps
  <2>4. CASE CallRunner
    BY <2>4, CallRunnerKeeps
  <2>5. CASE ProbeAnswers
    BY <2>5, ProbeAnswersKeeps
  <2>6. CASE RunnerThrows
    BY <2>6, RunnerThrowsKeeps
  <2>7. CASE ContractViolated
    BY <2>7, ContractViolatedKeeps
  <2>8. CASE AgentAnswers
    BY <2>8, AgentAnswersKeeps
  <2>9. CASE Return
    BY <2>9, ReturnKeeps
  <2>10. CASE Clear
    BY <2>10, ClearKeeps
  <2> QED BY <1>2, <2>1, <2>2, <2>3, <2>4, <2>5, <2>6, <2>7, <2>8, <2>9, <2>10 DEF Run
<1>3. CASE Crash
  BY <1>3, CrashKeeps
<1>4. CASE Resume
  BY <1>4, ResumeKeeps
<1>5. CASE Retry
  BY <1>5, RetryKeeps
<1>6. CASE Process
  BY <1>6, ProcessKeeps
<1>7. CASE UNCHANGED vars
  <2>1. /\ UNCHANGED <<disk, mem, at, run, kept, turn, fresh, checked>>
        /\ UNCHANGED <<asked, crashed, calls, fruitless, corrections, children, verdict>>
    BY <1>7 DEF vars, processVars, runnerVars
  <2>2. TypeOK'
    BY <2>1 DEF Inv, TypeOK, ProcessTypeOK
  <2>3. Second' = Second /\ Provider(mem)' = Provider(mem) /\ Unheard' = Unheard
    BY <2>1 DEF Second, Provider, Unheard
  <2>4. Copies' /\ AttemptsCounted'
    BY <2>1, <2>3 DEF Inv, Copies, AttemptsCounted
  <2>5. CallsCounted' /\ OverrideKept'
    BY <2>1, <2>3 DEF Inv, CallsCounted, OverrideKept
  <2>6. OneProcess'
    BY <2>1, <2>3 DEF Inv, OneProcess, AtMostOneOwn
  <2> QED BY <2>2, <2>4, <2>5, <2>6 DEF Inv
<1> QED BY <1>1, <1>2, <1>3, <1>4, <1>5, <1>6, <1>7 DEF Next

LEMMA PhaseInvariant == Spec => []Inv
<1>1. Init => Inv
  BY PhaseInit
<1>2. Inv /\ [Next]_vars => Inv'
  BY PhaseStep
<1> QED BY <1>1, <1>2, PTL DEF Spec

(* The entry, the run and its processes have their types, however many runs
   there are and however many of them crash.  *)
THEOREM PhaseTypeCorrect == Spec => []TypeOK
<1>1. Inv => TypeOK
  BY DEF Inv
<1> QED BY <1>1, PhaseInvariant, PTL

(* A phase is tried anew three times at most without an answer, corrected
   once, and its agent called six times in a run, whatever crashes.
   (prepareColdRestartAttempt, runWithSelfCorrection, runPhase)  *)
THEOREM RetriesAreBounded == Spec => []RetriesBounded
<1>1. Inv => RetriesBounded
  BY DEF Inv, AttemptsCounted, CallsCounted, RetriesBounded
<1> QED BY <1>1, PhaseInvariant, PTL

(* An override holds for the run it was given to.
   (applyPhaseOverrideForRun, clearPhaseOverrideForRun)  *)
THEOREM OverrideHoldsForOneRun == Spec => []OverrideForOneRun
<1>1. Inv => OverrideForOneRun
  BY DEF Inv, OverrideKept, OverrideForOneRun
<1> QED BY <1>1, PhaseInvariant, PTL

(* A run has one process at work, those it has given up on included; a Codex
   process that was never sent its prompt is not counted.
   (runClaude and runCodex, waitForChild)  *)
THEOREM OneProcessOfEachRun == Spec => []AtMostOneOwn
<1>1. Inv => AtMostOneOwn
  BY DEF Inv, OneProcess
<1> QED BY <1>1, PhaseInvariant, PTL
=============================================================================
