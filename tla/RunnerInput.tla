----------------------------- MODULE RunnerInput -----------------------------
(***************************************************************************)
(* What an agent of a phase may do, and what the workflow asks of it:      *)
(* capability.ts, effort-resolver.ts and buildAgentRunInput on one side,   *)
(* the assertions of the two runners on the other.  Pure operators.        *)
(*                                                                         *)
(* "none" is the absent value, 0 the absent timeout.  A model is the set   *)
(* of the marks its name contains.                                         *)
(***************************************************************************)
EXTENDS Naturals

capabilityPhases ==
    {"plan", "plan_verify", "plan_fix", "implement", "review", "supervise", "fix"}
capabilityProviders == {"claude", "codex"}
effortLevels == {"auto", "low", "medium", "high"}

Marks == {"unsupported-all-efforts", "gpt-5.4-mini", "haiku"}
Model == SUBSET Marks

Writing == {"implement", "fix"}
Profile(p) == IF p \in Writing THEN "write_worktree"
              ELSE IF p \in {"review", "supervise"} THEN "readonly_worktree"
              ELSE "readonly_repo"

ReadTools == {"Read", "Grep", "Glob"}
WriteTools == {"Edit", "Write", "Bash"}
WebTools == {"WebFetch", "WebSearch"}

\* derive_claude_perm, derive_codex_perm
ClaudePerm(p) ==
    IF Profile(p) = "write_worktree"
    THEN [allowed |-> ReadTools \cup WriteTools, denied |-> WebTools, hook |-> "write_path_guard"]
    ELSE [allowed |-> ReadTools, denied |-> WriteTools \cup WebTools, hook |-> "readonly_path_guard"]

CodexPerm(p) ==
    [sandbox |-> IF Profile(p) = "write_worktree" THEN "workspace-write" ELSE "read-only",
     network |-> "off"]

NoClaude == [allowed |-> {}, denied |-> {}, hook |-> "none"]
NoCodex == [sandbox |-> "none", network |-> "none"]

\* validateCapabilitySelection: ci_wait and merge have no agent.
Selectable(p, provider) == p \in capabilityPhases /\ provider \in capabilityProviders

-----------------------------------------------------------------------------
(* What config.yaml and the entry of the task say about a phase             *)

\* config.permissions.claude.allowed_tools may only narrow the tools.
ConfigHolds(c) ==
    /\ \A p \in capabilityPhases :
          /\ Selectable(p, c.phases[p].provider)
          /\ c.phases[p].effort \in effortLevels \cup {"none"}
          /\ c.phases[p].model \in Model /\ c.phases[p].timeout \in Nat
    /\ c.effort \in effortLevels /\ c.downgrade \in BOOLEAN
    /\ c.tools \subseteq ClaudePerm("plan").allowed

\* override: for this phase.  last: provider_sessions[phase].last_provider.
\* model: resolved_model[phase], given or not.
EntryHolds(t) ==
    /\ t.override.provider \in capabilityProviders \cup {"none"}
    /\ t.override.effort \in effortLevels \cup {"none"}
    /\ t.last \in capabilityProviders \cup {"none"}
    /\ t.named \in BOOLEAN /\ t.model \in Model

\* validatePhaseOverride, what the options of run and resume may ask for.
OverrideOptions(o) ==
    /\ o.phase = "none" => o.provider = "none" /\ o.effort = "none"
    /\ o.phase # "none" =>
          /\ o.phase \in capabilityPhases
          /\ o.provider # "none" \/ o.effort # "none"
          /\ o.provider \in capabilityProviders \cup {"none"}
          /\ o.effort \in effortLevels \cup {"none"}

ProviderFor(t, p, c) ==
    IF t.override.provider # "none" THEN t.override.provider
    ELSE IF t.last # "none" THEN t.last ELSE c.phases[p].provider

EffortFor(t, p, c) ==
    IF t.override.effort # "none" THEN t.override.effort
    ELSE IF c.phases[p].effort # "none" THEN c.phases[p].effort ELSE c.effort

\* The model an agent named in an earlier turn, whoever the agent was.
ModelFor(t, p, c) == IF t.named THEN t.model ELSE c.phases[p].model

-----------------------------------------------------------------------------
(* resolveEffort, resolveAndPersistEffort                                   *)

Supported(provider, model, effort) ==
    /\ "unsupported-all-efforts" \notin model
    /\ effort = "high" => /\ ~(provider = "codex" /\ "gpt-5.4-mini" \in model)
                          /\ ~(provider = "claude" /\ "haiku" \in model)

StepBelow == [high |-> "medium", medium |-> "low", low |-> "auto", auto |-> "none"]

\* The efforts that may be resolved to: one, or none.
Candidates(provider, model, effort, downgrade) ==
    IF Supported(provider, model, effort) THEN {effort}
    ELSE {e \in {StepBelow[effort]} :
             downgrade /\ e # "none" /\ Supported(provider, model, e)}

TimeoutOfEffort ==
    [low |-> 1200000, medium |-> 1800000, auto |-> 1800000, high |-> 3600000]

TimeoutFor(c, p, effort) ==
    IF c.phases[p].timeout # 0 THEN c.phases[p].timeout ELSE TimeoutOfEffort[effort]

Resolutions(t, p, c) ==
    {[phase |-> p, provider |-> ProviderFor(t, p, c), effort |-> e,
      timeout |-> TimeoutFor(c, p, e)] :
        e \in Candidates(ProviderFor(t, p, c), ModelFor(t, p, c), EffortFor(t, p, c), c.downgrade)}

-----------------------------------------------------------------------------
(* buildAgentRunInput                                                       *)

\* claudePermissionForConfig
ConfiguredClaude(p, c) ==
    LET cap == ClaudePerm(p) IN
    IF Profile(p) = "write_worktree" THEN cap
    ELSE [cap EXCEPT !.allowed = @ \cap c.tools,
                     !.denied = @ \cup (cap.allowed \ c.tools)]

Contract(p) == p

\* Where the phase works: the worktree, or the repository it is part of.
Place(p) == IF p \in Writing \cup {"review", "supervise"} THEN "worktree" ELSE "repo"

Input(t, p, c, resolved) ==
    LET provider == ProviderFor(t, p, c) IN
    [provider |-> provider, phase |-> p, contract |-> Contract(p),
     effort |-> resolved, profile |-> Profile(p),
     claude |-> IF provider = "claude" THEN ConfiguredClaude(p, c) ELSE NoClaude,
     codex |-> IF provider = "claude" THEN NoCodex ELSE CodexPerm(p),
     mode |-> IF p \in Writing THEN "workspace-write" ELSE "readonly",
     network |-> FALSE, scope |-> Place(p), cwd |-> Place(p), root |-> Place(p),
     timeout |-> resolved.timeout]

-----------------------------------------------------------------------------
(* assertClaudeInput, assertCodexInput; there: the directories that exist   *)

Inside == {<<"repo", "repo">>, <<"worktree", "worktree">>, <<"worktree", "repo">>}

RootHolds(i, there) == i.root \in there /\ i.cwd \in there /\ <<i.cwd, i.root>> \in Inside

ModeOf(profile) == IF profile = "write_worktree" THEN "workspace-write" ELSE "readonly"
ScopeOf(profile) == IF profile = "readonly_repo" THEN "repo" ELSE "worktree"

WithinCap(perm, cap) ==
    /\ perm.hook = cap.hook
    /\ perm.allowed \subseteq cap.allowed /\ cap.denied \subseteq perm.denied

EffortHolds(i, provider) == i.effort.phase = i.phase /\ i.effort.provider = provider

ClaudeAccepts(i, there) ==
    /\ i.provider = "claude" /\ Selectable(i.phase, i.provider)
    /\ EffortHolds(i, "claude")
    /\ i.claude # NoClaude /\ i.profile = Profile(i.phase)
    /\ WithinCap(i.claude, ClaudePerm(i.phase))
    /\ i.contract = Contract(i.phase)
    /\ i.mode = ModeOf(Profile(i.phase)) /\ ~i.network
    /\ i.scope = ScopeOf(Profile(i.phase))
    /\ RootHolds(i, there)
    /\ i.timeout > 0 /\ i.timeout = i.effort.timeout

CodexAccepts(i, there) ==
    /\ i.provider = "codex" /\ Selectable(i.phase, i.provider)
    /\ i.contract = Contract(i.phase)
    /\ EffortHolds(i, "codex")
    /\ i.profile = Profile(i.phase) /\ i.codex = CodexPerm(i.phase)
    /\ i.mode = ModeOf(Profile(i.phase)) /\ ~i.network
    /\ i.scope = ScopeOf(Profile(i.phase))
    /\ RootHolds(i, there)
    /\ i.timeout > 0

Accepts(i, there) == ClaudeAccepts(i, there) \/ CodexAccepts(i, there)

\* What the agent that gets the input may change files with.
CanWrite(i) == \/ i.provider = "claude" /\ i.claude.allowed \cap WriteTools # {}
               \/ i.provider = "codex" /\ i.codex.sandbox = "workspace-write"
               \/ i.mode = "workspace-write"
=============================================================================
