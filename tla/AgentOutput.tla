----------------------------- MODULE AgentOutput -----------------------------
(***************************************************************************)
(* What the workflow is told of an agent's process: runClaude and runCodex *)
(* over what the process has printed, and the contract its answer has to   *)
(* keep (runner-contract.ts).  Pure operators.                             *)
(*                                                                         *)
(* A text is known by what the code looks for in it, a value by whether it *)
(* is of its type and within its bounds.                                   *)
(***************************************************************************)

Required ==
    [plan |-> {"plan_markdown", "assumptions", "risks"},
     plan_verify |-> {"result", "findings"},
     plan_fix |-> {"plan_markdown", "addressed_findings"},
     implement |-> {"changed_files", "tests_run", "docs_updated", "notes"},
     review |-> {"findings"},
     supervise |-> {"accept_ids", "reject_ids", "reject_reasons"},
     fix |-> {"changed_files", "tests_run", "resolved_accept_ids",
              "unresolved_accept_ids", "notes"}]
Contracts == DOMAIN Required
Optional(c) == IF c = "supervise" THEN {"fix_prompt"} ELSE {}

Statuses == {"completed", "need_input", "paused", "failed"}
Keys == UNION {Required[c] : c \in Contracts}
          \cup {"fix_prompt", "reason", "recoverable", "text", "default", "unknown"}

\* data or question.  wrong: keys whose value is refused by itself.  filled:
\* lists that have an item.  twice: an id is named twice.  ok: the verdict.
Part == [given : {"absent", "null", "object", "other"},
         keys : SUBSET Keys, wrong : SUBSET Keys, filled : SUBSET Keys,
         twice : BOOLEAN, ok : BOOLEAN]

\* extra: a key beside status, summary, data and question.
Payload == [object : BOOLEAN, extra : BOOLEAN, status : Statuses \cup {"unknown"},
            summary : BOOLEAN, data : Part, question : Part]

\* validateRecordWithKeys, and what is required of each value.
KeysHold(d, required, optional) ==
    /\ d.given = "object"
    /\ required \subseteq d.keys /\ d.keys \subseteq required \cup optional
    /\ d.wrong = {}

\* validateCompletedData
DataHolds(c, d) ==
    /\ KeysHold(d, Required[c], Optional(c))
    /\ c = "plan_verify" /\ d.ok => "findings" \notin d.filled
    /\ c \in {"supervise", "fix"} => ~d.twice
    /\ c = "supervise" /\ "accept_ids" \in d.filled => "fix_prompt" \in d.keys

\* validatePromptContractPayload
Holds(c, p) ==
    /\ p.object /\ ~p.extra /\ p.summary /\ p.status \in Statuses
    /\ p.status = "completed" => DataHolds(c, p.data) /\ p.question.given = "absent"
    /\ p.status = "need_input" =>
          /\ KeysHold(p.question, {"text", "default"}, {})
          /\ p.data.given = "absent" \/ DataHolds(c, p.data)
    /\ p.status \in {"paused", "failed"} =>
          KeysHold(p.data, {"reason"}, {"recoverable"}) /\ p.question.given = "absent"

-----------------------------------------------------------------------------
(* What the workflow is told.  named: with the session of the agent.        *)

Throws(code) == [kind |-> "throws", status |-> "none", code |-> code, named |-> FALSE]
Answers(status, named) ==
    [kind |-> "answers", status |-> status, code |-> "none", named |-> named]

Judge(c, p, named) ==
    IF Holds(c, p) THEN Answers(p.status, named) ELSE Throws("prompt_contract_violation")

\* `claude -p --output-format json`: one object, with structured_output or
\* with YAML as its result.  limited: the message speaks of a rate limit.
ClaudeOutput == [object : BOOLEAN, session : BOOLEAN, isError : BOOLEAN, limited : BOOLEAN,
                 structured : BOOLEAN, yaml : BOOLEAN, payload : Payload]

\* parseClaudeCliJson
ReadClaude(c, out) ==
    CASE ~out.object -> Throws("prompt_contract_violation")
      [] out.object /\ out.isError ->
           IF out.limited THEN Answers("rate_limited", out.session) ELSE Throws("other")
      [] out.object /\ ~out.isError ->
           IF out.structured \/ out.yaml THEN Judge(c, out.payload, out.session)
           ELSE Throws("prompt_contract_violation")

\* `codex exec --json -o file`: the first complaint about its events, and the
\* file.  sandbox: the message speaks of an approval or a denied sandbox.
Complaints == {"none", "empty", "garbled", "asks_approval", "sandbox_denied",
               "strange", "other_thread", "no_thread"}
CodexOutput == [complaint : Complaints, limited : BOOLEAN, sandbox : BOOLEAN,
                file : BOOLEAN, payload : Payload]

\* normalizeCodexFinalPayload: the schema asks Codex for every key.
Normalized(p) ==
    LET Dropped(part) == IF part.given = "null" THEN [part EXCEPT !.given = "absent"] ELSE part
    IN  [p EXCEPT !.data = Dropped(@), !.question = Dropped(@)]

\* parseCodexJsonl and parseCodexFinalOutput
ReadCodex(c, out) ==
    CASE out.complaint \in {"asks_approval", "sandbox_denied"} -> Throws("sandbox_violation")
      [] out.complaint \in Complaints \ {"none", "asks_approval", "sandbox_denied"} ->
           Throws("prompt_contract_violation")
      [] out.complaint = "none" ->
           IF out.file THEN Judge(c, Normalized(out.payload), TRUE) ELSE Throws("other")

FailedExit(provider, out) ==
    IF out.limited THEN Answers("rate_limited", FALSE)
    ELSE IF provider = "codex" /\ out.sandbox THEN Throws("sandbox_violation")
    ELSE Throws("other")

\* runClaude and runCodex, once the process has ended or its time is up.
RunClaude(c, verdict, out) ==
    CASE verdict = "timeout" -> Throws("runner_timeout")
      [] verdict = "failed" -> FailedExit("claude", out)
      [] verdict = "exited" -> ReadClaude(c, out)

RunCodex(c, verdict, out) ==
    CASE verdict = "timeout" -> Throws("runner_timeout")
      [] verdict = "failed" -> FailedExit("codex", out)
      [] verdict = "exited" -> ReadCodex(c, out)

-----------------------------------------------------------------------------
(* All the workflow can be told, in any phase: what PhaseRunner goes on     *)
(* from.  (PhaseRunnerProofs shows that nothing is missing.)                *)

Told(provider, verdict) ==
    CASE verdict = "timeout" -> {Throws("runner_timeout")}
      [] verdict = "failed" ->
           {Answers("rate_limited", FALSE), Throws("other")}
             \cup (IF provider = "codex" THEN {Throws("sandbox_violation")} ELSE {})
      [] verdict = "exited" ->
           {Throws("prompt_contract_violation"), Throws("other")}
             \cup (IF provider = "codex"
                   THEN {Answers(s, TRUE) : s \in Statuses} \cup {Throws("sandbox_violation")}
                   ELSE {Answers(s, n) : s \in Statuses \cup {"rate_limited"}, n \in BOOLEAN})
      [] OTHER -> {}
=============================================================================
