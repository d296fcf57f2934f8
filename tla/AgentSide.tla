-------------------------------- MODULE AgentSide --------------------------------
(***************************************************************************)
(* The service as agents meet it: adapters/openclaw.rs and                 *)
(* adapters/deerflow.rs, the HTTP client of the experience repository      *)
(* (client/client.rs) and the tools of mcp_tools.rs. A request may be      *)
(* lost, refused, or carried out without its caller learning of it, also   *)
(* long after the caller has given up; the caller may call again.          *)
(***************************************************************************)
EXTENDS Naturals, Sequences, FiniteSets, FiniteSetsExt, SequencesExt

CONSTANTS
    Results,        \* the candidates an agent submits at the end of its task, in order
    MaxAttempts,    \* calls of an adapter
    ContextLimit,   \* DeerFlowAdapter::context_limit, in tokens
    AgentTexts,     \* contexts, as the sequence of the widths of their characters
    AgentBudgets,
    ToolCallers,    \* agents that use the task tools
    Unanswered

\* A candidate is told from the others, from a note and from the names of the scopes.
ASSUME ResultsAssumption ==
    /\ Results \in Seq(Range(Results))
    /\ \A i, j \in DOMAIN Results : Results[i] = Results[j] => i = j
    /\ {"note", "team", "personal"} \cap Range(Results) = {}

\* Widths are bytes; limits and budgets are unsigned.
ASSUME TextsAssumption ==
    /\ AgentTexts \subseteq Seq(Nat) /\ AgentBudgets \subseteq Nat /\ ContextLimit \in Nat

VARIABLES
    agent,      \* the adapter: its call, and how the last one ended
    outbound,   \* requests the service has not dealt with
    taken,      \* what the service has taken in or promoted to
    finished,   \* which operations have set the task to completed
    prompt,     \* the context last injected or read
    publisher,  \* the client's call
    shared,     \* the envelopes the repository has taken
    tool,       \* the last tool executed
    board       \* the task as the tools see it: row, copy in Redis, callers

agent_vars == <<agent, outbound, taken, finished, prompt, publisher, shared, tool, board>>

-----------------------------------------------------------------------------
(* The adapters: submissions, promotions, the end of a task. *)

Returns(op, ok) ==
    agent' = [agent EXCEPT !.at = "free", !.ended = [op |-> op, what |-> agent.what, ok |-> ok]]

\* One request on its way, under the timeout of the adapter.
Asks(what) == outbound' = outbound \cup {[n |-> agent.sent + 1, what |-> what]}

CanCall == agent.at = "free" /\ agent.calls < MaxAttempts

\* submit_results; a backend that does not support it has nothing to do.
submit_results(supports_submission) ==
    /\ CanCall
    /\ agent' = IF supports_submission
                THEN [agent EXCEPT !.at = "next", !.op = "results", !.what = 1, !.calls = @ + 1]
                ELSE [agent EXCEPT !.calls = @ + 1,
                                   !.ended = [op |-> "unsupported", what |-> 0, ok |-> TRUE]]
    /\ UNCHANGED <<outbound, taken, finished>>

SubmitNext ==
    /\ agent.at = "next" /\ agent.what <= Len(Results)
    /\ Asks(Results[agent.what])
    /\ agent' = [agent EXCEPT !.at = "wait", !.sent = @ + 1]
    /\ UNCHANGED <<taken, finished>>

\* OpenClawAdapter: one candidate; a promotion is refused at once for the narrowest scope.
submit_candidate_memory ==
    /\ CanCall
    /\ Asks("note")
    /\ agent' = [agent EXCEPT !.at = "wait", !.op = "one", !.what = "note",
                              !.calls = @ + 1, !.sent = @ + 1]
    /\ UNCHANGED <<taken, finished>>

promote_memory(target) ==
    /\ CanCall
    /\ IF target = "personal"
       THEN /\ agent' = [agent EXCEPT !.calls = @ + 1,
                                      !.ended = [op |-> "one", what |-> target, ok |-> FALSE]]
            /\ UNCHANGED outbound
       ELSE /\ Asks(target)
            /\ agent' = [agent EXCEPT !.at = "wait", !.op = "one", !.what = target,
                                      !.calls = @ + 1, !.sent = @ + 1]
    /\ UNCHANGED <<taken, finished>>

\* Everything is submitted: the task is completed if there is a task manager.
FinishTask ==
    /\ agent.at = "next" /\ agent.what > Len(Results)
    /\ \/ finished' = finished \cup {"results"} /\ Returns("results", TRUE)
       \/ UNCHANGED finished /\ \E ok \in BOOLEAN : Returns("results", ok)
    /\ UNCHANGED <<outbound, taken>>

\* The same of its own, without results.
complete_handoff ==
    /\ CanCall
    /\ \E ok \in BOOLEAN :
         /\ finished' = IF ok THEN finished \cup {"handoff"} ELSE finished
         /\ agent' = [agent EXCEPT !.calls = @ + 1,
                                   !.ended = [op |-> "handoff", what |-> 0, ok |-> ok]]
    /\ UNCHANGED <<outbound, taken>>

\* The answer to the request the adapter waits for.
Heard(r, ok) ==
    IF agent.at # "wait" \/ agent.sent # r.n THEN UNCHANGED agent
    ELSE IF ok /\ agent.op = "results" THEN agent' = [agent EXCEPT !.at = "next", !.what = @ + 1]
    ELSE Returns(agent.op, ok)

\* The service takes the request, and its answer may be lost; or refuses it; or the
\* request itself is lost.
ServiceTakes(r) ==
    /\ outbound' = outbound \ {r}
    /\ taken' = taken \cup {r.what}
    /\ Heard(r, TRUE) \/ UNCHANGED agent
    /\ UNCHANGED finished

ServiceRefuses(r) ==
    /\ outbound' = outbound \ {r}
    /\ Heard(r, FALSE) \/ UNCHANGED agent
    /\ UNCHANGED <<taken, finished>>

\* AdapterError::Timeout; the request may still be on its way.
AdapterTimesOut ==
    /\ agent.at = "wait"
    /\ Returns(agent.op, FALSE)
    /\ UNCHANGED <<outbound, taken, finished>>

-----------------------------------------------------------------------------
(* Contexts. *)

Width(text) ==
    LET upTo[n \in 0..Len(text)] == IF n = 0 THEN 0 ELSE upTo[n - 1] + text[n]
    IN  upTo[Len(text)]

\* Cut at the last boundary of a character within the limit.
limit_context(text, budget) ==
    LET limit == Min({budget, ContextLimit})
        fits == {n \in 0..Len(text) : Width(SubSeq(text, 1, n)) <= 4 * limit}
    IN  IF Width(text) \div 4 <= limit THEN text ELSE SubSeq(text, 1, Max(fits))

\* An error, a timeout and a backend that does not support it are an empty context.
inject_context(text, budget) ==
    /\ prompt.of = "none"
    /\ \E answered \in BOOLEAN :
         prompt' = [of |-> "injection", raw |-> text, budget |-> budget, answered |-> answered,
                    text |-> IF answered THEN limit_context(text, budget) ELSE <<>>]

ContextSources == {"Identity", "CanonicalUser", "SharedTask", "AgentPrivate", "EnterpriseMemory",
                   "HotContext", "BusinessState", "StructuredSearch", "VectorSearch", "GraphSearch"}

\* The name of a source in JSON, as the variant or in snake case; case does not matter.
Spelled(source, style) == [source |-> source, style |-> style]

parse_context_source(name) ==
    IF name.source \in ContextSources /\ name.style \in {"variant", "snake"}
    THEN {name.source} ELSE {}

\* The conflict flags are in the JSON but not in what is read from it.
assembled_context_to_json(ctx) ==
    [json |-> TRUE, text |-> ctx.text, token_count |-> ctx.token_count,
     sources_used |-> {Spelled(s, "variant") : s \in ctx.sources_used},
     degraded_sources |-> {Spelled(s, "variant") : s \in ctx.degraded_sources}]

\* A missing field is zero or empty; what is not JSON is taken for the text.
parse_context_response(raw) ==
    LET Read(names) == IF raw.json THEN UNION {parse_context_source(n) : n \in names} ELSE {}
    IN  [text |-> raw.text,
         token_count |-> IF raw.json /\ raw.token_count > 0 THEN raw.token_count ELSE raw.text \div 4,
         sources_used |-> Read(raw.sources_used),
         degraded_sources |-> Read(raw.degraded_sources)]

Raws(ctx) ==
    LET json == assembled_context_to_json(ctx)
    IN  {json, [json EXCEPT !.json = FALSE],
         [json EXCEPT !.sources_used = {Spelled(s, "snake") : s \in ctx.sources_used}
                                         \cup {Spelled("Weather", "variant")}]}

\* read_context_with_token: the token is resolved, the context asked for and parsed.
read_context_with_token(ctx) ==
    /\ prompt.of = "none"
    /\ \/ \E raw \in Raws(ctx) :
            prompt' = [of |-> "read", ctx |-> ctx, raw |-> raw, result |-> parse_context_response(raw)]
       \/ \E error \in {"identity", "api", "timeout"} : prompt' = [of |-> "error", error |-> error]

-----------------------------------------------------------------------------
(* ExperienceRepoClient. *)

\* publish_envelope: what is sent. A signature is told by the payload it covers.
Payload(e) == IF e.assets /\ e.payload = "null" THEN "assets" ELSE e.payload

Outgoing(e) ==
    [message_type |-> "publish", payload |-> Payload(e),
     signature |-> IF e.signature # "none" THEN e.signature ELSE Payload(e)]

\* Without a key that can sign, nothing is sent.
publish_envelope(e, key) ==
    /\ publisher.at = "idle"
    /\ publisher' =
         IF e.signature = "none" /\ key # "good"
         THEN [at |-> "done", kind |-> "share", sent |-> Unanswered, brought |-> e.signature,
               result |-> IF key = "none" THEN "no_key" ELSE "serialization", carried |-> FALSE]
         ELSE [at |-> "sent", kind |-> "share", sent |-> Outgoing(e), brought |-> e.signature]
    /\ UNCHANGED shared

\* fetch_experiences, search_v1, propose_v1, begin_use_v1, record_outcome_v1, health.
ClientCalls == {"fetch", "search", "propose", "begin", "outcome", "health"}

client_call(kind) ==
    /\ publisher.at = "idle"
    /\ publisher' = [at |-> "sent", kind |-> kind, sent |-> Unanswered, brought |-> "none"]
    /\ UNCHANGED shared

\* What a body that came with success is read as: full; JSON without the field that
\* is looked for; JSON in which it has another shape; no JSON.
Decoded(kind, body) ==
    IF kind = "health" \/ body = "full" \/ (kind = "search" /\ body = "bare") THEN "ok"
    ELSE IF kind \in {"fetch", "share"} \/ (kind # "begin" /\ body # "garbled") THEN "parse"
    ELSE "network"

\* The repository's side: an envelope is taken if its signature is over its payload.
Acceptable(call) == call.kind = "share" => call.sent.signature = call.sent.payload

Finish(result, carried) ==
    publisher' = [at |-> "done", kind |-> publisher.kind, sent |-> publisher.sent,
                  brought |-> publisher.brought, result |-> result, carried |-> carried]

RepositoryAnswers ==
    /\ publisher.at = "sent"
    /\ \/ /\ Acceptable(publisher)
          /\ shared' = IF publisher.kind = "share" THEN shared \cup {publisher.sent} ELSE shared
          /\ \/ \E body \in {"full", "bare", "odd", "garbled"} :
                  Finish(Decoded(publisher.kind, body), TRUE)
             \/ Finish("network", TRUE)
       \/ /\ UNCHANGED shared
          /\ Finish("http", FALSE) \/ Finish("network", FALSE)

\* The caller may do it all again.
CallAgain ==
    /\ publisher.at = "done"
    /\ publisher' = [at |-> "idle"]
    /\ UNCHANGED shared

-----------------------------------------------------------------------------
(* McpToolRegistry::execute_tool. A parameter is missing, of another type or null    *)
(* ("odd"), a blank string, some other string ("word"), or what it should be. The    *)
(* schemas of memory_type and source_type also offer strings the types do not have:  *)
(* those are words.                                                                  *)

ParamValues == {"missing", "odd", "blank", "word", "good"}

\* What each tool looks at, in order, and how it reads it.
exec_remember ==
    <<<<"content", "nonblank">>, <<"source_type", "enum">>, <<"memory_type", "enum">>, <<"scope", "enum">>>>
exec_recall == <<<<"memory_id", "uuid">>>>
exec_search == <<<<"scopes", "list">>>>
exec_get_context == <<<<"query", "nonblank">>, <<"intent", "optional">>>>
exec_update == <<<<"memory_id", "uuid">>>>
exec_forget == <<<<"mode", "enum">>, <<"memory_id", "uuid">>>>
exec_share == <<<<"query", "text">>, <<"target_agent", "text">>, <<"task_id", "optional">>>>
exec_promote == <<<<"memory_id", "uuid">>, <<"target_scope", "enum">>>>
exec_reflect ==
    <<<<"content", "nonblank">>, <<"source_type", "enum">>, <<"memory_type", "enum">>, <<"scope", "enum">>>>
exec_verify == <<<<"memory_id", "uuid">>, <<"verified_by", "nonblank">>>>
exec_user_get_context == <<<<"user_id", "text">>>>

\* forget_user is the mode user_data of forget.
ToolParams ==
    [remember |-> exec_remember, recall |-> exec_recall, search |-> exec_search,
     get_context |-> exec_get_context, update |-> exec_update, forget |-> exec_forget,
     forget_user |-> <<<<"user_id", "text">>>>, share |-> exec_share, promote |-> exec_promote,
     reflect |-> exec_reflect, verify |-> exec_verify, user_context |-> exec_user_get_context]

\* What the definition of the tool says the caller must supply.
RequiredParams ==
    [remember |-> {"content", "source_type", "memory_type", "scope"}, recall |-> {"memory_id"},
     search |-> {},
     get_context |-> {"query"}, update |-> {"memory_id"}, forget |-> {"mode"}, forget_user |-> {},
     share |-> {"query", "target_agent"}, promote |-> {"memory_id", "target_scope"},
     reflect |-> {"content"}, verify |-> {"memory_id", "verified_by"}, user_context |-> {"user_id"}]

Defaults ==
    [source_type |-> "agent_inferred", memory_type |-> "semantic", mode |-> "soft",
     scope |-> "personal", target_scope |-> "personal"]

parse_enum(name, param, value) ==
    CASE value = "good" -> "good"
      [] value = "missing" -> IF name = "reflect" /\ param = "scope" THEN "agent" ELSE Defaults[param]
      [] OTHER -> "refused"

\* A list loses what it cannot read; an optional value that cannot be read is none.
ReadParam(name, param, need, value) ==
    CASE need = "enum" -> parse_enum(name, param, value)
      [] need = "uuid" -> IF value = "good" THEN "good" ELSE "refused"
      [] need = "nonblank" -> IF value \in {"word", "good"} THEN value ELSE "refused"
      [] need = "text" -> IF value \in {"blank", "word", "good"} THEN value ELSE "refused"
      [] need = "optional" -> IF value = "good" THEN "good" ELSE "none"
      [] need = "list" -> IF value = "good" THEN "good" ELSE "all scopes"

\* What the service finds, or its error; recall compares the tenant of what it found.
Answer(name, found) ==
    CASE found = "error" -> [is_error |-> TRUE, result |-> "error"]
      [] found = "none" -> [is_error |-> name \in {"forget", "promote", "verify"}, result |-> "none"]
      [] found = "foreign" /\ name = "recall" -> [is_error |-> TRUE, result |-> "forbidden"]
      [] OTHER -> [is_error |-> FALSE, result |-> found]

execute_tool(name) ==
    /\ tool = Unanswered
    /\ \E given \in [1..Len(ToolParams[name]) -> ParamValues],
          found \in {"own", "foreign", "none", "error"} :
         LET params == ToolParams[name]
             read == [j \in DOMAIN given |-> ReadParam(name, params[j][1], params[j][2], given[j])]
             refused == \E j \in DOMAIN read : read[j] = "refused"
         IN tool' = [name |-> name, given |-> given, read |-> read, called |-> ~refused,
                     response |-> IF refused THEN [is_error |-> TRUE, result |-> "invalid params"]
                                  ELSE Answer(name, found)]

\* A name that is not registered, or a registry without state.
RejectTool(error) ==
    /\ tool = Unanswered
    /\ tool' = [name |-> "none", called |-> FALSE, response |-> [is_error |-> TRUE, result |-> error]]

-----------------------------------------------------------------------------
(* The task tools: an update is followed by a read through the copy in Redis. *)

Serving == [c \in ToolCallers |-> [at |-> "idle"]]

\* Readers that have the row and are about to store it hold an old one from now on.
Outdated(callers) ==
    [c \in ToolCallers |-> IF callers[c].at = "fill" THEN [callers[c] EXCEPT !.old = TRUE]
                           ELSE callers[c]]

exec_task_update_context(c) ==
    /\ board.callers[c].at = "idle"
    /\ \/ board' = [board EXCEPT !.row = @ \cup {c},
                                !.callers = [Outdated(@) EXCEPT ![c] = [at |-> "drop", op |-> "update"]]]
       \/ board' = [board EXCEPT !.callers[c] = [at |-> "answered", op |-> "failed"]]

\* Best effort: the copy that stays is an old one.
DropTaskCopy(c) ==
    /\ board.callers[c].at = "drop"
    /\ \E done \in BOOLEAN :
         board' = [board EXCEPT !.callers[c].at = "look",
                     !.copy = IF done \/ @ = Unanswered THEN Unanswered ELSE [@ EXCEPT !.old = TRUE]]

exec_task_get_context(c) ==
    /\ board.callers[c].at = "idle"
    /\ board' = [board EXCEPT !.callers[c] = [at |-> "look", op |-> "get"]]

\* A copy if there is one and Redis answers, else the row.
fetch_task(c) ==
    /\ board.callers[c].at = "look"
    /\ \/ /\ board.copy # Unanswered
          /\ board' = [board EXCEPT !.callers[c] =
                [at |-> "answered", op |-> @.op, context |-> board.copy.row, old |-> board.copy.old]]
       \/ board' = [board EXCEPT !.callers[c] =
                [at |-> "fill", op |-> @.op, context |-> board.row, old |-> FALSE]]
       \/ board' = [board EXCEPT !.callers[c] = [at |-> "answered", op |-> "failed"]]

FillTaskCopy(c) ==
    /\ board.callers[c].at = "fill"
    /\ \E done \in BOOLEAN :
         board' = [board EXCEPT !.callers[c].at = "answered",
                     !.copy = IF ~done THEN @ ELSE
                         [row |-> board.callers[c].context, old |-> board.callers[c].old]]

ToolReturns(c) ==
    /\ board.callers[c].at = "answered"
    /\ board' = [board EXCEPT !.callers[c] = [at |-> "idle"]]

-----------------------------------------------------------------------------

AgentInit ==
    /\ agent = [at |-> "free", op |-> "none", what |-> 0, calls |-> 0, sent |-> 0,
                ended |-> [op |-> "none", what |-> 0, ok |-> FALSE]]
    /\ outbound = {} /\ taken = {} /\ finished = {}
    /\ prompt = [of |-> "none"]
    /\ publisher = [at |-> "idle"] /\ shared = {}
    /\ tool = Unanswered
    /\ board = [row |-> {}, copy |-> Unanswered, callers |-> Serving]

AdapterSideNext ==
    /\ \/ \E supports \in BOOLEAN : submit_results(supports)
       \/ SubmitNext \/ FinishTask \/ AdapterTimesOut \/ complete_handoff \/ submit_candidate_memory
       \/ \E target \in {"personal", "team"} : promote_memory(target)
       \/ \E r \in outbound : ServiceTakes(r) \/ ServiceRefuses(r)
    /\ UNCHANGED <<prompt, publisher, shared, tool, board>>

Contexts == [text : {3, 9}, token_count : {0, 2},
             sources_used : SUBSET {"Identity", "CanonicalUser", "GraphSearch"},
             degraded_sources : SUBSET {"HotContext", "SharedTask"}]

PromptNext ==
    /\ \/ \E text \in AgentTexts, budget \in AgentBudgets : inject_context(text, budget)
       \/ \E ctx \in Contexts : read_context_with_token(ctx)
    /\ UNCHANGED <<agent, outbound, taken, finished, publisher, shared, tool, board>>

Envelopes == [assets : BOOLEAN, payload : {"null", "given"}, signature : {"none", "null", "given"}]

ClientNext ==
    /\ \/ \E e \in Envelopes, key \in {"none", "short", "good"} : publish_envelope(e, key)
       \/ \E kind \in ClientCalls : client_call(kind)
       \/ RepositoryAnswers \/ CallAgain
    /\ UNCHANGED <<agent, outbound, taken, finished, prompt, tool, board>>

ToolNext ==
    /\ \/ \E name \in DOMAIN ToolParams : execute_tool(name)
       \/ \E error \in {"unknown tool", "no state"} : RejectTool(error)
    /\ UNCHANGED <<agent, outbound, taken, finished, prompt, publisher, shared, board>>

TaskToolNext ==
    /\ \E c \in ToolCallers :
         \/ exec_task_update_context(c) \/ DropTaskCopy(c) \/ exec_task_get_context(c)
         \/ fetch_task(c) \/ FillTaskCopy(c) \/ ToolReturns(c)
    /\ UNCHANGED <<agent, outbound, taken, finished, prompt, publisher, shared, tool>>

-----------------------------------------------------------------------------

\* submit_results: whatever is lost, late or tried again, the service never has a
\* candidate without those before it in the list, a task that the results completed
\* has all of them, and a call that returned Ok was carried out.
ResultsHandedIn ==
    /\ \A i, j \in DOMAIN Results : (i < j /\ Results[j] \in taken) => Results[i] \in taken
    /\ "results" \in finished => Range(Results) \subseteq taken
    /\ (agent.ended.ok /\ agent.ended.op = "results") => Range(Results) \subseteq taken
    /\ (agent.ended.ok /\ agent.ended.op = "one") => agent.ended.what \in taken

\* inject_context: the text is a beginning of the context that fits the budget and the
\* adapter's limit, and it is the whole of it if that fits.
InjectionFits ==
    prompt.of = "injection" =>
        LET limit == Min({prompt.budget, ContextLimit})
        IN  /\ Width(prompt.text) \div 4 <= limit
            /\ IsPrefix(prompt.text, prompt.raw)
            /\ (prompt.answered /\ Width(prompt.raw) \div 4 <= limit) => prompt.text = prompt.raw

\* read_context_with_token: the sources that exec_get_context or the interface wrote into
\* JSON, under either spelling, are those the adapter reads, and so is a count of tokens.
ContextReadBack ==
    (prompt.of = "read" /\ prompt.raw.json) =>
        /\ prompt.result.sources_used = prompt.ctx.sources_used
        /\ prompt.result.degraded_sources = prompt.ctx.degraded_sources
        /\ prompt.ctx.token_count > 0 => prompt.result.token_count = prompt.ctx.token_count

\* publish_envelope and the v1 calls: what the client signed itself verifies, what the
\* repository took was sent as a publication, and Ok means that the call was carried out.
ClientTold ==
    /\ \A e \in shared : e.message_type = "publish" /\ e.signature = e.payload
    /\ (publisher.at = "sent" /\ publisher.kind = "share" /\ publisher.brought = "none") =>
          Acceptable(publisher)
    /\ (publisher.at = "done" /\ publisher.result = "ok") =>
          publisher.carried /\ (publisher.kind = "share" => publisher.sent \in shared)

\* execute_tool: a required parameter that cannot be read never reaches a service; one
\* that is missing does so only as the mildest of its values. A recall shows no memory
\* of another tenant.
ToolsCareful ==
    tool # Unanswered =>
        /\ tool.called => \A j \in DOMAIN tool.given :
             ToolParams[tool.name][j][1] \in RequiredParams[tool.name] =>
                /\ tool.given[j] # "odd"
                /\ tool.given[j] = "missing" =>
                      tool.read[j] \in {"agent_inferred", "semantic", "soft", "personal"}
        /\ (tool.name = "recall" /\ ~tool.response.is_error) => tool.response.result # "foreign"

\* exec_task_update_context: the context it answers with has the findings just added,
\* unless it is a copy that some reader had read before and stored after the update, or
\* that could not be dropped.
OwnFindingsShown ==
    \A c \in ToolCallers :
        (board.callers[c].at = "answered" /\ board.callers[c].op = "update") =>
            c \in board.callers[c].context \/ board.callers[c].old

AgentsSound ==
    ResultsHandedIn /\ InjectionFits /\ ContextReadBack /\ ClientTold /\ ToolsCareful /\ OwnFindingsShown
==================================================================================
