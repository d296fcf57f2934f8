---------------------------- MODULE EngineAdapters ----------------------------
(***************************************************************************)
(* engines/mem0.rs, engines/cognee.rs and engines/graphiti.rs: memories    *)
(* mirrored to a service over HTTP, and resilience.rs, which keeps the     *)
(* health of the engines. A call sends its requests one after the other    *)
(* and waits for each. A request or its answer may be lost, an answer come *)
(* after the timeout, and a request take effect long after its caller has  *)
(* given up; a service may answer first and do the work later; the caller  *)
(* above may call again.                                                   *)
(***************************************************************************)
EXTENDS Naturals, Sequences, FiniteSets, TLC

CONSTANTS
    Connections,     \* calls in flight
    Mirrored,        \* memory ids
    MaxEngineCalls,  \* calls in a behaviour
    Monitors,        \* reports to the ResilienceManager in flight
    MaxEvents,
    Silence          \* no answer yet

VARIABLES
    engine,       \* the engine of this behaviour
    remote,       \* what the service holds: the dataset, the copies of a memory, ready: in
                  \* the graph; queued: taken in, still to be done: <<memory, call>>
    wire,         \* requests sent: [call, to, op, memory, answer]
    call,         \* the calls in flight
    calls,        \* calls so far
    confirmed,    \* answered Ok: [number, op, memory, open]
    health,       \* engine_health
    monitor,      \* reports: health written, event not yet recorded
    events_out,   \* what the sink has got
    outcome,      \* the last answer of a search or of a health check
    crossed       \* have two reports been under way at once?

adapter_vars == <<engine, remote, wire, call, calls, confirmed>>
resilience_vars == <<health, monitor, events_out, crossed>>
engines_vars == <<adapter_vars, resilience_vars, outcome>>

EngineNames == {"mem0", "cognee", "graphiti"}

Free == [at |-> "free"]

-----------------------------------------------------------------------------
(* The services. *)

\* Mem0 and Cognee take a text again and again and under ids of their own; Graphiti
\* knows an episode by its source, which is the memory.
Add(m) ==
    CASE m.to = "mem0" -> [status |-> "ok", remote |-> [remote EXCEPT !.copies[m.memory] = @ + 1]]
      [] m.to = "graphiti" ->
           [status |-> IF remote.copies[m.memory] > 0 THEN "conflict" ELSE "ok",
            remote |-> [remote EXCEPT !.copies[m.memory] = 1]]
      [] m.to = "cognee" ->
           IF remote.dataset THEN [status |-> "ok", remote |-> [remote EXCEPT !.copies[m.memory] = @ + 1]]
           ELSE [status |-> "not_found", remote |-> remote]

CreateDataset(m) ==
    [status |-> IF remote.dataset THEN "conflict" ELSE "ok", remote |-> [remote EXCEPT !.dataset = TRUE]]

\* Cognee answers, and builds the graph of the texts it has later on.
Cognify(m) ==
    [status |-> "ok",
     remote |-> [remote EXCEPT !.queued = @ \cup {<<i, Silence>> : i \in {j \in Mirrored : remote.copies[j] > 0}}]]

\* The dataset of a tenant is named after the tenant.
TenantName == "tenant"

\* What the id stands for in the URL of a delete. Only episodes and the dataset were
\* stored under theirs.
delete_url == [mem0 |-> "mem0_id", cognee |-> "dataset", graphiti |-> "episode"]

RemoveCopy(m) ==
    IF delete_url[m.to] = "episode" /\ m.memory \in Mirrored /\ remote.copies[m.memory] > 0
    THEN [status |-> "ok", remote |-> [remote EXCEPT !.copies[m.memory] = 0]]
    ELSE IF delete_url[m.to] = "dataset" /\ m.memory = TenantName /\ remote.dataset
    THEN [status |-> "ok",
          remote |-> [remote EXCEPT !.dataset = FALSE, !.copies = [i \in Mirrored |-> 0], !.ready = {}]]
    ELSE [status |-> "not_found", remote |-> remote]

Effect(m) ==
    CASE m.op = "add" -> Add(m)
      [] m.op = "create_dataset" -> CreateDataset(m)
      [] m.op = "cognify" -> Cognify(m)
      [] m.op = "remove" -> RemoveCopy(m)

\* A request takes effect, once, whether or not anybody still waits; Graphiti may take
\* an episode in and store it later (202); or the request fails.
Serve(m) ==
    /\ m.answer = Silence
    /\ \/ /\ remote' = Effect(m).remote
          /\ wire' = (wire \ {m}) \cup {[m EXCEPT !.answer = Effect(m).status]}
       \/ /\ m.to = "graphiti" /\ m.op = "add"
          /\ remote' = [remote EXCEPT !.queued = @ \cup {<<m.memory, m.call>>}]
          /\ wire' = (wire \ {m}) \cup {[m EXCEPT !.answer = "ok"]}
       \/ /\ wire' = (wire \ {m}) \cup {[m EXCEPT !.answer = "error"]}
          /\ UNCHANGED remote
    /\ UNCHANGED <<engine, call, calls, confirmed>>

\* The service does what it has taken in: a text that it still has goes into the
\* graph, an episode is stored.
Work(q) ==
    /\ remote' =
         IF engine = "cognee"
         THEN [remote EXCEPT !.queued = @ \ {q},
                             !.ready = IF remote.copies[q[1]] > 0 THEN @ \cup {q[1]} ELSE @]
         ELSE [remote EXCEPT !.queued = @ \ {q}, !.copies[q[1]] = 1]
    /\ UNCHANGED <<engine, wire, call, calls, confirmed>>

-----------------------------------------------------------------------------
(* The adapters. *)

\* Cognee's write: the dataset of the tenant, the text, the request for the graph. The
\* texts are handed over, but nobody asks for the graph, as a mutant.
WithoutCognify == <<"create_dataset", "add">>

cognee_write == <<"create_dataset", "add", "cognify">>

mem0_write == <<"add">>

graphiti_write == <<"add">>

\* The requests of a call.
Requests(op) ==
    IF op = "delete" THEN <<"remove">>
    ELSE CASE engine = "mem0" -> mem0_write
           [] engine = "cognee" -> cognee_write
           [] engine = "graphiti" -> graphiti_write

\* The statuses a request is content with: a success, and
\* a dataset that is there already ...
ensure_dataset(request) == IF request = "create_dataset" THEN {"conflict"} ELSE {}

\* ... an episode that is there already ...
write_episode(request) == IF request = "add" /\ engine = "graphiti" THEN {"conflict"} ELSE {}

\* ... and the deletion of what is not there.
delete(request) == IF request = "remove" THEN {"not_found"} ELSE {}

Accepted(request) == {"ok"} \cup ensure_dataset(request) \cup write_episode(request) \cup delete(request)

\* Writes of a memory that have not taken effect, on their way or taken in.
Open(memory) ==
    {m.call : m \in {w \in wire : w.op = "add" /\ w.memory = memory
                                   /\ (w.answer = Silence \/ <<memory, w.call>> \in remote.queued)}}

Send(c, number, op, memory, step, open) ==
    /\ wire' = wire \cup {[call |-> <<number, step>>, to |-> engine, op |-> Requests(op)[step],
                           memory |-> memory, answer |-> Silence]}
    /\ call' = [call EXCEPT ![c] = [at |-> "waiting", number |-> number, op |-> op,
                                    memory |-> memory, step |-> step, open |-> open]]

CallEngine(c, op, memory) ==
    /\ call[c] = Free /\ calls < MaxEngineCalls
    /\ calls' = calls + 1
    /\ Send(c, calls + 1, op, memory, 1, Open(memory))
    /\ UNCHANGED <<engine, remote, confirmed>>

\* The answer: on with the next request, or Ok, or the error of the status.
Answered(c) ==
    /\ call[c].at = "waiting"
    /\ \E m \in wire :
         /\ m.call = <<call[c].number, call[c].step>> /\ m.answer # Silence
         /\ IF m.answer \notin Accepted(m.op)
            THEN call' = [call EXCEPT ![c] = Free] /\ UNCHANGED <<wire, confirmed>>
            ELSE IF call[c].step < Len(Requests(call[c].op))
            THEN Send(c, call[c].number, call[c].op, call[c].memory, call[c].step + 1, call[c].open)
                 /\ UNCHANGED confirmed
            ELSE /\ confirmed' = confirmed \cup {[number |-> call[c].number, op |-> call[c].op,
                                                memory |-> call[c].memory, open |-> call[c].open]}
                 /\ call' = [call EXCEPT ![c] = Free]
                 /\ UNCHANGED wire
    /\ UNCHANGED <<engine, remote, calls>>

\* The wait ends without an answer, and so does the call; the request stays on its way.
TimesOut(c) ==
    /\ call[c].at = "waiting"
    /\ call' = [call EXCEPT ![c] = Free]
    /\ UNCHANGED <<engine, remote, wire, calls, confirmed>>

\* A request that never arrives.
Lost(m) ==
    /\ m.answer = Silence
    /\ wire' = wire \ {m}
    /\ UNCHANGED <<engine, remote, call, calls, confirmed>>

AdapterNext ==
    /\ \/ \E c \in Connections :
            \/ \E op \in {"write", "delete"}, i \in Mirrored : CallEngine(c, op, i)
            \/ engine = "cognee" /\ CallEngine(c, "delete", TenantName)
            \/ Answered(c) \/ TimesOut(c)
       \/ \E m \in wire : Serve(m) \/ Lost(m)
       \/ \E q \in remote.queued : Work(q)
    /\ UNCHANGED <<resilience_vars, outcome>>

-----------------------------------------------------------------------------
(* search and health, which leave the service as it is. *)

\* What may become of a request.
Response == {"ok", "unreadable", "client_error", "server_error", "timeout", "refused"}

\* A row of the service, by the fields that it has.
Row == [id : {Silence, "a", "b"}, score : {Silence, 7}]

Found(rows, results) == [op |-> "search", error |-> "none", raw |-> rows, results |-> results]

NotFound(kind) == [op |-> "search", error |-> kind]

ScoreOf(row, default) == IF row.score = Silence THEN default ELSE row.score

\* The id is no option in Mem0Memory: a row without one makes the answer unreadable.
mem0_search(rows, response) ==
    IF response = "timeout" THEN NotFound("timeout")
    ELSE IF response # "ok" \/ \E i \in DOMAIN rows : rows[i].id = Silence THEN NotFound("internal")
    ELSE Found(rows, [i \in DOMAIN rows |-> [id |-> <<rows[i].id, 0>>, score |-> ScoreOf(rows[i], 0)]])

\* A row without an id gets one that is new.
extract_search_results(row, position) ==
    [id |-> IF row.id = Silence THEN <<"new", position>> ELSE <<row.id, 0>>,
     score |-> ScoreOf(row, 0)]

cognee_search(rows, response) ==
    IF response = "timeout" THEN NotFound("timeout")
    ELSE IF response # "ok" THEN NotFound("internal")
    ELSE Found(rows, [i \in DOMAIN rows |-> extract_search_results(rows[i], i)])

\* A timeout is an error like others; the default id is empty, the score 0.5.
graphiti_search(rows, response) ==
    IF response # "ok" THEN NotFound("internal")
    ELSE Found(rows, [i \in DOMAIN rows |->
                        [id |-> <<IF rows[i].id = Silence THEN "" ELSE rows[i].id, 0>>,
                         score |-> ScoreOf(rows[i], 5)]])

search(rows, response) ==
    CASE engine = "mem0" -> mem0_search(rows, response)
      [] engine = "cognee" -> cognee_search(rows, response)
      [] engine = "graphiti" -> graphiti_search(rows, response)

check_health(response) ==
    [op |-> "health", response |-> response,
     health |-> CASE response \in {"ok", "unreadable"} -> "healthy"
                  [] response \in {"client_error", "server_error"} -> "degraded"
                  [] response \in {"timeout", "refused"} -> "unreachable"]

LookupNext ==
    /\ outcome = Silence
    /\ \E response \in Response :
         \/ \E n \in 0..2 : \E rows \in [1..n -> Row] : outcome' = search(rows, response)
         \/ outcome' = check_health(response)
    /\ UNCHANGED <<adapter_vars, resilience_vars>>

-----------------------------------------------------------------------------
(* ResilienceManager: the health under its lock, then the event. *)

Report(r, e, event, status) ==
    /\ monitor[r] = Free
    /\ Len(events_out) + Cardinality({q \in Monitors : monitor[q] # Free}) < MaxEvents
    /\ health' = [health EXCEPT ![e] = status]
    /\ monitor' = [monitor EXCEPT ![r] = [at |-> "record", engine |-> e, event |-> event]]
    /\ crossed' = (crossed \/ \E q \in Monitors : monitor[q] # Free)
    /\ UNCHANGED events_out

report_timeout(r, e) == Report(r, e, "timeout", "degraded")

report_circuit_open(r, e) == Report(r, e, "circuit_open", "unreachable")

report_recovered(r, e) == Report(r, e, "recovered", "healthy")

\* The health is left alone.
record_slow_query(r, e) ==
    /\ monitor[r] = Free
    /\ Len(events_out) + Cardinality({q \in Monitors : monitor[q] # Free}) < MaxEvents
    /\ monitor' = [monitor EXCEPT ![r] = [at |-> "record", engine |-> e, event |-> "slow_query"]]
    /\ crossed' = (crossed \/ \E q \in Monitors : monitor[q] # Free)
    /\ UNCHANGED <<health, events_out>>

record(r) ==
    /\ monitor[r] # Free
    /\ events_out' = Append(events_out, <<monitor[r].engine, monitor[r].event>>)
    /\ monitor' = [monitor EXCEPT ![r] = Free]
    /\ UNCHANGED <<health, crossed>>

should_skip(e) == health[e] = "unreachable"

healthy_engines == {e \in EngineNames : health[e] = "healthy"}

ResilienceNext ==
    /\ \E r \in Monitors :
         \/ \E e \in {"mem0", "cognee"} :
              \/ report_timeout(r, e) \/ report_circuit_open(r, e)
              \/ report_recovered(r, e) \/ record_slow_query(r, e)
         \/ record(r)
    /\ UNCHANGED <<adapter_vars, outcome>>

EnginesInit ==
    /\ engine \in EngineNames
    /\ remote = [dataset |-> FALSE, copies |-> [i \in Mirrored |-> 0], ready |-> {}, queued |-> {}]
    /\ wire = {} /\ call = [c \in Connections |-> Free] /\ calls = 0 /\ confirmed = {}
    /\ health = [e \in EngineNames |-> "unknown"]
    /\ monitor = [r \in Monitors |-> Free] /\ events_out = <<>> /\ crossed = FALSE
    /\ outcome = Silence

-----------------------------------------------------------------------------

Sent(op, i) == {m \in wire : m.op = op /\ m.memory = i}

\* write: after Ok the service has the memory or has taken it in, and in Cognee it is in
\* the graph or the graph is to be built with it, whatever was lost, late or called
\* again, as long as no delete was called that takes it away. Ok does not say when the
\* work is done, nor that a service does not lose what it took in. Graphiti holds a
\* memory once.
WritesStand ==
    \A i \in Mirrored :
        /\ ((\E k \in confirmed : k.op = "write" /\ k.memory = i)
             /\ Sent("remove", i) = {} /\ (engine = "cognee" => Sent("remove", TenantName) = {})) =>
              /\ remote.copies[i] > 0 \/ (engine = "graphiti" /\ \E q \in remote.queued : q[1] = i)
              /\ engine = "cognee" => i \in remote.ready \/ <<i, Silence>> \in remote.queued
        /\ engine = "graphiti" => remote.copies[i] <= 1

\* delete, for the engine that knows a memory by its id: once answered Ok, the memory
\* is gone unless a write of it was called later or had not been carried out yet, be it
\* on its way or taken in.
DeletesStand ==
    engine = "graphiti" =>
        \A k \in confirmed : k.op = "delete" =>
            \/ remote.copies[k.memory] = 0
            \/ \E m \in Sent("add", k.memory) : m.call[1] > k.number \/ m.call \in k.open

\* ResilienceManager: when every report has been recorded and none crossed another, an
\* engine is skipped exactly if the last change of its health was an open circuit,
\* and counts as healthy exactly if it was a recovery.
SkippedAsTold ==
    ((\A r \in Monitors : monitor[r] = Free) /\ ~crossed) =>
        \A e \in EngineNames :
            LET told == {i \in DOMAIN events_out : events_out[i][1] = e /\ events_out[i][2] # "slow_query"}
                last(event) == \E i \in told : events_out[i][2] = event /\ \A j \in told : j <= i
            IN  /\ should_skip(e) <=> last("circuit_open")
                /\ e \in healthy_engines <=> last("recovered")

\* search: a row of the service is a result, with the score it came with, and Cognee's
\* results are told apart where the service tells its rows apart.
ResultsKept ==
    (outcome # Silence /\ outcome.op = "search" /\ outcome.error = "none") =>
        /\ Len(outcome.results) = Len(outcome.raw)
        /\ \A i, j \in DOMAIN outcome.raw :
             /\ outcome.raw[i].score # Silence => outcome.results[i].score = outcome.raw[i].score
             /\ (i # j /\ engine = "cognee" /\ outcome.results[i].id = outcome.results[j].id)
                   => outcome.raw[i].id = outcome.raw[j].id /\ outcome.raw[i].id # Silence

EnginesSound == ResultsKept /\ WritesStand /\ DeletesStand /\ SkippedAsTold
=================================================================================
