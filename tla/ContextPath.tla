------------------------------ MODULE ContextPath ------------------------------
(***************************************************************************)
(* A request for context: routed, fetched from six sources at once, each   *)
(* under the same timeout, put together within the token budget, packaged, *)
(* vetted and handed to another agent. And a search, which ends with the   *)
(* reranked page. The store may change between any two of the reads.       *)
(***************************************************************************)
EXTENDS ContextPackage, Retrieval

CONSTANTS
    Requests,       \* records of RouteRequest with blank, the query has no text
    Stores,         \* the contents of the store at the start, sets of Items
    UserProfiles,      \* sets of the fields a user profile has
    Tasks,          \* sets of the optional parts a shared task has
    Searches,       \* parameters of a search
    PreFilters,     \* filters of a vector search
    HotTexts,       \* cached texts, with their bytes and parts
    PackageBudgets, \* token budgets of packages
    User, Agent, Tenant, OtherTenant,
    MaxChanges      \* bound on the changes to the store

ASSUME ContextAssumption ==
    /\ Stores \subseteq SUBSET Items
    /\ Searches \subseteq SearchQuery
    /\ HotTexts \subseteq [bytes : Nat, parts : Seq(TextPart)]
    /\ \A t \in Items \cup HotTexts : t.parts # <<>> /\ t.bytes = WholeLength(t.parts)
    /\ \A r \in Requests : /\ r.query \in Queries
                           /\ r.intent \in Intent \cup {NoCap}
                           /\ r.max_tokens \in Nat \cup {NoCap}

VARIABLES
    pc,         \* where the request is
    store,      \* the rows of memory_item
    req,        \* the request and the delegated agent
    plan,       \* RoutingPlan
    got,        \* what each source gave: FetchOutcome
    ctx,        \* AssembledContext
    pkg,        \* ContextPackage
    found,      \* the answer to a search, with what was asked
    changes     \* changes to the store so far

context_vars == <<pc, store, req, plan, got, ctx, pkg, found, changes>>

Sources == {"hot", "canonical", "task", "agent", "enterprise", "business"}

\* FetchOutcome; pending until the source has answered or its time is up.
Pending == [state |-> "pending", segs |-> <<>>]
Ok(segs) == [state |-> "ok", segs |-> segs]
Empty == [state |-> "empty", segs |-> <<>>]
Degraded == [state |-> "degraded", segs |-> <<>>]

Nothing == [text |-> <<>>, compressed |-> FALSE, low |-> <<>>, conflicts |-> {}, token_count |-> 0]
NoPackage == [text |-> <<>>, budget |-> 0, highest |-> 0, conflicts |-> {}]
NoAnswer == [how |-> "none", asked |-> Unset, rows |-> <<>>, local |-> <<>>]

ContextTypeOK ==
    /\ pc \in {"idle", "fetching", "assembled", "packaged", "vetted", "shared",
               "refused", "answered", "failed"}
    /\ store \subseteq Items
    /\ \A s \in Sources : got[s].state \in {"pending", "ok", "empty", "degraded"}
    /\ changes \in 0..MaxChanges

ContextInit ==
    /\ pc = "idle"
    /\ store \in Stores
    /\ req = Unset
    /\ plan = Unset
    /\ got = [s \in Sources |-> Pending]
    /\ ctx = Nothing
    /\ pkg = NoPackage
    /\ found = NoAnswer
    /\ changes = 0

\* A row is archived, forgotten or written by somebody else.
ChangeStore(i) ==
    /\ changes < MaxChanges
    /\ pc = "fetching"
    /\ store' = IF i \in store THEN store \ {i} ELSE store \cup {i}
    /\ changes' = changes + 1
    /\ UNCHANGED <<pc, req, plan, got, ctx, pkg, found>>

-----------------------------------------------------------------------------
(* Segments of the sources *)

\* build_identity_segments: the caller, then the agent that acts for him.
IdentitySegments(agent) ==
    <<Segment("identity", "Identity", 100, 2, 100, FALSE, "identity", 24, PlainText(24))>>
    \o (IF agent = NoCap THEN <<>>
        ELSE <<Segment("delegated", "Identity", 100, 2, 100, FALSE, "delegated_agent",
                       19, PlainText(19))>>)

\* The text of the hot context is whatever was cached, up to a long one.
HotSegment(t) == Segment("hot", "Hot Context", 80, 1, 85, FALSE, NoCap, t.bytes, t.parts)

\* build_canonical_user_segments: a profile field has its own priority and length.
FieldPriority == [role |-> 90, position |-> 88, language |-> 82, timezone |-> 82,
                  preferences |-> 70]

CanonicalSegments(fields, authority) ==
    LET of(f) == IF f \notin fields THEN <<>>
                 ELSE <<Segment(f, "Canonical User", FieldPriority[f], authority,
                                100, FALSE, f, 14, PlainText(14))>>
    IN  of("role") \o of("position") \o of("language") \o of("timezone") \o of("preferences")

\* build_shared_task_segments: the goal, then the parts that are there.
TaskPriority == [owner |-> 86, findings |-> 78, decisions |-> 76]

TaskSegments(parts) ==
    LET of(p, authority, confidence) ==
            IF p \notin parts THEN <<>>
            ELSE <<Segment(p, "Shared Task", TaskPriority[p], authority, confidence,
                           FALSE, p, 22, PlainText(22))>>
    IN  <<Segment("goal", "Shared Task", 88, 2, 100, FALSE, "task_goal", 18, PlainText(18))>>
        \o of("owner", 2, 100) \o of("findings", 1, 90) \o of("decisions", 1, 90)

\* memory_item_to_segment.
ItemSegments(items, section, priority) ==
    [j \in DOMAIN items |->
        Segment(items[j].id, section, priority, items[j].authority, items[j].confidence,
                items[j].status = "candidate", items[j].subject, items[j].bytes,
                items[j].parts)]

-----------------------------------------------------------------------------
(* Fetching. A source that is not asked, or has nothing to ask with, is done  *)
(* at the first poll; the others answer, fail or run out of time.             *)

\* The test at the head of each fetch.
Asked(s, p, agent) ==
    CASE s = "hot" -> "hot_context" \in p.asks
      [] s = "canonical" -> "canonical_user" \in p.asks
      [] s = "task" -> "shared_task" \in p.asks
      [] s = "agent" -> agent # NoCap /\ p.intent # "chat"
      [] s = "enterprise" -> p.asks \cap {"vector_search", "graph_search"} # {}
      [] s = "business" -> "structured_search" \in p.asks

\* Without a task id there is nothing to ask for: degraded.
FirstPoll(s, p, r, agent) ==
    IF ~Asked(s, p, agent) THEN Empty
    ELSE IF s = "task" /\ r.task = NoCap THEN Degraded ELSE Pending

Outcome(s, o) ==
    /\ pc = "fetching"
    /\ got[s] = Pending
    /\ got' = [got EXCEPT ![s] = o]
    /\ UNCHANGED <<pc, store, req, plan, ctx, pkg, found, changes>>

fetch_hot == \/ Outcome("hot", Empty)
             \/ \E t \in HotTexts : Outcome("hot", Ok(<<HotSegment(t)>>))

fetch_canonical ==
    \/ Outcome("canonical", Empty)
    \/ \E fields \in UserProfiles, a \in {0, 2} :
          Outcome("canonical", Ok(CanonicalSegments(fields, a)))

fetch_shared_task ==
    \/ Outcome("task", Empty)
    \/ \E parts \in Tasks : Outcome("task", Ok(TaskSegments(parts)))

\* The tenant's active items, and of those the ones about the agent; whether they
\* have expired is not looked at.
fetch_agent_private ==
    LET own == {i \in store : /\ i.tenant = Tenant
                              /\ i.status = "active"
                              /\ i.subject = req.agent}
    IN  /\ pc = "fetching" /\ got["agent"] = Pending
        /\ \E items \in SetToSeqs(own) :
              Outcome("agent", Ok(ItemSegments(items, "Agent Private Memory", 75)))

\* A search that fails degrades its source.
Searched(s, p, section, priority) ==
    /\ got[s] = Pending
    /\ LET answers == hybrid_search(store, p)
       IN  \/ answers = {} /\ Outcome(s, Degraded)
           \/ \E rows \in answers :
                Outcome(s, Ok(ItemSegments([j \in DOMAIN rows |-> rows[j].item], section, priority)))

fetch_enterprise ==
    /\ pc = "fetching"
    /\ Searched("enterprise",
                [SearchParams(Tenant) EXCEPT !.words = ~req.route.blank, !.subject = User],
                "Enterprise Memory", 60)

\* Only structured matches are kept; without query text every match is one.
fetch_business_state ==
    /\ pc = "fetching"
    /\ Searched("business",
                [SearchParams(Tenant) EXCEPT !.words = ~req.route.blank, !.limit = 10],
                "Business State", 55)

\* The source fails, is not configured, or its timer runs out.
FetchFails(s) == Outcome(s, Degraded)

-----------------------------------------------------------------------------
(* The request *)

\* assemble_context and AssembleServiceImpl::assemble: the plan, and the fetches.
Ask(r, agent) ==
    /\ pc = "idle"
    /\ pc' = "fetching"
    /\ req' = [route |-> r, agent |-> agent]
    /\ plan' = route(r)
    /\ got' = [s \in Sources |-> FirstPoll(s, route(r), r, agent)]
    /\ UNCHANGED <<store, ctx, pkg, found, changes>>

\* All the segments in the order of assembly.
Collected ==
    IdentitySegments(req.agent) \o got["hot"].segs \o got["canonical"].segs
    \o got["task"].segs \o got["agent"].segs \o got["enterprise"].segs
    \o got["business"].segs

\* The fetches have joined.
Assemble ==
    /\ pc = "fetching"
    /\ \A s \in Sources : got[s] # Pending
    /\ ctx' = Assembled(Collected, resolve_budget(plan.tokens))
    /\ pc' = "assembled"
    /\ UNCHANGED <<store, req, plan, got, pkg, found, changes>>

\* An agent packages the context; it cites the memories as evidence, or none.
MemorySections == {"Agent Private Memory", "Enterprise Memory", "Business State"}
Citable == {g.authority : g \in {ctx.text[i] : i \in {j \in DOMAIN ctx.text :
                                            ctx.text[j].section \in MemorySections}}}

Package(budget, cites) ==
    /\ pc = "assembled"
    /\ IF ctx.text = <<>>
       THEN pc' = "refused" /\ UNCHANGED pkg
       ELSE pc' = "packaged" /\ pkg' = build(ctx, IF cites THEN Citable ELSE {}, budget)
    /\ UNCHANGED <<store, req, plan, got, ctx, found, changes>>

Vet(strict) ==
    /\ pc = "packaged"
    /\ IF ScanVerdict(pkg, strict) = "blocked"
       THEN pc' = "refused" /\ UNCHANGED pkg
       ELSE pc' = "vetted" /\ pkg' = validate_for_sharing(pkg, ctx.low)
    /\ UNCHANGED <<store, req, plan, got, ctx, found, changes>>

\* The policy is checked before delivery to an agent of some tenant.
Share(requester) ==
    /\ pc = "vetted"
    /\ pc' = IF PolicyViolations(pkg, Tenant, requester, 1) = {} THEN "shared" ELSE "refused"
    /\ found' = [NoAnswer EXCEPT !.asked = requester]
    /\ UNCHANGED <<store, req, plan, got, ctx, pkg, changes>>

\* search_memories.
SearchMemories(p) ==
    /\ pc = "idle"
    /\ IF hybrid_search(store, p) = {}
       THEN /\ pc' = "failed"
            /\ found' = [NoAnswer EXCEPT !.how = "hybrid", !.asked = p]
       ELSE /\ pc' = "answered"
            /\ \E rows \in Search(store, p) :
                  found' = [how |-> "hybrid", asked |-> p, rows |-> rows, local |-> <<>>]
    /\ UNCHANGED <<store, req, plan, got, ctx, pkg, changes>>

\* The vector engine, over the table and over the same candidates in memory, which all
\* have an embedding. The query may not be embedded, or the statement fail.
Candidates(f) == {i \in PreFiltered(store, f) : i.embedded}

SearchVectors(f) ==
    /\ pc = "idle"
    /\ \/ pc' = "failed" /\ UNCHANGED found
       \/ /\ validate(f)
          /\ pc' = "answered"
          /\ \E rows \in VectorSearch(store, f), s \in SetToSeqs(Candidates(f)) :
                \E local \in rank_by_similarity(s, f.top_k) :
                   found' = [how |-> "vector", asked |-> f, rows |-> rows, local |-> local]
    /\ UNCHANGED <<store, req, plan, got, ctx, pkg, changes>>

ContextNext ==
    \/ \E i \in Items : ChangeStore(i)
    \/ \E r \in Requests, a \in {NoCap, Agent} : Ask(r, a)
    \/ fetch_hot \/ fetch_canonical \/ fetch_shared_task
    \/ fetch_agent_private \/ fetch_enterprise \/ fetch_business_state
    \/ \E s \in Sources : FetchFails(s)
    \/ Assemble
    \/ \E b \in PackageBudgets, cites \in BOOLEAN : Package(b, cites)
    \/ \E strict \in BOOLEAN : Vet(strict)
    \/ \E t \in {Tenant, OtherTenant} : Share(t)
    \/ \E p \in Searches : SearchMemories(p)
    \/ \E f \in PreFilters : SearchVectors(f)

-----------------------------------------------------------------------------
(* Properties. *)

\* assemble_within_budget: the text never takes more tokens than the plan allows,
\* however the sources answered; what is left out would not have fitted beside the
\* more important segments that are in; and compressed says whether anything was.
BudgetKept ==
    pc = "assembled" =>
        LET segs == Marked(Collected)
            budget == resolve_budget(plan.tokens)
            inside == DOMAIN ctx.text
            ahead(j) == {i \in inside : Before(segs, i, j)}
            room(j) == SumOver(TextCosts(segs), ahead(j))
                       + SumOver(HeaderCosts, {segs[i].section : i \in ahead(j) \cup {j}})
        IN  /\ ctx.token_count <= budget
            /\ ctx.compressed <=> inside # DOMAIN segs
            /\ \A j \in DOMAIN segs \ inside :
                  room(j) + Bytes(segs[j]) + 1 > CharsPerToken * budget

\* What reaches another agent: the tenant's own, free of what the guard blocks,
\* with every unverified text marked and every field two sources disagree on
\* flagged, whatever was left out on the way and whatever changed in the store. Only
\* in a package that had to be shrunk may an unverified text stand without its marker,
\* from a line "## ..." of its own on: its beginning, with the marker, was dropped.
SharedVetted ==
    pc = "shared" =>
        /\ found.asked = Tenant
        /\ \A s \in SignsIn(pkg.text) : s[2] # "high"
        /\ \A i \in DOMAIN pkg.text :
              /\ IsLow(pkg.text[i]) /\ 1 \in pkg.text[i].kept => pkg.text[i].marks > 0
              /\ 1 \notin pkg.text[i].kept => TextTokens(ctx.text) > pkg.budget
        /\ \A i, j \in DOMAIN pkg.text :
              /\ pkg.text[i].field = pkg.text[j].field
              /\ pkg.text[i].field # NoCap
              /\ pkg.text[i].section # pkg.text[j].section
              /\ pkg.text[i].text # pkg.text[j].text
              => \E c \in pkg.conflicts : c.field = pkg.text[i].field

\* One item beats another: no worse in any factor, better in one.
Beats(a, b) ==
    /\ a.score >= b.score /\ a.item.authority >= b.item.authority /\ a.item.fresh >= b.item.fresh
    /\ a.score > b.score \/ a.item.authority > b.item.authority \/ a.item.fresh > b.item.fresh

\* A search returns only what the caller may see, live and of his tenant; nothing
\* stands before a row that beats it. A vector search may miss rows, but repeats none,
\* stays within its filter, and has the nearer first; the ranking in memory of the
\* same candidates has a row as near or nearer at every place.
SearchSound ==
    pc = "answered" =>
        LET rows == found.rows
            asked == found.asked
        IN  IF found.how = "hybrid"
            THEN /\ Len(rows) <= TopK
                 /\ \A i \in DOMAIN rows :
                       /\ rows[i].item.tenant = asked.tenant
                       /\ rows[i].item.privacy # "restricted"
                       /\ rows[i].item.scope \in AllowedScopes(asked)
                       /\ rows[i].item.status = "active" /\ ~rows[i].item.expired
                       /\ \A j \in 1..(i - 1) : ~Beats(rows[i], rows[j])
            ELSE /\ Len(rows) <= asked.top_k
                 /\ \A i \in DOMAIN rows :
                       /\ rows[i] \in PreFiltered(store, asked)
                       /\ \A j \in 1..(i - 1) : /\ rows[j] # rows[i]
                                                /\ Nearness(rows[j]) >= Nearness(rows[i])
                       /\ rows[i].embedded =>
                             /\ i \in DOMAIN found.local
                             /\ found.local[i].similarity >= rows[i].similarity
================================================================================
