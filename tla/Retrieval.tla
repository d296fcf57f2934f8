------------------------------ MODULE Retrieval ------------------------------
(***************************************************************************)
(* Search over memory_item: the SQL of SearchRepo and of the vector        *)
(* engine, then the permission filter and the reranking in the server.     *)
(* Scores are percentages; embeddings are told apart by their similarity   *)
(* to the query, which an item carries.                                    *)
(***************************************************************************)
EXTENDS Naturals, Sequences, FiniteSets, SequencesExt, FiniteSetsExt

CONSTANTS
    Items,      \* the memory items, records of Item
    TopK,       \* top_k of RerankConfig
    MaxTopK,    \* MAX_TOP_K of the pre-filter
    EfSearch,   \* ef_search of HnswConfig
    Unset       \* an optional field without a value

\* A text as the parts that its lines "## ..." cut it into (TextPart of ContextPackage).
ItemText == Seq([head : STRING, length : Nat, apart : BOOLEAN,
                 signs : SUBSET (STRING \X STRING)])

\* The columns of memory_item that a search looks at. authority is the rank of
\* the level, 0 for L3; fresh is 2^(-age / half life), in percent. Without an embedding
\* the similarity is NULL, whatever is in the field. begun: valid_from is past. bytes is
\* the length of the text.
Item == [id : STRING, tenant : STRING, status : STRING, scope : STRING,
         privacy : STRING, subject : STRING, authority : 0..3, confidence : 0..100,
         importance : 0..100, fresh : 0..100, similarity : 0..100,
         embedded : BOOLEAN, begun : BOOLEAN, expired : BOOLEAN, bytes : Nat,
         parts : ItemText]

ASSUME ItemsAssumption ==
    /\ IsFiniteSet(Items) /\ Items \subseteq Item
    /\ TopK \in Nat
    /\ MaxTopK \in Nat /\ EfSearch \in Nat

\* SearchParams::new and the fields a caller sets. words: the query text is there
\* and not blank.
SearchParams(tenant) ==
    [tenant |-> tenant, words |-> FALSE, scopes |-> {}, subject |-> Unset,
     min_confidence |-> 0, limit |-> 20, offset |-> 0, embedding |-> FALSE]

\* What a caller may ask for. The database refuses a negative limit or offset.
SearchQuery ==
    [tenant : STRING, words : BOOLEAN, scopes : SUBSET STRING, subject : STRING \cup {Unset},
     min_confidence : 0..100, limit : Nat, offset : Nat, embedding : BOOLEAN]

\* The rows the WHERE clause leaves.
Matching(store, p) ==
    {i \in store : /\ i.tenant = p.tenant
                   /\ i.status = "active"
                   /\ p.scopes # {} => i.scope \in p.scopes
                   /\ p.subject # Unset => i.subject = p.subject
                   /\ i.confidence >= p.min_confidence
                   /\ ~i.expired}

AuthorityScore(i) == 40 + 20 * i.authority

NullScore(i, p) == p.embedding /\ ~i.embedded

\* The score read from a row: with an embedding, similarity, authority and freshness,
\* and 0 for NULL; without one, confidence and importance.
SqlScore(i, p) ==
    IF NullScore(i, p) THEN 0
    ELSE IF p.embedding
    THEN (i.similarity * 40 + AuthorityScore(i) * 20 + i.fresh * 10) \div 100
    ELSE (i.confidence + i.importance) \div 2

\* ORDER BY score DESC puts NULL before every number.
SqlRank(i, p) == IF NullScore(i, p) THEN 101 ELSE SqlScore(i, p)

\* Every order the database may return a set in: highest score first, ties in any.
Ordered(set, Score(_)) ==
    {s \in SetToSeqs(set) : \A j \in 1..(Len(s) - 1) : Score(s[j]) >= Score(s[j + 1])}

Page(s, p) == SubSeq(s, p.offset + 1, Min({p.offset + p.limit, Len(s)}))

\* hybrid_search. With query text the condition on search_tsv lacks its closing
\* parenthesis, which is an error of the statement: no answers.
hybrid_search(store, p) ==
    IF p.words THEN {}
    ELSE {[j \in DOMAIN Page(s, p) |->
             [item |-> Page(s, p)[j], score |-> SqlScore(Page(s, p)[j], p),
              by |-> IF p.embedding THEN "vector" ELSE "structured"]] :
          s \in Ordered(Matching(store, p), LAMBDA i : SqlRank(i, p))}

AllScopes == {"personal", "agent", "task", "team", "process", "factory", "enterprise"}

\* search_memories: no scopes in the request means all of them.
AllowedScopes(p) == IF p.scopes = {} THEN AllScopes ELSE p.scopes

\* Mutant: the scope is checked and the privacy class is not.
ScopeFilter(found, allowed) == RestrictValues(found, LAMBDA r : r.item.scope \in allowed)

\* permission_filter: nothing restricted is ever let through. What is left keeps its
\* place.
permission_filter(found, allowed) ==
    RestrictValues(found, LAMBDA r : r.item.scope \in allowed /\ r.item.privacy # "restricted")

\* outcome_score: a success rate counts when it is not zero, else the confidence
\* does, else a half. (The server passes a half for every row it searches.)
outcome_score(success, confidence) ==
    IF success # 0 THEN Min({success, 100})
    ELSE IF confidence > 0 THEN Min({confidence, 100}) ELSE 50

\* conflict_penalty: a tenth for each flag, at most a half.
conflict_penalty(flags) == Min({10 * flags, 50})

\* The weighted sum, in hundredths of a percent.
FinalScore(r, success, flags) ==
    ((r.score * 40 + AuthorityScore(r.item) * 30 + r.item.fresh * 15
        + outcome_score(success, r.item.confidence) * 15)
     * (100 - conflict_penalty(flags))) \div 100

\* The places sorted by their scores, highest first, stably: there is one such order.
ByScore(scores) ==
    {order \in SetToSeqs(DOMAIN scores) :
        \A i, j \in DOMAIN order : i < j =>
            \/ scores[order[i]] > scores[order[j]]
            \/ scores[order[i]] = scores[order[j]] /\ order[i] < order[j]}

\* The answer, the best TopK in that order.
rerank(found) ==
    {[j \in 1..Min({TopK, Cardinality(DOMAIN found)}) |-> found[order[j]]] :
        order \in ByScore([j \in DOMAIN found |-> FinalScore(found[j], 50, 0)])}

\* PostgresSearchService::search.
Search(store, p) ==
    UNION {rerank(permission_filter(found, AllowedScopes(p))) : found \in hybrid_search(store, p)}

-----------------------------------------------------------------------------
(* The vector engine *)

\* PreFilterBuilder; window is Unset, "valid" or "ever" (include_expired).
PreFilter(tenant, scopes, status, window, top_k) ==
    [tenant |-> tenant, scopes |-> scopes, status |-> status, window |-> window,
     top_k |-> top_k]

validate(f) == f.tenant # "" /\ f.scopes # {} /\ f.top_k \in 1..MaxTopK

\* The WHERE clause of build: tenant and scopes always, the status active unless
\* another is asked for. A time window leaves out what is not valid yet, and what has
\* expired unless that is wanted; the time is bound as a text without a cast, and the
\* clause read here as the comparison of times it is written as.
PreFiltered(store, f) ==
    {i \in store : /\ i.tenant = f.tenant
                   /\ i.scope \in f.scopes
                   /\ i.status = IF f.status = Unset THEN "active" ELSE f.status
                   /\ f.window # Unset => i.begun
                   /\ f.window = "valid" => ~i.expired}

\* What the plan of the statement finds: a scan of the table, every row that passes;
\* the HNSW index, what the filter leaves of ef_search candidates, which are near but
\* need not be the nearest. Rows without an embedding are not in the index.
Scanned(store, f) ==
    {PreFiltered(store, f)}
    \cup {c \in SUBSET {i \in PreFiltered(store, f) : i.embedded} : Cardinality(c) <= EfSearch}

\* ORDER BY embedding <=> $1: the nearest first, NULL last.
Nearness(i) == IF i.embedded THEN i.similarity + 1 ELSE 0

\* VectorSearchEngine::search after embedding the query: at most top_k of the rows
\* found. The privacy class is not looked at.
VectorSearch(store, f) ==
    IF ~validate(f) THEN {}
    ELSE UNION {{SubSeq(s, 1, Min({f.top_k, Len(s)})) : s \in Ordered(c, Nearness)} :
                   c \in Scanned(store, f)}

\* rank_by_similarity over candidates in memory: stable, at most top_k.
rank_by_similarity(s, top_k) ==
    {[j \in 1..Min({top_k, Len(s)}) |-> s[order[j]]] :
        order \in ByScore([j \in DOMAIN s |-> s[j].similarity])}
================================================================================
