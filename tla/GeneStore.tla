-------------------------------- MODULE GeneStore --------------------------------
(***************************************************************************)
(* store.rs: SqliteGeneStore, the genes and capsules of the first          *)
(* generation; replay_hook.rs, which asks it for a gene to replay and      *)
(* feeds the outcome back; and the adapters that carry a gene on.          *)
(*                                                                         *)
(* A method holds the connection's mutex throughout, so it is one step;    *)
(* its statements are not in a transaction, so an error may cut            *)
(* upsert_gene short. Confidence and quality are in thousandths.           *)
(***************************************************************************)
EXTENDS Naturals, Sequences, FiniteSets, SequencesExt

CONSTANTS
    GeneIds, CapsuleIds,
    GeneDefs,     \* what callers write: genes
    Queries,      \* GeneQuery values
    MaxCalls,     \* calls of a behaviour
    Nothing

Gene == [tags : SUBSET STRING, confidence : 0..1000, quality : 0..1000, use_count : Nat,
         success_count : Nat, steps : Nat, checks : Nat]

GeneQuery == [min_confidence : 0..1000, limit : Nat, required_tags : Seq(STRING),
              words : SUBSET STRING]

ASSUME GeneAssumption ==
    /\ GeneDefs \subseteq Gene
    /\ \A q \in Queries : /\ q.min_confidence \in 0..1000 /\ q.limit \in Nat
                          /\ q.required_tags \in Seq(STRING)
    /\ Nothing \notin GeneIds

STALE_THRESHOLD == 300
DECAY_PER_QUERY == 2
BOOST_ON_SUCCESS == 50
PENALTY_ON_FAILURE == 80

VARIABLES
    genes,       \* id -> row
    gene_tags,   \* <<id, tag>>
    cut,         \* ids whose last upsert stopped between its statements
    capsules,    \* id -> [gene, confidence, use_count, success_count]
    found,       \* the last search: its query, the rows it was made over, what it returned
    replay_metrics,     \* ReplayMetrics
    candidate,   \* the gene the agent replays
    skill,       \* the last gene carried on, and the skill projected from it
    gene_calls

gene_vars == <<genes, gene_tags, cut, capsules, found, replay_metrics, candidate, skill, gene_calls>>

Call == gene_calls < MaxCalls /\ gene_calls' = gene_calls + 1

With(f, id, row) == [x \in (DOMAIN f) \cup {id} |-> IF x = id THEN row ELSE f[x]]

Lower(a, b) == IF a < b THEN a ELSE b

TagRows(id, tags) == {id} \X tags

OtherTags(id) == {e \in gene_tags : e[1] # id}

-----------------------------------------------------------------------------
(* Genes. *)

\* The row is replaced, counters included, and its tags are indexed anew.
upsert_gene(id, gene) ==
    /\ Call
    /\ genes' = With(genes, id, gene)
    /\ gene_tags' = OtherTags(id) \cup TagRows(id, gene.tags)
    /\ cut' = cut \ {id}
    /\ UNCHANGED <<capsules, found, replay_metrics, candidate, skill>>

\* The statements after the first fail: the old tags stay, or some of the new are missing.
UpsertCut(id, gene) ==
    /\ Call
    /\ genes' = With(genes, id, gene)
    /\ \/ UNCHANGED gene_tags
       \/ \E some \in (SUBSET gene.tags) \ {gene.tags} :
             gene_tags' = OtherTags(id) \cup TagRows(id, some)
    /\ cut' = cut \cup {id}
    /\ UNCHANGED <<capsules, found, replay_metrics, candidate, skill>>

\* Only the row is removed, as a mutant.
delete_row_only(id) ==
    /\ Call /\ id \in DOMAIN genes
    /\ genes' = [x \in (DOMAIN genes) \ {id} |-> genes[x]]
    /\ cut' = cut \ {id}
    /\ UNCHANGED <<gene_tags, capsules, found, replay_metrics, candidate, skill>>

\* foreign_keys = ON: the tags and the capsules of a gene go with it.
delete_gene(id) ==
    /\ Call /\ id \in DOMAIN genes
    /\ genes' = [x \in (DOMAIN genes) \ {id} |-> genes[x]]
    /\ gene_tags' = OtherTags(id)
    /\ capsules' = [c \in {x \in DOMAIN capsules : capsules[x].gene # id} |-> capsules[c]]
    /\ cut' = cut \ {id}
    /\ UNCHANGED <<found, replay_metrics, candidate, skill>>

\* An UPDATE of no row is no error.
Outcome(row, success) ==
    IF success
    THEN [row EXCEPT !.use_count = @ + 1, !.success_count = @ + 1,
                     !.confidence = Lower(1000, @ + BOOST_ON_SUCCESS)]
    ELSE [row EXCEPT !.use_count = @ + 1,
                     !.confidence = IF @ < STALE_THRESHOLD + PENALTY_ON_FAILURE THEN STALE_THRESHOLD
                                    ELSE @ - PENALTY_ON_FAILURE]

record_gene_outcome(id, success) ==
    IF id \in DOMAIN genes THEN With(genes, id, Outcome(genes[id], success)) ELSE genes

\* MAX(threshold, confidence - decay): a confidence below the threshold is lifted to it.
Decayed(row) ==
    [row EXCEPT !.confidence = IF @ < STALE_THRESHOLD + DECAY_PER_QUERY THEN STALE_THRESHOLD
                               ELSE @ - DECAY_PER_QUERY]

decay_all ==
    /\ Call
    /\ genes' = [id \in DOMAIN genes |-> Decayed(genes[id])]
    /\ capsules' = [c \in DOMAIN capsules |-> Decayed(capsules[c])]
    /\ UNCHANGED <<gene_tags, cut, found, replay_metrics, candidate, skill>>

-----------------------------------------------------------------------------
(* search_genes. *)

\* In ten-thousandths; a gene without tags scores half of the tag share.
relevance_score(gene, q) ==
    (IF gene.tags = {} THEN 2000
     ELSE (4000 * Cardinality(gene.tags \cap q.words)) \div Cardinality(gene.tags))
    + (3500 * gene.confidence) \div 1000 + (2500 * gene.quality) \div 1000

\* The first n in descending order of rank: ties fall either way.
Firsts(S, n, rank) ==
    {T \in SUBSET S : /\ Cardinality(T) = Lower(n, Cardinality(S))
                      /\ \A x \in T, y \in S \ T : rank[x] >= rank[y]}

\* Without required tags the most confident; with them the genes whose distinct
\* matching tags are as many as the tags asked for, in no order.
CandidateIds(q) ==
    IF q.required_tags = <<>>
    THEN LET S == {id \in DOMAIN genes : genes[id].confidence >= q.min_confidence}
         IN Firsts(S, 3 * q.limit, [id \in S |-> genes[id].confidence])
    ELSE LET S == {id \in GeneIds : Cardinality({e \in gene_tags : e[1] = id /\ e[2] \in Range(q.required_tags)})
                                      = Len(q.required_tags)}
         IN Firsts(S, 3 * q.limit, [id \in S |-> 0])

\* The candidates' rows, filtered by confidence, ranked and cut.
search_genes(q) ==
    UNION {LET S == {id \in C \cap DOMAIN genes : genes[id].confidence >= q.min_confidence}
           IN Firsts(S, q.limit, [id \in S |-> relevance_score(genes[id], q)]) : C \in CandidateIds(q)}

Search(q) ==
    /\ Call
    /\ \E T \in search_genes(q) :
         found' = [query |-> q, over |-> genes, cut |-> cut, ids |-> T]
    /\ UNCHANGED <<genes, gene_tags, cut, capsules, replay_metrics, candidate, skill>>

-----------------------------------------------------------------------------
(* Capsules. *)

\* A new capsule needs its gene; an existing one keeps the gene it has.
upsert_capsule(c, id) ==
    /\ Call /\ (c \in DOMAIN capsules \/ id \in DOMAIN genes)
    /\ capsules' = With(capsules, c,
          [gene |-> IF c \in DOMAIN capsules THEN capsules[c].gene ELSE id,
           confidence |-> 800, use_count |-> 0, success_count |-> 0])
    /\ UNCHANGED <<genes, gene_tags, cut, found, replay_metrics, candidate, skill>>

capsules_for_gene(id) == {c \in DOMAIN capsules : capsules[c].gene = id}

record_capsule_outcome(c, success) ==
    /\ Call /\ c \in DOMAIN capsules
    /\ capsules' = With(capsules, c, Outcome(capsules[c], success))
    /\ UNCHANGED <<genes, gene_tags, cut, found, replay_metrics, candidate, skill>>

-----------------------------------------------------------------------------
(* ReplayFeedbackHook: min_confidence 0.70, one candidate, no required tags. *)

ReplayQuery(signals) ==
    [min_confidence |-> 700, limit |-> 1, required_tags |-> <<>>, words |-> signals]

query_replay_candidate(signals) ==
    /\ Call /\ candidate = Nothing
    /\ \E T \in search_genes(ReplayQuery(signals)) :
         IF T # {}
         THEN /\ candidate' = CHOOSE id \in T : TRUE
              /\ replay_metrics' = [replay_metrics EXCEPT !.queries = @ + 1, !.hits = @ + 1]
         ELSE /\ replay_metrics' = [replay_metrics EXCEPT !.queries = @ + 1, !.misses = @ + 1]
              /\ UNCHANGED candidate
    /\ UNCHANGED <<genes, gene_tags, cut, capsules, found, skill>>

\* Counted also when the gene has been deleted meanwhile.
record_replay_outcome(success) ==
    /\ Call /\ candidate # Nothing
    /\ genes' = record_gene_outcome(candidate, success)
    /\ replay_metrics' = [replay_metrics EXCEPT !.writes = @ + 1, !.successes = IF success THEN @ + 1 ELSE @,
                                  !.failures = IF success THEN @ ELSE @ + 1]
    /\ candidate' = Nothing
    /\ UNCHANGED <<gene_tags, cut, capsules, found, skill>>

record_cold_start ==
    /\ Call
    /\ replay_metrics' = [replay_metrics EXCEPT !.misses = @ + 1, !.queries = @ + 1]
    /\ UNCHANGED <<genes, gene_tags, cut, capsules, found, candidate, skill>>

-----------------------------------------------------------------------------
(* migration.rs and skill_projection.rs. *)

\* Only a gene with steps and checks; its counters do not become evidence.
genestore_gene_to_bundle(gene) ==
    IF gene.steps = 0 \/ gene.checks = 0 THEN Nothing
    ELSE [lifecycle |-> "candidate", verified_successes |-> 0, scope |-> "local", capsules |-> {}]

\* A capsule of another gene is refused; one of this gene is inconclusive evidence.
attach_genestore_capsule(bundle, id) ==
    [bundle EXCEPT !.capsules = {<<c, "inconclusive">> : c \in capsules_for_gene(id)}]

render_portable_skill(bundle) ==
    IF bundle.lifecycle \in {"quarantined", "revoked"} THEN Nothing
    ELSE [installable |-> bundle.lifecycle = "stable", evidence |-> bundle.capsules]

CarryOn(id) ==
    /\ Call /\ id \in DOMAIN genes
    /\ genestore_gene_to_bundle(genes[id]) # Nothing
    /\ skill' = render_portable_skill(
                   attach_genestore_capsule(genestore_gene_to_bundle(genes[id]), id))
    /\ UNCHANGED <<genes, gene_tags, cut, capsules, found, replay_metrics, candidate>>

-----------------------------------------------------------------------------

GeneInit ==
    /\ genes = <<>> /\ gene_tags = {} /\ cut = {} /\ capsules = <<>>
    /\ found = Nothing /\ candidate = Nothing /\ skill = Nothing
    /\ replay_metrics = [queries |-> 0, hits |-> 0, misses |-> 0, writes |-> 0, successes |-> 0,
                  failures |-> 0]
    /\ gene_calls = 0

GeneNext ==
    \/ \E id \in GeneIds :
         \/ \E gene \in GeneDefs : upsert_gene(id, gene) \/ UpsertCut(id, gene)
         \/ delete_gene(id) \/ CarryOn(id)
         \/ \E c \in CapsuleIds : upsert_capsule(c, id)
    \/ decay_all
    \/ \E q \in Queries : Search(q) \/ query_replay_candidate(q.words)
    \/ \E success \in BOOLEAN :
         \/ record_replay_outcome(success)
         \/ \E c \in CapsuleIds : record_capsule_outcome(c, success)
    \/ record_cold_start

-----------------------------------------------------------------------------

\* delete_gene: after any sequence of calls no tag and no capsule is left of a gene
\* that is gone.
NoOrphans ==
    /\ \A e \in gene_tags : e[1] \in DOMAIN genes
    /\ \A c \in DOMAIN capsules : capsules[c].gene \in DOMAIN genes

\* upsert_gene: the tag index is the tags of the rows, except for a gene whose upsert
\* was cut short and not repeated.
IndexFollowsRows ==
    \A id \in (DOMAIN genes) \ cut : {e \in gene_tags : e[1] = id} = TagRows(id, genes[id].tags)

\* search_genes: it returns confident genes that have all required tags (unless their
\* index was cut); and when the candidates are not cut off at three times the limit
\* and no tag is asked for, none it leaves out is more relevant than one it returns.
SearchHonest ==
    found # Nothing =>
        LET q == found.query IN
        /\ \A id \in found.ids :
             /\ found.over[id].confidence >= q.min_confidence
             /\ id \notin found.cut => Range(q.required_tags) \subseteq found.over[id].tags
        /\ (q.required_tags = <<>> /\ Cardinality(DOMAIN found.over) <= 3 * q.limit) =>
             \A id \in (DOMAIN found.over) \ found.ids :
                found.over[id].confidence >= q.min_confidence =>
                    \A x \in found.ids :
                        relevance_score(found.over[x], q) >= relevance_score(found.over[id], q)

\* record_replay_outcome and query_replay_candidate: the metrics add up, also when a
\* gene is deleted under a replay.
MetricsAddUp ==
    /\ replay_metrics.hits + replay_metrics.misses = replay_metrics.queries
    /\ replay_metrics.successes + replay_metrics.failures = replay_metrics.writes
    /\ replay_metrics.writes + (IF candidate = Nothing THEN 0 ELSE 1) = replay_metrics.hits

\* genestore_gene_to_bundle: however well a legacy gene did, it is not installable.
LegacyUnproven == skill # Nothing => ~skill.installable

GenesSound == NoOrphans /\ IndexFollowsRows /\ SearchHonest /\ MetricsAddUp /\ LegacyUnproven
================================================================================
