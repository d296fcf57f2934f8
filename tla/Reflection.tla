------------------------------- MODULE Reflection -------------------------------
(***************************************************************************)
(* reflection.rs: episodes are clustered, freed of near duplicates and     *)
(* distilled into experiences; experiences are consolidated into a         *)
(* pattern; a best practice is published. A scheduler says when. Shares    *)
(* are in percent.                                                         *)
(***************************************************************************)
EXTENDS Naturals, Sequences, FiniteSets, FiniteSetsExt, SequencesExt

CONSTANTS
    EpisodeKinds,   \* what may be observed: outcome, words, entities, tenant
    MaxEpisodes,    \* bound on the episodes
    Interval,       \* days between two runs
    MaxDays,        \* bound on the clock
    Historical      \* conditions of the patterns known before, a set of sets

Outcomes == {"success", "failure", "partial", "abandoned"}

\* Episode; the content is its set of words.
EpisodeKind == [outcome : Outcomes, words : SUBSET STRING, entities : SUBSET STRING,
                tenant : STRING]

ASSUME EpisodesAssumption == EpisodeKinds \subseteq EpisodeKind /\ Interval \in Nat

VARIABLES
    day,            \* the clock
    next_run,       \* BatchScheduler
    episodes,       \* Episodes in the order they were observed
    experiences,    \* of the last ReflectionReport
    patterns,       \* of the last ConsolidationReport
    published       \* artifacts, by scope

reflection_vars == <<day, next_run, episodes, experiences, patterns, published>>

ReflectionInit ==
    /\ day = 0
    /\ next_run = Interval
    /\ episodes = <<>>
    /\ experiences = {}
    /\ patterns = {}
    /\ published = {}

success_rate(outcome) ==
    CASE outcome = "success" -> 100 [] outcome = "partial" -> 50
      [] outcome \in {"failure", "abandoned"} -> 0

\* text_similarity > DEDUP_SIMILARITY_THRESHOLD, the share of common words.
NearDuplicate(a, b) ==
    \/ a.words \cup b.words = {}
    \/ 10 * Cardinality(a.words \cap b.words) > 9 * Cardinality(a.words \cup b.words)

\* The key of a cluster: the entities and the outcome. The tenant is not in it.
ClusterKey(e) == <<e.entities, e.outcome>>

Cluster(es, k) ==
    LET taken[n \in 0..Len(es)] ==
            IF n = 0 THEN <<>>
            ELSE IF ClusterKey(es[n]) = k THEN Append(taken[n - 1], es[n]) ELSE taken[n - 1]
    IN  taken[Len(es)]

cluster_episodes(es) == {Cluster(es, k) : k \in {ClusterKey(es[j]) : j \in DOMAIN es}}

\* The first of each group of near duplicates stays.
deduplicate(c) ==
    LET kept[n \in 0..Len(c)] ==
            IF n = 0 THEN <<>>
            ELSE IF \E j \in DOMAIN kept[n - 1] : NearDuplicate(kept[n - 1][j], c[n])
                 THEN kept[n - 1]
            ELSE Append(kept[n - 1], c[n])
    IN  kept[Len(c)]

Mean(scores) ==
    LET sum[n \in 0..Len(scores)] == IF n = 0 THEN 0 ELSE sum[n - 1] + scores[n]
    IN  sum[Len(scores)] \div Len(scores)

\* Experience, in a ReflectionReport.
Experience(c, confidence, level) ==
    [sources |-> c, conditions |-> UNION {c[j].entities : j \in DOMAIN c},
     confidence |-> confidence, level |-> level]

\* evaluate: success, recency and frequency; and the level. A half success rate
\* gets a higher level than a full one.
evaluate(c, today) ==
    LET success == Mean([j \in DOMAIN c |-> success_rate(c[j].outcome)])
        recency == Mean([j \in DOMAIN c |-> 100 \div (1 + today - c[j].day)])
        frequency == Min({10 * Len(c), 100})
    IN  Experience(c, (success * 70 + recency * 15 + frequency * 15) \div 100,
            IF success >= 80 THEN "L2" ELSE IF success >= 50 THEN "L1" ELSE "L3")

is_reusable(x) == Len(x.sources) >= 3 /\ x.confidence >= 70

validate_experience(x) == x.sources # <<>> /\ x.confidence >= 50 /\ x.conditions # {}

extract_pattern(xs) ==
    [from |-> xs,
     conditions |-> UNION {x.conditions : x \in xs},
     success_rate |-> MapThenSumSet(LAMBDA x : x.confidence, xs) \div Cardinality(xs)]

\* verify_pattern: with history, some condition must be known.
verify_pattern(p) ==
    /\ p.success_rate >= 60 /\ p.conditions # {}
    /\ Historical = {} \/ \E h \in Historical : h \cap p.conditions # {}

artifact_type_for_scope(scope) ==
    CASE scope \in {"enterprise", "factory"} -> "Sop" [] scope = "process" -> "Rule"
      [] OTHER -> "Skill"

\* ConsolidationReport: the pattern and whether it counts as verified.
Consolidated(p) == [pattern |-> p, verified |-> verify_pattern(p)]

-----------------------------------------------------------------------------

Observe(k) ==
    /\ Len(episodes) < MaxEpisodes
    /\ episodes' = Append(episodes, [outcome |-> k.outcome, words |-> k.words,
                                     entities |-> k.entities, tenant |-> k.tenant, day |-> day])
    /\ UNCHANGED <<day, next_run, experiences, patterns, published>>

NextDay ==
    /\ day < MaxDays
    /\ day' = day + 1
    /\ UNCHANGED <<next_run, episodes, experiences, patterns, published>>

should_run == day >= next_run

\* ReflectionJob::run, then mark_completed.
RunReflection ==
    /\ should_run
    /\ experiences' = {evaluate(deduplicate(c), day) : c \in cluster_episodes(episodes)}
    /\ next_run' = day + Interval
    /\ UNCHANGED <<day, episodes, patterns, published>>

\* ConsolidationJob::run: all valid experiences make one pattern.
RunConsolidation ==
    LET valid == {x \in experiences : validate_experience(x)}
    IN  /\ experiences # {}
        /\ patterns' = IF valid = {} THEN {}
                       ELSE {Consolidated(extract_pattern(valid))}
        /\ UNCHANGED <<day, next_run, episodes, experiences, published>>

\* PublishJob::publish renders whatever practice it is given.
Publish(scope) ==
    /\ patterns # {}
    /\ published' = published \cup {<<scope, artifact_type_for_scope(scope)>>}
    /\ UNCHANGED <<day, next_run, episodes, experiences, patterns>>

ReflectionNext ==
    \/ \E k \in EpisodeKinds : Observe(k)
    \/ NextDay
    \/ RunReflection
    \/ RunConsolidation
    \/ \E s \in {"process", "enterprise"} : Publish(s)

-----------------------------------------------------------------------------

\* ReflectionJob: a reusable experience rests on at least three episodes, all of
\* them successes about the same entities and no two of them near duplicates; and
\* in a run no episode is lost, it or a near duplicate of it is in an experience.
LessonsGrounded ==
    /\ \A x \in experiences : is_reusable(x) =>
          /\ Cardinality(DOMAIN x.sources) >= 3
          /\ \A i, j \in DOMAIN x.sources :
                /\ x.sources[i].outcome = "success"
                /\ x.sources[i].entities = x.sources[j].entities
                /\ i # j => ~NearDuplicate(x.sources[i], x.sources[j])
    /\ next_run = day + Interval /\ experiences # {} =>
          \A i \in DOMAIN episodes :
             \/ episodes[i].day = day
             \/ \E x \in experiences : \E j \in DOMAIN x.sources :
                   /\ ClusterKey(x.sources[j]) = ClusterKey(episodes[i])
                   /\ x.sources[j] = episodes[i] \/ NearDuplicate(x.sources[j], episodes[i])
    /\ \A p \in patterns : p.verified => p.pattern.conditions # {}
================================================================================
