------------------------------ MODULE Evaluation ------------------------------
(***************************************************************************)
(* eval.rs: synthetic datasets, quality metrics and the two benchmark      *)
(* runners, and poc_framework.rs: the verdict on a trial of an engine.     *)
(* Fractions are whole multiples of 1/Whole; every denominator met in an   *)
(* instance divides Whole.                                                 *)
(***************************************************************************)
EXTENDS Naturals, Sequences, FiniteSets, SequencesExt, FiniteSetsExt

CONSTANTS
    Whole,           \* 1.0
    TypeGap,         \* 100_000: the distance of the id ranges of two scenario types
    MaxPerType,      \* count_per_type
    SmallK, LargeK,  \* 5 and 10
    Contents,           \* contents of a result: [sentences, tokens]
    TokenBudget,
    Widths,          \* values of concurrency
    MaxRequests,     \* bound on iterations
    Millis,          \* latencies
    Grades           \* values of a metric in a trial, as multiples of 1/Whole

VARIABLES
    bench,      \* the benchmark of this behaviour
    tasks,      \* run_concurrent's JoinSet: [number, query, ok, ms]
    measured,   \* the last metrics computed, with what they were computed from
    trial       \* the last proof of concept, with its verdict

eval_vars == <<bench, tasks, measured, trial>>

Unstarted == [at |-> "idle"]

Ratio(part, all) == IF all = 0 THEN 0 ELSE (part * Whole) \div all

AtMostWhole(x) == IF x > Whole THEN Whole ELSE x

Total(values) == FoldLeft(LAMBDA a, b : a + b, 0, values)

-----------------------------------------------------------------------------
(* DatasetBuilder. Ids are numbers; 0 is the nil id of a result that has    *)
(* none.                                                                    *)

Nil == 0

next_uuid(counter, j) == counter + j

\* Each scenario takes five ids; the first of them are the relevant ones.
Scenario(counter, i, relevant) ==
    LET id(j) == next_uuid(counter, 5 * i + j)
    IN [relevant |-> {id(j) : j \in 0..relevant - 1}, irrelevant |-> {id(j) : j \in relevant..4}]

build_equipment_failure(count) == [i \in 1..count |-> Scenario(1, i - 1, 3)]

build_quality_defect(count) == [i \in 1..count |-> Scenario(TypeGap, i - 1, 3)]

build_user_preference(count) == [i \in 1..count |-> Scenario(2 * TypeGap, i - 1, 2)]

build_dataset(count) ==
    build_equipment_failure(count) \o build_quality_defect(count) \o build_user_preference(count)

-----------------------------------------------------------------------------
(* QualityMetrics. *)

Hits(retrieved, truth, k) ==
    Len(SelectSeq(SubSeq(retrieved, 1, IF k < Len(retrieved) THEN k ELSE Len(retrieved)),
                  LAMBDA id : id \in truth.relevant))

recall_at_k(retrieved, truth, k) == Ratio(Hits(retrieved, truth, k), Cardinality(truth.relevant))

precision_at_k(retrieved, truth, k) == Ratio(Hits(retrieved, truth, k), k)

\* The share of the segments whose index is in a set.
Share(segments, those) == Ratio(Cardinality(those), Len(segments))

context_relevance_rate(ctx, truth) == 
    Share(ctx.segments, {j \in DOMAIN ctx.segments : ctx.segments[j].id \in truth.relevant})

token_utilization(used, budget) == AtMostWhole(Ratio(used, budget))

groundedness(sentences, evidence) ==
    IF sentences = 0 THEN Whole ELSE AtMostWhole(Ratio(evidence, sentences))

evidence_coverage(retrieved, truth) ==
    LET annotated == SelectSeq(retrieved, LAMBDA id : id \in truth.relevant \cup truth.irrelevant)
    IN Ratio(Len(SelectSeq(annotated, LAMBDA id : id \in truth.relevant)), Len(annotated))

Sentences(segments) == Total([i \in DOMAIN segments |-> segments[i].text.sentences])

Evidence(segments) == Total([i \in DOMAIN segments |-> segments[i].evidence])

compute(retrieved, truth, ctx, k) ==
    [recall |-> recall_at_k(retrieved, truth, k),
     precision |-> precision_at_k(retrieved, truth, k),
     relevance |-> context_relevance_rate(ctx, truth),
     utilization |-> token_utilization(ctx.used_tokens, TokenBudget),
     conflict |-> Share(ctx.segments, {j \in DOMAIN ctx.segments : ctx.segments[j].conflict}),
     stale |-> Share(ctx.segments, {j \in DOMAIN ctx.segments : ctx.segments[j].expired}),
     unsourced |-> Share(ctx.segments, {j \in DOMAIN ctx.segments : ctx.segments[j].evidence = 0}),
     groundedness |-> groundedness(Sentences(ctx.segments), Evidence(ctx.segments)),
     coverage |-> evidence_coverage(retrieved, truth)]

\* What an engine may answer in a scenario: something relevant, something that is
\* not, and something whose id is no id.
EngineAnswer(truth) == 
    {Min(truth.relevant), Max(truth.relevant), Min(truth.irrelevant), Nil}

Segment(truth, expired, conflict) ==
    [id : EngineAnswer(truth), text : Contents, evidence : 0..1, expired : expired, conflict : conflict]

\* The ids that are ids.
Retrieved(segments) == SelectSeq([i \in DOMAIN segments |-> segments[i].id], LAMBDA id : id # Nil)

Assembled(segments) ==
    [segments |-> segments, used_tokens |-> Total([i \in DOMAIN segments |-> segments[i].text.tokens])]

Measure ==
    /\ measured = Unstarted
    /\ \E truth \in ToSet(build_dataset(1)), n \in 0..LargeK, k \in 0..LargeK :
         \E segments \in [1..n -> Segment(truth, BOOLEAN, BOOLEAN)] :
           measured' = [at |-> "done", truth |-> truth, retrieved |-> Retrieved(segments),
                        segments |-> segments, k |-> k,
                        metrics |-> compute(Retrieved(segments), truth, Assembled(segments), k)]
    /\ UNCHANGED <<bench, tasks, trial>>

-----------------------------------------------------------------------------
(* run_baseline: one scenario after the other. *)

percentile(latencies, p) ==
    IF latencies = <<>> THEN 0
    ELSE LET idx == (Len(latencies) * p + 99) \div 100
         IN SortSeq(latencies, LAMBDA a, b : a < b)[IF idx < Len(latencies) THEN idx ELSE Len(latencies)]

Mean(values) == IF values = <<>> THEN 0 ELSE Total(values) \div Len(values)

BaselineStart(count) ==
    /\ bench = Unstarted
    /\ bench' = [at |-> "baseline", dataset |-> build_dataset(count), latencies |-> <<>>,
                 recall5 |-> <<>>, recall10 |-> <<>>, precision5 |-> <<>>]

\* A search that fails ends the benchmark with its error.
BaselineFails ==
    /\ bench.at = "baseline" /\ Len(bench.latencies) < Len(bench.dataset)
    /\ bench' = [at |-> "error"]

\* The two rates of the text, which Measure computes, are left out here.
BaselineSearch(segments, ms) ==
    LET truth == bench.dataset[Len(bench.latencies) + 1]
        retrieved == Retrieved(segments)
    IN bench' = [bench EXCEPT !.latencies = Append(@, ms),
                              !.recall5 = Append(@, recall_at_k(retrieved, truth, SmallK)),
                              !.recall10 = Append(@, recall_at_k(retrieved, truth, LargeK)),
                              !.precision5 = Append(@, precision_at_k(retrieved, truth, SmallK))]

BenchmarkResult ==
    /\ bench.at = "baseline" /\ Len(bench.latencies) = Len(bench.dataset)
    /\ bench' = [at |-> "result", scenario_id |-> IF bench.dataset = <<>> THEN "empty" ELSE "aggregate",
                 latencies |-> bench.latencies,
                 p50 |-> percentile(bench.latencies, 50), p95 |-> percentile(bench.latencies, 95),
                 recall5 |-> Mean(bench.recall5), recall10 |-> Mean(bench.recall10),
                 precision5 |-> Mean(bench.precision5)]

-----------------------------------------------------------------------------
(* run_concurrent: a task per request in a JoinSet that is kept full. *)

ConcurrentStart(count, width, iterations) ==
    /\ bench = Unstarted
    /\ bench' = [at |-> IF count = 0 \/ iterations = 0 THEN "nothing" ELSE "concurrent",
                 scenarios |-> 3 * count, width |-> IF width = 0 THEN 1 ELSE width,
                 iterations |-> iterations, spawned |-> 0, success |-> 0, errors |-> 0,
                 latencies |-> <<>>, ended |-> <<>>, asked |-> [q \in 0..3 * count - 1 |-> 0]]
    /\ UNCHANGED tasks

\* The set is full, or there is nothing left to spawn.
MaySpawn == Cardinality(tasks) < bench.width /\ bench.spawned < bench.iterations

Spawn ==
    /\ bench.at = "concurrent" /\ MaySpawn
    /\ LET query == bench.spawned % bench.scenarios
       IN /\ tasks' = tasks \cup {[number |-> bench.spawned, query |-> query, end |-> "running", ms |-> 0]}
          /\ bench' = [bench EXCEPT !.spawned = @ + 1, !.asked[query] = @ + 1]

\* The search answers or fails; a task that panics leaves no latency.
TaskEnds(t, end, ms) ==
    /\ t.end = "running" /\ (end = "panic" => ms = 0)
    /\ tasks' = (tasks \ {t}) \cup {[t EXCEPT !.end = end, !.ms = ms]}
    /\ UNCHANGED bench

Tally(t) ==
    bench' = [bench EXCEPT !.success = IF t.end = "ok" THEN @ + 1 ELSE @,
                           !.errors = IF t.end = "ok" THEN @ ELSE @ + 1,
                           !.latencies = Append(@, t.ms), !.ended = Append(@, t.end)]

\* join_next, whichever task has ended.
JoinNext(t) ==
    /\ bench.at = "concurrent" /\ ~MaySpawn /\ t.end # "running"
    /\ tasks' = tasks \ {t}
    /\ Tally(t)

ConcurrentBenchmarkResult ==
    /\ bench.at = "concurrent" /\ bench.spawned = bench.iterations /\ tasks = {}
    /\ bench' = [bench EXCEPT !.at = "report"]
    /\ UNCHANGED tasks

BenchmarkNext ==
    /\ \/ /\ \/ \E count \in 0..MaxPerType : BaselineStart(count)
             \/ BaselineFails
             \/ /\ bench.at = "baseline" /\ Len(bench.latencies) < Len(bench.dataset)
                /\ \E n \in 0..LargeK, ms \in Millis :
                     \E ids \in [1..n -> EngineAnswer(bench.dataset[Len(bench.latencies) + 1])] :
                        BaselineSearch([i \in 1..n |-> [id |-> ids[i]]], ms)
             \/ BenchmarkResult
          /\ UNCHANGED tasks
       \/ \E count \in 0..MaxPerType, width \in Widths, n \in 0..MaxRequests : ConcurrentStart(count, width, n)
       \/ Spawn \/ ConcurrentBenchmarkResult
       \/ \E t \in tasks : JoinNext(t) \/ \E end \in {"ok", "error", "panic"}, ms \in Millis \cup {0} : TaskEnds(t, end, ms)
    /\ UNCHANGED <<measured, trial>>

-----------------------------------------------------------------------------
(* PocRunner: the verdict on a trial. Costs, hours and counts are whether    *)
(* they reach their limits.                                                  *)

StopCondition == {"threshold_met", "threshold_failed", "budget_exhausted", "data_boundary_reached"}

SystemType == {"postgres_pgvector", "mem0", "cognee"}

PocMetrics == [recall : Grades, precision : Grades, latency : 0..2, groundedness : {Whole},
               budget_spent : BOOLEAN, items_used : BOOLEAN, iterations_used : BOOLEAN]

\* min_recall_at_k and its likes; max_latency_p95_ms.
SuccessThreshold == [min_recall : Grades, min_precision : {Max(Grades)}, max_latency : 0..1, min_groundedness : {Whole}]

all_met(threshold, m) ==
    /\ m.recall >= threshold.min_recall /\ m.precision >= threshold.min_precision
    /\ m.latency <= threshold.max_latency /\ m.groundedness >= threshold.min_groundedness

is_catastrophic(threshold, m) ==
    \/ 2 * m.recall < threshold.min_recall \/ 2 * m.precision < threshold.min_precision
    \/ 2 * m.groundedness < threshold.min_groundedness

PocHypothesis == [control : SystemType, experimental : SystemType, threshold : SuccessThreshold,
                  boundary_valid : BOOLEAN, stops : SUBSET StopCondition, statement : BOOLEAN]

\* SuccessThreshold::validate.
validate_threshold(t) ==
    /\ {t.min_recall, t.min_precision, t.min_groundedness} \subseteq 0..Whole
    /\ t.max_latency > 0

validate_hypothesis(h) ==
    IF h.control # "postgres_pgvector" THEN "invalid_control_group"
    ELSE IF h.control = h.experimental THEN "same_group"
    ELSE IF ~validate_threshold(h.threshold) THEN "invalid_threshold"
    ELSE IF ~h.boundary_valid THEN "invalid_boundary"
    ELSE IF h.stops = {} THEN "no_stop_conditions"
    ELSE IF ~h.statement THEN "invalid_threshold"
    ELSE "valid"

\* Spent money first, then used up data; both give a better engine the benefit.
evaluate(h, baseline, m) ==
    LET met == all_met(h.threshold, m)
        ifMet == IF met /\ m.recall >= baseline.recall THEN "adopt" ELSE "inconclusive"
        failed == is_catastrophic(h.threshold, m) \/ m.iterations_used
    IN IF "budget_exhausted" \in h.stops /\ m.budget_spent THEN <<"budget_exhausted", ifMet>>
       ELSE IF "data_boundary_reached" \in h.stops /\ m.items_used THEN <<"data_boundary_reached", ifMet>>
       ELSE IF "threshold_met" \in h.stops /\ met THEN <<"threshold_met", ifMet>>
       ELSE <<"threshold_failed",
              IF "threshold_failed" \in h.stops /\ failed THEN "reject" ELSE "inconclusive">>

run_poc(h, baseline, m) ==
    LET verdict == evaluate(h, baseline, m)
    IN IF validate_hypothesis(h) # "valid" THEN [error |-> validate_hypothesis(h)]
       ELSE [error |-> "none", stop_reason |-> verdict[1], verdict |-> verdict[2],
             recall_delta |-> <<m.recall, baseline.recall>>]

RunTrial(h, baseline, m) ==
    /\ trial' = [at |-> "done", hypothesis |-> h, baseline |-> baseline, metrics |-> m,
                 result |-> run_poc(h, baseline, m)]
    /\ UNCHANGED <<bench, tasks, measured>>

\* Every hypothesis, and for those that are valid every outcome of the two systems.
TrialNext ==
    /\ trial = Unstarted
    /\ \/ \E h \in PocHypothesis, m \in PocMetrics :
            m.recall = 0 /\ m.precision = 0 /\ m.latency = 0 /\ ~m.items_used /\ RunTrial(h, m, m)
       \/ \E t \in SuccessThreshold, stops \in SUBSET StopCondition \ {{}}, baseline \in Grades, m \in PocMetrics :
            /\ t.max_latency > 0
            /\ RunTrial([control |-> "postgres_pgvector", experimental |-> "mem0", threshold |-> t,
                         boundary_valid |-> TRUE, stops |-> stops, statement |-> TRUE],
                        [m EXCEPT !.recall = baseline], m)

EvaluationInit == bench = Unstarted /\ tasks = {} /\ measured = Unstarted /\ trial = Unstarted

-----------------------------------------------------------------------------

\* run_concurrent: whatever order the tasks end in and however they end, there are
\* never more than asked for at a time, each request is counted once, every scenario
\* is asked as often as every other, give or take one, and the report says how many
\* searches answered.
RequestsCounted ==
    bench.at \in {"concurrent", "report"} =>
        /\ Cardinality(tasks) <= bench.width
        /\ bench.success + bench.errors + Cardinality(tasks) = bench.spawned
        /\ Len(bench.latencies) = bench.success + bench.errors
        /\ bench.success = Len(SelectSeq(bench.ended, LAMBDA e : e = "ok"))
        /\ \A p, q \in DOMAIN bench.asked : bench.asked[p] <= bench.asked[q] + 1
        /\ bench.at = "report" => Len(bench.latencies) = bench.iterations

\* run_baseline: a percentile is a latency that was measured, and the least one that
\* p in a hundred of the searches do not exceed; a longer list finds no less.
BaselineSound ==
    bench.at = "result" =>
        /\ \A r \in {<<50, bench.p50>>, <<95, bench.p95>>} :
             LET within(x) == 100 * Len(SelectSeq(bench.latencies, LAMBDA l : l <= x))
                              >= r[1] * Len(bench.latencies)
             IN IF bench.latencies = <<>> THEN r[2] = 0
                ELSE /\ r[2] \in ToSet(bench.latencies) /\ within(r[2])
                     /\ \A x \in ToSet(bench.latencies) : within(x) => r[2] <= x
        /\ bench.recall5 <= bench.recall10
        /\ bench.scenario_id = "empty" <=> bench.latencies = <<>>

\* DatasetBuilder and QualityMetrics: no memory is both relevant and irrelevant, none
\* has the nil id, and the scenarios share none as long as a type does not outgrow its
\* range of ids. Where nothing is returned twice every rate is within [0, 1], and a
\* result without an id counts for nothing.
MetricsSound ==
    /\ bench.at = "baseline" =>
         /\ \A i \in DOMAIN bench.dataset :
              LET s == bench.dataset[i]
              IN s.relevant \cap s.irrelevant = {} /\ Nil \notin s.relevant \cup s.irrelevant
         /\ 5 * Len(bench.dataset) < 3 * TypeGap =>
              \A i, j \in DOMAIN bench.dataset : i # j =>
                 (bench.dataset[i].relevant \cup bench.dataset[i].irrelevant)
                     \cap (bench.dataset[j].relevant \cup bench.dataset[j].irrelevant) = {}
    /\ measured.at = "done" =>
         LET r == measured.metrics
         IN /\ {r.relevance, r.utilization, r.conflict, r.stale, r.unsourced, r.groundedness, r.coverage} \subseteq 0..Whole
            /\ IsInjective(measured.retrieved) => r.recall <= Whole /\ r.precision <= Whole
            /\ measured.k > 0 => r.precision * measured.k = r.recall * Cardinality(measured.truth.relevant)
            /\ (\E i \in DOMAIN measured.segments : measured.segments[i].id = Nil) => r.relevance < Whole
            /\ r.coverage = Whole => ToSet(measured.retrieved) \cap measured.truth.irrelevant = {}

\* PocRunner: an engine is adopted only if it meets every threshold and finds no less
\* than the baseline; it is not rejected when it meets them and meeting them is a
\* reason to stop, nor when money or data ran out first; a trial of nothing, against
\* the wrong system or without an end is refused.
VerdictsEarned ==
    trial.at = "done" =>
        LET h == trial.hypothesis  r == trial.result  m == trial.metrics
        IN /\ r.error = "none" <=>
                /\ h.control = "postgres_pgvector" /\ h.experimental # h.control
                /\ h.threshold.max_latency > 0 /\ h.boundary_valid /\ h.stops # {} /\ h.statement
           /\ r.error = "none" =>
                /\ r.verdict = "adopt" => all_met(h.threshold, m) /\ m.recall >= trial.baseline.recall
                /\ r.verdict = "reject" =>
                     /\ "threshold_met" \in h.stops => ~all_met(h.threshold, m)
                     /\ ~("budget_exhausted" \in h.stops /\ m.budget_spent)
                     /\ ~("data_boundary_reached" \in h.stops /\ m.items_used)

EvaluationSound == RequestsCounted /\ BaselineSound /\ MetricsSound /\ VerdictsEarned
=================================================================================
