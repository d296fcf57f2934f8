------------------------------ MODULE DigitalTwin ------------------------------
(***************************************************************************)
(* digital_twin.rs: memories are injected into a simulation, a run over    *)
(* some of them is captured as new memory, compared with the runs before   *)
(* it and recorded. Shares are in percent, rounded down.                   *)
(***************************************************************************)
EXTENDS Integers, Sequences, FiniteSets, FiniteSetsExt, SequencesExt

CONSTANTS
    TwinMemories,   \* the memories: a function from id to authority and confidence
    CaptureConfigs, \* records of ResultCaptureConfig; filter is a set of ids, or All
    All,            \* output_filter is None
    MaxRuns         \* bound on the recorded runs

\* InjectedMemory, as far as a run looks at it.
InjectedMemory == [authority : 0..3, confidence : 0..100]

ResultCaptureConfig == [outputs : BOOLEAN, metrics : BOOLEAN, logs : BOOLEAN,
                        filter : {All} \cup SUBSET DOMAIN TwinMemories]

ASSUME TwinAssumption == /\ IsFiniteSet(DOMAIN TwinMemories)
                         /\ TwinMemories \in [DOMAIN TwinMemories -> InjectedMemory]
                         /\ CaptureConfigs \subseteq ResultCaptureConfig

VARIABLES
    injected,   \* ids injected so far
    history,    \* results recorded
    result,     \* the last run; All before the first
    captured,   \* memories captured from it
    outcome     \* ValidationResult of it, and the dashboard's scores

twin_vars == <<injected, history, result, captured, outcome>>

\* ValidationResult with its HistoricalComparison, and the dashboard's counters.
NoOutcome == [verified |-> FALSE, confidence |-> 0, delta |-> 0, passed |-> 0, total |-> 0]

TwinInit ==
    /\ injected = {}
    /\ history = <<>>
    /\ result = All
    /\ captured = {}
    /\ outcome = NoOutcome

Abs(x) == IF x < 0 THEN -x ELSE x

Total(s) ==
    LET sum[n \in 0..Len(s)] == IF n = 0 THEN 0 ELSE sum[n - 1] + s[n]
    IN  sum[Len(s)]

Average(s) == Total(s) \div Len(s)

Accuracies == [j \in DOMAIN history |-> history[j].accuracy]
Coverages == [j \in DOMAIN history |-> history[j].coverage]

\* SimulationMetrics.
Accuracy(found) ==
    LET ms == SetToSeq(found)
        weight(j) == TwinMemories[ms[j]].authority + 1
    IN  Total([j \in DOMAIN ms |-> TwinMemories[ms[j]].confidence * weight(j)])
        \div Total([j \in DOMAIN ms |-> weight(j)])

compute_consistency(accuracy, coverage) ==
    IF history = <<>> THEN 100
    ELSE 100 - (Abs(accuracy - Average(Accuracies)) + Abs(coverage - Average(Coverages))) \div 2

Success(coverage, accuracy) == coverage >= 100 /\ accuracy > 0

\* SimulationResult with its SimulationMetrics.
SimulationResult(refs, found, accuracy, coverage, consistency) ==
    [refs |-> refs, accuracy |-> accuracy, coverage |-> coverage,
     consistency |-> consistency, deviation |-> 100 - consistency,
     success |-> Success(coverage, accuracy), outputs |-> found, recorded |-> FALSE]

\* A second injection of a memory replaces the first.
inject_experience_to_simulation(ms) ==
    /\ injected' = injected \cup ms
    /\ UNCHANGED <<history, result, captured, outcome>>

\* run_simulation: an empty request and one of which nothing is injected fail.
run_simulation(refs) ==
    LET found == refs \cap injected
        coverage == (100 * Cardinality(found)) \div Cardinality(refs)
        accuracy == Accuracy(found)
    IN  /\ refs # {} /\ found # {}
        /\ result' = SimulationResult(refs, found, accuracy, coverage,
                                      compute_consistency(accuracy, coverage))
        /\ captured' = {}
        /\ outcome' = [NoOutcome EXCEPT !.passed = outcome.passed, !.total = outcome.total]
        /\ UNCHANGED <<injected, history>>

\* CapturedMemory: outputs are verified knowledge, metrics and logs inferred.
Captured(kind, level, confidence) == [kind |-> kind, level |-> level, confidence |-> confidence]

\* capture_simulation_result; a run that did not succeed is an error.
capture_simulation_result(config) ==
    /\ result # All
    /\ result.success
    /\ captured' =
          {Captured(m, "L2", result.accuracy) :
              m \in {x \in result.outputs : /\ config.outputs
                                            /\ config.filter = All \/ x \in config.filter}}
          \cup (IF config.metrics THEN {Captured("metrics", "L3", result.accuracy)} ELSE {})
          \cup (IF config.logs THEN {Captured("log", "L3", 100)} ELSE {})
    /\ UNCHANGED <<injected, history, result, outcome>>

\* build_historical_comparison: the change of the accuracy.
build_historical_comparison(r) ==
    IF history = <<>> THEN 0 ELSE r.accuracy - Average(Accuracies)

validate_against_historical ==
    LET confidence == (result.consistency * 60 + result.accuracy * 40) \div 100
    IN  /\ result # All
        /\ outcome.total < MaxRuns
        /\ outcome' = [verified |-> confidence >= 70, confidence |-> confidence,
                       delta |-> build_historical_comparison(result),
                       passed |-> IF confidence >= 70 THEN outcome.passed + 1 ELSE outcome.passed,
                       total |-> outcome.total + 1]
        /\ UNCHANGED <<injected, history, result, captured>>

record_simulation_result ==
    /\ result # All
    /\ ~result.recorded
    /\ Len(history) < MaxRuns
    /\ history' = Append(history, result)
    /\ result' = [result EXCEPT !.recorded = TRUE]
    /\ UNCHANGED <<injected, captured, outcome>>

TwinNext ==
    \/ \E ms \in SUBSET DOMAIN TwinMemories : inject_experience_to_simulation(ms)
    \/ \E refs \in SUBSET DOMAIN TwinMemories : run_simulation(refs)
    \/ \E c \in CaptureConfigs : capture_simulation_result(c)
    \/ validate_against_historical
    \/ record_simulation_result

-----------------------------------------------------------------------------
(* OperationsDashboard, over the counters above *)

memory_quality_score(recall, precision, grounded, conflict, stale) ==
    (recall * 25 + precision * 25 + grounded * 20 + (100 - conflict) * 15
        + (100 - stale) * 15) \div 100

verification_pass_rate ==
    IF outcome.total = 0 THEN 0 ELSE (100 * outcome.passed) \div outcome.total

business_value_score(quality) ==
    (verification_pass_rate * 50 + quality * 30 + Min({Len(history), 100}) * 20) \div 100

\* compute_trend over the costs, here the accuracies: the later half against the
\* earlier, five percent either way.
compute_trend(s) ==
    LET mid == Len(s) \div 2
        first == Average(SubSeq(s, 1, mid))
        second == Average(SubSeq(s, mid + 1, Len(s)))
        change == IF first > 0 THEN 100 * (second - first)
                  ELSE IF second > 0 THEN 100 ELSE 0
        margin == 5 * (IF first > 0 THEN first ELSE 1)
    IN  IF Len(s) < 2 THEN "stable"
        ELSE IF change > margin THEN "increasing"
        ELSE IF change < -margin THEN "decreasing" ELSE "stable"

-----------------------------------------------------------------------------

\* What is captured comes from a run all of whose memories were injected, with a
\* confidence between the lowest and the highest of theirs; the metrics and the
\* dashboard's scores are shares, whatever runs were recorded before; and a run
\* just like all before it has no deviation.
TwinSound ==
    /\ captured # {} =>
          /\ result.refs \subseteq injected
          /\ \A c \in captured : c.level = "L2" =>
                \E m, n \in result.refs :
                    /\ TwinMemories[m].confidence <= c.confidence
                    /\ c.confidence <= TwinMemories[n].confidence
    /\ result # All =>
          /\ result.accuracy \in 0..100 /\ result.coverage \in 0..100
          /\ result.consistency \in 0..100
          /\ (\A j \in DOMAIN history : /\ history[j].accuracy = result.accuracy
                                        /\ history[j].coverage = result.coverage)
             /\ ~result.recorded => result.deviation = 0
    /\ business_value_score(memory_quality_score(90, 80, 100, 0, 10)) \in 0..100
    /\ outcome.verified => outcome.confidence \in 70..100
    /\ compute_trend(Accuracies) = "increasing" =>
          \E i, j \in DOMAIN history : i < j /\ history[i].accuracy < history[j].accuracy
================================================================================
