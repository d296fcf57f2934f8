-------------------------------- MODULE Metering --------------------------------
(***************************************************************************)
(* cost_tracking.rs and slo_monitoring.rs: what the server counts about    *)
(* itself. Costs are stamped before the lock of the ledger is taken, so    *)
(* they arrive late; a check of the budgets takes the thresholds and then  *)
(* the entries of one tenant after the other, each under a lock of its     *)
(* own. Money is in whole units and time in hours of a short day.          *)
(***************************************************************************)
EXTENDS Naturals, Sequences, FiniteSets, FiniteSetsExt, TLC

CONSTANTS
    Payers,           \* tenants
    Recorders,        \* calls of record_*_cost in flight
    Amounts,          \* cost of one entry
    Budgets,          \* CostThresholds a tenant may be given
    DayHours, MonthHours,
    LastHour,         \* bound on the clock
    MaxEntries,       \* bound on the ledger
    Latencies, Target,
    OneIn,            \* 20 in the code: the p95 leaves out one sample in twenty
    MaxSamples, MaxCount,
    Engines, Scores,
    Unmetered

VARIABLES
    ledger,       \* TrackerState.entries
    thresholds,   \* TrackerState.thresholds: tenants -> CostThresholds
    hour,
    recorder,     \* calls in flight: the stamped entry, or Unmetered
    audit,        \* the check of the budgets
    cost_report,       \* the last CostReport
    samples,      \* CollectorState: operation -> latency -> how many
    slo,      \* SloMetrics
    engines       \* engine_accumulators: engine -> the values recorded

cost_vars == <<ledger, thresholds, hour, recorder, audit, cost_report>>
slo_vars == <<samples, slo>>
metering_vars == <<cost_vars, slo_vars, engines>>

CostType == {"embedding", "llm_call", "storage"}

\* A period in hours; a week does not differ from a month in what it is compared with.
TimePeriod == [daily |-> DayHours, monthly |-> MonthHours]

CostEntry == [tenant : Payers, type : CostType, amount : Amounts, time : Nat]

Amount(entries) == MapThenSumSet(LAMBDA i : entries[i].amount, DOMAIN entries)

Restricted(entries, which) == [i \in which |-> entries[i]]

-----------------------------------------------------------------------------
(* CostTracker. *)

\* What a call costs; a call without tokens or with a negative price is refused.
\* Both prices of a model are known, an unknown model having the default ones.
model_pricing == [cheap |-> <<0, 1>>, default |-> <<1, 2>>]

record_embedding_cost(tokens, price) == IF tokens = 0 \/ price < 0 THEN Unmetered ELSE tokens * price

record_llm_call(input, output, model) ==
    IF input = 0 /\ output = 0 THEN Unmetered
    ELSE input * model_pricing[model][1] + output * model_pricing[model][2]

record_storage_cost(gb, price) == IF price < 0 THEN Unmetered ELSE gb * price

\* The amounts that a call of each kind can stamp.
Costs(type) ==
    { a \in CASE type = "embedding" -> {record_embedding_cost(n, p) : n \in 0..1, p \in {-1, 2}}
              [] type = "llm_call" -> {record_llm_call(i, o, x) : i \in 0..1, o \in 0..1, x \in DOMAIN model_pricing}
              [] type = "storage" -> {record_storage_cost(n, p) : n \in {0, 1, 2}, p \in {-1, 1}}
      : a \in Amounts }

\* The entry is made, with the time of this moment ...
Stamp(r, tenant, type) ==
    /\ recorder[r] = Unmetered
    /\ Len(ledger) + Cardinality({q \in Recorders : recorder[q] # Unmetered}) < MaxEntries
    /\ \E a \in Costs(type) :
         recorder' = [recorder EXCEPT ![r] =
                        [tenant |-> tenant, type |-> type, amount |-> a, time |-> hour]]
    /\ UNCHANGED <<ledger, thresholds, hour, audit, cost_report>>

\* ... and pushed when the lock is got.
Push(r) ==
    /\ recorder[r] # Unmetered
    /\ ledger' = Append(ledger, recorder[r])
    /\ recorder' = [recorder EXCEPT ![r] = Unmetered]
    /\ UNCHANGED <<thresholds, hour, audit, cost_report>>

set_thresholds(tenant, t) ==
    /\ thresholds' = [thresholds EXCEPT ![tenant] = t]
    /\ UNCHANGED <<ledger, hour, recorder, audit, cost_report>>

\* `timestamp >= now - period`, for the entries of one tenant.
Within(entries, tenant, oldest, newest) ==
    {i \in DOMAIN entries : /\ entries[i].tenant = tenant
                            /\ entries[i].time + oldest >= hour
                            /\ entries[i].time + newest < hour \/ newest = 0}

entries_for_period(tenant, period) ==
    Restricted(ledger, Within(ledger, tenant, TimePeriod[period], 0))

generate_report(tenant, period) ==
    LET entries == entries_for_period(tenant, period)
        breakdown == [t \in CostType |-> Amount(Restricted(entries, {i \in DOMAIN entries : entries[i].type = t}))]
    IN /\ cost_report' = [tenant |-> tenant, period |-> period, hour |-> hour, breakdown |-> breakdown,
                     length |-> Len(ledger),
                     total |-> breakdown.embedding + breakdown.llm_call + breakdown.storage]
       /\ UNCHANGED <<ledger, thresholds, hour, recorder, audit>>

-----------------------------------------------------------------------------
(* CostDashboard::check_alerts. *)

NoAudit == [at |-> "idle", alerts |-> {}]

thresholds_snapshot ==
    /\ audit.at = "idle"
    /\ audit' = [at |-> "tenants", plan |-> thresholds, alerts |-> {}, since |-> ledger,
                 todo |-> {t \in Payers : thresholds[t] # Unmetered}]
    /\ UNCHANGED <<ledger, thresholds, hour, recorder, cost_report>>

\* A sum over a window of the tenant's entries, `newest` exclusive and 0 for now.
all_entries_for_tenant(tenant, types, oldest, newest) ==
    Amount(Restricted(ledger, {i \in Within(ledger, tenant, oldest, newest) : ledger[i].type \in types}))

Exceeded(limit, amount) == limit # Unmetered /\ amount > limit

\* The comparisons of one tenant. The averages are compared without dividing.
AlertsOf(tenant, t) ==
    LET sum(oldest, newest) == all_entries_for_tenant(tenant, CostType, oldest, newest)
        stored(oldest, newest) == all_entries_for_tenant(tenant, {"storage"}, oldest, newest)
        daily == sum(DayHours, 0)
        monthly == sum(MonthHours, 0)
        recent == sum(1, 0)
        baseline == sum(DayHours, 1)
        grown == stored(DayHours, 0)
        before == stored(2 * DayHours, DayHours)
    IN {a \in {"daily", "monthly", "spike", "growth"} :
         CASE a = "daily" -> Exceeded(t.daily, daily)
           [] a = "monthly" -> Exceeded(t.monthly, monthly)
           [] a = "spike" -> /\ t.spike # Unmetered /\ baseline > 0
                             /\ recent * (DayHours - 1) > baseline * t.spike
           [] a = "growth" -> /\ t.growth # Unmetered /\ before > 0
                              /\ grown > before + before * t.growth}

CheckNextTenant(tenant) ==
    /\ audit.at = "tenants" /\ tenant \in audit.todo
    /\ audit' = [audit EXCEPT !.todo = @ \ {tenant},
                   !.alerts = @ \cup {[tenant |-> tenant, alert |-> a, hour |-> hour] :
                                        a \in AlertsOf(tenant, audit.plan[tenant])}]
    /\ UNCHANGED <<ledger, thresholds, hour, recorder, cost_report>>

AlertsReturned ==
    /\ audit.at = "tenants" /\ audit.todo = {}
    /\ audit' = [audit EXCEPT !.at = "done"]
    /\ UNCHANGED <<ledger, thresholds, hour, recorder, cost_report>>

HourPasses ==
    /\ hour < LastHour
    /\ hour' = hour + 1
    /\ UNCHANGED <<ledger, thresholds, recorder, audit, cost_report>>

\* A behaviour ends with its report or with the answer of its check.
CostNext ==
    /\ cost_report = Unmetered /\ audit.at # "done"
    /\ \/ \E r \in Recorders : (\E t \in Payers, type \in CostType : Stamp(r, t, type)) \/ Push(r)
       \/ \E t \in Payers : \/ \E b \in Budgets : set_thresholds(t, b)
                            \/ CheckNextTenant(t)
                            \/ \E period \in DOMAIN TimePeriod : generate_report(t, period)
       \/ thresholds_snapshot \/ AlertsReturned \/ HourPasses
    /\ UNCHANGED <<slo_vars, engines>>

-----------------------------------------------------------------------------
(* SloCollector: every operation holds the lock throughout. *)

Operation == {"hot_context", "standard_recall", "forget", "other"}

Count(s) == MapThenSumSet(LAMBDA v : s[v], Latencies)

\* The nth value of the samples in ascending order.
Nth(s, n) == CHOOSE v \in Latencies :
    /\ MapThenSumSet(LAMBDA w : s[w], {w \in Latencies : w <= v}) >= n
    /\ MapThenSumSet(LAMBDA w : s[w], {w \in Latencies : w < v}) < n

\* ceil(0.95 n), at most n.
Index95(n) == Min({(n * (OneIn - 1) + OneIn - 1) \div OneIn, n})

compute_p95(s) == IF Count(s) = 0 THEN Unmetered ELSE Nth(s, Index95(Count(s)))

recompute_p95s(all) ==
    [hot_context |-> compute_p95(all.hot_context),
     standard_recall |-> compute_p95(all.standard_recall),
     forget |-> IF Count(all.forget) = 0 THEN Unmetered
                ELSE MapThenSumSet(LAMBDA v : v * all.forget[v], Latencies) \div Count(all.forget)]

record_latency(op, v) ==
    /\ slo.requests < MaxSamples
    /\ samples' = IF op = "other" THEN samples ELSE [samples EXCEPT ![op][v] = @ + 1]
    /\ slo' = recompute_p95s(samples') @@ [slo EXCEPT !.requests = @ + 1]

record_permission_fail_open ==
    /\ slo.fail_open < MaxCount
    /\ slo' = [slo EXCEPT !.fail_open = @ + 1, !.errors = @ + 1]
    /\ UNCHANGED samples

record_timeout ==
    /\ slo.timeouts < MaxCount
    /\ slo' = [slo EXCEPT !.timeouts = @ + 1, !.errors = @ + 1]
    /\ UNCHANGED samples

record_circuit_open ==
    /\ slo.circuit_opens < MaxCount
    /\ slo' = [slo EXCEPT !.circuit_opens = @ + 1]
    /\ UNCHANGED samples

\* A value that is not given keeps the one before.
record_quality_metrics(recall, groundedness) ==
    /\ slo' = [slo EXCEPT !.recall = IF recall = Unmetered THEN @ ELSE recall,
                                  !.groundedness = IF groundedness = Unmetered THEN @ ELSE groundedness]
    /\ UNCHANGED samples

\* `p95 > target`, and from 0.8 of the target on a warning.
Severity(p95) ==
    IF p95 = Unmetered THEN "none"
    ELSE IF p95 > Target THEN "critical"
    ELSE IF p95 >= (Target * 8) \div 10 THEN "warning" ELSE "none"

check_slo_violations ==
    [hot_context |-> Severity(slo.hot_context),
     standard_recall |-> Severity(slo.standard_recall),
     permission |-> IF slo.fail_open > 0 THEN "critical" ELSE "none"]

SloNext ==
    /\ \/ \E op \in Operation, v \in Latencies : record_latency(op, v)
       \/ record_permission_fail_open \/ record_timeout \/ record_circuit_open
       \/ \E r, g \in {Unmetered, 1} : record_quality_metrics(r, g)
    /\ UNCHANGED <<cost_vars, engines>>

-----------------------------------------------------------------------------
(* Comparison of engines. *)

NoTotals == [total |-> 0, count |-> 0]

record_engine_metrics(e, score) ==
    /\ engines[e].count < MaxCount
    /\ engines' = [engines EXCEPT ![e] = [total |-> @.total + score, count |-> @.count + 1]]

engine_comparisons == [e \in {x \in Engines : engines[x].count > 0} |-> engines[e].total \div Max({engines[e].count, 1})]

EngineNext ==
    /\ \E e \in Engines, s \in Scores : record_engine_metrics(e, s)
    /\ UNCHANGED <<cost_vars, slo_vars>>

-----------------------------------------------------------------------------

MeteringInit ==
    /\ ledger = <<>> /\ thresholds = [t \in Payers |-> Unmetered] /\ hour = 0
    /\ recorder = [r \in Recorders |-> Unmetered] /\ audit = NoAudit /\ cost_report = Unmetered
    /\ samples = [op \in Operation \ {"other"} |-> [v \in Latencies |-> 0]]
    /\ slo = [requests |-> 0, errors |-> 0, timeouts |-> 0, circuit_opens |-> 0, fail_open |-> 0,
                  hot_context |-> Unmetered, standard_recall |-> Unmetered, forget |-> Unmetered,
                  recall |-> Unmetered, groundedness |-> Unmetered]
    /\ engines = [e \in Engines |-> NoTotals]

-----------------------------------------------------------------------------

\* The money a tenant spent in the hours from `oldest` to `newest`, by the entries.
Spent(entries, tenant, oldest, newest) ==
    Amount(Restricted(entries, {i \in DOMAIN entries :
        entries[i].tenant = tenant /\ entries[i].time >= oldest /\ entries[i].time <= newest}))

Ago(h, n) == IF h < n THEN 0 ELSE h - n

\* check_alerts: a budget that was overrun by entries that were in the ledger when
\* the check began and are still of the period when it ends is reported, and a
\* reported overrun is one by the ledger of now. Entries may come in meanwhile,
\* and late ones with a time of before.
OverrunsReported ==
    audit.at = "done" =>
        \A t \in Payers : (audit.plan[t] # Unmetered /\ audit.plan[t].daily # Unmetered) =>
            LET told == {a \in audit.alerts : a.tenant = t /\ a.alert = "daily"}
            IN /\ Spent(audit.since, t, Ago(hour, DayHours), hour) > audit.plan[t].daily => told # {}
               /\ \A a \in told : Spent(ledger, t, Ago(a.hour, DayHours), a.hour) > audit.plan[t].daily

\* generate_report: nothing of the period is missing from the total, whatever its type.
ReportComplete ==
    cost_report # Unmetered =>
        cost_report.total = Spent(SubSeq(ledger, 1, cost_report.length), cost_report.tenant,
                             Ago(cost_report.hour, TimePeriod[cost_report.period]), cost_report.hour)

\* check_slo_violations: critical means that more than one request in twenty took
\* longer than the target, by the samples since the start; a permission check that
\* failed open is never silent.
SloTold ==
    /\ \A op \in {"hot_context", "standard_recall"} :
         LET n == Count(samples[op])
             slow == MapThenSumSet(LAMBDA v : samples[op][v], {v \in Latencies : v > Target})
         IN check_slo_violations[op] = "critical" <=> OneIn * slow > n
    /\ slo.fail_open > 0 => check_slo_violations.permission = "critical"
    /\ slo.errors = slo.fail_open + slo.timeouts

\* engine_comparisons: an average lies between the least and the greatest score.
AveragesBounded ==
    \A e \in DOMAIN engine_comparisons :
        engine_comparisons[e] >= Min(Scores) /\ engine_comparisons[e] <= Max(Scores)

MeteringSound == OverrunsReported /\ ReportComplete /\ SloTold /\ AveragesBounded
=================================================================================
