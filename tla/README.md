# Verification of oris-memory-server

TLA+ models of oris-memory-server, TLC runs that check them on small instances,
and TLAPS proofs for every instance. `PROJECT.json` maps each definition to the
source lines it models and lists runs, mutants, findings, hazards and theorems;
this file explains them.

Paths below are relative to `src/crates/`: *cp* is `oris-control-plane/src`,
*store* is `oris-memory-store/src`.

## 1. The system

The server keeps the memories of users and agents. A request comes in over HTTP
or MCP, passes an access check, and ends in one of the managers of the control
plane; these talk to PostgreSQL (the system of record), to Redis (caches and
locks) and to pluggable memory engines. **No manager opens a transaction**: an
operation is a sequence of statements that are committed one by one. That, and
the processes working beside each other on the same rows, is where the hard
behaviour is.

| Component | State | Operations | Hard behaviour | What makes it correct |
|---|---|---|---|---|
| Outbox and worker (*store* `postgres/outbox.rs`, *cp* `outbox_worker.rs`) | `outbox_event` rows | enqueue, dequeue, mark_done, mark_failed; the poll loop | competing workers, retry as a new row, faults between statements, shutdown | one holder per row, retries in a chain, settled once, a stale entry has an event or a known reason, everything is settled in the end |
| Memory lifecycle (*cp* `memory_control_plane.rs`, `governance/*`) | `memory_item`, versions, events, holds | propose, promote, revoke, quarantine, archive, record_outcome, forget, version, rollback, retention | check-then-act across statements, partial failure | nothing active without a review, held items are only taken by what never asks for holds or had asked before, a status is announced after it last changed |
| Cascading forget (*cp* `governance/forget.rs`) | work stack, visited set | cascade_forget | cycles, shared derivations, the depth limit | ends, touches descendants only, complete |
| Write pipeline (*cp* `write_pipeline.rs`, `poison_guard.rs`) | the row, its provenance, its event | submit_candidate | equal submissions at once, a row half written | what was blocked is not stored, what is active was scanned |
| Shared tasks (*cp* `shared_task.rs`, *store* `task_repo.rs`, `redis/session.rs`) | task row, copy, lock | get_context, add_findings, update_status, handoff | cache-aside races, lock expiry, errors after the first write | handoffs exclude each other, the lock is given back, stale copies have a reason |
| Engine registry (*cp* `engine.rs`) | engine map, breaker map | search, register, unregister | late results, cancellation, two locks | open iff failing, bounded probing, recovery |
| Engine adapters, resilience (*cp* `engines/*`, `resilience.rs`) | the mirrored copy, health of engines | write, search, delete, health | lost requests and answers, retries | a write that was answered stands or is queued |
| Scope of a memory (*cp* `scope_escalation.rs`, `api/routes.rs`, `governance/version.rs`) | scope, approval requests, versions | promote, approve, reject, expire; the promote route; rollback | stale reads, decisions racing promotions, writers that ask nobody | no scope that was neither given nor earned |
| Degradation (*cp* `degradation.rs`) | degraded set, level, deny flag | report_failure, report_recovery | three locks, one after the other | never fails open |
| Experience server (*cp* `control_plane.rs`, `server`, `mcp.rs`, `key_service`, `oen`) | genes, receipts; keys, windows, signature cache | propose, record_outcome, promote, revoke; create, rotate, revoke keys | statements without a transaction, a key revoked during a request, a cached verdict | stable means earned; a revoked key never authenticates; limits hold for every window |
| Gene store (*store* `store.rs`, `replay_hook.rs`) | genes, tags, capsules | upsert, delete, search, replay | a gene and its tags in several statements | tags and capsules follow their gene |
| Gateway and users (*cp* `api/gateway.rs`, `identity.rs`, `canonical_user.rs`) | identity cache, profile cache, profiles | resolve, upsert, update_consent, invalidate | a cached identity that IAM changed, a profile cached by an overtaken reader | an identity is as old as the cache allows, at most |
| REST handlers, access decisions (*cp* `api/routes.rs`, `api/user_memory.rs`, `governance/acl.rs`) | items, versions, events | promote, verify, correct, forget, share... | handlers whose statements interleave, hard_delete in three statements | versions have numbers of their own, nothing is left of what was deleted, less permission gives no more |
| Context (*cp* `context_router.rs`, `context_assembler.rs`, `context_package.rs`) | none | route, assemble, package, vet | six fetches at once, each may fail or be late | the budget is kept, what is shared is vetted |
| Search (*store* `postgres/search.rs`, *cp* `vector_search.rs`, `rerank.rs`, `pre_filter.rs`) | none | hybrid and vector search, rerank | filters before and after the limit, ties | only what the caller may see, the best first |
| Facts, entities (*cp* `conflict_resolver.rs`, `entity.rs`) | entities, relations | resolve, merge, walk | walks while relations are added, order of reports | the highest authority wins, paths are real |
| Reflection, twin (*cp* `reflection.rs`, `digital_twin.rs`) | episodes, experiences, runs | distil, consolidate, inject, capture | thresholds, rounding, repeated runs | conclusions rest on their episodes or runs |
| Decisions, verification (*cp* `decision.rs`, `sot_verification.rs`) | decision records, verdicts | decide, act, withdraw; verify | stage checked before it is written | stages in order, safe means verified |
| Partitions, import (*store* `partition.rs`, `migrate.rs`) | partitions, archives, imported rows | create, archive, drop; import | writers during an archive, imports that die | a row is in a partition or its archive; a clean report is complete |
| Measurement (*cp* `cost_tracking.rs`, `slo_monitoring.rs`, `eval.rs`, `poc_framework.rs`) | ledger, samples | record, check, benchmark, evaluate | late entries, concurrent audits, lost tasks | overruns are reported, each request is counted, a verdict is earned |
| Protection (*cp* `compliance.rs`, `encryption.rs`) | keys | mask, detect, encrypt, rotate | overlapping rotations, runs of digits | numbers are masked, old data stays readable |
| Agents (*cp* `adapters/*`, `client/client.rs`, `mcp_tools.rs`) | requests on their way, tool calls | submit_results, promote, publish_envelope, tools | timeouts and late effects, parameters that cannot be read | Ok means done, results in order |

## 2. How the project is built, and what is left

One module per component. The components that keep state in the same tables and
are hardest have runs of their own: `Outbox` (with `EventDelivery`, its abstract
specification), `MemoryGovernance`, `CascadeForget`, `SharedTask`,
`EngineRegistry`, `Degradation`. `MemoryGovernance` puts `MemoryLifecycle` (the
status) and `ScopeEscalation` (the scope) together: two columns of one row, with
different writers. The others are composed into three paths:

* `ExperiencePath` = `AccessPath`, `ExperienceLifecycle`: the experience server.
* `KnowledgePath` = `WriteIntake`, `FactResolution`, `EntityGraph`, `Reflection`,
  `DigitalTwin`, `DecisionTrail`, and `ContextPath`, which is itself composed of
  `ContextRouter`, `ContextPackage`, `Retrieval` and `PoisonGuard`: how the server
  comes to know things and tells what it knows.
* `PlatformPath` = `Partitions`, `SqliteImport`, `GeneStore`; `Gateway`,
  `ApiHandlers`, `AgentSide`; `Metering`, `DataProtection`, `EngineAdapters`,
  `Evaluation`: what the service stands on.

Within a path the parts share no state in the code either (other tables, other
maps, other processes), so a behaviour moves one part (`part`, `half`): the
interleavings of unrelated parts would multiply states and show nothing. Within
`ContextPath` the parts do interact: the plan of the router bounds the assembly,
the rows of the search become its segments, the guard vets its package.

Every property a passing run checks is proved, but for liveness and AccountsSound
(section 6). Left: the composition of MemoryLifecycle with Outbox, so that what a forget
announces is what the workers deliver.

## 3. The modules and the code

**Outbox** models the table and the workers. `events` is the table in the order of
`created_at`; a row has a type, the payload fields the dispatch reads, a status, a retry
count and (history) the row of the submission it retries. A worker is `pc`, its claimed
`batch`, the row in hand `cur` and the invalidations still to perform `todo`. `Dequeue`
is the single UPDATE with FOR UPDATE SKIP LOCKED; `ProcessEvent` is
compute_invalidation_actions on the row as `map_row_to_outbox_event` reads it back
(`ReadBack`: three event types come back as UserContextUpdated); `Invalidate` is one
Redis command; `MarkDone`, `Reenqueue`, `DeadLetter` are the outcomes of handle_failure;
`DbError` is a statement that fails and is logged; `Crash` drops a worker and restarts
it; `Stop` is the shutdown signal. `stale` is the set of Redis entries whose source has
changed since they were written; `AffectedKeys` is the table at the head of
`outbox_worker.rs`, `InvalidationActions` what the dispatch does, and `Overlooked` where
the two differ. A worker waiting in its sleep takes the signal in the same step as its
next poll; the exit when the sender is dropped is not modelled. `EventDelivery` is the
promise to a producer; Outbox implements it with accepted = lineages, done = delivered
ones, givenUp = dead-lettered ones.

**MemoryLifecycle** models one row of `memory_item` per id, reduced to its status and
the number of outcomes in its gene, with its versions, the events announced for it since
its status last changed, and holds. `Program(op)` lists the statements of each operation
in code order; each statement is an action, and `Faults` may end an operation after any
of them. `approved`, `racy`, `recorded`, `debt` (who owes the event of the last change),
`mute` (the last change is one nobody announces) and `unseen` (a forget that had asked
for holds before one was placed) are history variables.

**CascadeForget** models the walk of cascade_forget: the stack of (id, depth), the
visited set, and the query for derived memories, for every derivation graph
of the instance, while other requests revoke, delete or hold memories.

**SharedTask** models one task: the row (its content is a revision number: each
UPDATE makes a new one), the Redis copy and the lock. Each statement and each
command is a step that may fail, or take effect and lose its answer.

**EngineRegistry** models one engine behind its breaker. Each lock acquisition is
a step; time is the Boolean `cooled`. The breaker that `search` inserts when
there is none is the default one, as in the code.

**ScopeEscalation** models every writer of the scope of one memory: the promote calls
of ScopeEscalationManager over both approval stores, the promote route of the API,
which snapshots a version and then sets any scope, on the ladder or off it (Agent,
Process), and the rollback, which restores the scope of a version with the rest of the
row. Confidence and evidence change at any time, so an assessment lets the next rank
through or not; `given` are the scopes the memory was given outright, `overtaken` the
promotes since whose read another call changed the scope.

**ExperienceLifecycle** models one version of one gene in SQLite. Every write
replaces the whole row by the copy (`mine`) the call read before. The receipts
are kept as outcome_stats sees them: the outcomes in the order of `created_at`,
where a late receipt may go anywhere, and the set of contexts. `Fail` ends a call
between any two statements. The scopes are two, those propose resets and those
it keeps.

**Degradation** models recompute_level lock by lock.

**AccessPath** models a request to the experience server from the rate limiter to
the change it makes. The checks of each endpoint and tool are steps in code order,
so a key may be revoked or rotated between the check and the change. A public key
is told by its hex, an envelope by its sender and the key that signed it; the
signature cache has the key `CacheKey`, which lacks the payload, as in the code.
`ReadClock` reads the clock and `CheckLimit` takes the lock later, so a request may
push its time behind a later one: the window, a Vec in the order of the pushes, need
not be sorted, and `retry_after` is counted from its first entry as in the code. Of the
ops, `fetch` asks for no key and `list_public` only for the header.

**ContextPath** models one request for context or one search. `route` is the router; the
six fetches answer, fail or run out of time in any order while another request changes
the store; `Assembled` is assemble_within_budget with lengths in characters; `build`,
`validate_for_sharing` and the policy follow. A text has parts, one for each line `##
...` in it. `split_segments` begins a segment at every such line, so what was one text
may become several, of other sections and priorities; `shrink_text` drops some of them
and joins the others with blank lines, after which the text is no longer found whole and
is not marked (`intact`). `Retrieval` gives the SQL of both searches as sets of possible
answers (rows that tie may come in any order; a row without an embedding has no score,
which PostgreSQL sorts first and the code reads as 0), then the permission filter and
the reranking. The vector search is what either plan of its statement finds: a scan, all
rows that pass; the HNSW index, any `EfSearch` of them at most, since the filter comes
after the candidates. A text, or an answer of which rows were dropped, is a function on
the places its parts had; a stable sort is the set of the orders that are sorted and
stable, which has one member. A negative limit or offset makes PostgreSQL reject the
statement, so searches have natural numbers there.

**WriteIntake** has the stages of submit_candidate, the row written in up to four
statements, for submitters at the same time. **FactResolution** has resolve and
merge_profiles over reports in every order; the place a stable sort gives a profile
is the number of those that precede it. **EntityGraph** loads the adjacency list
of a walk query by query while relations are added. **Reflection** and
**DigitalTwin** have the thresholds, clusters and counters; shares are in percent.
**DecisionTrail** derives the stage from the columns that are filled, as the code
does, with a read and an update per operation.

**Partitions** has each DDL and DML statement as a step of an archiver or a writer;
the name of a partition is the tuple the code joins. **SqliteImport** copies one
record per step and may die. **GeneStore** has a statement per step, the decay of
confidence in whole units and the hook's counters.

**Gateway** has the header contract, the resolver with its cache in Redis (read under
the token, written under the user, as the code does) and the profile cache. `StandsFor`
says which tokens a presented text stands for because of that: itself, and the tokens of
the user it names.
**ApiHandlers** has each handler that changes state as its statements, any of which may
fail; an update of a task carries findings, a status or both. **AgentSide** has the
adapters with requests that outlive their timeout, the client, and the tools: a
parameter is missing, of another type, blank, a word or good, and `exec_...` lists what
a tool reads and how.

**Metering** stamps an entry before the ledger's lock is taken; money, time and the
95th percentile are scaled down (`OneIn` is 20 in the code). **DataProtection** takes
a text as a sequence of runs of digits and other characters. **EngineAdapters** sends
each HTTP request as a step; it is lost, served with its answer lost, or answered. Cognee
answers a cognify, and Graphiti an episode (202), before the work is done: it is queued
and carried out later. A delete of the id that names a tenant's dataset takes the
dataset away.
**Evaluation** computes with multiples of 1/`Whole`, where every denominator of the
instance divides `Whole`.

The definitions named after functions of the code are those functions; those
mapped as external (the services behind the adapters, the engine under test, the
signature check) choose among the answers the code distinguishes.

A run whose constants need definitions has an `MC...` module; the other runs check
the component's module as it is, under the cfg named after it. Operators whose
comment begins with *Mutant* are mistakes a maintainer could make; each property of a
passing run is shown to be violated when one of them replaces the definition it
follows.

## 4. The runs

| Run | Result | Instance | What it shows |
|---|---|---|---|
| `outbox` | pass | 2 workers, batch 2, 1 retry, 2 submissions (one that can never succeed), Redis and SQL errors, crashes, shutdown | one holder per row; retries form a chain; settled at most once and, unless a fault stranded a row, in the end; a stale entry has an event that is not done, unless the dispatch deletes another entry or its repository is not attached; final statuses stay; shutdown drains; EventDelivery is implemented |
| `outbox_permissions` | violation | 1 worker, no faults | a permission change is settled and the entry the table of `outbox_worker.rs` names is still there |
| `outbox_forget` | violation | no faults | the event of a forget is dead-lettered: its payload lacks the fields the dispatch requires |
| `governance` | pass | life: 1 item, 2 processes, 4 operations of all 14, faults; scope: 2 calls, 2 requests, 2 versions, both stores | what becomes active was approved; a held item is only taken by what never asks or had asked before; a status is announced after its last change; outcomes are counted; no scope is wider than one given outright but by ranks assessed and approved, whose approvals stand in the guarded store; a promote goes one rank up unless it was overtaken |
| `lifecycle_hold` | violation | 3 operations | forget_user_data, archive and retention ignore legal holds |
| `cascade` | pass | all graphs of at most 3 edges over 3 memories, depth 2, interference | only descendants, trees complete, the walk ends |
| `shared_task` | pass | 3 requests, 2 agents, faults, expiry | handoffs exclude each other while their lock lasts; no path keeps the lock; every stale copy has one of the listed reasons |
| `engine_registry` | pass | 3 searches, threshold 2, re-registration | open iff failing; at most two probes per cooldown; recovery |
| `degradation_failopen` | violation | 2 reports, 2 subsystems | the deny flag ends up FALSE while the permission engine is down |
| `experience` | pass | gene: 2 processes, 2 calls, 4 receipts; door: 2 requests, 2 agents, 2 public keys, 2 API keys, limit 2 in a window of 2 | stable or shared was earned; an unsafe gene is not stable in serial use; counters recover; no window admits more than the limit, overtaken requests apart, nor the latest one with them; a revoked key is served the gene search and the list of public keys only; what is published was signed under a key that was active |
| `knowledge` | pass | see below | the budget is kept and used; what is shared is vetted, flagged and the tenant's own; searches return what may be seen, the best first; paths are real; conclusions rest on what was told; records are in order |
| `platform` | pass | see below | StorageSound, RequestsSound, AccountsSound: one part of each per module, listed there |

The properties of the last two runs are conjunctions of one named property per part
(PartitionsSound, ResultsHandedIn, FactsWin...), each stated and commented in the
module of its part. Type invariants are in the modules; where there are proofs
they are proved, elsewhere they document the state.

### Bounds

* Two workers and a batch of two give both contention on a row and a batch in
  which one row fails; one retry gives first attempt, retry and dead letter.
  The safety part needs no bound: it is proved, as it is for every run
  below except AccountsSound of `platform` (section 6).
* Two processes give every overlap of two operations; four operations are a
  write, a change, a snapshot and a rollback. One item suffices because no
  statement touches two, except forget_user_data, which is one UPDATE.
* Three memories with three edges contain every cycle, chain and shared
  derivation that depth 2 can tell apart.
* Three requests in SharedTask are a reader between two writers, and three
  handoffs of which two have the same agent: the least that lets a late release
  free the lock of a namesake.
* Three searches with threshold 2 let results of searches admitted before the
  circuit opened come in after it; `MaxFailures` only stops the counter.
* Two approval requests bring a memory to Factory by two ranks that need one; two
  versions are a route call and a rollback to what it replaced; two calls let one
  overtake the other. The route is asked for one scope, Team. The proofs remove the
  bounds, this one too.
* Four receipts are two successes that make a gene stable and two failures that
  end it. A propose brings any number of receipts in its bundle, so two calls
  are a whole history and one call that interferes or proposes again.
* AccessPath: the clock runs to 2 and the limit is 2, so that a request may be overtaken
  between the clock and the lock while another entry is in its window, and that a
  window, a key with a time to live and a cached signature all run out; two requests
  give the revocation of a key in the middle of its use.
* KnowledgePath: five rows of two tenants, one expired and two with signs the guard
  knows, two texts with a line `## ...` in them; budgets from 9 tokens to the default,
  package budgets that keep all, drop a text, or drop the part with the marker; a change
  of the store during the fetches; four episodes; four entities with a cycle, a loop and
  a relation across tenants, all depths up to 3; reports of three sources; two callers
  of one decision and two submitters at once.
* PlatformPath: two writers and an archiver over two months; two imports, of which
  the first dies; two genes with one capsule and four calls; two requests at the
  gateway while IAM changes once, six header maps; three requests to the handlers; a
  list of results submitted in three attempts; two payers and an audit; two
  rotators with three rotations; three calls of an adapter with every loss; four
  requests of a benchmark.
* Processes that play the same role in different parts are the same model values
  (`x1`, `x2`, `z1`), which is sound because one part moves in a behaviour; the
  symmetry of a run permutes them. No CHOOSE ranges over a symmetric set or over
  values made of its members.

### Fairness

* Outbox: weak fairness of each worker. `OutboxWorker::run` loops until the
  shutdown signal and sleeps a bounded time.
* CascadeForget: weak fairness of the walk, which is one loop of one request.
* EngineRegistry: time passes (weak fairness of `Cool`), a registration that began
  ends, and searches keep coming; strong fairness of admission and of the answer of
  a healthy engine says that callers do not cancel every search for ever.
  Nothing is assumed of the engine: Recovers is conditional on its answering.

Deadlock checking is off where the model ends because its bound on requests is used up,
and on in `engine_registry` and `degradation_failopen`. The parts of the three paths
state safety only: their actors are requests that may be cut off at any point.

## 5. What is proved

Every theorem is about the specification its run checks, for every value of the
constants that the module's named ASSUME admits: bounds of the form `Max...` are
arbitrary natural numbers, thresholds and limits are positive where the code's are,
sets of processes, requests, keys or memories are arbitrary (CascadeForget
and the receipts need finite ones, because they are counted). Each proof module
states its inductive invariant first, part by part, then the lemmas, one step
lemma per action or statement, and the theorems last. The invariants were
checked with TLC on the instances of the runs before they were proved.

`OutboxProofs`: `TypeCorrect`, `NoDoubleProcessing`, `RetriesFormAChain`,
`SettledAtMostOnce`, `FinalStatusNeverOverwritten`, `OutboxImplementsDelivery`,
`StaleEntriesCovered`. The inductive invariant is

    TypeOK /\ Control /\ RootsClosed /\ DeliveredRoots
      /\ SingleHolder /\ LineageLinear /\ SettledOnce

The three properties need each other: a re-enqueue keeps the chain because its
row has one holder, and a submission is settled once because only the newest
row of its chain can act. `Control` ties a worker's position to the row it
holds, and `RootsClosed` makes the first row of a lineage its representative.
StaleCovered is about all event types and any repositories: it names the entries
whose delete the dispatch forgets (`Overlooked`) and those nobody could delete.
`Covered` strengthens it: the event that answers for any other entry is not done, and
the worker on it still has the delete of that entry to do. A crash or an error returns
the row or leaves it in `processing`, and a retry copies the type or, where the type is
lost on the way, one that deletes what is not overlooked (`Exact`), so the entry stays
answered for.

`MemoryLifecycleProofs`: `TypeCorrect`, `HoldsStopForgets`, `ActiveIsApproved`,
`StatusesAnnounced`, `OutcomesAreCounted`, and the action property `SerialIsSafe`, for
any items, processes and operations, with faults. `Control` says that what is left of an
operation is an end of its program, so each statement knows what comes after it. A
rollback writes back an old row, so `Reviewed` carries ActiveWasApproved to the
snapshots, to the rows read and to the programs that will activate. `AllTold` is
StatusAnnounced at every moment: either nobody owes an event and one that announces the
status was enqueued since it changed, or the one who changed it last has the event still
to enqueue. `Seen` says that a forget past its check with a hold on its target saw that
hold placed behind its back; `Fresh` keeps an id from being used before its row is
inserted; `Serial` and `ReadStands` say that on an item without overlaps one operation
is under way and what it read still stands, from which `Counted` and SerialIsSafe
follow.

`CascadeForgetProofs`: `TypeCorrect`, `DescendantsOnly`, `TreesCompleted`, for any
finite set of memories, any graph, any depth limit. `Placed` and `InHand` say
that what is on the stack or in hand is reached by a path of the depth it is
noted with; `Counted` bounds the counter by the visited memories. For a cascade
nobody interferes with, `Thorough` says that what was left is revoked and each of
its derivatives is visited, on the stack one level deeper, or too deep. On a tree
the depth of a memory is unique, so at the end an unvisited memory within
the limit with the shortest path would contradict this.

`SharedTaskProofs`: `TypeCorrect`, `HandoffsExclude`, `LockReleased`,
`StaleHasReason`, for any agents and requests. `Owns` (a handoff in its section has
the lock unless it expired or was robbed) gives the exclusion, `HeldInName` (the
lock stands under the name its owner will release) that it is not leaked.

`ControlPlaneProofs` is about two components that share nothing. The scope of a memory,
for any number of calls, requests and versions and any scopes asked of the route:
`ScopeTypeCorrect`, `NoUnearnedScope` (Earned), `NoWithdrawnApproval` (ApprovalsStand),
`PromotionsAreMonotone` (PromotionsWiden). None is inductive: a call that was overtaken
writes a scope computed from an old one, and a rollback one from a version. `Lawful` is
what both properties say of a scope; `ScopeIInv` says it of the memory, of every version
and of what every call is about to write (`CallLawful`), and it stays true since nothing
that was given, assessed or granted is taken back (`Grown`). `ApprovedGranted` says that
an approval on record was granted, `OnTrack` that a promote not overtaken still goes one
rank up. The engine registry, for any number of searches and any positive threshold:
`RegistryTypeCorrect`, `CircuitFollowsFailures` (OpenIffFailing) and `AtMostTwoProbes`
(ProbesBounded). Its invariant `RegistryIInv` adds `Probing`, which ties the number of
probes since the last cooldown to the state of the breaker: a half-open breaker has let
at most one through, an open one that has cooled none.

`ExperiencePathProofs`: `TypeCorrect`, `StableIsEarned`, `CountersAreHealed`,
`UnsafeIsNotStable`, `LimitIsKept`, `RevokedIsNotServed`, `PublishedIsVouched`, for
the composition of both halves. `GeneInv` is about the gene: `Copies` says
that a copy, which may be written back long after, is stable or shared only
if that was earned; `Noticed` that receipts that suffice were noted; `OneAtATime`,
`CountersCarried` and `Judged` follow the counters and the verdict of the one
call of a serial history from the receipts to the copy to the row. That needs
lemmas on the receipts: what inserting one at any place does to the counts and to
the failures at the end. `DoorInv` is about the door: `Fits` says of a request, by
the step it is at, what was checked (`ComesWithKey`, `PassedInTime`, `Vouched`,
`LeftRoom`); `CacheHonest` that a cached verdict is true of the key it names;
`WindowsFaithful` that what was admitted within the window behind the latest time is
still in the limiter's, in whatever order it was pushed, so that an entry that was not
overtaken counted all the others of its window.

`KnowledgePathProofs`: `RecordsAreKept`, `BudgetsAreKept`, `SharedIsVetted`,
`SearchesAreSound`, `PathsAreReal`, `FactsAreWon`, `MergesKeepAuthority`,
`LessonsAreGrounded`, `TwinsAreSound` and, from the last four, `ConclusionsAreGrounded`.
The parts share no state, so `OnePart` reduces a step of the path to a step of one part,
and each has its invariant.

* `Filled` (decisions): `Found` says that the column a caller found filled when it
  checked the stage is still filled when it writes, though others may have written in
  between; so no interleaving skips a stage. `BlankAssumption` says that the absent
  value is none of the values.
* `Weighed` (verifications): the verdict is `Safe` from the moment it is reached, with
  the expiry that was read before the first query; Verified needs every answer to be a
  match, by counting. The audit entry precedes the version entry.
* `Kept` (submissions): `Stored` says what of the row each statement has written,
  `Passed` that nothing blocked gets as far as a row, wherever a statement fails.
* `ContextInv` (contexts): `Gathered` says that every source gave a list of segments;
  `Presentable` that what is unverified is marked and what is disputed is flagged. It
  holds of any choice of the segments, so what the budget and the policy drop cannot
  break it. Shrinking also drops parts of a text: what is left with its first part has
  its marker or is whole and gets one, and a text without its first part is only found in
  a package that exceeded its budget. `Offered` adds what the guard has seen.
* BudgetKept is inductive beside `ContextInv` and `Planned` (a plan allows a number of
  tokens). `Greedy` says of the choice, when some segments were tried, that they are the
  foremost, that what is kept takes the bytes counted and fits, and that each of the
  others would not have fitted beside what is kept and before it; trying the next keeps
  that (`TryGreedy`), since what is kept later comes after. There is always a foremost
  one (`ForemostFacts`). The sums are those of the library: `SumStep` unfolds one, and
  `SumWithout` and `SumLesser` follow by the smallest set for which they would fail. A
  text is no longer than what was counted for it (`TextFits`), separators included.
* SearchSound is inductive beside `store \subseteq Items`. What beats another row has
  the higher weighted sum, so reranking by the sum never puts it behind. For the vector
  engine, `SortedThroughout` turns the order of neighbours into that of any two places,
  by the least place that would be out of order, and `NoneAhead` shows that the sorted
  order of a finite set is at every place at least as near as that of any of its subsets,
  such as the index finds: otherwise more items would be nearer than there are places
  before that one. The assumptions are that the rows are finitely many and well typed.
* `GraphInv` (entities): `ListFits` says that the list a walk loads has, of an entity,
  all it was related to when the walk began and nothing it is not related to;
  `LevelFits` that what was within reach in fewer hops than the level is in the list,
  and in as many, in the list or the frontier. What the search sees first at a hop is
  linked by as many relations (`SeenIsLinked`), and what was linked is seen
  (`LinkedIsSeen`), since a walk as long as there are entities passes one twice and can
  be cut short (`LinkedShortly`). These are inductions over the number of hops, by a
  least counterexample.
* `Settled` (facts, profiles): a verdict is the one on all that was reported. The rest
  is about the algorithms, for any number of sources. The order of the sort keys is
  strict and total; of any reports one has the fewest above it, hence none
  (`WinnerExists`), so CHOOSE in `Winner` has what to choose; two orders of the same
  reports have winners with equal keys (`OrderIrrelevant`). The place of a profile is
  injective, hence onto (`SortedProfiles`): the sort loses nobody and is descending.

* `ReflectionInv` (episodes): an experience of `LessonFits`, and what was observed before
  the last run `Answers` to one. A cluster has the episodes of its key and no other
  (`ClusterFits`), what is left of it has no near duplicates and one for each it had
  (`KeptFits`). The outcomes of a cluster are the same; where they are not successes the
  mean rate is 50 at most and the confidence below 70 (`EvaluateFacts`).
* `TwinInv` (simulations): a run that succeeded is `Backed` by memories injected, one
  with no more and one with no less confidence than its accuracy; until it is recorded it
  is `Compared` with the runs there are. Averages, weighted or not, are between the least
  and the greatest of the numbers (`AccuracyBounds`, `AverageBounds`), since sums compare
  as their terms do (`SumsCompare`) and so do quotients (`QuotientBounds`). The sums and
  clusters are recursive functions, inductions are by a least counterexample. Memories
  are finitely many.

`PlatformPathProofs`: `PartitionsKeepRows`, `ImportsKeepRecords`, `GenesKeepTags` and,
from the three, `StoredIsFound` (StorageSound); `IdentitiesHaveAnAge`,
`HandlersLeaveNothing`, `AgentsAreToldTheTruth` and, from the three, `RequestsAreServed`
(RequestsSound). Here too `OnePart` reduces a step to one part.

* `PartitionInv`, for any writers and archivers: `Leveled` says that the table above a
  month is there, attached and without rows of its own; `Prepared` that a writer about
  to insert has a partition; `Archiving` that an archiver about to detach has copied;
  `CopiedOrLate` that from then on each row of that partition is in an archive or noted
  as late, whoever writes meanwhile. The growth alert is inductive; `ReplicaInv` adds
  that commits are in the order of their times. The thresholds must lie below i64::MAX,
  where the product saturates, and no tenant may be called like the tables' own names.
* `ImportInv`: `Counted` follows the counter of a kind from the rows added to the report;
  `RowsKeyed` says that id and key are a primary key and that a row which was not there
  before is of the file; `Validated` that the last validation is still true of the rows
  while no import runs. A clean validation then is an injection between equally many
  records and rows, hence onto (`CleanFollows`). Files are finite.
* `GeneInv` adds types to GenesSound. A search needs counting: a gene with as many
  distinct tags among those asked for as were asked for has all (`AllRequired`), and when
  at most three times the limit are stored every confident gene is a candidate
  (`AllCandidates`).
* `GatewayInv` and `ProfileInv` (the gateway): `EntryHeld` says that a cached identity was
  held by IAM for a token of the user it is kept under, at some time between the question
  and the store, and has not run out; `RequestFits` carries that to the request that read
  it, so that its age is that of the entry it came from. `ManagerFits` says that what a
  read of a profile is about to cache is the stored version unless a write overtook it.
  The cache is filled under the user's id and read under the token, before the token is
  verified: tokens and ids are any texts, and `Vouchsafed` says that the identity was held
  for a token the presented text stands for (`StandsFor`), which for a user's id presented
  as a token is not itself.
* `ApiInv` (the handlers): `HandlerFits` says what a request has written by the
  statement it is at. `Overlaps` is about two requests: one that a hard delete of its
  memory ran beside knows it, and one that is alone is alone; so a version or an event
  that outlives its memory was written after the statement of the delete that removes
  such rows, by a request that had begun before (LeftoversExplained), and nothing comes
  between a lone promotion's reading of a scope and its version (ScopeTrail). The status
  of an update that carries both is set after its findings (FindingsFirst). Pages are
  arithmetic of the ceiling; the assumption is that the sum of a page's length and the
  total does not wrap.
* `AgentInv` (the agents): `Dispatched` says that a request under way for a candidate
  was sent when all those before it had been taken, which stays true whenever it
  arrives, twice or never; `CallFits` that the request an adapter waits for is the one
  it sent last. Hence results are in order and complete before the task is.
  `TaskCopyFits` says that a copy of a task nobody knows to be old has what every
  finished update added. A context is read back because each source is spelled in one
  way; the cut of inject_context is chosen among the beginnings that fit, and the empty
  one does. Candidates are told from each other and from notes (`ResultsAssumption`),
  widths and limits are natural numbers (`TextsAssumption`).

## 6. What is only model-checked

* Liveness (EventuallySettled, GracefulStop, CascadeEnds, Recovers): fairness is
  outside what the installed prover handles.
* AccountsSound (`platform`). Most is about what an algorithm computes (sums, masks,
  percentiles), which the modules write with folds over data. Induction is possible by a
  least counterexample (BudgetKept, PathsReal, ConclusionsGrounded), but each fold needs
  its own; the induction theorems of the library take an operator, which the provers
  cannot instantiate.

## 7. Findings

With a run (see `findings` in PROJECT.json): the payload of forget events, the entry of a
permission change, legal holds that three paths ignore, and the deny flag of the
degradation manager.

Seen while modelling, without a run of their own:

* `map_row_to_outbox_event` (*store* `postgres/outbox.rs:102-112`) has no case for
  MemoryProposed, MemoryQuarantined and ExperienceOutcomeRecorded and reads them
  back as UserContextUpdated, so the tenant's pattern is not deleted (`Overlooked`).
* A worker that dies leaves its rows in `processing`, which dequeue never selects
  again (*store* `postgres/outbox.rs:45-51`); EventuallySettled excludes these.
* The outbox is called transactional (*store* `postgres/outbox.rs:3`), but a row
  and its event are written by separate statements (*cp*
  `write_pipeline.rs:507-539`); StatusAnnounced excepts the operations that die between
  the two, and the rollback, forget_user_data and the retention job, which send none.
* promote, rollback, record_outcome and hard_delete check first and write later
  without a condition; overlapping calls lose updates. SerialWritesSafe and
  OutcomesCounted are stated for items without overlapping operations.
* `shared_task.rs:9-10` says that stale data is never served; a reader that read the
  row before a write may store it after the invalidation. StaleExplained lists
  this as one of the reasons.
* The lock of a handoff is held in the name of `from_agent`, so a late release may
  free the lock of another handoff of the same agent.
* `PgApprovalStore::update_status` updates a request in any status, so a rejected
  or expired request can still be approved; InMemoryApprovalStore refuses.
  `update_scope` is unconditional, so overlapping promotions may narrow a scope.
* `POST /v1/memories/{id}/promote` (*cp* `api/routes.rs:161-189`) sets any scope without
  an assessment or an approval, which "must go through explicit promotion" at the head of
  `scope_escalation.rs` does not say; a rollback restores the scope of the version.
  Earned counts what the route sets as given.
* The limiter is asked with a time read before its lock (*cp* `server/handlers.rs:61-68`),
  so a window that lies in the past may have admitted more than the limit.
* `GET /public-keys` answers whoever sends an X-Api-Key header, whatever is in it (*cp*
  `server/handlers.rs:767-789`).

* A safety failure quarantines a gene, but two later failures make it a candidate
  again (*cp* `control_plane.rs:445`), a later propose does too (:181), and a
  revoked gene that has its successes becomes stable with the next outcome
  (:447). A propose repeated with receipts on record demotes a stable gene and
  then fails on the receipt's id (:186, :432).
* Genes are called immutable per (id, version) (*cp* `control_plane.rs:82`);
  upsert_gene replaces them.
* cascade_forget marks a memory visited when it is first reached, also at the depth
  limit; if a shorter path reaches it later its own derivations are left (*cp*
  `governance/forget.rs:187`, against :166-168). CompleteOnTrees excludes it.
* The ladder of degradation levels in the module's comment and the order of the enum
  disagree on KeywordFallback and NoHotContext.
* Keys: rotate_key does not look at the status of the key, and an interrupted
  rotation leaves the agent without one. The cached verdict on a signature does not
  depend on the payload (*cp* `oen/verifier.rs`).
* Context: a query with words makes the SQL of the text search invalid, so the
  enterprise and business sources degrade for every non-blank query; max_tokens 0 means
  the default budget; the identity may fall victim to a tiny budget; shrinking a package
  adds rounded numbers and may exceed its budget. A package is split at every line `##
  ...`, of a memory's text as well: when it is shrunk, the rest of an unverified text
  may be shared without the marker that stood at its beginning (*cp*
  `context_package.rs:580-654`, :229, against the marking :231 is for), and such a line
  with the name of a section takes its priority. The vector engine does not look at the
  privacy class, and without a time window not at expiry; with the index it may return
  fewer rows than there are (ef_search 40 is below the largest top_k 100); the time of a
  window is bound as a text without a cast, which PostgreSQL does not compare with a
  timestamp (*cp* `pre_filter.rs:204-212`, `vector_search.rs:229`). Rows without an
  embedding come first on a hybrid page. The permission filter runs after the LIMIT.
* Entities: walks look at neither tenant, type nor validity of a relation, and
  get_relations_by_type compares the tenant of one end. PathsReal says what is left.
* Facts: two contradicting values of the highest level and one of the lowest give
  "medium" without needs_review (against *cp* `conflict_resolver.rs:112`);
  merge_json_object returns at a plain value of low authority without a conflict
  (against *cp* `canonical_user.rs:5-6`).
* Reflection keys its clusters without the tenant and gives full success a lower
  authority than partial success. The twin captures outputs as L2 whatever its inputs
  were. A withdrawn decision may be overwritten by one that was checked before it.
  Two equal submissions at the same time both count as new.
* Partitions: a row written between the copy and the detach is in neither table; a
  leaf of the hybrid strategy cannot be detached from the parent it is asked of, and
  the retry fails on duplicate keys; the name of a detached table still counts as
  existing, so inserts of its month fail; `{prefix}_partitioned` is created but the
  partitions are OF `{prefix}`. A replica that never replayed has no lag.
* Import: the columns of memory_access_audit are missing, so every receipt is
  skipped and the report is clean (*store* `migrate.rs:3-4`, :20); ids that are no UUIDs
  get a new one in each run; capsules arrive Active.
* Gene store: an upsert is not atomic; a tag required twice never matches; the limit
  is applied before the filter on confidence; decay lifts a confidence below the
  floor; the documented use of record_cold_start counts a miss twice (*store*
  `replay_hook.rs:15-21`, :215-226).
* Gateway: the identity is cached under the user and looked for under the token, so a
  hit needs the two to be equal (against *cp* `identity.rs:12`), and the id of a user
  who was just here, presented as a token, is answered with that user's identity
  (:371-372, :390); update_consent leaves the cached profile (against *cp*
  `canonical_user.rs:8-9`); an upsert with another organization leaves the old one's
  entry. promote, verify and forget do not compare tenants; correct_memory always
  answers version 2; a repeated update_task repeats its findings. enforce_contract,
  AclEngine, McpToolRegistry and ResilienceManager are not wired into the server.
* Agents: a submission that timed out may still be carried out, and its retry makes
  a copy; required_params is not enforced (promote without target_scope promotes to
  Personal, forget without mode is soft); the schemas offer memory and source types
  that parse_enum refuses; reflect's memory_type defaults to Semantic, its schema says
  procedure; scopes that cannot be read mean all scopes; conflict flags are lost in
  parse_context_response; an envelope that comes signed with a null payload
  gets one its signature does not cover; propose_v1 reports a missing gene
  after the server has stored it; the answer to a task update may be an older copy.
* Measurement: recall and precision exceed 1 on repeated ids; ids of two dataset
  types collide from 20000 per type on; an engine that met every threshold is
  rejected when only ThresholdFailed is configured and the iterations are used up
  (*cp* `poc_framework.rs:878`).
* Protection: a failed run of digits is tried again one digit further, so the end of
  a longer run is masked; keys start again at version 1 after a restart; overlapping
  rotations may move the current version back.
* Engines: a retried write makes copies in mem0 and Cognee; their deletes name an id
  the service does not know, and a 404 is Ok, so the copy stays; different tenants may
  have one Cognee dataset, and a delete of an id that sanitizes to its name deletes it (*cp*
  `engines/cognee.rs:22-23`, :396-398); Ok of a write to Cognee or Graphiti says that the
  work was taken in, not that it was done; Graphiti's group_id is configured and not used.

## 8. What is not modelled

* In Outbox: the deletion of outbox rows by hard_delete (ApiHandlers has it), and the exit
  of the worker when the sender of the signal is dropped.
* In Retrieval: the refusal of the time window's text; the clause is read as the
  comparison of times it is written as.
* In ExperienceLifecycle: search, which reads; sessions and capsules, which are
  written and not read by the operations modelled.
* In EngineRegistry: `health_all` (it reads), several engines (they share nothing
  but the maps' locks), and breakers registered with other thresholds.
* In AgentSide: `query_memory`, which is empty on every failure, and the private
  memories of an adapter, a local map. UserMemoryService and MemoryApiClient have no
  implementation in the repository but mocks.
* Texts: patterns of the guard, similarity of texts, embeddings, rendering, JSON
  layout and error messages. A text is told apart by its length, its parts and
  their signs; profiles and tasks have no lines `## ...` of their own.
* Cryptography: ciphers, hashes and signatures are external.
* Retention policies (a table), audit rows (nothing reads them), row-level security
  (SQL the database enforces), CREATE statements, the program entry, error types,
  examples and tests.
