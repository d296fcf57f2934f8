------------------------------- MODULE Outbox -------------------------------
(***************************************************************************)
(* The outbox_event table (OutboxRepo) and the workers that drain it       *)
(* (OutboxWorker): dequeue, compute the invalidations of each event,       *)
(* perform them against Redis, mark the event done, retry it under a new   *)
(* row or dead-letter it.                                                  *)
(*                                                                         *)
(* Every SQL statement and every Redis command is a step of its own, so    *)
(* that a crash, an error or another worker's step may come between any    *)
(* two of them.                                                            *)
(***************************************************************************)
EXTENDS Naturals, Sequences, FiniteSets

CONSTANTS
    Workers,         \* the OutboxWorker processes draining the table
    BatchSize,       \* batch_size: rows claimed by one dequeue
    MaxRetries,      \* max_retries: re-enqueues before dead-lettering
    Submissions,     \* the [type, fields] pairs producers enqueue
    MaxSubmissions,  \* bound on the number of events producers enqueue
    Attached,        \* the Redis repositories given to the workers
    RedisFaults,     \* may a Redis command of a worker fail?
    DbFaults,        \* may a SQL statement of a worker fail?
    Crashes          \* may a worker die between two statements?

EventTypes ==
    {"UserContextUpdated", "PreferenceUpdated", "TaskContextUpdated",
     "MemoryPromoted", "MemoryRevoked", "MemoryExpired",
     "PermissionChanged", "EngineProjectionFailed", "MemoryProposed",
     "MemoryQuarantined", "ExperienceOutcomeRecorded"}

\* The payload fields the dispatch reads.
Fields == {"tenant_id", "user_id", "task_id"}

ASSUME OutboxAssumption ==
    /\ BatchSize \in Nat \ {0}
    /\ MaxRetries \in Nat
    /\ MaxSubmissions \in Nat
    /\ Submissions \subseteq [type : EventTypes, fields : SUBSET Fields]
    /\ Attached \subseteq {"hot_context", "cache"}
    /\ RedisFaults \in BOOLEAN
    /\ DbFaults \in BOOLEAN
    /\ Crashes \in BOOLEAN

\* Redis entries: hotctx = oris:hotctx:{tenant}:{user}, task = oris:task:{id},
\* perm = oris:perm:{tenant}:{user}, and the oris:cache:* entries matched by
\* the user's and by the tenant's pattern.
Keys == {"hotctx", "task", "perm", "cacheUser", "cacheTenant"}

-----------------------------------------------------------------------------
(* The pure dispatch: compute_invalidation_actions. *)

\* The payload_str fields whose absence is a SerializationError.
RequiredFields(type) ==
    CASE type \in {"UserContextUpdated", "PreferenceUpdated", "MemoryRevoked",
                   "MemoryExpired", "PermissionChanged"}
             -> {"tenant_id", "user_id"}
      [] type = "TaskContextUpdated" -> {"task_id"}
      [] type = "MemoryPromoted"     -> {"tenant_id"}
      [] OTHER                       -> {}

\* The InvalidationActions of an event, in the order they are executed.
InvalidationActions(type) ==
    CASE type \in {"UserContextUpdated", "MemoryRevoked", "MemoryExpired"}
             -> <<"InvalidateUserContext">>
      [] type = "PreferenceUpdated"
             -> <<"InvalidateUserContext", "InvalidateUserPattern">>
      [] type = "TaskContextUpdated"     -> <<"InvalidateTaskContext">>
      [] type = "PermissionChanged"      -> <<"InvalidatePermissions">>
      [] type = "EngineProjectionFailed" -> <<>>
      [] OTHER                           -> <<"InvalidateTenantPattern">>

Actions == {"InvalidateUserContext", "InvalidateUserPattern",
            "InvalidateTaskContext", "InvalidatePermissions",
            "InvalidateTenantPattern"}

\* The Redis entries one action names.
NamedKey(action) ==
    CASE action = "InvalidateUserContext"   -> "hotctx"
      [] action = "InvalidateUserPattern"   -> "cacheUser"
      [] action = "InvalidateTaskContext"   -> "task"
      [] action = "InvalidatePermissions"   -> "perm"
      [] action = "InvalidateTenantPattern" -> "cacheTenant"

\* The Redis entry process_event deletes for it: HotContextRepo has no delete
\* for permissions, so InvalidatePermissions deletes the user context.
DeletedKey(action) ==
    IF action = "InvalidatePermissions" THEN "hotctx" ELSE NamedKey(action)

\* The repository the delete goes through; without it the action is skipped.
RepoOf(action) ==
    IF action \in {"InvalidateUserPattern", "InvalidateTenantPattern"}
    THEN "cache" ELSE "hot_context"

\* What an event of this type announces as changed: the entries the table at
\* the head of outbox_worker.rs promises to invalidate, and for the three
\* types the table leaves out, the entries the dispatch names.
AffectedKeys(type) ==
    CASE type \in {"UserContextUpdated", "MemoryRevoked", "MemoryExpired"}
             -> {"hotctx"}
      [] type = "PreferenceUpdated"      -> {"hotctx", "cacheUser"}
      [] type = "TaskContextUpdated"     -> {"task"}
      [] type = "PermissionChanged"      -> {"perm"}
      [] type = "EngineProjectionFailed" -> {}
      [] OTHER                           -> {"cacheTenant"}

\* map_row_to_outbox_event knows eight names; any other name is read back as
\* UserContextUpdated.
ParsedNames ==
    {"UserContextUpdated", "PreferenceUpdated", "TaskContextUpdated",
     "MemoryPromoted", "MemoryRevoked", "MemoryExpired",
     "PermissionChanged", "EngineProjectionFailed"}

ReadBack(type) ==
    IF type \in ParsedNames THEN type ELSE "UserContextUpdated"

-----------------------------------------------------------------------------
VARIABLES
    events,     \* the table, in created_at order; a row's index is its id
    pc,         \* where each worker is in its loop
    batch,      \* rows of the current batch a worker still has to finish
    cur,        \* the row a worker is on (0: none)
    todo,       \* the actions of that row not yet performed
    shutdown,   \* the watch channel
    stale,      \* Redis entries older than a change an event announces
    delivered,  \* submissions all of whose actions were performed (history)
    stranded    \* rows a fault or a crash left in 'processing' (history)

vars == <<events, pc, batch, cur, todo, shutdown, stale, delivered, stranded>>

Status == {"pending", "processing", "done", "failed"}

\* root is the index of the row the producer enqueued: the first row of the
\* lineage that retries extend (history; not a column of the table).
Event == [type : EventTypes, fields : SUBSET Fields, retry : Nat,
          status : Status, root : Nat \ {0}]

Ids == DOMAIN events

Roots == {e \in Ids : events[e].root = e}

TypeOK ==
    /\ events \in Seq(Event)
    /\ pc \in [Workers -> {"poll", "next", "invalidate", "mark", "fail",
                           "stopped"}]
    /\ batch \in [Workers -> SUBSET Ids]
    /\ cur \in [Workers -> Ids \cup {0}]
    /\ todo \in [Workers -> Seq(Actions)]
    /\ shutdown \in BOOLEAN
    /\ stale \subseteq Keys
    /\ delivered \subseteq Ids
    /\ stranded \subseteq Ids

Init ==
    /\ events = <<>>
    /\ pc = [w \in Workers |-> "poll"]
    /\ batch = [w \in Workers |-> {}]
    /\ cur = [w \in Workers |-> 0]
    /\ todo = [w \in Workers |-> <<>>]
    /\ shutdown = FALSE
    /\ stale = {}
    /\ delivered = {}
    /\ stranded = {}

-----------------------------------------------------------------------------
(* Producers and Redis. *)

\* A producer commits a change and enqueues the event that announces it:
\* whatever was cached before is stale from here on.
Submit(s) ==
    /\ Cardinality(Roots) < MaxSubmissions
    /\ events' = Append(events, [type |-> s.type, fields |-> s.fields,
                                 retry |-> 0, status |-> "pending",
                                 root |-> Len(events) + 1])
    /\ stale' = stale \cup AffectedKeys(s.type)
    /\ UNCHANGED <<pc, batch, cur, todo, shutdown, delivered, stranded>>

\* A Redis entry reaches its TTL; the next read rebuilds it from PostgreSQL.
Expire(k) ==
    /\ k \in stale
    /\ stale' = stale \ {k}
    /\ UNCHANGED <<events, pc, batch, cur, todo, shutdown, delivered, stranded>>

\* The shutdown signal on the watch channel.
Shutdown ==
    /\ ~shutdown
    /\ shutdown' = TRUE
    /\ UNCHANGED <<events, pc, batch, cur, todo, stale, delivered, stranded>>

-----------------------------------------------------------------------------
(* Workers. *)

\* Mutants: the SELECT of the dequeue takes rows in 'processing', or dead
\* letters, as well.
PendingOrProcessing ==
    {e \in Ids : events[e].status \in {"pending", "processing"}}
PendingOrFailed == {e \in Ids : events[e].status \in {"pending", "failed"}}

Pending == {e \in Ids : events[e].status = "pending"}

\* LIMIT batch_size of the pending rows ORDER BY created_at.
Oldest(S) == {e \in S : Cardinality({f \in S : f < e}) < BatchSize}

\* The worker turns to what is left of its batch, or polls again.
FinishRow(w, rest) ==
    /\ batch' = [batch EXCEPT ![w] = rest]
    /\ cur' = [cur EXCEPT ![w] = 0]
    /\ todo' = [todo EXCEPT ![w] = <<>>]
    /\ pc' = [pc EXCEPT ![w] = IF rest = {} THEN "poll" ELSE "next"]

\* Mutant: the loop leaves only when the queue is empty, but no longer
\* dequeues.
StopWhenDrained(w) ==
    /\ pc[w] = "poll"
    /\ shutdown
    /\ Pending = {}
    /\ pc' = [pc EXCEPT ![w] = "stopped"]
    /\ UNCHANGED <<events, batch, cur, todo, shutdown, stale, delivered,
                   stranded>>

\* The loop checks the signal before every batch, and while it sleeps. A worker
\* that saw no signal and is about to dequeue is not told apart from one that
\* dequeued just before it. A sender that is dropped without a signal, which ends
\* a worker at its next sleep, is not modelled.
Stop(w) ==
    /\ pc[w] = "poll"
    /\ shutdown
    /\ pc' = [pc EXCEPT ![w] = "stopped"]
    /\ UNCHANGED <<events, batch, cur, todo, shutdown, stale, delivered,
                   stranded>>

\* dequeue: one UPDATE ... FOR UPDATE SKIP LOCKED ... RETURNING. An error or
\* an empty result leaves the worker polling.
Dequeue(w) ==
    /\ pc[w] = "poll"
    /\ ~shutdown
    /\ Pending # {}
    /\ LET claimed == Oldest(Pending)
       IN  /\ events' = [e \in Ids |->
                            IF e \in claimed
                            THEN [events[e] EXCEPT !.status = "processing"]
                            ELSE events[e]]
           /\ batch' = [batch EXCEPT ![w] = claimed]
    /\ pc' = [pc EXCEPT ![w] = "next"]
    /\ UNCHANGED <<cur, todo, shutdown, stale, delivered, stranded>>

\* process_event, first half: dispatch on the type as it was read back. The
\* rows of an UPDATE ... RETURNING come in no particular order.
ProcessEvent(w, e) ==
    /\ pc[w] = "next"
    /\ e \in batch[w]
    /\ cur' = [cur EXCEPT ![w] = e]
    /\ LET type == ReadBack(events[e].type)
       IN  IF RequiredFields(type) \subseteq events[e].fields
           THEN /\ todo' = [todo EXCEPT ![w] = InvalidationActions(type)]
                /\ pc' = [pc EXCEPT ![w] = "invalidate"]
           ELSE /\ pc' = [pc EXCEPT ![w] = "fail"]
                /\ UNCHANGED todo
    /\ UNCHANGED <<events, batch, shutdown, stale, delivered, stranded>>

\* Mutant: invalidations are best effort, an error of Redis is passed over.
InvalidateBestEffort(w) ==
    /\ pc[w] = "invalidate"
    /\ todo[w] # <<>>
    /\ LET action == Head(todo[w])
           attached == RepoOf(action) \in Attached
       IN  /\ todo' = [todo EXCEPT ![w] = Tail(@)]
           /\ \/ stale' = stale \ {k \in {DeletedKey(action)} : attached}
              \/ RedisFaults /\ attached /\ UNCHANGED stale
    /\ UNCHANGED <<events, pc, batch, cur, shutdown, delivered, stranded>>

\* process_event, second half: one Redis delete, which may fail; it is
\* skipped when the repository it needs is not attached.
Invalidate(w) ==
    /\ pc[w] = "invalidate"
    /\ todo[w] # <<>>
    /\ LET action == Head(todo[w])
           attached == RepoOf(action) \in Attached
       IN  \/ /\ stale' = stale \ {k \in {DeletedKey(action)} : attached}
              /\ todo' = [todo EXCEPT ![w] = Tail(@)]
              /\ UNCHANGED pc
           \/ /\ RedisFaults /\ attached
              /\ todo' = [todo EXCEPT ![w] = <<>>]
              /\ pc' = [pc EXCEPT ![w] = "fail"]
              /\ UNCHANGED stale
    /\ UNCHANGED <<events, batch, cur, shutdown, delivered, stranded>>

\* All actions of the row are performed; mark_done is next.
Performed(w) ==
    /\ pc[w] = "invalidate"
    /\ todo[w] = <<>>
    /\ delivered' = delivered \cup {events[cur[w]].root}
    /\ pc' = [pc EXCEPT ![w] = "mark"]
    /\ UNCHANGED <<events, batch, cur, todo, shutdown, stale, stranded>>

SetStatus(e, status) == [events EXCEPT ![e].status = status]

\* mark_done, after success or after a re-enqueue.
MarkDone(w) ==
    /\ pc[w] = "mark"
    /\ events' = SetStatus(cur[w], "done")
    /\ FinishRow(w, batch[w] \ {cur[w]})
    /\ UNCHANGED <<shutdown, stale, delivered, stranded>>

\* Mutant: the retry keeps the retry_count of the original.
ReenqueueSameCount(w) ==
    /\ pc[w] = "fail"
    /\ LET e == events[cur[w]]
       IN  /\ e.retry < MaxRetries
           /\ events' = Append(events, [e EXCEPT !.status = "pending"])
    /\ pc' = [pc EXCEPT ![w] = "mark"]
    /\ UNCHANGED <<batch, cur, todo, shutdown, stale, delivered, stranded>>

\* handle_failure below the limit: enqueue a fresh row with retry_count + 1
\* and the type as it was read back; mark_done of the original is next.
Reenqueue(w) ==
    /\ pc[w] = "fail"
    /\ LET e == events[cur[w]]
       IN  /\ e.retry < MaxRetries
           /\ events' = Append(events, [type |-> ReadBack(e.type),
                                        fields |-> e.fields,
                                        retry |-> e.retry + 1,
                                        status |-> "pending",
                                        root |-> e.root])
    /\ pc' = [pc EXCEPT ![w] = "mark"]
    /\ UNCHANGED <<batch, cur, todo, shutdown, stale, delivered, stranded>>

\* Mutant: off by one at the limit.
DeadLetterLate(w) ==
    /\ pc[w] = "fail"
    /\ events[cur[w]].retry > MaxRetries
    /\ events' = SetStatus(cur[w], "failed")
    /\ FinishRow(w, batch[w] \ {cur[w]})
    /\ UNCHANGED <<shutdown, stale, delivered, stranded>>

\* handle_failure at the limit: mark_failed.
DeadLetter(w) ==
    /\ pc[w] = "fail"
    /\ events[cur[w]].retry >= MaxRetries
    /\ events' = SetStatus(cur[w], "failed")
    /\ FinishRow(w, batch[w] \ {cur[w]})
    /\ UNCHANGED <<shutdown, stale, delivered, stranded>>

\* Mutant: a failing mark_done is handled like a failing event.
DbErrorRetries(w) ==
    /\ DbFaults
    /\ pc[w] = "mark"
    /\ pc' = [pc EXCEPT ![w] = "fail"]
    /\ UNCHANGED <<events, batch, cur, todo, shutdown, stale, delivered,
                   stranded>>

\* mark_done, enqueue or mark_failed fails: the error is logged and the
\* worker goes on; the row stays in 'processing'.
DbError(w) ==
    /\ DbFaults
    /\ pc[w] \in {"mark", "fail"}
    /\ stranded' = stranded \cup {cur[w]}
    /\ FinishRow(w, batch[w] \ {cur[w]})
    /\ UNCHANGED <<events, shutdown, stale, delivered>>

\* The worker process dies and is restarted; its batch is forgotten.
Crash(w) ==
    /\ Crashes
    /\ pc[w] # "stopped"
    /\ batch[w] # {}
    /\ stranded' = stranded \cup batch[w]
    /\ FinishRow(w, {})
    /\ UNCHANGED <<events, shutdown, stale, delivered>>

WorkerStep(w) ==
    \/ Stop(w)
    \/ Dequeue(w)
    \/ \E e \in batch[w] : ProcessEvent(w, e)
    \/ Invalidate(w)
    \/ Performed(w)
    \/ MarkDone(w)
    \/ Reenqueue(w)
    \/ DeadLetter(w)

Next ==
    \/ \E s \in Submissions : Submit(s)
    \/ \E k \in Keys : Expire(k)
    \/ Shutdown
    \/ \E w \in Workers : WorkerStep(w) \/ DbError(w) \/ Crash(w)

Spec == Init /\ [][Next]_vars

\* run() polls for ever (a 2 s sleep between empty batches), so a worker that
\* can take a step takes one.
Fairness == \A w \in Workers : WF_vars(WorkerStep(w))

FairSpec == Spec /\ Fairness

-----------------------------------------------------------------------------
(* Properties. *)

\* A row a worker may still act on for its lineage: queued, or held by a
\* worker that has neither performed it nor re-enqueued it.
Active(e) ==
    \/ events[e].status = "pending"
    \/ \E w \in Workers : e \in batch[w] /\ ~(cur[w] = e /\ pc[w] = "mark")

\* Two workers draining the table (FOR UPDATE SKIP LOCKED) never hold the same
\* row, and every row in 'processing' is one a worker holds or one a database
\* fault or a crash left behind: a graceful shutdown strands nothing.
SingleHolder ==
    /\ \A v, w \in Workers : v # w => batch[v] \cap batch[w] = {}
    /\ {e \in Ids : events[e].status = "processing"}
          \subseteq stranded \cup UNION {batch[w] : w \in Workers}
    /\ \A w \in Workers : \A e \in batch[w] : events[e].status = "processing"

\* handle_failure enqueues the retry before it marks the original done: in
\* spite of that, of all the rows retrying one submission only the newest can
\* still be acted on, and their retry counts grow within max_retries.
LineageLinear ==
    \A e \in Ids :
        /\ events[e].retry <= MaxRetries
        /\ \A f \in Ids :
              e < f /\ events[e].root = events[f].root
                => events[e].retry < events[f].retry /\ ~Active(e)

Dead == {events[e].root : e \in {f \in Ids : events[f].status = "failed"}}

\* A submission is settled once: after all its invalidations were performed,
\* or after its dead-letter row was written, no row of it is acted on again,
\* and never do both happen.
SettledOnce ==
    /\ delivered \cap Dead = {}
    /\ \A e \in Ids : events[e].root \in delivered \cup Dead => ~Active(e)

\* The entries an event announces as changed and its processing never touches:
\* a permission change deletes the user context in place of the permissions, and
\* a type that is read back as UserContextUpdated loses the tenant's pattern.
Overlooked(type) ==
    CASE type = "PermissionChanged" -> {"perm"}
      [] type \in EventTypes \ ParsedNames -> {"cacheTenant"}
      [] OTHER -> {}

\* The repository an entry is deleted through.
KeeperOf(key) ==
    IF key \in {"cacheUser", "cacheTenant"} THEN "cache" ELSE "hot_context"

\* An entry outlives every event that announces its change only for one of two
\* reasons: its repository was not given to the workers, or an event of one of
\* the four overlooked types announced it. Through Redis errors, retries under
\* new rows, faults and crashes, a worker never marks the last event of any
\* other change done before the entry is gone.
StaleCovered ==
    \A k \in stale : \E e \in Ids :
        /\ k \in AffectedKeys(events[e].type)
        /\ \/ events[e].status # "done"
           \/ k \in Overlooked(events[e].type)
           \/ KeeperOf(k) \notin Attached

\* What the table at the head of outbox_worker.rs promises of every type it
\* names: an entry is stale only as long as an event that announces its change
\* is queued, in 'processing' or dead-lettered.
TableKept ==
    \A k \in stale : \E e \in Ids :
        /\ events[e].status # "done"
        /\ k \in AffectedKeys(events[e].type)

\* mark_done and mark_failed are UPDATEs by id with no condition on the status
\* they replace; still no worker ever overwrites a final status.
FinalStatusKept ==
    [][\A e \in Ids : events[e].status \in {"done", "failed"}
                          => events'[e] = events[e]]_vars

\* A fault or a crash left a row of this submission in 'processing'.
Stranded(root) == \E e \in stranded : events[e].root = root

\* Every submitted event is in the end delivered or dead-lettered, unless the
\* workers are shut down or a database fault or a crash stranded a row of it:
\* Redis errors alone, retries and competing workers lose no event.
EventuallySettled ==
    \A e \in 1..(MaxSubmissions * (MaxRetries + 1)) :
        e \in Ids ~> \/ shutdown
                     \/ /\ e \in Ids
                        /\ \/ events[e].root \in delivered \cup Dead
                           \/ Stranded(events[e].root)

\* The workers implement the promise: each submission is accepted, then
\* delivered or given up at most once, whatever its rows go through.
Delivery ==
    INSTANCE EventDelivery
        WITH accepted <- Roots, done <- delivered, givenUp <- Dead

ImplementsDelivery == Delivery!DeliverySpec

\* As long as Redis answers, no event is dead-lettered: its invalidations are
\* performed the first time.
DeliveredWhenHealthy == ~RedisFaults => Dead = {}

\* After the shutdown signal every worker finishes its batch and stops, whatever
\* faults and crashes still happen.
GracefulStop ==
    shutdown ~> \A w \in Workers : pc[w] = "stopped" /\ batch[w] = {}
=============================================================================
