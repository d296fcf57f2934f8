------------------------------ MODULE PlatformPath ------------------------------
(***************************************************************************)
(* What the memory service stands on. Storage: the partitions of the big   *)
(* tables, the import of an old SQLite file, the gene store. Requests: the *)
(* gateway with its identity cache, the handlers of the API, the adapters, *)
(* the client and the tools that agents use. Accounts: costs and service   *)
(* levels, the masking and encryption of data, the adapters of the         *)
(* engines, benchmarks and trials. The parts share no state, so one of     *)
(* them moves in a behaviour.                                              *)
(***************************************************************************)
EXTENDS Partitions, SqliteImport, GeneStore,
        Gateway, ApiHandlers, AgentSide,
        Metering, DataProtection, EngineAdapters, Evaluation

VARIABLE part

storage_vars == <<partition_vars, import_vars, gene_vars>>
request_vars == <<gateway_vars, api_vars, agent_vars>>
account_vars == <<metering_vars, protection_vars, engines_vars, eval_vars>>
platform_vars == <<part, storage_vars, request_vars, account_vars>>

Parts == {"partitions", "capacity", "replica", "import", "genes",
          "gateway", "profile", "handlers", "own_data", "acl",
          "agent", "prompt", "client", "tools", "task_tools",
          "cost", "slo", "engine_cost", "text", "keys", "adapter", "resilience", "lookup",
          "metrics", "benchmark", "trial"}

\* What differs from one start to the other differs where it is of use.
Init ==
    /\ part \in Parts
    /\ PartitionInit /\ ImportInit /\ GeneInit
    /\ GatewayInit /\ ApiInit /\ AgentInit
    /\ MeteringInit /\ ProtectionInit /\ EnginesInit /\ EvaluationInit
    /\ part = "partitions" \/ strategy = CHOOSE s \in PartitionStrategy : TRUE
    /\ part = "import" \/ (source = (CHOOSE s \in Sources : TRUE) /\ rows = {})
    /\ part \in {"adapter", "lookup"} \/ engine = "mem0"

StorageNext ==
    /\ \/ /\ \/ part = "partitions" /\ PartitionNext
             \/ part = "capacity" /\ CapacityNext
             \/ part = "replica" /\ ReplicaNext
          /\ UNCHANGED <<import_vars, gene_vars>>
       \/ part = "import" /\ ImportNext /\ UNCHANGED <<partition_vars, gene_vars>>
       \/ part = "genes" /\ GeneNext /\ UNCHANGED <<partition_vars, import_vars>>
    /\ UNCHANGED <<part, request_vars, account_vars>>

RequestNext ==
    /\ \/ /\ \/ part = "gateway" /\ GatewayNext
             \/ part = "profile" /\ ProfileNext
          /\ UNCHANGED <<api_vars, agent_vars>>
       \/ /\ \/ part = "handlers" /\ HandlersNext
             \/ part = "own_data" /\ OwnData
             \/ part = "acl" /\ Decide
          /\ UNCHANGED <<gateway_vars, agent_vars>>
       \/ /\ \/ part = "agent" /\ AdapterSideNext
             \/ part = "prompt" /\ PromptNext
             \/ part = "client" /\ ClientNext
             \/ part = "tools" /\ ToolNext
             \/ part = "task_tools" /\ TaskToolNext
          /\ UNCHANGED <<gateway_vars, api_vars>>
    /\ UNCHANGED <<part, storage_vars, account_vars>>

AccountNext ==
    /\ \/ /\ \/ part = "cost" /\ CostNext
             \/ part = "slo" /\ SloNext
             \/ part = "engine_cost" /\ EngineNext
          /\ UNCHANGED <<protection_vars, engines_vars, eval_vars>>
       \/ /\ \/ part = "text" /\ ProtectText
             \/ part = "keys" /\ KeysNext
          /\ UNCHANGED <<metering_vars, engines_vars, eval_vars>>
       \/ /\ \/ part = "adapter" /\ AdapterNext
             \/ part = "resilience" /\ ResilienceNext
             \/ part = "lookup" /\ LookupNext
          /\ UNCHANGED <<metering_vars, protection_vars, eval_vars>>
       \/ /\ \/ part = "metrics" /\ Measure
             \/ part = "benchmark" /\ BenchmarkNext
             \/ part = "trial" /\ TrialNext
          /\ UNCHANGED <<metering_vars, protection_vars, engines_vars>>
    /\ UNCHANGED <<part, storage_vars, request_vars>>

Next == StorageNext \/ RequestNext \/ AccountNext

Spec == Init /\ [][Next]_platform_vars

-----------------------------------------------------------------------------

\* What is stored is found again: a row inserted is in a partition or its archive
\* unless it came late (archive_partition), an import that calls itself clean is
\* complete (migrate_all, validate), and tags and capsules follow their gene
\* (upsert_gene, delete_gene), whatever is interleaved or cut short.
StorageSound == PartitionsSound /\ ImportSound /\ GenesSound

\* What a request gets is what it may have: an identity IAM gave no longer ago than
\* the cache keeps one (resolve), a profile that is the stored one or known to lag
\* (get_context), a lineage that has every scope a lone promotion replaced, nothing left
\* of what was deleted but what was written past the statements that remove it
\* (hard_delete), and no more with less permission (check). What an agent is told was
\* done has been done, results in their order and before the end of their task
\* (submit_results, publish_envelope), and what it is shown is what there is
\* (inject_context, exec_task_update_context).
RequestsSound == GatewaySound /\ ApiSound /\ AgentsSound

\* What is measured, protected or mirrored is so: overruns are reported (check_alerts),
\* numbers masked (mask) and old keys at hand (rotate_key), a write that was answered
\* stands (write), every request of a benchmark is counted (run_concurrent) and a
\* verdict earned (evaluate), whatever is late, lost or repeated.
AccountsSound == MeteringSound /\ ProtectionSound /\ EnginesSound /\ EvaluationSound
================================================================================
