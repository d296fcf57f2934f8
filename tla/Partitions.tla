------------------------------- MODULE Partitions -------------------------------
(***************************************************************************)
(* partition.rs: the partitions of memory_item, the capacity monitor and   *)
(* the router of reads. Each SQL statement is a step, any statement may    *)
(* fail, and nothing is in a transaction. A partition's name is the tuple  *)
(* of the parts the code joins to the prefix; the parent table is taken to *)
(* be partitioned, as the doc of parent_partition_ddl requires.            *)
(***************************************************************************)
EXTENDS Naturals, Sequences, FiniteSets, TLC

CONSTANTS
    Tenants, Months,
    Writers,      \* callers of ensure_partition_exists that then insert a row
    Archivers,    \* callers of archive_partition
    MaxWrites,    \* rows inserted in a behaviour
    Thresholds,   \* CapacityThresholds of this instance
    Measures,     \* what the catalog may say of a table
    MaxInt,       \* the largest i64
    Dim,          \* embedding_dim
    MaxLag, MaxTime,
    Unset

PartitionStrategy == {"by_tenant", "by_tenant_and_time", "by_time"}

CapacityThresholds ==
    [max_table_bytes : Nat, max_index_bytes : Nat, max_row_count : Nat,
     max_vector_storage_bytes : Nat, max_tenant_bytes : Nat \cup {Unset},
     max_tenant_row_count : Nat \cup {Unset}]

PartitionSize == [total_bytes : Nat, index_bytes : Nat, row_count : Nat]

\* No i64 exceeds the largest, so a threshold that can raise an alert is below it. The
\* table the capacity is measured of is no tenant's.
ASSUME CapacityAssumption ==
    /\ Thresholds \in CapacityThresholds
    /\ Measures \subseteq PartitionSize
    /\ MaxInt \in Nat /\ Dim \in Nat /\ MaxLag \in Nat
    /\ Thresholds.max_vector_storage_bytes < MaxInt
    /\ "table" \notin Tenants /\ Unset \notin {"table", "replica"}

VARIABLES
    strategy,   \* PartitionConfig::strategy
    tables,     \* the partitions in pg_class: attached to their parent, and their rows
    archive,    \* the archive tables and their rows
    writer,     \* where each writer is, and its row
    archiver,   \* where each archiver is, and its partition
    writes,     \* inserts so far
    late,       \* rows inserted into a partition that had already been copied
    refused,    \* rows the parent has no partition for
    alerts,     \* the stats last judged and the alerts raised
    replica     \* commits of the primary, the last replayed, the clock, the last routing

partition_vars ==
    <<strategy, tables, archive, writer, archiver, writes, late, refused, alerts, replica>>

-----------------------------------------------------------------------------
(* Names and DDL. *)

\* A row's month fixes the range of its partition: [first of month, first of next).
for_month(row) == row.month

tenant_partition_name(t) == <<t>>

partition_name(t, date) ==
    CASE strategy = "by_tenant" -> <<t>>
      [] strategy = "by_tenant_and_time" -> <<t, date>>
      [] strategy = "by_time" -> <<date>>

\* The table a partition of that name was created under: the prefix, or a tenant's.
ParentOf(name) == IF Len(name) = 2 THEN <<name[1]>> ELSE <<>>

TopLevel(name) == IF ParentOf(name) = <<>> THEN name ELSE ParentOf(name)

\* CREATE TABLE IF NOT EXISTS ... PARTITION OF.
Created(name) ==
    IF name \in DOMAIN tables THEN tables
    ELSE [n \in (DOMAIN tables) \cup {name} |->
            IF n = name THEN [attached |-> TRUE, rows |-> {}] ELSE tables[n]]

create_tenant_subpartition_ddl(t) == Created(tenant_partition_name(t))

\* The hybrid leaf needs its tenant's table; without it PostgreSQL refuses the DDL.
CanCreate(name) == ParentOf(name) = <<>> \/ ParentOf(name) \in DOMAIN tables

create_partition_ddl(t, month) == Created(partition_name(t, month))

\* Where PostgreSQL puts a row of the parent: the attached leaf for its keys.
Reaches(name) ==
    /\ name \in DOMAIN tables /\ tables[name].attached
    /\ ParentOf(name) # <<>> => tables[ParentOf(name)].attached

\* Only the partitions directly under the prefix.
list_partitions == {n \in DOMAIN tables : ParentOf(n) = <<>> /\ tables[n].attached}

RowsOf(name) ==
    IF strategy = "by_tenant_and_time" /\ Len(name) = 1
    THEN UNION {tables[n].rows : n \in {x \in DOMAIN tables : ParentOf(x) = name /\ tables[x].attached}}
    ELSE tables[name].rows

-----------------------------------------------------------------------------
(* ensure_partition_exists, then the caller's INSERT. *)

Unoccupied(row) == [at |-> "idle", row |-> row]

EnsureExists(w, t, month) ==
    /\ writer[w].at = "idle" /\ writes < MaxWrites
    /\ LET row == [tenant |-> t, month |-> month, n |-> writes + 1]
           name == partition_name(t, for_month(row))
       IN writer' = [writer EXCEPT ![w] = [row |-> row,
            at |-> CASE name \in DOMAIN tables -> "insert"
                     [] name \notin DOMAIN tables /\ strategy = "by_tenant_and_time" -> "tenant"
                     [] OTHER -> "create"]]
    /\ writes' = writes + 1
    /\ UNCHANGED <<strategy, tables, archive, archiver, late, refused, alerts, replica>>

\* The tenant's level: looked up, then created when missing.
EnsureTenant(w) ==
    /\ \/ /\ writer[w].at = "tenant"
          /\ writer' = [writer EXCEPT ![w].at =
                IF tenant_partition_name(writer[w].row.tenant) \in DOMAIN tables THEN "create"
                ELSE "create_tenant"]
          /\ UNCHANGED tables
       \/ /\ writer[w].at = "create_tenant"
          /\ tables' = create_tenant_subpartition_ddl(writer[w].row.tenant)
          /\ writer' = [writer EXCEPT ![w].at = "create"]
    /\ UNCHANGED <<strategy, archive, archiver, writes, late, refused, alerts, replica>>

EnsureCreate(w) ==
    /\ writer[w].at = "create"
    /\ CanCreate(partition_name(writer[w].row.tenant, writer[w].row.month))
    /\ tables' = create_partition_ddl(writer[w].row.tenant, writer[w].row.month)
    /\ writer' = [writer EXCEPT ![w].at = "insert"]
    /\ UNCHANGED <<strategy, archive, archiver, writes, late, refused, alerts, replica>>

Copied(name) == name \in DOMAIN archive /\ archive[name].copied

InsertRow(w) ==
    /\ writer[w].at = "insert"
    /\ LET row == writer[w].row
           name == partition_name(row.tenant, row.month)
       IN IF Reaches(name)
          THEN /\ tables' = [tables EXCEPT ![name].rows = @ \cup {row}]
               /\ late' = IF Copied(name) \/ Copied(ParentOf(name)) THEN late \cup {row} ELSE late
               /\ UNCHANGED refused
          ELSE /\ refused' = refused \cup {row}
               /\ UNCHANGED <<tables, late>>
    /\ writer' = [writer EXCEPT ![w] = Unoccupied(Unset)]
    /\ UNCHANGED <<strategy, archive, archiver, writes, alerts, replica>>

\* PartitionError::Database: the caller gets the error, what was done stays done.
WriterFails(w) ==
    /\ writer[w].at # "idle"
    /\ writer' = [writer EXCEPT ![w] = Unoccupied(Unset)]
    /\ UNCHANGED <<strategy, tables, archive, archiver, writes, late, refused, alerts, replica>>

\* create_partition called for itself, by an operator.
create_partition(t, month) ==
    /\ partition_name(t, month) \notin DOMAIN tables /\ CanCreate(partition_name(t, month))
    /\ tables' = create_partition_ddl(t, month)
    /\ UNCHANGED <<strategy, archive, writer, archiver, writes, late, refused, alerts, replica>>

-----------------------------------------------------------------------------
(* archive_partition: create the archive, copy, detach. *)

ArchiveCreate(a, name) ==
    /\ archiver[a].at = "idle" /\ name \in DOMAIN tables
    /\ archive' = IF name \in DOMAIN archive THEN archive
                  ELSE [n \in (DOMAIN archive) \cup {name} |->
                          IF n = name THEN [rows |-> {}, copied |-> FALSE] ELSE archive[n]]
    /\ archiver' = [archiver EXCEPT ![a] = [at |-> "copy", name |-> name]]
    /\ UNCHANGED <<strategy, tables, writer, writes, late, refused, alerts, replica>>

\* The archive has the parent's primary key: a row already there fails the statement.
ArchiveCopy(a) ==
    /\ archiver[a].at = "copy"
    /\ RowsOf(archiver[a].name) \cap archive[archiver[a].name].rows = {}
    /\ archive' = [archive EXCEPT ![archiver[a].name] =
                     [rows |-> @.rows \cup RowsOf(archiver[a].name), copied |-> TRUE]]
    /\ archiver' = [archiver EXCEPT ![a].at = "detach"]
    /\ UNCHANGED <<strategy, tables, writer, writes, late, refused, alerts, replica>>

\* The statement names the prefix as the parent: it fails for a hybrid leaf, whose
\* parent is the tenant's table, and for a partition that is detached already.
ArchiveDetach(a) ==
    /\ archiver[a].at = "detach"
    /\ ParentOf(archiver[a].name) = <<>> /\ tables[archiver[a].name].attached
    /\ tables' = [tables EXCEPT ![archiver[a].name].attached = FALSE]
    /\ archiver' = [archiver EXCEPT ![a] = [at |-> "idle", name |-> Unset]]
    /\ UNCHANGED <<strategy, archive, writer, writes, late, refused, alerts, replica>>

ArchiverFails(a) ==
    /\ archiver[a].at # "idle"
    /\ archiver' = [archiver EXCEPT ![a] = [at |-> "idle", name |-> Unset]]
    /\ UNCHANGED <<strategy, tables, archive, writer, writes, late, refused, alerts, replica>>

-----------------------------------------------------------------------------
(* CapacityMonitor. *)

saturating_mul(a, b) == IF a * b > MaxInt THEN MaxInt ELSE a * b

estimate_vector_storage(row_count) == saturating_mul(row_count, Dim * 4)

Stats(measured) ==
    [total_bytes |-> measured.total_bytes, index_bytes |-> measured.index_bytes,
     row_count |-> measured.row_count,
     vector_storage_bytes |-> estimate_vector_storage(measured.row_count)]

\* Each kind of alert: the value judged and its threshold.
AlertType(stats) ==
    [table_size |-> <<stats.total_bytes, Thresholds.max_table_bytes>>,
     index_size |-> <<stats.index_bytes, Thresholds.max_index_bytes>>,
     row_count |-> <<stats.row_count, Thresholds.max_row_count>>,
     vector_storage_growth |-> <<stats.vector_storage_bytes, Thresholds.max_vector_storage_bytes>>]

evaluate_alerts(stats) ==
    {type \in DOMAIN AlertType(stats) : AlertType(stats)[type][1] > AlertType(stats)[type][2]}

evaluate_tenant_alert(stats) ==
    {type \in {"table_size", "row_count"} :
        LET limit == IF type = "table_size" THEN Thresholds.max_tenant_bytes
                     ELSE Thresholds.max_tenant_row_count
        IN limit # Unset /\ AlertType(stats)[type][1] > limit}

\* The catalog's size and row estimate of the table, judged.
check_capacity_limits ==
    /\ \E measured \in Measures : alerts' = [of |-> "table", stats |-> Stats(measured),
                                             raised |-> evaluate_alerts(Stats(measured))]
    /\ UNCHANGED <<strategy, tables, archive, writer, archiver, writes, late, refused, replica>>

\* A tenant's rows are counted, its bytes are the whole table's.
measure_tenant_stats(t) ==
    /\ \E measured \in Measures :
         LET rows == Cardinality(UNION {{r \in tables[n].rows : r.tenant = t} :
                                          n \in {x \in DOMAIN tables : Reaches(x)}})
             stats == Stats([measured EXCEPT !.row_count = rows])
         IN alerts' = [of |-> t, stats |-> stats, raised |-> evaluate_tenant_alert(stats)]
    /\ UNCHANGED <<strategy, tables, archive, writer, archiver, writes, late, refused, replica>>

-----------------------------------------------------------------------------
(* ReadReplicaRouter: the primary commits, the replica replays in order.   *)

\* now() - pg_last_xact_replay_timestamp(), and 0 when nothing was ever replayed.
check_replica_lag == IF replica.replayed = 0 THEN 0
                     ELSE replica.now - replica.commits[replica.replayed]

should_use_replica(lag) == lag <= MaxLag

CommitOnPrimary ==
    /\ Len(replica.commits) < MaxTime
    /\ replica' = [replica EXCEPT !.commits = Append(@, replica.now), !.routed = Unset]
    /\ UNCHANGED <<strategy, tables, archive, writer, archiver, writes, late, refused, alerts>>

Replay ==
    /\ replica.replayed < Len(replica.commits)
    /\ replica' = [replica EXCEPT !.replayed = @ + 1, !.routed = Unset]
    /\ UNCHANGED <<strategy, tables, archive, writer, archiver, writes, late, refused, alerts>>

TimePasses ==
    /\ replica.now < MaxTime
    /\ replica' = [replica EXCEPT !.now = @ + 1, !.routed = Unset]
    /\ UNCHANGED <<strategy, tables, archive, writer, archiver, writes, late, refused, alerts>>

\* The replica when its lag can be read and is small enough, else the primary.
route_read ==
    /\ \E answered \in BOOLEAN :
         replica' = [replica EXCEPT !.routed =
            IF answered /\ should_use_replica(check_replica_lag) THEN "replica" ELSE "primary"]
    /\ UNCHANGED <<strategy, tables, archive, writer, archiver, writes, late, refused, alerts>>

-----------------------------------------------------------------------------

PartitionInit ==
    /\ strategy \in PartitionStrategy
    /\ tables = <<>>
    /\ archive = <<>>
    /\ writer = [w \in Writers |-> Unoccupied(Unset)]
    /\ archiver = [a \in Archivers |-> [at |-> "idle", name |-> Unset]]
    /\ writes = 0 /\ late = {} /\ refused = {}
    /\ alerts = [of |-> Unset, stats |-> Unset, raised |-> {}]
    /\ replica = [commits |-> <<>>, replayed |-> 0, now |-> 1, routed |-> Unset]

PartitionNext ==
    \/ \E w \in Writers :
         \/ \E t \in Tenants, month \in Months : EnsureExists(w, t, month)
         \/ EnsureTenant(w) \/ EnsureCreate(w) \/ InsertRow(w) \/ WriterFails(w)
    \/ \E t \in Tenants, month \in Months : create_partition(t, month)
    \/ \E a \in Archivers :
         \/ \E name \in DOMAIN tables : ArchiveCreate(a, name)
         \/ ArchiveCopy(a) \/ ArchiveDetach(a) \/ ArchiverFails(a)

CapacityNext == check_capacity_limits \/ \E t \in Tenants : measure_tenant_stats(t)

ReplicaNext == CommitOnPrimary \/ Replay \/ TimePasses \/ route_read

-----------------------------------------------------------------------------

\* archive_partition: an inserted row that neither the parent nor the archive shows
\* was inserted into a partition that had been copied already. A partition is never
\* cut off with rows nobody copied before them.
LateRowsOnly ==
    \A name \in DOMAIN tables : \A row \in tables[name].rows :
        \/ Reaches(name)
        \/ \E n \in DOMAIN archive : row \in archive[n].rows
        \/ row \in late

\* ensure_partition_exists: after it returned Ok, the parent refuses the row only
\* when an archiver has cut off the partition or the tenant's level above it, and
\* then list_partitions does not show it.
RefusedOnlyDetached ==
    \A row \in refused :
        TopLevel(partition_name(row.tenant, row.month)) \in (DOMAIN tables) \ list_partitions

\* check_capacity_limits: vectors whose true size is over the threshold raise an
\* alert, also where the product does not fit an i64.
GrowthIsSeen ==
    (alerts.of = "table" /\ alerts.stats.row_count * Dim * 4 > Thresholds.max_vector_storage_bytes)
        => "vector_storage_growth" \in alerts.raised

\* route_read: when a read goes to a replica that has replayed anything, the replica
\* has every commit older than the allowed lag.
ReplicaFresh ==
    (replica.routed = "replica" /\ replica.replayed > 0) =>
        \A i \in 1..Len(replica.commits) :
            replica.commits[i] + MaxLag < replica.now => i <= replica.replayed

PartitionsSound == LateRowsOnly /\ RefusedOnlyDetached /\ GrowthIsSeen /\ ReplicaFresh
================================================================================
