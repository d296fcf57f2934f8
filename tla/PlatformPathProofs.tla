--------------------------- MODULE PlatformPathProofs ---------------------------
(***************************************************************************)
(* Proofs about the storage and the requests of PlatformPath: for any      *)
(* tenants, files, genes, requests and agents, and any number of them at   *)
(* the same time.                                                          *)
(***************************************************************************)
EXTENDS PlatformPath, FiniteSetTheorems, SequenceTheorems, TLAPS

-----------------------------------------------------------------------------
(* The composition.                                                        *)

\* A step of the platform is a step of one part and leaves the others as they are.
LEMMA OnePart ==
    ASSUME [Next]_platform_vars
    PROVE  /\ PartitionNext \/ CapacityNext \/ ReplicaNext \/ UNCHANGED partition_vars
           /\ ImportNext \/ UNCHANGED import_vars
           /\ GeneNext \/ UNCHANGED gene_vars
           /\ GatewayNext \/ ProfileNext \/ UNCHANGED gateway_vars
           /\ HandlersNext \/ OwnData \/ Decide \/ UNCHANGED api_vars
           /\ \/ AdapterSideNext \/ PromptNext \/ ClientNext \/ ToolNext \/ TaskToolNext
              \/ UNCHANGED agent_vars
  BY DEF Next, StorageNext, RequestNext, AccountNext, platform_vars, storage_vars, request_vars

-----------------------------------------------------------------------------
(* Partitions: what archive_partition and ensure_partition_exists rely on. *)

Rows == [tenant : Tenants, month : Months, n : Nat]

PartitionRow == [attached : BOOLEAN, rows : SUBSET Rows]

ArchiveRow == [rows : SUBSET Rows, copied : BOOLEAN]

Steps == {"idle", "tenant", "create_tenant", "create", "insert"}

PartitionTypes ==
    /\ strategy \in PartitionStrategy
    /\ tables \in [DOMAIN tables -> PartitionRow]
    /\ archive \in [DOMAIN archive -> ArchiveRow]
    /\ writer \in [Writers -> [at : Steps, row : Rows \cup {Unset}]]
    /\ \A w \in Writers : writer[w].at # "idle" => writer[w].row \in Rows
    /\ DOMAIN archiver = Archivers
    /\ \A a \in Archivers : DOMAIN archiver[a] = {"at", "name"}
    /\ late \subseteq Rows /\ refused \subseteq Rows /\ writes \in Nat

NameOf(row) == partition_name(row.tenant, row.month)

\* A tenant's month hangs below its tenant's table, which has no rows of its own; a
\* partition below another one is never detached.
Leveled ==
    \A name \in DOMAIN tables :
        /\ Len(name) \in {1, 2}
        /\ ParentOf(name) # <<>> =>
              /\ strategy = "by_tenant_and_time"
              /\ ParentOf(name) \in DOMAIN tables /\ tables[name].attached
        /\ strategy = "by_tenant_and_time" /\ ParentOf(name) = <<>> => tables[name].rows = {}

\* A writer that inserts has found its partition or created it.
Prepared == \A w \in Writers : writer[w].at = "insert" => NameOf(writer[w].row) \in DOMAIN tables

\* An archiver's partition and its archive are there, and copied before it is detached.
Archiving ==
    \A a \in Archivers :
        /\ archiver[a].at \in {"idle", "copy", "detach"}
        /\ archiver[a].at # "idle" => archiver[a].name \in (DOMAIN tables) \cap (DOMAIN archive)
        /\ archiver[a].at = "detach" => Copied(archiver[a].name)

\* Whatever is in a partition that was copied is in its archive or came late.
CopiedOrLate ==
    \A name \in DOMAIN archive : \A x \in DOMAIN tables :
        (archive[name].copied /\ (x = name \/ ParentOf(x) = name)) =>
            tables[x].rows \subseteq archive[name].rows \cup late

PartitionInv ==
    /\ PartitionTypes /\ Leveled /\ Prepared /\ Archiving /\ CopiedOrLate
    /\ LateRowsOnly /\ RefusedOnlyDetached

\* The levels of the names that are joined.
LEMMA NameFacts ==
    ASSUME strategy \in PartitionStrategy, NEW t, NEW month
    PROVE  /\ Len(<<t>>) = 1 /\ ParentOf(<<t>>) = <<>> /\ <<t>> # <<>>
           /\ partition_name(t, month) # <<>> /\ Len(partition_name(t, month)) \in {1, 2}
           /\ strategy = "by_tenant_and_time" =>
                 /\ ParentOf(partition_name(t, month)) = <<t>>
                 /\ Len(partition_name(t, month)) = 2
           /\ strategy # "by_tenant_and_time" => ParentOf(partition_name(t, month)) = <<>>
  BY DEF partition_name, ParentOf, PartitionStrategy

\* A partition below another has a name of two parts; the one above it, of one.
LEMMA LevelFacts ==
    ASSUME NEW name
    PROVE  /\ ParentOf(name) # <<>> => Len(name) = 2 /\ Len(ParentOf(name)) = 1
           /\ ParentOf(ParentOf(name)) = <<>>
           /\ Len(name) = 2 => ParentOf(name) # <<>>
           /\ ParentOf(<<>>) = <<>>
  BY DEF ParentOf

\* CREATE TABLE IF NOT EXISTS adds an empty partition and leaves the others.
LEMMA CreatedFacts ==
    ASSUME PartitionTypes, NEW name
    PROVE  /\ DOMAIN Created(name) = (DOMAIN tables) \cup {name}
           /\ \A n \in DOMAIN tables : Created(name)[n] = tables[n]
           /\ name \notin DOMAIN tables =>
                 Created(name)[name] = [attached |-> TRUE, rows |-> {}]
           /\ Created(name) \in [(DOMAIN tables) \cup {name} -> PartitionRow]
  BY DEF Created, PartitionTypes, PartitionRow

\* Creating a partition disturbs nothing.
LEMMA CreateStep ==
    ASSUME PartitionInv, NEW name, tables' = Created(name), Len(name) \in {1, 2},
           ParentOf(name) # <<>> =>
              strategy = "by_tenant_and_time" /\ ParentOf(name) \in DOMAIN tables,
           UNCHANGED <<strategy, archive, archiver, late, refused>>
    PROVE  /\ Leveled' /\ Archiving' /\ CopiedOrLate' /\ LateRowsOnly' /\ RefusedOnlyDetached'
           /\ tables' \in [DOMAIN tables' -> PartitionRow]
<1>1. /\ DOMAIN tables' = (DOMAIN tables) \cup {name}
      /\ \A n \in DOMAIN tables : tables'[n] = tables[n]
      /\ name \notin DOMAIN tables => tables'[name] = [attached |-> TRUE, rows |-> {}]
      /\ tables' \in [(DOMAIN tables) \cup {name} -> PartitionRow]
  BY CreatedFacts DEF PartitionInv
<1>2. name \notin DOMAIN tables => tables'[name].attached /\ tables'[name].rows = {}
  BY <1>1
<1>3. Leveled'
  BY <1>1, <1>2 DEF PartitionInv, Leveled, ParentOf
<1>4. Archiving'
  BY <1>1 DEF PartitionInv, Archiving, Copied
<1>5. CopiedOrLate'
  BY <1>1, <1>2 DEF PartitionInv, CopiedOrLate, ParentOf
<1>6. \A n \in DOMAIN tables : Reaches(n) => Reaches(n)'
  BY <1>1, <1>2 DEF Reaches, PartitionInv, Leveled, ParentOf
<1>7. LateRowsOnly'
  BY <1>1, <1>2, <1>6 DEF PartitionInv, LateRowsOnly
<1>8. \A n \in (DOMAIN tables) \ list_partitions : n \in (DOMAIN tables') \ list_partitions'
  BY <1>1 DEF list_partitions, ParentOf
<1>9. RefusedOnlyDetached'
  BY <1>8 DEF PartitionInv, RefusedOnlyDetached, TopLevel, ParentOf, partition_name
<1> QED
  BY <1>1, <1>3, <1>4, <1>5, <1>7, <1>9

\* A writer looks its partition up, goes on, or gives up; nothing is written.
LEMMA WriterStep ==
    ASSUME PartitionInv, NEW w \in Writers, NEW entry, writer' = [writer EXCEPT ![w] = entry],
           entry \in [at : Steps, row : Rows \cup {Unset}],
           entry.at # "idle" => entry.row \in Rows,
           entry.at = "insert" => NameOf(entry.row) \in DOMAIN tables,
           writes' \in Nat, UNCHANGED <<strategy, tables, archive, archiver, late, refused>>
    PROVE  PartitionInv'
<1>1. /\ writer' \in [Writers -> [at : Steps, row : Rows \cup {Unset}]]
      /\ \A v \in Writers : writer'[v] = IF v = w THEN entry ELSE writer[v]
  BY DEF PartitionInv, PartitionTypes
<1>2. PartitionTypes'
  BY <1>1 DEF PartitionInv, PartitionTypes
<1>3. Prepared'
  BY <1>1 DEF PartitionInv, Prepared, NameOf, partition_name
<1>4. Leveled' /\ Archiving' /\ CopiedOrLate'
  BY DEF PartitionInv, Leveled, ParentOf, Archiving, Copied, CopiedOrLate
<1>5. LateRowsOnly'
  BY DEF PartitionInv, LateRowsOnly, Reaches, ParentOf
<1>6. RefusedOnlyDetached'
  BY DEF PartitionInv, RefusedOnlyDetached, TopLevel, ParentOf, partition_name, list_partitions
<1> QED
  BY <1>2, <1>3, <1>4, <1>5, <1>6 DEF PartitionInv

\* The steps of ensure_partition_exists that create nothing.
LEMMA LookupStep ==
    ASSUME PartitionInv, NEW w \in Writers,
           \/ \E t \in Tenants, month \in Months : EnsureExists(w, t, month)
           \/ writer[w].at = "tenant" /\ EnsureTenant(w)
           \/ WriterFails(w)
    PROVE  PartitionInv'
<1>0. /\ writer[w] \in [at : Steps, row : Rows \cup {Unset}]
      /\ writes \in Nat
  BY DEF PartitionInv, PartitionTypes
<1>1. ASSUME NEW t \in Tenants, NEW month \in Months, EnsureExists(w, t, month)
      PROVE  PartitionInv'
  <2> DEFINE row == [tenant |-> t, month |-> month, n |-> writes + 1]
             name == partition_name(t, month)
             entry == [row |-> row, at |-> CASE name \in DOMAIN tables -> "insert"
                     [] name \notin DOMAIN tables /\ strategy = "by_tenant_and_time" -> "tenant"
                     [] OTHER -> "create"]
  <2>1. writer' = [writer EXCEPT ![w] = entry]
    BY <1>1 DEF EnsureExists, for_month
  <2>2. row \in Rows /\ NameOf(row) = name
    BY <1>0 DEF Rows, NameOf
  <2>3. entry \in [at : Steps, row : Rows \cup {Unset}] /\ entry.row = row
    BY <2>2 DEF Steps
  <2>4. entry.at = "insert" => name \in DOMAIN tables
    OBVIOUS
  <2>5. writes' \in Nat /\ UNCHANGED <<strategy, tables, archive, archiver, late, refused>>
    BY <1>0, <1>1 DEF EnsureExists
  <2> HIDE DEF entry, row
  <2> QED
    BY <2>1, <2>2, <2>3, <2>4, <2>5, WriterStep
<1>2. ASSUME writer[w].at = "tenant", EnsureTenant(w)
      PROVE  PartitionInv'
  <2>1. PICK s \in {"create", "create_tenant"} : writer' = [writer EXCEPT ![w].at = s]
    BY <1>2 DEF EnsureTenant
  <2>2. writer' = [writer EXCEPT ![w] = [writer[w] EXCEPT !.at = s]]
    BY <2>1
  <2>3. /\ [writer[w] EXCEPT !.at = s] \in [at : Steps, row : Rows \cup {Unset}]
        /\ [writer[w] EXCEPT !.at = s].at = s
        /\ [writer[w] EXCEPT !.at = s].row = writer[w].row
    BY <1>0 DEF Steps
  <2>4. writer[w].row \in Rows
    BY <1>2 DEF PartitionInv, PartitionTypes
  <2>5. /\ writes' = writes
        /\ UNCHANGED <<strategy, tables, archive, archiver, late, refused>>
    BY <1>2 DEF EnsureTenant
  <2> QED
    BY <1>0, <2>1, <2>2, <2>3, <2>4, <2>5, WriterStep
<1>3. ASSUME WriterFails(w)
      PROVE  PartitionInv'
  <2>1. /\ Unoccupied(Unset) \in [at : Steps, row : Rows \cup {Unset}]
        /\ Unoccupied(Unset).at = "idle"
    BY DEF Unoccupied, Steps
  <2>2. /\ writer' = [writer EXCEPT ![w] = Unoccupied(Unset)] /\ writes' = writes
        /\ UNCHANGED <<strategy, tables, archive, archiver, late, refused>>
    BY <1>3 DEF WriterFails
  <2> QED
    BY <1>0, <2>1, <2>2, WriterStep
<1> QED
  BY <1>1, <1>2, <1>3

\* The steps that create a partition.
LEMMA CreatingStep ==
    ASSUME PartitionInv,
           \/ \E w \in Writers : \/ writer[w].at = "create_tenant" /\ EnsureTenant(w)
                                 \/ EnsureCreate(w)
           \/ \E t \in Tenants, month \in Months : create_partition(t, month)
    PROVE  PartitionInv'
<1>0. strategy \in PartitionStrategy
  BY DEF PartitionInv, PartitionTypes
<1>1. ASSUME NEW w \in Writers, NEW name, NEW s \in {"create", "insert"},
             tables' = Created(name), Len(name) \in {1, 2},
             ParentOf(name) # <<>> =>
                strategy = "by_tenant_and_time" /\ ParentOf(name) \in DOMAIN tables,
             writer[w].at # "idle", writer' = [writer EXCEPT ![w].at = s],
             s = "insert" => name = NameOf(writer[w].row),
             UNCHANGED <<strategy, archive, archiver, late, refused, writes>>
      PROVE  PartitionInv'
  <2>1. /\ Leveled' /\ Archiving' /\ CopiedOrLate' /\ LateRowsOnly' /\ RefusedOnlyDetached'
        /\ tables' \in [DOMAIN tables' -> PartitionRow]
    BY <1>1, CreateStep
  <2>2. /\ writer' \in [Writers -> [at : Steps, row : Rows \cup {Unset}]]
        /\ \A v \in Writers : writer'[v].row = writer[v].row
        /\ \A v \in Writers \ {w} : writer'[v] = writer[v]
        /\ writer'[w].at = s
    BY <1>1 DEF PartitionInv, PartitionTypes, Steps
  <2>3. PartitionTypes'
    BY <1>1, <2>1, <2>2 DEF PartitionInv, PartitionTypes
  <2>4. DOMAIN tables' = (DOMAIN tables) \cup {name}
    BY <1>1, CreatedFacts DEF PartitionInv
  <2>5. Prepared'
    BY <1>1, <2>2, <2>4 DEF PartitionInv, Prepared, NameOf, partition_name
  <2> QED
    BY <2>1, <2>3, <2>5 DEF PartitionInv
<1>2. ASSUME NEW w \in Writers, writer[w].at = "create_tenant", EnsureTenant(w)
      PROVE  PartitionInv'
  BY <1>0, <1>1, <1>2, NameFacts
     DEF EnsureTenant, create_tenant_subpartition_ddl, tenant_partition_name
<1>3. ASSUME NEW w \in Writers, EnsureCreate(w)
      PROVE  PartitionInv'
  <2>1. /\ tables' = Created(NameOf(writer[w].row)) /\ CanCreate(NameOf(writer[w].row))
        /\ writer[w].at = "create" /\ writer' = [writer EXCEPT ![w].at = "insert"]
        /\ UNCHANGED <<strategy, archive, archiver, late, refused, writes>>
    BY <1>3 DEF EnsureCreate, create_partition_ddl, NameOf
  <2>2. /\ Len(NameOf(writer[w].row)) \in {1, 2}
        /\ ParentOf(NameOf(writer[w].row)) # <<>> =>
              strategy = "by_tenant_and_time" /\ ParentOf(NameOf(writer[w].row)) \in DOMAIN tables
    BY <1>0, <2>1, NameFacts DEF NameOf, CanCreate
  <2> QED
    BY <1>1, <2>1, <2>2
<1>4. ASSUME NEW t \in Tenants, NEW month \in Months, create_partition(t, month)
      PROVE  PartitionInv'
  <2> DEFINE name == partition_name(t, month)
  <2>1. /\ tables' = Created(name) /\ CanCreate(name)
        /\ UNCHANGED <<strategy, archive, archiver, late, refused, writes, writer>>
    BY <1>4 DEF create_partition, create_partition_ddl
  <2>2. /\ Len(name) \in {1, 2}
        /\ ParentOf(name) # <<>> =>
              strategy = "by_tenant_and_time" /\ ParentOf(name) \in DOMAIN tables
    BY <1>0, <2>1, NameFacts DEF CanCreate
  <2> HIDE DEF name
  <2>3. /\ Leveled' /\ Archiving' /\ CopiedOrLate' /\ LateRowsOnly' /\ RefusedOnlyDetached'
        /\ tables' \in [DOMAIN tables' -> PartitionRow]
    BY <2>1, <2>2, CreateStep
  <2>4. DOMAIN tables' = (DOMAIN tables) \cup {name}
    BY <2>1, CreatedFacts DEF PartitionInv
  <2>5. PartitionTypes' /\ Prepared'
    BY <2>1, <2>3, <2>4 DEF PartitionInv, PartitionTypes, Prepared, NameOf, partition_name
  <2> QED
    BY <2>3, <2>5 DEF PartitionInv
<1> QED
  BY <1>2, <1>3, <1>4

\* A row goes to its partition, late if that or the one above it was copied, or is
\* refused, and then one of the two is detached.
LEMMA InsertStep ==
    ASSUME PartitionInv, NEW w \in Writers, InsertRow(w)
    PROVE  PartitionInv'
<1> DEFINE row == writer[w].row
           name == NameOf(row)
<1>1. /\ row \in Rows /\ name \in DOMAIN tables
      /\ writer' = [writer EXCEPT ![w] = Unoccupied(Unset)]
      /\ UNCHANGED <<strategy, archive, archiver, writes>>
  BY DEF InsertRow, PartitionInv, PartitionTypes, Prepared
<1>2. /\ writer' \in [Writers -> [at : Steps, row : Rows \cup {Unset}]]
      /\ \A v \in Writers \ {w} : writer'[v] = writer[v]
      /\ writer'[w].at = "idle"
  BY <1>1 DEF PartitionInv, PartitionTypes, Unoccupied, Steps
<1>3. CASE Reaches(name)
  <2>1. /\ tables' = [tables EXCEPT ![name].rows = @ \cup {row}]
        /\ late' = IF Copied(name) \/ Copied(ParentOf(name)) THEN late \cup {row} ELSE late
        /\ refused' = refused
    BY <1>3 DEF InsertRow, NameOf
  <2>2. /\ DOMAIN tables' = DOMAIN tables
        /\ tables' \in [DOMAIN tables -> PartitionRow]
        /\ tables'[name].rows = tables[name].rows \cup {row}
        /\ \A n \in DOMAIN tables : tables'[n].attached = tables[n].attached
        /\ \A n \in (DOMAIN tables) \ {name} : tables'[n].rows = tables[n].rows
    BY <1>1, <2>1 DEF PartitionInv, PartitionTypes, PartitionRow
  <2>3. PartitionTypes'
    BY <1>1, <1>2, <2>1, <2>2 DEF PartitionInv, PartitionTypes
  <2>4. strategy = "by_tenant_and_time" => ParentOf(name) # <<>>
    BY <1>1, NameFacts DEF NameOf, PartitionInv, PartitionTypes
  <2>5. Leveled'
    BY <1>1, <2>2, <2>4 DEF PartitionInv, Leveled, ParentOf
  <2>6. Prepared' /\ Archiving'
    BY <1>1, <1>2, <2>2 DEF PartitionInv, Prepared, Archiving, Copied, NameOf, partition_name
  <2>7. CopiedOrLate'
    BY <1>1, <2>1, <2>2 DEF PartitionInv, CopiedOrLate, Copied, ParentOf
  <2>8. \A n \in DOMAIN tables : Reaches(n) => Reaches(n)'
    BY <2>2 DEF Reaches, ParentOf, PartitionInv, Leveled
  <2>9. LateRowsOnly'
    <3>1. late \subseteq late' /\ archive' = archive
      BY <1>1, <2>1
    <3>2. ASSUME NEW n \in DOMAIN tables, NEW r \in tables'[n].rows
          PROVE  Reaches(n)' \/ (\E x \in DOMAIN archive : r \in archive[x].rows) \/ r \in late'
      <4>1. CASE n = name
        BY <1>3, <2>8, <4>1
      <4>2. CASE n # name
        <5>1. r \in tables[n].rows
          BY <2>2, <3>2, <4>2
        <5> QED
          BY <2>8, <3>1, <5>1 DEF PartitionInv, LateRowsOnly
      <4> QED
        BY <4>1, <4>2
    <3> QED
      BY <2>2, <3>1, <3>2 DEF LateRowsOnly
  <2>10. RefusedOnlyDetached'
    <3>1. list_partitions' = list_partitions
      BY <2>2 DEF list_partitions, ParentOf
    <3> QED
      BY <1>1, <2>1, <2>2, <3>1
         DEF PartitionInv, RefusedOnlyDetached, TopLevel, ParentOf, partition_name
  <2> QED
    BY <2>3, <2>5, <2>6, <2>7, <2>9, <2>10 DEF PartitionInv
<1>4. CASE ~Reaches(name)
  <2>1. refused' = refused \cup {row} /\ tables' = tables /\ late' = late
    BY <1>4 DEF InsertRow, NameOf
  <2>2. PartitionTypes' /\ Prepared'
    BY <1>1, <1>2, <2>1 DEF PartitionInv, PartitionTypes, Prepared, NameOf, partition_name
  <2>3. Leveled' /\ Archiving' /\ CopiedOrLate' /\ LateRowsOnly'
    BY <1>1, <2>1
       DEF PartitionInv, Leveled, ParentOf, Archiving, Copied, CopiedOrLate, LateRowsOnly, Reaches
  <2>4. TopLevel(name) \in (DOMAIN tables) \ list_partitions
    BY <1>1, <1>4, LevelFacts DEF Reaches, TopLevel, list_partitions, PartitionInv, Leveled
  <2>5. RefusedOnlyDetached'
    BY <1>1, <2>1, <2>4
       DEF PartitionInv, RefusedOnlyDetached, TopLevel, ParentOf, partition_name, list_partitions, NameOf
  <2> QED
    BY <2>2, <2>3, <2>5 DEF PartitionInv
<1> QED
  BY <1>3, <1>4

\* CREATE TABLE for an archive, unless it is there.
LEMMA ArchiveCreateStep ==
    ASSUME PartitionInv, NEW a \in Archivers, NEW name \in DOMAIN tables, ArchiveCreate(a, name)
    PROVE  PartitionInv'
<1>1. /\ UNCHANGED <<strategy, tables, writer, writes, late, refused>>
      /\ archiver' = [archiver EXCEPT ![a] = [at |-> "copy", name |-> name]]
      /\ DOMAIN archive' = (DOMAIN archive) \cup {name}
      /\ \A n \in DOMAIN archive : archive'[n] = archive[n]
      /\ name \notin DOMAIN archive => archive'[name] = [rows |-> {}, copied |-> FALSE]
      /\ archive' \in [DOMAIN archive' -> ArchiveRow]
  BY DEF ArchiveCreate, PartitionInv, PartitionTypes, ArchiveRow
<1>2. /\ DOMAIN archiver' = Archivers
      /\ \A b \in Archivers : DOMAIN archiver'[b] = {"at", "name"}
      /\ archiver'[a].at = "copy" /\ archiver'[a].name = name
      /\ \A b \in Archivers \ {a} : archiver'[b] = archiver[b]
  BY <1>1 DEF PartitionInv, PartitionTypes
<1>3. PartitionTypes'
  BY <1>1, <1>2 DEF PartitionInv, PartitionTypes
<1>4. Leveled' /\ Prepared'
  BY <1>1 DEF PartitionInv, Leveled, ParentOf, Prepared, NameOf, partition_name
<1>5. Archiving'
  BY <1>1, <1>2 DEF PartitionInv, Archiving, Copied
<1>6. name \notin DOMAIN archive => ~archive'[name].copied
  BY <1>1
<1>7. CopiedOrLate'
  BY <1>1, <1>6 DEF PartitionInv, CopiedOrLate, ParentOf
<1>8. LateRowsOnly'
  BY <1>1 DEF PartitionInv, LateRowsOnly, Reaches, ParentOf
<1>9. RefusedOnlyDetached'
  BY <1>1 DEF PartitionInv, RefusedOnlyDetached, TopLevel, ParentOf, partition_name, list_partitions
<1> QED
  BY <1>3, <1>4, <1>5, <1>7, <1>8, <1>9 DEF PartitionInv

\* INSERT ... SELECT copies what the partition, or all below it, has at that moment.
LEMMA ArchiveCopyStep ==
    ASSUME PartitionInv, NEW a \in Archivers, ArchiveCopy(a)
    PROVE  PartitionInv'
<1> DEFINE name == archiver[a].name
<1>1. /\ UNCHANGED <<strategy, tables, writer, writes, late, refused>>
      /\ name \in (DOMAIN tables) \cap (DOMAIN archive)
      /\ archiver' = [archiver EXCEPT ![a].at = "detach"]
      /\ archive' = [archive EXCEPT ![name] = [rows |-> @.rows \cup RowsOf(name), copied |-> TRUE]]
  BY DEF ArchiveCopy, PartitionInv, Archiving
<1>2. RowsOf(name) \subseteq Rows
  BY <1>1 DEF RowsOf, PartitionInv, PartitionTypes, PartitionRow
<1>3. /\ DOMAIN archive' = DOMAIN archive
      /\ archive' \in [DOMAIN archive -> ArchiveRow]
      /\ archive'[name].copied /\ archive'[name].rows = archive[name].rows \cup RowsOf(name)
      /\ \A n \in (DOMAIN archive) \ {name} : archive'[n] = archive[n]
  BY <1>1, <1>2 DEF PartitionInv, PartitionTypes, ArchiveRow
<1>4. /\ DOMAIN archiver' = Archivers
      /\ \A b \in Archivers : DOMAIN archiver'[b] = {"at", "name"}
      /\ archiver'[a].at = "detach" /\ archiver'[a].name = name
      /\ \A b \in Archivers \ {a} : archiver'[b] = archiver[b]
  BY <1>1 DEF PartitionInv, PartitionTypes
<1>5. PartitionTypes'
  BY <1>1, <1>3, <1>4 DEF PartitionInv, PartitionTypes
<1>6. Leveled' /\ Prepared'
  BY <1>1 DEF PartitionInv, Leveled, ParentOf, Prepared, NameOf, partition_name
<1>7. Archiving'
  BY <1>1, <1>3, <1>4 DEF PartitionInv, Archiving, Copied
<1>8. \A x \in DOMAIN tables : (x = name \/ ParentOf(x) = name) => tables[x].rows \subseteq RowsOf(name)
  <2>1. CASE strategy = "by_tenant_and_time" /\ Len(name) = 1
    <3>1. ParentOf(name) = <<>>
      BY <2>1 DEF ParentOf
    <3>2. tables[name].rows = {}
      BY <1>1, <2>1, <3>1 DEF PartitionInv, Leveled
    <3>3. \A x \in DOMAIN tables : ParentOf(x) = name => tables[x].attached
      BY <2>1 DEF PartitionInv, Leveled, ParentOf
    <3> QED
      BY <1>1, <2>1, <3>2, <3>3 DEF RowsOf
  <2>2. CASE ~(strategy = "by_tenant_and_time" /\ Len(name) = 1)
    <3>1. \A x \in DOMAIN tables : ParentOf(x) # name
      <4>1. SUFFICES ASSUME NEW x \in DOMAIN tables, ParentOf(x) = name PROVE FALSE
        OBVIOUS
      <4>2. name # <<>>
        <5>1. \A n : n = <<>> => Len(n) = 0
          OBVIOUS
        <5>2. Len(name) \in {1, 2}
          BY <1>1 DEF PartitionInv, Leveled
        <5> HIDE DEF name
        <5> QED
          BY <5>1, <5>2
      <4>3. strategy = "by_tenant_and_time"
        BY <4>1, <4>2 DEF PartitionInv, Leveled
      <4> QED
        BY <2>2, <4>1, <4>2, <4>3, LevelFacts
    <3> QED
      BY <2>2, <3>1 DEF RowsOf
  <2> QED
    BY <2>1, <2>2
<1>9. CopiedOrLate'
  <2>1. SUFFICES ASSUME NEW n \in DOMAIN archive, NEW x \in DOMAIN tables, archive'[n].copied,
                        x = n \/ ParentOf(x) = n
                 PROVE  tables[x].rows \subseteq archive'[n].rows \cup late
    BY <1>1, <1>3 DEF CopiedOrLate, ParentOf
  <2>2. CASE n = name
    BY <1>3, <1>8, <2>1, <2>2
  <2>3. CASE n # name
    BY <1>3, <2>1, <2>3 DEF PartitionInv, CopiedOrLate
  <2> QED
    BY <2>2, <2>3
<1>10. LateRowsOnly'
  <2>1. \A n \in DOMAIN archive : archive[n].rows \subseteq archive'[n].rows
    BY <1>1, <1>3
  <2> QED
    BY <1>1, <1>3, <2>1 DEF PartitionInv, LateRowsOnly, Reaches, ParentOf
<1>11. RefusedOnlyDetached'
  BY <1>1 DEF PartitionInv, RefusedOnlyDetached, TopLevel, ParentOf, partition_name, list_partitions
<1> QED
  BY <1>5, <1>6, <1>7, <1>9, <1>10, <1>11 DEF PartitionInv

\* DETACH: what is cut off with the partition was copied or came late.
LEMMA ArchiveDetachStep ==
    ASSUME PartitionInv, NEW a \in Archivers, ArchiveDetach(a)
    PROVE  PartitionInv'
<1> DEFINE name == archiver[a].name
<1>1. /\ UNCHANGED <<strategy, archive, writer, writes, late, refused>>
      /\ name \in (DOMAIN tables) \cap (DOMAIN archive) /\ archive[name].copied
      /\ ParentOf(name) = <<>>
      /\ tables' = [tables EXCEPT ![name].attached = FALSE]
      /\ archiver' = [archiver EXCEPT ![a] = [at |-> "idle", name |-> Unset]]
  BY DEF ArchiveDetach, PartitionInv, Archiving, Copied
<1>2. /\ DOMAIN tables' = DOMAIN tables
      /\ tables' \in [DOMAIN tables -> PartitionRow]
      /\ ~tables'[name].attached
      /\ \A n \in DOMAIN tables : tables'[n].rows = tables[n].rows
      /\ \A n \in (DOMAIN tables) \ {name} : tables'[n].attached = tables[n].attached
  <2>1. \A n \in DOMAIN tables : tables[n] \in PartitionRow
    BY DEF PartitionInv, PartitionTypes
  <2>2. /\ DOMAIN tables' = DOMAIN tables
        /\ tables'[name] = [tables[name] EXCEPT !.attached = FALSE]
        /\ \A n \in (DOMAIN tables) \ {name} : tables'[n] = tables[n]
        /\ tables' = [n \in DOMAIN tables' |-> tables'[n]]
    BY <1>1 DEF PartitionInv, PartitionTypes
  <2>3. /\ tables'[name] \in PartitionRow /\ ~tables'[name].attached
        /\ tables'[name].rows = tables[name].rows
    BY <1>1, <2>1, <2>2 DEF PartitionRow
  <2>4. \A n \in DOMAIN tables : tables'[n] \in PartitionRow
    BY <2>1, <2>2, <2>3
  <2> QED
    BY <2>2, <2>3, <2>4
<1>3. /\ DOMAIN archiver' = Archivers
      /\ \A b \in Archivers : DOMAIN archiver'[b] = {"at", "name"}
      /\ archiver'[a].at = "idle"
      /\ \A b \in Archivers \ {a} : archiver'[b] = archiver[b]
  BY <1>1 DEF PartitionInv, PartitionTypes
<1>4. PartitionTypes'
  BY <1>1, <1>2, <1>3 DEF PartitionInv, PartitionTypes
<1>5. Leveled' /\ Prepared'
  BY <1>1, <1>2 DEF PartitionInv, Leveled, ParentOf, Prepared, NameOf, partition_name
<1>6. Archiving'
  BY <1>1, <1>2, <1>3 DEF PartitionInv, Archiving, Copied
<1>7. CopiedOrLate'
  BY <1>1, <1>2 DEF PartitionInv, CopiedOrLate, ParentOf
<1>8. LateRowsOnly'
  <2>1. SUFFICES ASSUME NEW n \in DOMAIN tables, NEW r \in tables[n].rows
                 PROVE  \/ Reaches(n)' \/ r \in late
                        \/ \E x \in DOMAIN archive : r \in archive[x].rows
    BY <1>1, <1>2 DEF LateRowsOnly
  <2>2. CASE n = name \/ ParentOf(n) = name
    BY <1>1, <2>2, <2>1 DEF PartitionInv, CopiedOrLate
  <2>3. CASE ~(n = name \/ ParentOf(n) = name)
    <3>1. Reaches(n) => Reaches(n)'
      BY <1>2, <2>3 DEF Reaches, ParentOf, PartitionInv, Leveled
    <3> QED
      BY <2>1, <3>1 DEF PartitionInv, LateRowsOnly
  <2> QED
    BY <2>2, <2>3
<1>9. \A n \in (DOMAIN tables) \ list_partitions : n \in (DOMAIN tables') \ list_partitions'
  BY <1>1, <1>2 DEF list_partitions, ParentOf
<1>10. RefusedOnlyDetached'
  BY <1>1, <1>9 DEF PartitionInv, RefusedOnlyDetached, TopLevel, ParentOf, partition_name
<1> QED
  BY <1>4, <1>5, <1>6, <1>7, <1>8, <1>10 DEF PartitionInv

\* An archiver that fails leaves what it did.
LEMMA ArchiverFailsStep ==
    ASSUME PartitionInv, NEW a \in Archivers, ArchiverFails(a)
    PROVE  PartitionInv'
<1>1. /\ UNCHANGED <<strategy, tables, archive, writer, writes, late, refused>>
      /\ archiver' = [archiver EXCEPT ![a] = [at |-> "idle", name |-> Unset]]
  BY DEF ArchiverFails
<1>2. /\ DOMAIN archiver' = Archivers
      /\ \A b \in Archivers : DOMAIN archiver'[b] = {"at", "name"}
      /\ archiver'[a].at = "idle"
      /\ \A b \in Archivers \ {a} : archiver'[b] = archiver[b]
  BY <1>1 DEF PartitionInv, PartitionTypes
<1>3. PartitionTypes' /\ Archiving'
  BY <1>1, <1>2 DEF PartitionInv, PartitionTypes, Archiving, Copied
<1>4. Leveled' /\ Prepared' /\ CopiedOrLate'
  BY <1>1 DEF PartitionInv, Leveled, ParentOf, Prepared, NameOf, partition_name, CopiedOrLate
<1>5. LateRowsOnly'
  BY <1>1 DEF PartitionInv, LateRowsOnly, Reaches, ParentOf
<1>6. RefusedOnlyDetached'
  BY <1>1 DEF PartitionInv, RefusedOnlyDetached, TopLevel, ParentOf, partition_name, list_partitions
<1> QED
  BY <1>3, <1>4, <1>5, <1>6 DEF PartitionInv

\* The capacity monitor and the router of reads leave the partitions as they are.
LEMMA PartitionsStay ==
    ASSUME PartitionInv,
           UNCHANGED <<strategy, tables, archive, writer, archiver, writes, late, refused>>
    PROVE  PartitionInv'
<1>1. PartitionTypes' /\ Archiving'
  BY DEF PartitionInv, PartitionTypes, Archiving, Copied
<1>2. Leveled' /\ Prepared' /\ CopiedOrLate'
  BY DEF PartitionInv, Leveled, ParentOf, Prepared, NameOf, partition_name, CopiedOrLate
<1>3. LateRowsOnly'
  BY DEF PartitionInv, LateRowsOnly, Reaches, ParentOf
<1>4. RefusedOnlyDetached'
  BY DEF PartitionInv, RefusedOnlyDetached, TopLevel, ParentOf, partition_name, list_partitions
<1> QED
  BY <1>1, <1>2, <1>3, <1>4 DEF PartitionInv

\* Every step keeps the invariant of the partitions.
LEMMA PartitionStep ==
    PartitionInv /\ (PartitionNext \/ CapacityNext \/ ReplicaNext \/ UNCHANGED partition_vars)
        => PartitionInv'
<1>1. ASSUME PartitionInv, PartitionNext PROVE PartitionInv'
  <2>1. ASSUME NEW w \in Writers,
               \/ \E t \in Tenants, month \in Months : EnsureExists(w, t, month)
               \/ EnsureTenant(w) \/ EnsureCreate(w) \/ InsertRow(w) \/ WriterFails(w)
        PROVE  PartitionInv'
    <3>1. EnsureTenant(w) => writer[w].at \in {"tenant", "create_tenant"}
      BY DEF EnsureTenant
    <3> QED
      BY <1>1, <2>1, <3>1, LookupStep, CreatingStep, InsertStep
  <2>2. ASSUME NEW t \in Tenants, NEW month \in Months, create_partition(t, month)
        PROVE  PartitionInv'
    BY <1>1, <2>2, CreatingStep
  <2>3. ASSUME NEW a \in Archivers,
               \/ \E name \in DOMAIN tables : ArchiveCreate(a, name)
               \/ ArchiveCopy(a) \/ ArchiveDetach(a) \/ ArchiverFails(a)
        PROVE  PartitionInv'
    BY <1>1, <2>3, ArchiveCreateStep, ArchiveCopyStep, ArchiveDetachStep, ArchiverFailsStep
  <2> QED
    BY <1>1, <2>1, <2>2, <2>3 DEF PartitionNext
<1>2. ASSUME PartitionInv, CapacityNext \/ ReplicaNext \/ UNCHANGED partition_vars
      PROVE  PartitionInv'
  <2>1. UNCHANGED <<strategy, tables, archive, writer, archiver, writes, late, refused>>
    BY <1>2 DEF CapacityNext, check_capacity_limits, measure_tenant_stats, ReplicaNext,
                CommitOnPrimary, Replay, TimePasses, route_read, partition_vars
  <2> QED
    BY <1>2, <2>1, PartitionsStay
<1> QED
  BY <1>1, <1>2

-----------------------------------------------------------------------------
(* The capacity monitor and the router of reads.                           *)

\* A product that does not fit is the largest number, which is over the threshold too.
LEMMA GrowthJudged ==
    ASSUME NEW m \in Measures
    PROVE  LET stats == Stats(m) IN
           stats.row_count * Dim * 4 > Thresholds.max_vector_storage_bytes
               => "vector_storage_growth" \in evaluate_alerts(stats)
<1> DEFINE stats == Stats(m)
           limit == Thresholds.max_vector_storage_bytes
<1>1. /\ m \in PartitionSize /\ Dim \in Nat /\ MaxInt \in Nat
      /\ limit \in Nat /\ limit < MaxInt
  BY CapacityAssumption DEF CapacityThresholds
<1>2. m.row_count \in Nat /\ DOMAIN m = {"total_bytes", "index_bytes", "row_count"}
  BY <1>1 DEF PartitionSize
<1>3. /\ stats.row_count = m.row_count
      /\ stats.vector_storage_bytes = estimate_vector_storage(m.row_count)
  BY DEF Stats
<1>4. SUFFICES ASSUME stats.row_count * Dim * 4 > limit
               PROVE  "vector_storage_growth" \in evaluate_alerts(stats)
  OBVIOUS
<1>5. stats.vector_storage_bytes > limit
  <2> DEFINE n == m.row_count
  <2>1. n * (Dim * 4) = n * Dim * 4
    BY <1>1, <1>2
  <2>2. n * (Dim * 4) > limit
    BY <1>3, <1>4, <2>1
  <2> QED
    BY <1>1, <1>3, <2>2 DEF estimate_vector_storage, saturating_mul
<1>6. /\ "vector_storage_growth" \in DOMAIN AlertType(stats)
      /\ AlertType(stats)["vector_storage_growth"] = <<stats.vector_storage_bytes, limit>>
  BY DEF AlertType
<1> HIDE DEF stats, limit
<1> QED
  BY <1>5, <1>6 DEF evaluate_alerts

\* Alerts are raised by the monitor alone.
LEMMA GrowthStep ==
    GrowthIsSeen /\ (PartitionNext \/ CapacityNext \/ ReplicaNext \/ UNCHANGED partition_vars)
        => GrowthIsSeen'
<1>1. ASSUME GrowthIsSeen, UNCHANGED alerts PROVE GrowthIsSeen'
  BY <1>1 DEF GrowthIsSeen
<1>2. ASSUME check_capacity_limits PROVE GrowthIsSeen'
  <2>1. PICK m \in Measures :
           alerts' = [of |-> "table", stats |-> Stats(m),
                      raised |-> evaluate_alerts(Stats(m))]
    BY <1>2 DEF check_capacity_limits
  <2> QED
    BY <2>1, GrowthJudged DEF GrowthIsSeen
<1>3. ASSUME NEW t \in Tenants, measure_tenant_stats(t) PROVE GrowthIsSeen'
  <2>1. alerts'.of = t
    BY <1>3 DEF measure_tenant_stats
  <2> QED
    BY <2>1, CapacityAssumption DEF GrowthIsSeen
<1>4. PartitionNext \/ ReplicaNext \/ UNCHANGED partition_vars => UNCHANGED alerts
  BY DEF PartitionNext, EnsureExists, EnsureTenant, EnsureCreate, InsertRow, WriterFails,
         create_partition, ArchiveCreate, ArchiveCopy, ArchiveDetach, ArchiverFails, ReplicaNext,
         CommitOnPrimary, Replay, TimePasses, route_read, partition_vars
<1> QED
  BY <1>1, <1>2, <1>3, <1>4 DEF CapacityNext

\* Commits are replayed in their order, and none is later than the clock.
ReplicaInv ==
    /\ replica \in [commits : Seq(Nat), replayed : Nat, now : Nat,
                    routed : {"replica", "primary", Unset}]
    /\ replica.replayed <= Len(replica.commits)
    /\ \A i \in 1..Len(replica.commits) : replica.commits[i] <= replica.now
    /\ \A i, j \in 1..Len(replica.commits) : i <= j => replica.commits[i] <= replica.commits[j]
    /\ ReplicaFresh

\* The primary and the replica go on.
LEMMA ReplicaStep ==
    ReplicaInv /\ (PartitionNext \/ CapacityNext \/ ReplicaNext \/ UNCHANGED partition_vars)
        => ReplicaInv'
<1> SUFFICES ASSUME ReplicaInv PROVE
       (PartitionNext \/ CapacityNext \/ ReplicaNext \/ UNCHANGED partition_vars) => ReplicaInv'
  OBVIOUS
<1>0. /\ replica.commits \in Seq(Nat) /\ replica.replayed \in Nat /\ replica.now \in Nat
      /\ Unset # "replica" /\ MaxLag \in Nat /\ Len(replica.commits) \in Nat
      /\ replica.commits \in [1..Len(replica.commits) -> Nat]
  BY CapacityAssumption DEF ReplicaInv
<1>1. ASSUME CommitOnPrimary PROVE ReplicaInv'
  <2> DEFINE c == Append(replica.commits, replica.now)
  <2>1. replica' = [replica EXCEPT !.commits = c, !.routed = Unset]
    BY <1>1 DEF CommitOnPrimary
  <2>2. /\ c \in Seq(Nat) /\ Len(c) = Len(replica.commits) + 1
        /\ c[Len(c)] = replica.now
        /\ \A i \in 1..Len(replica.commits) : c[i] = replica.commits[i]
    BY <1>0
  <2> HIDE DEF c
  <2>3. /\ replica'.commits = c /\ replica'.replayed = replica.replayed
        /\ replica'.now = replica.now /\ replica'.routed = Unset
        /\ replica' \in [commits : Seq(Nat), replayed : Nat, now : Nat,
                         routed : {"replica", "primary", Unset}]
    BY <2>1, <2>2 DEF ReplicaInv
  <2>4. \A i \in 1..Len(c) : c[i] <= replica.now
    BY <1>0, <2>2 DEF ReplicaInv
  <2>5. \A i, j \in 1..Len(c) : i <= j => c[i] <= c[j]
    <3>1. \A i \in 1..Len(c) : i = Len(c) \/ i \in 1..Len(replica.commits)
      BY <1>0, <2>2
    <3>2. \A i, j \in 1..Len(replica.commits) : i <= j => replica.commits[i] <= replica.commits[j]
      BY DEF ReplicaInv
    <3>3. SUFFICES ASSUME NEW i \in 1..Len(c), NEW j \in 1..Len(c), i <= j
                   PROVE  c[i] <= c[j]
      OBVIOUS
    <3>4. CASE j = Len(c)
      BY <2>2, <2>4, <3>4
    <3>5. CASE j # Len(c)
      <4>1. j \in 1..Len(replica.commits) /\ i \in 1..Len(replica.commits)
        BY <1>0, <2>2, <3>1, <3>3, <3>5
      <4> QED
        BY <2>2, <3>2, <3>3, <4>1
    <3> QED
      BY <3>4, <3>5
  <2>6. replica.replayed <= Len(c)
    BY <1>0, <2>2 DEF ReplicaInv
  <2> QED
    BY <1>0, <2>3, <2>4, <2>5, <2>6 DEF ReplicaInv, ReplicaFresh
<1>2. ASSUME Replay PROVE ReplicaInv'
  <2>1. /\ replica' = [replica EXCEPT !.replayed = @ + 1, !.routed = Unset]
        /\ replica.replayed < Len(replica.commits)
    BY <1>2 DEF Replay
  <2>0. replica' = [commits |-> replica.commits, replayed |-> replica.replayed + 1, now |-> replica.now,
                     routed |-> Unset]
    BY <1>0, <2>1 DEF ReplicaInv
  <2>2. /\ replica'.commits = replica.commits /\ replica'.replayed = replica.replayed + 1
        /\ replica'.now = replica.now /\ replica'.routed = Unset
        /\ replica' \in [commits : Seq(Nat), replayed : Nat, now : Nat,
                         routed : {"replica", "primary", Unset}]
    BY <1>0, <2>0
  <2> QED
    BY <1>0, <2>1, <2>2 DEF ReplicaInv, ReplicaFresh
<1>3. ASSUME TimePasses PROVE ReplicaInv'
  <2>1. replica' = [replica EXCEPT !.now = @ + 1, !.routed = Unset]
    BY <1>3 DEF TimePasses
  <2>0. replica' = [commits |-> replica.commits, replayed |-> replica.replayed, now |-> replica.now + 1,
                     routed |-> Unset]
    BY <1>0, <2>1 DEF ReplicaInv
  <2>2. /\ replica'.commits = replica.commits /\ replica'.replayed = replica.replayed
        /\ replica'.now = replica.now + 1 /\ replica'.routed = Unset
        /\ replica' \in [commits : Seq(Nat), replayed : Nat, now : Nat,
                         routed : {"replica", "primary", Unset}]
    BY <1>0, <2>0
  <2>3. \A i \in 1..Len(replica.commits) : replica.commits[i] <= replica.now + 1
    BY <1>0 DEF ReplicaInv
  <2> QED
    BY <1>0, <2>2, <2>3 DEF ReplicaInv, ReplicaFresh
<1>4. ASSUME route_read PROVE ReplicaInv'
  <2>1. PICK answered \in BOOLEAN : replica' = [replica EXCEPT !.routed =
           IF answered /\ should_use_replica(check_replica_lag) THEN "replica" ELSE "primary"]
    BY <1>4 DEF route_read
  <2>2. /\ replica'.commits = replica.commits /\ replica'.replayed = replica.replayed
        /\ replica'.now = replica.now
        /\ replica'.routed = "replica" => should_use_replica(check_replica_lag)
        /\ replica' \in [commits : Seq(Nat), replayed : Nat, now : Nat,
                         routed : {"replica", "primary", Unset}]
    BY <1>0, <2>1 DEF ReplicaInv
  <2>3. ReplicaFresh'
    <3>1. SUFFICES ASSUME should_use_replica(check_replica_lag), replica.replayed > 0,
                          NEW i \in 1..Len(replica.commits),
                          replica.commits[i] + MaxLag < replica.now
                   PROVE  i <= replica.replayed
      BY <2>2 DEF ReplicaFresh
    <3>2. replica.now - replica.commits[replica.replayed] <= MaxLag
      BY <1>0, <3>1 DEF should_use_replica, check_replica_lag
    <3>3. replica.replayed \in 1..Len(replica.commits)
      BY <1>0, <3>1 DEF ReplicaInv
    <3>4. replica.commits[replica.replayed] \in Nat /\ replica.commits[i] \in Nat
      BY <1>0, <3>1, <3>3
    <3>5. ~(replica.commits[replica.replayed] <= replica.commits[i])
      BY <1>0, <3>1, <3>2, <3>4
    <3>6. ~(replica.replayed <= i)
      BY <3>1, <3>3, <3>5 DEF ReplicaInv
    <3> QED
      BY <1>0, <3>1, <3>6
  <2> QED
    BY <2>2, <2>3 DEF ReplicaInv
<1>5. ASSUME UNCHANGED replica PROVE ReplicaInv'
  BY <1>5 DEF ReplicaInv, ReplicaFresh
<1>6. PartitionNext \/ CapacityNext \/ UNCHANGED partition_vars => UNCHANGED replica
  BY DEF PartitionNext, EnsureExists, EnsureTenant, EnsureCreate, InsertRow, WriterFails,
         create_partition, ArchiveCreate, ArchiveCopy, ArchiveDetach, ArchiverFails, CapacityNext,
         check_capacity_limits, measure_tenant_stats, partition_vars
<1> QED
  BY <1>1, <1>2, <1>3, <1>4, <1>5, <1>6 DEF ReplicaNext

-----------------------------------------------------------------------------
(* The import of a legacy file.                                            *)

Stages == {"idle", "read gene", "gene", "read capsule", "capsule", "read usage_receipt",
           "usage_receipt", "done"}

\* The stages of an import that has not come to records of that kind.
Before(kind) ==
    CASE kind = "gene" -> {"read gene"}
      [] kind = "capsule" -> {"read gene", "gene", "read capsule"}
      [] kind = "usage_receipt" -> Stages \ {"idle", "usage_receipt", "done"}

ImportTypes ==
    /\ source \in Sources
    /\ IsFiniteSet(rows)
    /\ at \in Stages
    /\ DOMAIN added = RecordType
    /\ report \in [migrated : [RecordType -> Nat], errors : SUBSET RecordType]
    /\ at \in RecordType => todo \subseteq source.records[at]

\* What an import counts is what it has added, kind by kind.
Counted ==
    /\ \A k \in RecordType : added[k] \subseteq rows
    /\ added["usage_receipt"] = {}
    /\ at \in RecordType => count = Cardinality(added[at])
    /\ \A k \in RecordType :
          /\ at \in Before(k) => report.migrated[k] = 0 /\ added[k] = {}
          /\ at \notin Before(k) \cup {k, "idle"} => report.migrated[k] = Cardinality(added[k])

\* A row with an id of the file, active only if the gene was stable.
OfFile(row) ==
    \E k \in {"gene", "capsule"} : \E r \in source.records[k] :
        /\ row.kind = k /\ row.id = r.id
        /\ row.kind = "gene" /\ row.status = "active" => r.lifecycle = "stable"

\* The primary key, and where rows come from.
RowsKeyed ==
    /\ \A x, y \in rows : (x.id = y.id /\ x.key = y.key) => x = y
    /\ \A row \in rows : row.status = "foreign" \/ OfFile(row)

\* Between imports the last validation is of the rows there are.
Validated ==
    (last # NoReport /\ last.asked = "validate" /\ at = "idle") =>
        last.report.errors = {k \in RecordType : CountTarget(k) # CountSource(k)}

ImportInv == ImportTypes /\ Counted /\ RowsKeyed /\ Validated /\ CountsAreRows

\* An item has the id and the kind of its record; it is active if it is a capsule or a
\* stable gene.
LEMMA ItemFacts ==
    ASSUME ImportTypes, NEW r \in todo, at \in {"gene", "capsule"}
    PROVE  /\ Item(at, r).id = r.id /\ Item(at, r).kind = at
           /\ OfFile(Item(at, r))
<1>1. r \in source.records[at]
  BY DEF ImportTypes, RecordType
<1>2. CASE at = "gene"
  <2>1. r \in LegacyRecord
    BY <1>1, <1>2, ImportAssumption DEF ImportTypes, RecordType
  <2>2. r.lifecycle \in {"candidate", "stable", "deprecated", "quarantined", "revoked"}
    BY <2>1 DEF LegacyRecord
  <2>3. map_lifecycle_to_status(r.lifecycle) = "active" => r.lifecycle = "stable"
    BY <2>2 DEF map_lifecycle_to_status
  <2>4. Item(at, r) = gene_to_memory_item(r)
    BY <1>2 DEF Item
  <2>5. /\ Item(at, r).id = r.id /\ Item(at, r).kind = at
        /\ Item(at, r).status = map_lifecycle_to_status(r.lifecycle)
    BY <1>2, <2>4 DEF gene_to_memory_item
  <2> QED
    BY <1>1, <1>2, <2>3, <2>5 DEF OfFile
<1>3. CASE at = "capsule"
  <2>1. Item(at, r) = capsule_to_memory_item(r)
    BY <1>3 DEF Item
  <2>2. Item(at, r).id = r.id /\ Item(at, r).kind = at
    BY <1>3, <2>1 DEF capsule_to_memory_item
  <2> QED
    BY <1>1, <1>3, <2>2 DEF OfFile
<1> QED
  BY <1>2, <1>3

\* The audit table has no column `id`.
LEMMA ReceiptsFail == ~insert_audit_entry
<1>1. "id" \in usage_receipt_to_audit /\ "id" \notin AuditTable
  BY DEF usage_receipt_to_audit, AuditTable
<1> QED
  BY <1>1 DEF insert_audit_entry

\* The stages, one after the other.
LEMMA StageFacts ==
    ASSUME NEW kind \in RecordType
    PROVE  /\ Then(kind) \in Stages \ (RecordType \cup {"idle"})
           /\ \A k \in RecordType :
                 /\ "read gene" \in Before(k) /\ "done" \notin Before(k)
                 /\ kind \in Before(k) \/ k = kind <=> Then(kind) \in Before(k) \/ k = kind
                 /\ Reading(kind) => (at \in Before(k) <=> kind \in Before(k) \/ k = kind)
           /\ kind \notin Before(kind) /\ Then(kind) \notin Before(kind)
           /\ Reading(kind) => at \notin RecordType \cup {"idle"}
  BY DEF RecordType, Then, Stages, Before, Reading

\* A record that is inserted was not there, so it adds one row and one to the count.
LEMMA InsertRecordStep ==
    ASSUME ImportInv, NEW r \in todo, InsertRecord(r)
    PROVE  ImportInv'
<1> DEFINE item == Item(at, r)
<1>0. at \in {"gene", "capsule"} /\ at \in RecordType /\ at # "idle"
  BY DEF InsertRecord, RecordType
<1>1. /\ rows' = rows \cup {item}
      /\ ~\E row \in rows : row.id = item.id /\ row.key = item.key
      /\ added' = [added EXCEPT ![at] = @ \cup {item}]
      /\ count' = count + 1 /\ todo' = todo \ {r}
      /\ UNCHANGED <<source, at, report, last, imports>>
  BY DEF InsertRecord, insert_memory_item
<1>2. item \notin rows /\ OfFile(item)
  BY <1>0, <1>1, ItemFacts DEF ImportInv
<1>3. /\ DOMAIN added' = RecordType /\ added'[at] = added[at] \cup {item}
      /\ \A k \in RecordType \ {at} : added'[k] = added[k]
  BY <1>0, <1>1 DEF ImportInv, ImportTypes
<1>4. IsFiniteSet(rows) /\ added[at] \subseteq rows
  BY <1>0 DEF ImportInv, ImportTypes, Counted
<1> HIDE DEF item
<1>5. IsFiniteSet(added[at]) /\ item \notin added[at]
  BY <1>2, <1>4, FS_Subset
<1>6. IsFiniteSet(rows')
  BY <1>1, <1>4, FS_AddElement
<1>7. Cardinality(added'[at]) = Cardinality(added[at]) + 1
  BY <1>3, <1>5, FS_AddElement
<1>8. ImportTypes'
  BY <1>0, <1>1, <1>3, <1>6 DEF ImportInv, ImportTypes
<1>9. at \notin Before(at)
  BY <1>0, StageFacts
<1>10. Counted'
  <2>1. /\ \A k \in RecordType : added'[k] \subseteq rows'
        /\ added'["usage_receipt"] = {} /\ count' = Cardinality(added'[at'])
    BY <1>0, <1>1, <1>3, <1>7 DEF ImportInv, Counted, RecordType
  <2>2. \A k \in RecordType : at \in Before(k) => k # at
    BY <1>9
  <2>3. ASSUME NEW k \in RecordType
        PROVE  /\ at \in Before(k) => report.migrated[k] = 0 /\ added'[k] = {}
               /\ at \notin Before(k) \cup {k, "idle"} => report.migrated[k] = Cardinality(added'[k])
    BY <1>3, <2>2 DEF ImportInv, Counted
  <2>4. \A k : Before(k)' = Before(k)
    BY DEF Before
  <2> QED
    BY <1>1, <2>1, <2>3, <2>4 DEF Counted
<1>11. RowsKeyed'
  BY <1>1, <1>2 DEF ImportInv, RowsKeyed, OfFile
<1>12. Validated' /\ CountsAreRows'
  BY <1>0, <1>1 DEF Validated, CountsAreRows
<1> QED
  BY <1>8, <1>10, <1>11, <1>12 DEF ImportInv

\* The other steps of an import leave the rows as they are.
LEMMA ReadStep ==
    ASSUME ImportInv, NEW kind \in RecordType, ReadKind(kind)
    PROVE  ImportInv'
<1>1. /\ Reading(kind) /\ UNCHANGED <<source, rows, added, last, imports>>
      /\ \/ at' = kind /\ todo' = source.records[kind] /\ count' = 0 /\ UNCHANGED report
         \/ /\ report' = [report EXCEPT !.errors = @ \cup {kind}]
            /\ at' = Then(kind)
  BY DEF ReadKind
<1>0. /\ \A k \in RecordType : at \in Before(k) <=> kind \in Before(k) \/ k = kind
      /\ \A k \in RecordType : Then(kind) \in Before(k) \/ k = kind <=> kind \in Before(k) \/ k = kind
      /\ kind \notin Before(kind) /\ Then(kind) \notin Before(kind)
      /\ at \notin RecordType \cup {"idle"}
      /\ Then(kind) \in Stages /\ Then(kind) \notin RecordType /\ Then(kind) # "idle"
  BY <1>1, StageFacts
<1>2. report' \in [migrated : [RecordType -> Nat], errors : SUBSET RecordType]
  BY <1>1 DEF ImportInv, ImportTypes
<1>3. report'.migrated = report.migrated
  BY <1>1 DEF ImportInv, ImportTypes
<1>4. /\ at' \in Stages /\ at' # "idle" /\ at # "idle"
      /\ at' \in RecordType => at' = kind
  BY <1>1, <1>0 DEF Stages, RecordType
<1>5. ImportTypes'
  BY <1>1, <1>2, <1>4, <1>0 DEF ImportInv, ImportTypes
<1>6. \A k \in RecordType : at' \in Before(k) => at \in Before(k)
  BY <1>1, <1>0
<1>7. \A k \in RecordType : at \in Before(k) => at' \in Before(k) \/ k = kind
  BY <1>1, <1>0
<1>8. at \in Before(kind)
  BY <1>0
<1>9. report.migrated[kind] = 0 /\ added[kind] = {} /\ Cardinality({}) = 0
  BY <1>8, FS_EmptySet DEF ImportInv, Counted
<1>10. at \notin RecordType
  BY <1>0
<1>11. Counted'
  <2>1. at' \in RecordType => count' = Cardinality(added'[at'])
    BY <1>1, <1>4, <1>9, <1>0
  <2>2. ASSUME NEW k \in RecordType, at' \in Before(k)
        PROVE  report'.migrated[k] = 0 /\ added'[k] = {}
    BY <1>1, <1>3, <1>6, <2>2 DEF ImportInv, Counted
  <2>3. ASSUME NEW k \in RecordType, at' \notin Before(k) \cup {k, "idle"}
        PROVE  report'.migrated[k] = Cardinality(added'[k])
    BY <1>1, <1>3, <1>4, <1>7, <1>9, <1>10, <2>3 DEF ImportInv, Counted
  <2>4. Before(kind) = Before(kind)' /\ \A k : Before(k)' = Before(k)
    BY DEF Before
  <2> QED
    BY <1>1, <2>1, <2>2, <2>3, <2>4 DEF ImportInv, Counted
<1>12. RowsKeyed'
  BY <1>1 DEF ImportInv, RowsKeyed, OfFile
<1>13. Validated' /\ CountsAreRows'
  BY <1>4 DEF Validated, CountsAreRows
<1> QED
  BY <1>5, <1>11, <1>12, <1>13 DEF ImportInv

\* A receipt is refused, a record is skipped: nothing is added.
LEMMA SkipStep ==
    ASSUME ImportInv, NEW r \in todo, InsertReceipt(r) \/ SkipRecord(r)
    PROVE  ImportInv'
<1>1. /\ UNCHANGED <<source, rows, at, added, report, last, imports>>
      /\ count' = count /\ todo' \subseteq todo /\ at # "idle"
  BY ReceiptsFail DEF InsertReceipt, SkipRecord
<1>2. ImportTypes' /\ Counted'
  BY <1>1 DEF ImportInv, ImportTypes, Counted, Before
<1>3. RowsKeyed'
  BY <1>1 DEF ImportInv, RowsKeyed, OfFile
<1>4. Validated' /\ CountsAreRows'
  BY <1>1 DEF Validated, CountsAreRows
<1> QED
  BY <1>2, <1>3, <1>4 DEF ImportInv

\* The count of a kind goes into the report.
LEMMA KindDoneStep ==
    ASSUME ImportInv, KindDone
    PROVE  ImportInv'
<1>1. /\ at \in RecordType /\ at' = Then(at)
      /\ report' = [report EXCEPT !.migrated[at] = count]
      /\ UNCHANGED <<source, rows, todo, count, added, last, imports>>
  BY DEF KindDone
<1>2. /\ count = Cardinality(added[at]) /\ IsFiniteSet(added[at])
  BY <1>1, FS_Subset DEF ImportInv, ImportTypes, Counted
<1>3. count \in Nat
  BY <1>2, FS_CardinalityType
<1>4. /\ report' \in [migrated : [RecordType -> Nat], errors : SUBSET RecordType]
      /\ report'.migrated[at] = count
      /\ \A k \in RecordType \ {at} : report'.migrated[k] = report.migrated[k]
  BY <1>1, <1>3 DEF ImportInv, ImportTypes
<1>5. /\ \A k \in RecordType : Then(at) \in Before(k) \/ k = at <=> at \in Before(k) \/ k = at
      /\ at \notin Before(at) /\ Then(at) \notin Before(at) /\ at # "idle"
      /\ Then(at) \in Stages /\ Then(at) \notin RecordType /\ Then(at) # "idle"
  BY <1>1, StageFacts DEF RecordType
<1>6. ImportTypes'
  BY <1>1, <1>4, <1>5 DEF ImportInv, ImportTypes
<1>7. Counted'
  <2>1. ASSUME NEW k \in RecordType, k # at
        PROVE  /\ at' \in Before(k) => report'.migrated[k] = 0 /\ added'[k] = {}
               /\ at' \notin Before(k) \cup {k, "idle"} => report'.migrated[k] = Cardinality(added'[k])
    BY <1>1, <1>4, <1>5, <2>1 DEF ImportInv, Counted
  <2>2. /\ at' \notin Before(at) /\ report'.migrated[at] = Cardinality(added'[at])
        /\ at' \notin RecordType
    BY <1>1, <1>2, <1>4, <1>5
  <2>3. \A k : Before(k)' = Before(k)
    BY DEF Before
  <2> QED
    BY <1>1, <2>1, <2>2, <2>3 DEF ImportInv, Counted
<1>8. RowsKeyed'
  BY <1>1 DEF ImportInv, RowsKeyed, OfFile
<1>9. Validated' /\ CountsAreRows'
  BY <1>1, <1>5 DEF Validated, CountsAreRows
<1> QED
  BY <1>6, <1>7, <1>8, <1>9 DEF ImportInv

\* An import begins, ends, dies, or is validated.
LEMMA BetweenStep ==
    ASSUME ImportInv, migrate_all \/ Complete \/ Die \/ validate \/ dry_run
    PROVE  ImportInv'
<1>0. /\ "usage_receipt" \in RecordType /\ "idle" \notin RecordType /\ "read gene" \notin RecordType
      /\ "idle" \in Stages /\ "read gene" \in Stages
      /\ \A k \in RecordType : "read gene" \in Before(k) /\ "idle" \notin Before(k)
                               /\ "done" \notin Before(k) \cup {k, "idle"}
      /\ \A k : Before(k)' = Before(k)
  BY DEF RecordType, Stages, Before
<1>1. rows' = rows /\ source' = source
  BY DEF migrate_all, Complete, Die, validate, dry_run
<1>2. RowsKeyed'
  BY <1>1 DEF ImportInv, RowsKeyed, OfFile
<1>3. /\ EmptyReport \in [migrated : [RecordType -> Nat], errors : SUBSET RecordType]
      /\ \A k \in RecordType : EmptyReport.migrated[k] = 0
  BY DEF EmptyReport
<1>4. CASE migrate_all
  <2>1. /\ at' = "read gene" /\ added' = [k \in RecordType |-> {}] /\ report' = EmptyReport
        /\ last' = last
    BY <1>4 DEF migrate_all
  <2>2. ImportTypes' /\ Counted'
    BY <1>0, <1>1, <1>3, <2>1 DEF ImportInv, ImportTypes, Counted
  <2>3. Validated' /\ CountsAreRows'
    BY <2>1 DEF Validated, CountsAreRows
  <2> QED
    BY <1>2, <2>2, <2>3 DEF ImportInv
<1>5. CASE Complete
  <2>1. /\ at = "done" /\ at' = "idle" /\ last' = [asked |-> "migrate", report |-> report]
        /\ added' = added /\ report' = report
    BY <1>5 DEF Complete
  <2>2. ImportTypes' /\ Counted'
    BY <1>0, <1>1, <2>1 DEF ImportInv, ImportTypes, Counted
  <2>3. \A k \in RecordType : report.migrated[k] = Cardinality(added[k])
    BY <1>0, <2>1 DEF ImportInv, Counted
  <2>4. Validated' /\ CountsAreRows'
    BY <2>1, <2>3 DEF Validated, CountsAreRows
  <2> QED
    BY <1>2, <2>2, <2>4 DEF ImportInv
<1>6. CASE Die
  <2>1. /\ at' = "idle" /\ added' = [k \in RecordType |-> {}] /\ report' = EmptyReport
        /\ last' = NoReport
    BY <1>6 DEF Die
  <2>2. ImportTypes' /\ Counted'
    BY <1>0, <1>1, <1>3, <2>1 DEF ImportInv, ImportTypes, Counted
  <2>3. Validated' /\ CountsAreRows'
    BY <2>1 DEF Validated, CountsAreRows
  <2> QED
    BY <1>2, <2>2, <2>3 DEF ImportInv
<1>7. CASE validate \/ dry_run
  <2>1. /\ UNCHANGED <<at, todo, count, added, report>> /\ at = "idle"
        /\ last'.asked \in {"validate", "dry run"}
        /\ last'.asked = "validate" =>
              last'.report.errors = {k \in RecordType : CountTarget(k) # CountSource(k)}
    <3>1. CASE validate
      <4> DEFINE E == {k \in RecordType : CountTarget(k) # CountSource(k)}
                 M == [k \in RecordType |-> CountTarget(k)]
      <4>1. last' = [asked |-> "validate", report |-> [migrated |-> M, errors |-> E]]
        BY <3>1 DEF validate
      <4> HIDE DEF E, M
      <4>2. last'.asked = "validate" /\ last'.report.errors = E
        BY <4>1
      <4> QED
        BY <3>1, <4>2 DEF validate, E
    <3>2. CASE dry_run
      BY <3>2 DEF dry_run
    <3> QED
      BY <1>7, <3>1, <3>2
  <2>2. ImportTypes' /\ Counted'
    BY <1>1, <2>1 DEF ImportInv, ImportTypes, Counted, Before
  <2>3. \A k : CountTarget(k)' = CountTarget(k) /\ CountSource(k)' = CountSource(k)
    BY <1>1 DEF CountTarget, CountSource
  <2>4. Validated' /\ CountsAreRows'
    BY <2>1, <2>3 DEF Validated, CountsAreRows
  <2> QED
    BY <1>2, <2>2, <2>4 DEF ImportInv
<1> QED
  BY <1>4, <1>5, <1>6, <1>7

\* Every step keeps the invariant of the import.
LEMMA ImportStep == ImportInv /\ (ImportNext \/ UNCHANGED import_vars) => ImportInv'
<1>1. ASSUME ImportInv, ImportNext PROVE ImportInv'
  BY <1>1, ReadStep, InsertRecordStep, SkipStep, KindDoneStep, BetweenStep DEF ImportNext
<1>2. ASSUME ImportInv, UNCHANGED import_vars PROVE ImportInv'
  <2>1. UNCHANGED <<source, rows, at, todo, count, added, report, last, imports>>
    BY <1>2 DEF import_vars
  <2>2. ImportTypes' /\ Counted'
    BY <1>2, <2>1 DEF ImportInv, ImportTypes, Counted, Before
  <2>3. RowsKeyed'
    BY <1>2, <2>1 DEF ImportInv, RowsKeyed, OfFile
  <2>4. Validated' /\ CountsAreRows'
    BY <1>2, <2>1 DEF ImportInv, Validated, CountsAreRows, CountTarget, CountSource
  <2> QED
    BY <2>2, <2>3, <2>4 DEF ImportInv
<1> QED
  BY <1>1, <1>2

\* When as many rows of a kind are there as the file has records, all of the file and
\* no two with one id, then every record has its row.
LEMMA CleanFollows == ImportInv => CleanMeansComplete
<1> SUFFICES ASSUME ImportInv, last # NoReport, last.asked = "validate", is_clean(last.report),
                    at = "idle", \A row \in rows : row.key = 0 /\ row.status # "foreign",
                    NEW k \in {"gene", "capsule"}, NEW r \in source.records[k]
             PROVE  \E row \in rows : row.kind = k /\ row.id = r.id
  BY DEF CleanMeansComplete
<1> DEFINE R == {row \in rows : row.kind = k}
           S == source.records[k]
           f == [row \in R |-> CHOOSE s \in S : s.id = row.id]
<1>1. k \in RecordType /\ IsFiniteSet(S)
  BY ImportAssumption DEF ImportInv, ImportTypes, RecordType
<1>2. Cardinality(R) = Cardinality(S)
  BY <1>1 DEF ImportInv, Validated, is_clean, CountTarget, CountSource
<1>3. \A row \in R : \E s \in S : s.id = row.id
  BY DEF ImportInv, RowsKeyed, OfFile
<1>4. \A row \in R : f[row] \in S /\ f[row].id = row.id
  BY <1>3
<1>5. f \in [R -> S]
  BY <1>4
<1> HIDE DEF f
<1>6. \A x, y \in R : f[x] = f[y] => x = y
  <2>1. SUFFICES ASSUME NEW x \in R, NEW y \in R, f[x] = f[y] PROVE x = y
    OBVIOUS
  <2>2. x.id = y.id
    BY <1>4, <2>1
  <2>3. x \in rows /\ y \in rows /\ x.key = y.key
    OBVIOUS
  <2> QED
    BY <2>2, <2>3 DEF ImportInv, RowsKeyed
<1>7. f \in Injection(R, S)
  BY <1>5, <1>6 DEF Injection, IsInjective
<1> HIDE DEF R, S
<1>8. f \in Surjection(R, S)
  BY <1>1, <1>2, <1>7, FS_Injection
<1>9. r \in S
  BY DEF S
<1>10. \E row \in R : f[row] = r
  BY <1>8, <1>9 DEF Surjection
<1> QED
  BY <1>4, <1>10 DEF R

\* The rows with the id's own UUID are kept apart by the primary key.
LEMMA ImportFollows == ImportInv => ImportSound
<1> SUFFICES ASSUME ImportInv PROVE ImportSound
  OBVIOUS
<1>1. ActiveWasStable
  <2>1. SUFFICES ASSUME NEW row \in rows, row.kind = "gene", row.status = "active"
                 PROVE  \E r \in source.records["gene"] : r.id = row.id /\ r.lifecycle = "stable"
    BY DEF ActiveWasStable
  <2> QED
    BY <2>1 DEF ImportInv, RowsKeyed, OfFile
<1>2. OncePerUuid
  BY DEF ImportInv, RowsKeyed, OncePerUuid
<1> QED
  BY <1>1, <1>2, CleanFollows DEF ImportSound, ImportInv

-----------------------------------------------------------------------------
(* The gene store.                                                         *)

CapsuleRow == [gene : GeneIds, confidence : 0..1000, use_count : Nat, success_count : Nat]

GeneTypes ==
    /\ DOMAIN genes \subseteq GeneIds /\ IsFiniteSet(DOMAIN genes)
    /\ \A id \in DOMAIN genes : genes[id] \in Gene
    /\ \A e \in gene_tags : e = <<e[1], e[2]>>
    /\ \A c \in DOMAIN capsules : capsules[c] \in CapsuleRow
    /\ replay_metrics \in [queries : Nat, hits : Nat, misses : Nat, writes : Nat,
                           successes : Nat, failures : Nat]
    /\ candidate \in GeneIds \cup {Nothing}

GeneInv == GeneTypes /\ GenesSound

\* INSERT OR REPLACE.
LEMMA WithFacts ==
    ASSUME NEW f, NEW id, NEW row
    PROVE  /\ DOMAIN With(f, id, row) = (DOMAIN f) \cup {id}
           /\ With(f, id, row)[id] = row
           /\ \A x \in DOMAIN f : x # id => With(f, id, row)[x] = f[x]
  BY DEF With

\* An outcome and the decay change counters and the confidence alone.
LEMMA OutcomeFacts ==
    ASSUME NEW row, row \in Gene \/ row \in CapsuleRow, NEW success \in BOOLEAN
    PROVE  /\ row \in Gene => /\ Outcome(row, success) \in Gene /\ Decayed(row) \in Gene
                              /\ Outcome(row, success).tags = row.tags
                              /\ Decayed(row).tags = row.tags
           /\ row \in CapsuleRow => /\ Outcome(row, success) \in CapsuleRow
                                    /\ Decayed(row) \in CapsuleRow
                                    /\ Outcome(row, success).gene = row.gene
                                    /\ Decayed(row).gene = row.gene
<1>1. row.confidence \in 0..1000 /\ row.use_count \in Nat /\ row.success_count \in Nat
  BY DEF Gene, CapsuleRow
<1> DEFINE up == Lower(1000, row.confidence + BOOST_ON_SUCCESS)
           down == IF row.confidence < STALE_THRESHOLD + PENALTY_ON_FAILURE THEN STALE_THRESHOLD
                   ELSE row.confidence - PENALTY_ON_FAILURE
           old == IF row.confidence < STALE_THRESHOLD + DECAY_PER_QUERY THEN STALE_THRESHOLD
                  ELSE row.confidence - DECAY_PER_QUERY
<1>2. up \in 0..1000 /\ down \in 0..1000 /\ old \in 0..1000
  BY <1>1 DEF Lower, BOOST_ON_SUCCESS, STALE_THRESHOLD, PENALTY_ON_FAILURE, DECAY_PER_QUERY
<1>3. row.use_count + 1 \in Nat /\ row.success_count + 1 \in Nat
  BY <1>1
<1> DEFINE uses == row.use_count + 1
           wins == row.success_count + 1
<1> DEFINE used == [row EXCEPT !.use_count = uses]
           counted == [used EXCEPT !.success_count = wins]
           won == [counted EXCEPT !.confidence = up]
           lost == [used EXCEPT !.confidence = down]
           aged == [row EXCEPT !.confidence = old]
<1>4. Outcome(row, TRUE) = won /\ Outcome(row, FALSE) = lost /\ Decayed(row) = aged
  BY DEF Outcome, Decayed
<1>5. uses \in Nat /\ wins \in Nat
  BY <1>3
<1> HIDE DEF up, down, old, uses, wins, used, counted, won, lost, aged
<1>6. CASE row \in Gene
  <2>1. used \in Gene /\ used.tags = row.tags
    BY <1>5, <1>6 DEF Gene, used
  <2>2. counted \in Gene /\ counted.tags = row.tags
    BY <1>5, <2>1 DEF Gene, counted
  <2>3. won \in Gene /\ won.tags = row.tags
    BY <1>2, <2>2 DEF Gene, won
  <2>4. lost \in Gene /\ lost.tags = row.tags
    BY <1>2, <2>1 DEF Gene, lost
  <2>5. aged \in Gene /\ aged.tags = row.tags
    BY <1>2, <1>6 DEF Gene, aged
  <2>6. row \notin CapsuleRow
    BY <1>6 DEF Gene, CapsuleRow
  <2> QED
    BY <1>4, <2>3, <2>4, <2>5, <2>6
<1>7. CASE row \in CapsuleRow
  <2>1. used \in CapsuleRow /\ used.gene = row.gene
    BY <1>5, <1>7 DEF CapsuleRow, used
  <2>2. counted \in CapsuleRow /\ counted.gene = row.gene
    BY <1>5, <2>1 DEF CapsuleRow, counted
  <2>3. won \in CapsuleRow /\ won.gene = row.gene
    BY <1>2, <2>2 DEF CapsuleRow, won
  <2>4. lost \in CapsuleRow /\ lost.gene = row.gene
    BY <1>2, <2>1 DEF CapsuleRow, lost
  <2>5. aged \in CapsuleRow /\ aged.gene = row.gene
    BY <1>2, <1>7 DEF CapsuleRow, aged
  <2>6. row \notin Gene
    BY <1>7 DEF Gene, CapsuleRow
  <2> QED
    BY <1>4, <2>3, <2>4, <2>5, <2>6
<1> QED
  BY <1>6, <1>7

\* What a step of the store has to show; a search that was made stays as it was.
LEMMA StoreStep ==
    ASSUME GeneInv, UNCHANGED <<found, skill>>, GeneTypes', NoOrphans', IndexFollowsRows', MetricsAddUp'
    PROVE  GeneInv'
<1>1. found' = found /\ SearchHonest
  BY DEF GeneInv, GenesSound
<1>2. SearchHonest'
  BY <1>1 DEF SearchHonest
<1>3. LegacyUnproven'
  BY DEF GeneInv, GenesSound, LegacyUnproven
<1> QED
  BY <1>2, <1>3 DEF GenesSound, GeneInv

\* The row is written first, then its tags; when that is cut short it is noted.
LEMMA UpsertStep ==
    ASSUME GeneInv, NEW id \in GeneIds, NEW gene \in GeneDefs,
           upsert_gene(id, gene) \/ UpsertCut(id, gene)
    PROVE  GeneInv'
<1>1. /\ genes' = With(genes, id, gene)
      /\ UNCHANGED <<capsules, found, replay_metrics, candidate, skill>>
  BY DEF upsert_gene, UpsertCut
<1>2. /\ DOMAIN genes' = (DOMAIN genes) \cup {id} /\ genes'[id] = gene
      /\ \A x \in DOMAIN genes : x # id => genes'[x] = genes[x]
  <2>1. genes' = With(genes, id, gene)
    BY <1>1
  <2> QED
    BY <2>1 DEF With
<1>3. gene \in Gene /\ IsFiniteSet(DOMAIN genes')
  BY <1>2, GeneAssumption, FS_AddElement DEF GeneInv, GeneTypes
<1>4. /\ \A e \in gene_tags' : e = <<e[1], e[2]>>
      /\ \A e \in gene_tags' : e \in gene_tags \/ e[1] = id
      /\ \A x \in DOMAIN genes' : x # id => {e \in gene_tags' : e[1] = x} = {e \in gene_tags : e[1] = x}
  BY DEF upsert_gene, UpsertCut, OtherTags, TagRows, GeneInv, GeneTypes
<1>5. GeneTypes'
  BY <1>1, <1>2, <1>3, <1>4 DEF GeneInv, GeneTypes
<1>6. NoOrphans'
  BY <1>1, <1>2, <1>4 DEF GeneInv, GenesSound, NoOrphans
<1>7. IndexFollowsRows'
  <2>1. CASE upsert_gene(id, gene)
    <3>1. cut' = cut \ {id} /\ {e \in gene_tags' : e[1] = id} = TagRows(id, gene.tags)
      BY <2>1 DEF upsert_gene, OtherTags, TagRows
    <3>2. ASSUME NEW x \in (DOMAIN genes') \ cut'
          PROVE  {e \in gene_tags' : e[1] = x} = TagRows(x, genes'[x].tags)
      <4>1. CASE x = id
        BY <1>2, <3>1, <4>1
      <4>2. CASE x # id
        BY <1>2, <1>4, <3>1, <4>2 DEF GeneInv, GenesSound, IndexFollowsRows
      <4> QED
        BY <4>1, <4>2
    <3> QED
      BY <3>2 DEF IndexFollowsRows, TagRows
  <2>2. CASE UpsertCut(id, gene)
    <3>1. cut' = cut \cup {id}
      BY <2>2 DEF UpsertCut
    <3>2. ASSUME NEW x \in (DOMAIN genes') \ cut'
          PROVE  {e \in gene_tags' : e[1] = x} = TagRows(x, genes'[x].tags)
      BY <1>2, <1>4, <3>1 DEF GeneInv, GenesSound, IndexFollowsRows
    <3> QED
      BY <3>2 DEF IndexFollowsRows, TagRows
  <2> QED
    BY <2>1, <2>2
<1>8. MetricsAddUp'
  BY <1>1 DEF GeneInv, GenesSound, MetricsAddUp
<1> QED
  BY <1>1, <1>5, <1>6, <1>7, <1>8, StoreStep

\* A gene goes with its tags and its capsules.
LEMMA DeleteStep ==
    ASSUME GeneInv, NEW id \in GeneIds, delete_gene(id)
    PROVE  GeneInv'
<1>1. /\ genes' = [x \in (DOMAIN genes) \ {id} |-> genes[x]]
      /\ gene_tags' = OtherTags(id)
      /\ capsules' = [c \in {x \in DOMAIN capsules : capsules[x].gene # id} |-> capsules[c]]
      /\ cut' = cut \ {id}
      /\ UNCHANGED <<found, replay_metrics, candidate, skill>>
  BY DEF delete_gene
<1>2. /\ DOMAIN genes' = (DOMAIN genes) \ {id}
      /\ \A x \in DOMAIN genes' : genes'[x] = genes[x]
      /\ DOMAIN capsules' = {x \in DOMAIN capsules : capsules[x].gene # id}
      /\ \A c \in DOMAIN capsules' : capsules'[c] = capsules[c]
  BY <1>1
<1>3. IsFiniteSet(DOMAIN genes')
  BY <1>2, FS_RemoveElement DEF GeneInv, GeneTypes
<1>4. GeneTypes'
  BY <1>1, <1>2, <1>3 DEF GeneInv, GeneTypes, OtherTags
<1>5. NoOrphans'
  BY <1>1, <1>2 DEF GeneInv, GenesSound, NoOrphans, OtherTags
<1>6. IndexFollowsRows'
  <2>1. ASSUME NEW x \in (DOMAIN genes') \ cut'
        PROVE  {e \in gene_tags' : e[1] = x} = TagRows(x, genes'[x].tags)
    <3>1. x # id /\ x \in (DOMAIN genes) \ cut
      BY <1>1, <1>2
    <3>2. {e \in gene_tags' : e[1] = x} = {e \in gene_tags : e[1] = x}
      BY <1>1, <3>1 DEF OtherTags
    <3> QED
      BY <1>2, <3>1, <3>2 DEF GeneInv, GenesSound, IndexFollowsRows
  <2> QED
    BY <2>1 DEF IndexFollowsRows, TagRows
<1>7. MetricsAddUp'
  BY <1>1 DEF GeneInv, GenesSound, MetricsAddUp
<1> QED
  BY <1>1, <1>4, <1>5, <1>6, <1>7, StoreStep

\* Outcomes and decay leave ids, tags and the genes of capsules.
LEMMA RewriteStep ==
    ASSUME GeneInv, UNCHANGED <<gene_tags, cut, found, skill>>,
           DOMAIN genes' = DOMAIN genes, DOMAIN capsules' = DOMAIN capsules,
           \A id \in DOMAIN genes : genes'[id] \in Gene /\ genes'[id].tags = genes[id].tags,
           \A c \in DOMAIN capsules :
              capsules'[c] \in CapsuleRow /\ capsules'[c].gene = capsules[c].gene,
           replay_metrics' \in [queries : Nat, hits : Nat, misses : Nat, writes : Nat,
                                successes : Nat, failures : Nat],
           candidate' \in GeneIds \cup {Nothing}, MetricsAddUp'
    PROVE  GeneInv'
<1>1. GeneTypes'
  BY DEF GeneInv, GeneTypes
<1>2. NoOrphans'
  BY DEF GeneInv, GenesSound, NoOrphans
<1>3. IndexFollowsRows'
  BY DEF GeneInv, GenesSound, IndexFollowsRows, TagRows
<1> QED
  BY <1>1, <1>2, <1>3, StoreStep

\* An existing capsule keeps its gene; a new one gets a gene that is there.
LEMMA CapsuleStep ==
    ASSUME GeneInv, NEW id \in GeneIds, NEW c \in CapsuleIds, upsert_capsule(c, id)
    PROVE  GeneInv'
<1> DEFINE gene == IF c \in DOMAIN capsules THEN capsules[c].gene ELSE id
           new == [gene |-> gene, confidence |-> 800, use_count |-> 0, success_count |-> 0]
<1>1. /\ capsules' = With(capsules, c, new)
      /\ c \in DOMAIN capsules \/ id \in DOMAIN genes
      /\ UNCHANGED <<genes, gene_tags, cut, found, replay_metrics, candidate, skill>>
  BY DEF upsert_capsule
<1>2. gene \in GeneIds /\ gene \in DOMAIN genes
  BY <1>1 DEF GeneInv, GeneTypes, GenesSound, NoOrphans, CapsuleRow
<1> HIDE DEF gene
<1>3. new \in CapsuleRow /\ new.gene = gene
  BY <1>2 DEF CapsuleRow
<1> HIDE DEF new
<1>4. /\ DOMAIN capsules' = (DOMAIN capsules) \cup {c} /\ capsules'[c] = new
      /\ \A x \in DOMAIN capsules : x # c => capsules'[x] = capsules[x]
  <2>1. capsules' = With(capsules, c, new)
    BY <1>1
  <2> QED
    BY <2>1 DEF With
<1>5. GeneTypes'
  BY <1>1, <1>3, <1>4 DEF GeneInv, GeneTypes
<1>6. NoOrphans'
  BY <1>1, <1>2, <1>3, <1>4 DEF GeneInv, GenesSound, NoOrphans
<1>7. IndexFollowsRows' /\ MetricsAddUp'
  BY <1>1 DEF GeneInv, GenesSound, IndexFollowsRows, TagRows, MetricsAddUp
<1> QED
  BY <1>1, <1>5, <1>6, <1>7, StoreStep

LEMMA CapsuleOutcomeStep ==
    ASSUME GeneInv, NEW c \in CapsuleIds, NEW success \in BOOLEAN,
           record_capsule_outcome(c, success)
    PROVE  GeneInv'
<1> DEFINE new == Outcome(capsules[c], success)
<1>1. /\ capsules' = With(capsules, c, new) /\ c \in DOMAIN capsules
      /\ UNCHANGED <<genes, gene_tags, cut, found, replay_metrics, candidate, skill>>
  BY DEF record_capsule_outcome
<1>2. new \in CapsuleRow /\ new.gene = capsules[c].gene
  BY <1>1, OutcomeFacts DEF GeneInv, GeneTypes
<1> HIDE DEF new
<1>3. /\ DOMAIN capsules' = DOMAIN capsules /\ capsules'[c] = new
      /\ \A x \in DOMAIN capsules : x # c => capsules'[x] = capsules[x]
  <2>1. capsules' = With(capsules, c, new)
    BY <1>1
  <2> QED
    BY <1>1, <2>1 DEF With
<1>4. MetricsAddUp'
  BY <1>1 DEF GeneInv, GenesSound, MetricsAddUp
<1>5. /\ \A x \in DOMAIN genes : genes'[x] \in Gene /\ genes'[x].tags = genes[x].tags
      /\ \A x \in DOMAIN capsules :
            capsules'[x] \in CapsuleRow /\ capsules'[x].gene = capsules[x].gene
  BY <1>1, <1>2, <1>3 DEF GeneInv, GeneTypes
<1> QED
  BY <1>1, <1>3, <1>4, <1>5, RewriteStep DEF GeneInv, GeneTypes

LEMMA DecayStep ==
    ASSUME GeneInv, decay_all
    PROVE  GeneInv'
<1>1. /\ genes' = [id \in DOMAIN genes |-> Decayed(genes[id])]
      /\ capsules' = [c \in DOMAIN capsules |-> Decayed(capsules[c])]
      /\ UNCHANGED <<gene_tags, cut, found, replay_metrics, candidate, skill>>
  BY DEF decay_all
<1>2. ASSUME NEW id \in DOMAIN genes
      PROVE  genes'[id] \in Gene /\ genes'[id].tags = genes[id].tags
  <2>1. genes[id] \in Gene /\ genes'[id] = Decayed(genes[id])
    BY <1>1 DEF GeneInv, GeneTypes
  <2> QED
    BY <2>1, OutcomeFacts
<1>3. ASSUME NEW c \in DOMAIN capsules
      PROVE  capsules'[c] \in CapsuleRow /\ capsules'[c].gene = capsules[c].gene
  <2>1. capsules[c] \in CapsuleRow /\ capsules'[c] = Decayed(capsules[c])
    BY <1>1 DEF GeneInv, GeneTypes
  <2> QED
    BY <2>1, OutcomeFacts
<1>4. MetricsAddUp'
  BY <1>1 DEF GeneInv, GenesSound, MetricsAddUp
<1>5. DOMAIN genes' = DOMAIN genes /\ DOMAIN capsules' = DOMAIN capsules
  BY <1>1
<1> QED
  BY <1>1, <1>2, <1>3, <1>4, <1>5, RewriteStep DEF GeneInv, GeneTypes

\* The outcome is counted whether its gene is still there or not.
LEMMA ReplayOutcomeStep ==
    ASSUME GeneInv, NEW success \in BOOLEAN, record_replay_outcome(success)
    PROVE  GeneInv'
<1>1. /\ candidate # Nothing /\ candidate' = Nothing
      /\ genes' = record_gene_outcome(candidate, success)
      /\ replay_metrics' = [replay_metrics EXCEPT !.writes = @ + 1,
                               !.successes = IF success THEN @ + 1 ELSE @,
                               !.failures = IF success THEN @ ELSE @ + 1]
      /\ UNCHANGED <<gene_tags, cut, capsules, found, skill>>
  BY DEF record_replay_outcome
<1>2. /\ DOMAIN genes' = DOMAIN genes
      /\ \A id \in DOMAIN genes : genes'[id] \in Gene /\ genes'[id].tags = genes[id].tags
  <2>1. CASE candidate \in DOMAIN genes
    <3> DEFINE new == Outcome(genes[candidate], success)
    <3>1. new \in Gene /\ new.tags = genes[candidate].tags
      BY <2>1, OutcomeFacts DEF GeneInv, GeneTypes
    <3>2. genes' = With(genes, candidate, new)
      BY <1>1, <2>1 DEF record_gene_outcome
    <3> HIDE DEF new
    <3>3. /\ DOMAIN genes' = DOMAIN genes /\ genes'[candidate] = new
          /\ \A x \in DOMAIN genes : x # candidate => genes'[x] = genes[x]
      BY <2>1, <3>2 DEF With
    <3> QED
      BY <3>1, <3>3 DEF GeneInv, GeneTypes
  <2>2. CASE candidate \notin DOMAIN genes
    <3>1. genes' = genes
      BY <1>1, <2>2 DEF record_gene_outcome
    <3> QED
      BY <3>1 DEF GeneInv, GeneTypes
  <2> QED
    BY <2>1, <2>2
<1>3. /\ replay_metrics' \in [queries : Nat, hits : Nat, misses : Nat, writes : Nat,
                              successes : Nat, failures : Nat]
      /\ MetricsAddUp'
  <2>1. replay_metrics \in [queries : Nat, hits : Nat, misses : Nat, writes : Nat,
                            successes : Nat, failures : Nat] /\ MetricsAddUp
    BY DEF GeneInv, GeneTypes, GenesSound
  <2>2. replay_metrics' = [queries |-> replay_metrics.queries, hits |-> replay_metrics.hits,
           misses |-> replay_metrics.misses, writes |-> replay_metrics.writes + 1,
           successes |-> IF success THEN replay_metrics.successes + 1 ELSE replay_metrics.successes,
           failures |-> IF success THEN replay_metrics.failures ELSE replay_metrics.failures + 1]
    BY <1>1, <2>1
  <2>3. replay_metrics' \in [queries : Nat, hits : Nat, misses : Nat, writes : Nat,
                             successes : Nat, failures : Nat]
    BY <2>1, <2>2
  <2>4. MetricsAddUp'
    BY <1>1, <2>1, <2>2 DEF MetricsAddUp
  <2> QED
    BY <2>3, <2>4
<1>4. \A c \in DOMAIN capsules : capsules'[c] \in CapsuleRow /\ capsules'[c].gene = capsules[c].gene
  BY <1>1 DEF GeneInv, GeneTypes
<1> QED
  BY <1>1, <1>2, <1>3, <1>4, RewriteStep

LEMMA ColdStartStep ==
    ASSUME GeneInv, record_cold_start
    PROVE  GeneInv'
<1>1. /\ replay_metrics' = [replay_metrics EXCEPT !.misses = @ + 1, !.queries = @ + 1]
      /\ UNCHANGED <<genes, gene_tags, cut, capsules, found, candidate, skill>>
  BY DEF record_cold_start
<1>2. replay_metrics \in [queries : Nat, hits : Nat, misses : Nat, writes : Nat,
                          successes : Nat, failures : Nat] /\ MetricsAddUp
  BY DEF GeneInv, GeneTypes, GenesSound
<1>3. replay_metrics' = [queries |-> replay_metrics.queries + 1, hits |-> replay_metrics.hits,
         misses |-> replay_metrics.misses + 1, writes |-> replay_metrics.writes,
         successes |-> replay_metrics.successes, failures |-> replay_metrics.failures]
  BY <1>1, <1>2
<1>4. replay_metrics' \in [queries : Nat, hits : Nat, misses : Nat, writes : Nat,
                           successes : Nat, failures : Nat]
  BY <1>2, <1>3
<1>5. MetricsAddUp'
  BY <1>1, <1>2, <1>3 DEF MetricsAddUp
<1>6. /\ \A id \in DOMAIN genes : genes'[id] \in Gene /\ genes'[id].tags = genes[id].tags
      /\ \A c \in DOMAIN capsules :
            capsules'[c] \in CapsuleRow /\ capsules'[c].gene = capsules[c].gene
  BY <1>1 DEF GeneInv, GeneTypes
<1> QED
  BY <1>1, <1>4, <1>5, <1>6, RewriteStep DEF GeneInv, GeneTypes

-----------------------------------------------------------------------------
(* search_genes. *)

\* What is returned is the head of the confident candidates.
Confident(C, q) == {id \in C \cap DOMAIN genes : genes[id].confidence >= q.min_confidence}

LEMMA Returned ==
    ASSUME NEW q, NEW T \in search_genes(q)
    PROVE  \E C \in CandidateIds(q) :
              /\ T \subseteq Confident(C, q)
              /\ \A x \in T, y \in Confident(C, q) \ T :
                    relevance_score(genes[x], q) >= relevance_score(genes[y], q)
<1>1. PICK C \in CandidateIds(q) :
         T \in Firsts(Confident(C, q), q.limit,
                      [id \in Confident(C, q) |-> relevance_score(genes[id], q)])
  BY DEF search_genes, Confident
<1> DEFINE S == Confident(C, q)
           rank == [id \in S |-> relevance_score(genes[id], q)]
<1>2. T \subseteq S /\ \A x \in T, y \in S \ T : rank[x] >= rank[y]
  BY <1>1 DEF Firsts
<1>3. \A x \in S : rank[x] = relevance_score(genes[x], q)
  OBVIOUS
<1> HIDE DEF rank, S
<1>4. \A x \in T, y \in S \ T : relevance_score(genes[x], q) >= relevance_score(genes[y], q)
  BY <1>2, <1>3
<1> QED
  BY <1>2, <1>4 DEF S

LEMMA FirstNumbers ==
    ASSUME NEW n \in Nat
    PROVE  IsFiniteSet(1..n) /\ Cardinality(1..n) = n
  BY FS_Interval

\* As many distinct tags among those asked for as were asked for are all of them.
LEMMA AllRequired ==
    ASSUME NEW req \in Seq(STRING), NEW id, NEW tags,
           Cardinality({e \in TagRows(id, tags) : e[2] \in Range(req)}) = Len(req)
    PROVE  Range(req) \subseteq tags
<1> DEFINE E == {e \in TagRows(id, tags) : e[2] \in Range(req)}
           R == Range(req)
           tag == [e \in E |-> e[2]]
           place == [i \in 1..Len(req) |-> req[i]]
<1>1. Len(req) \in Nat /\ DOMAIN req = 1..Len(req)
  OBVIOUS
<1>2. place \in Surjection(1..Len(req), R)
  <2>1. \A i \in 1..Len(req) : req[i] \in R
    BY <1>1 DEF Range
  <2>2. \A t \in R : \E i \in 1..Len(req) : req[i] = t
    BY <1>1 DEF Range
  <2> HIDE DEF R
  <2>3. place \in [1..Len(req) -> R]
    BY <2>1
  <2>4. \A t \in R : \E i \in 1..Len(req) : place[i] = t
    BY <2>2
  <2> HIDE DEF place
  <2> QED
    BY <2>3, <2>4 DEF Surjection
<1>3. IsFiniteSet(1..Len(req)) /\ Cardinality(1..Len(req)) = Len(req)
  BY <1>1, FirstNumbers
<1>4. \A e \in E : e = <<id, e[2]>> /\ e[2] \in R /\ e[2] \in tags
  BY DEF TagRows
<1>5. \A e \in E : tag[e] = e[2]
  OBVIOUS
<1>6. tag \in [E -> R]
  BY <1>4
<1>7. Cardinality(E) = Len(req)
  OBVIOUS
<1> HIDE DEF E, R, tag, place
<1>8. tag \in Injection(E, R)
  BY <1>4, <1>5, <1>6 DEF Injection, IsInjective
<1>9. IsFiniteSet(R) /\ Cardinality(R) <= Len(req)
  BY <1>2, <1>3, FS_Surjection
<1>10. /\ IsFiniteSet(E) /\ Cardinality(E) <= Cardinality(R)
       /\ Cardinality(E) = Cardinality(R) <=> tag \in Surjection(E, R)
  BY <1>8, <1>9, FS_Injection
<1>11. Cardinality(E) = Cardinality(R)
  BY <1>1, <1>7, <1>9, <1>10, FS_CardinalityType
<1>12. \A t \in R : \E e \in E : tag[e] = t
  BY <1>10, <1>11 DEF Surjection
<1> QED
  BY <1>4, <1>5, <1>12 DEF R

\* Few enough genes are all candidates.
LEMMA AllCandidates ==
    ASSUME GeneInv, NEW q, q.required_tags = <<>>, q.limit \in Nat,
           Cardinality(DOMAIN genes) <= 3 * q.limit, NEW C \in CandidateIds(q)
    PROVE  C = {id \in DOMAIN genes : genes[id].confidence >= q.min_confidence}
<1> DEFINE S == {id \in DOMAIN genes : genes[id].confidence >= q.min_confidence}
<1>1. C \subseteq S /\ Cardinality(C) = Lower(3 * q.limit, Cardinality(S))
  BY DEF CandidateIds, Firsts
<1>2. /\ IsFiniteSet(S) /\ Cardinality(S) <= Cardinality(DOMAIN genes)
      /\ Cardinality(DOMAIN genes) \in Nat
  BY FS_Subset, FS_CardinalityType DEF GeneInv, GeneTypes
<1> HIDE DEF S
<1>3. Cardinality(S) \in Nat
  BY <1>2, FS_CardinalityType
<1>4. Cardinality(C) = Cardinality(S)
  BY <1>1, <1>2, <1>3 DEF Lower
<1>5. C = S
  BY <1>1, <1>2, <1>4, FS_Subset
<1> QED
  BY <1>5 DEF S

\* A candidate of a query with tags has all of them, when its tags are indexed.
LEMMA CandidateTags ==
    ASSUME GeneInv, NEW q, q.required_tags \in Seq(STRING), NEW C \in CandidateIds(q),
           NEW id \in C, id \in DOMAIN genes, id \notin cut
    PROVE  Range(q.required_tags) \subseteq genes[id].tags
<1> DEFINE req == q.required_tags
<1>1. CASE req = <<>>
  <2>1. Range(req) = {}
    BY <1>1 DEF Range
  <2> QED
    BY <2>1
<1>2. CASE req # <<>>
  <2>1. Cardinality({e \in gene_tags : e[1] = id /\ e[2] \in Range(req)}) = Len(req)
    BY <1>2 DEF CandidateIds, Firsts
  <2>2. {e \in gene_tags : e[1] = id} = TagRows(id, genes[id].tags)
    BY DEF GeneInv, GenesSound, IndexFollowsRows
  <2>3. {e \in gene_tags : e[1] = id /\ e[2] \in Range(req)}
            = {e \in TagRows(id, genes[id].tags) : e[2] \in Range(req)}
    BY <2>2
  <2> QED
    BY <2>1, <2>3, AllRequired
<1> QED
  BY <1>1, <1>2

LEMMA SearchStep ==
    ASSUME GeneInv, NEW q \in Queries, Search(q)
    PROVE  GeneInv'
<1>1. UNCHANGED <<genes, gene_tags, cut, capsules, replay_metrics, candidate, skill>>
  BY DEF Search
<1>2. PICK T \in search_genes(q) : found' = [query |-> q, over |-> genes, cut |-> cut, ids |-> T]
  BY DEF Search
<1>3. PICK C \in CandidateIds(q) :
         /\ T \subseteq Confident(C, q)
         /\ \A x \in T, y \in Confident(C, q) \ T :
               relevance_score(genes[x], q) >= relevance_score(genes[y], q)
  BY Returned
<1>4. q.required_tags \in Seq(STRING) /\ q.limit \in Nat
  BY GeneAssumption
<1>5. ASSUME NEW id \in T
      PROVE  /\ genes[id].confidence >= q.min_confidence
             /\ id \notin cut => Range(q.required_tags) \subseteq genes[id].tags
  BY <1>3, <1>4, CandidateTags DEF Confident
<1>6. ASSUME q.required_tags = <<>>, Cardinality(DOMAIN genes) <= 3 * q.limit,
             NEW id \in (DOMAIN genes) \ T, genes[id].confidence >= q.min_confidence,
             NEW x \in T
      PROVE  relevance_score(genes[x], q) >= relevance_score(genes[id], q)
  <2>1. C = {y \in DOMAIN genes : genes[y].confidence >= q.min_confidence}
    BY <1>4, <1>6, AllCandidates
  <2>2. id \in Confident(C, q) \ T
    BY <1>6, <2>1 DEF Confident
  <2> QED
    BY <1>3, <2>2
<1>7. /\ found'.query = q /\ found'.over = genes /\ found'.cut = cut /\ found'.ids = T
  BY <1>2
<1>8. SearchHonest'
  BY <1>5, <1>6, <1>7 DEF SearchHonest
<1>9. GeneTypes'
  BY <1>1 DEF GeneInv, GeneTypes
<1>10. NoOrphans' /\ IndexFollowsRows'
  BY <1>1 DEF GeneInv, GenesSound, NoOrphans, IndexFollowsRows, TagRows
<1>11. MetricsAddUp' /\ LegacyUnproven'
  BY <1>1 DEF GeneInv, GenesSound, MetricsAddUp, LegacyUnproven
<1> QED
  BY <1>8, <1>9, <1>10, <1>11 DEF GeneInv, GenesSound

\* A query is a hit, with a candidate to write back for, or a miss.
LEMMA ReplayQueryStep ==
    ASSUME GeneInv, NEW signals, query_replay_candidate(signals)
    PROVE  GeneInv'
<1> DEFINE q == ReplayQuery(signals)
<1>1. /\ candidate = Nothing
      /\ UNCHANGED <<genes, gene_tags, cut, capsules, found, skill>>
  BY DEF query_replay_candidate
<1>2. PICK T \in search_genes(q) :
         \/ /\ T # {} /\ candidate' \in T
            /\ replay_metrics' = [replay_metrics EXCEPT !.queries = @ + 1, !.hits = @ + 1]
         \/ /\ candidate' = candidate
            /\ replay_metrics' = [replay_metrics EXCEPT !.queries = @ + 1, !.misses = @ + 1]
  BY DEF query_replay_candidate
<1>3. T \subseteq GeneIds
  <2>1. \E C \in CandidateIds(q) : T \subseteq Confident(C, q)
    BY Returned
  <2> QED
    BY <2>1 DEF Confident, GeneInv, GeneTypes
<1>4. replay_metrics \in [queries : Nat, hits : Nat, misses : Nat, writes : Nat,
                          successes : Nat, failures : Nat] /\ MetricsAddUp
  BY DEF GeneInv, GeneTypes, GenesSound
<1> DEFINE more(h, m) ==
       [queries |-> replay_metrics.queries + 1, hits |-> h, misses |-> m,
        writes |-> replay_metrics.writes,
        successes |-> replay_metrics.successes,
        failures |-> replay_metrics.failures]
<1>5. /\ replay_metrics' \in [queries : Nat, hits : Nat, misses : Nat, writes : Nat,
                              successes : Nat, failures : Nat]
      /\ candidate' \in GeneIds \cup {Nothing}
      /\ MetricsAddUp'
  <2>1. CASE /\ candidate' \in T
             /\ replay_metrics' = [replay_metrics EXCEPT !.queries = @ + 1, !.hits = @ + 1]
    <3>1. replay_metrics' = more(replay_metrics.hits + 1, replay_metrics.misses)
      BY <1>4, <2>1
    <3>2. candidate' \in GeneIds /\ candidate' # Nothing
      BY <1>3, <2>1, GeneAssumption
    <3>3. replay_metrics' \in [queries : Nat, hits : Nat, misses : Nat, writes : Nat,
                               successes : Nat, failures : Nat]
      BY <1>4, <3>1
    <3>4. MetricsAddUp'
      BY <1>1, <1>4, <3>1, <3>2 DEF MetricsAddUp
    <3> QED
      BY <3>2, <3>3, <3>4
  <2>2. CASE /\ candidate' = candidate
             /\ replay_metrics' = [replay_metrics EXCEPT !.queries = @ + 1, !.misses = @ + 1]
    <3>1. replay_metrics' = more(replay_metrics.hits, replay_metrics.misses + 1)
      BY <1>4, <2>2
    <3>2. replay_metrics' \in [queries : Nat, hits : Nat, misses : Nat, writes : Nat,
                               successes : Nat, failures : Nat]
      BY <1>4, <3>1
    <3>3. MetricsAddUp'
      BY <1>1, <1>4, <2>2, <3>1 DEF MetricsAddUp
    <3> QED
      BY <1>1, <2>2, <3>2, <3>3
  <2> QED
    BY <1>2, <2>1, <2>2
<1>6. /\ \A id \in DOMAIN genes : genes'[id] \in Gene /\ genes'[id].tags = genes[id].tags
      /\ \A c \in DOMAIN capsules :
            capsules'[c] \in CapsuleRow /\ capsules'[c].gene = capsules[c].gene
  BY <1>1 DEF GeneInv, GeneTypes
<1> QED
  BY <1>1, <1>5, <1>6, RewriteStep

\* What is carried on is a candidate, whatever the gene's counters say.
LEMMA CarryOnStep ==
    ASSUME GeneInv, NEW id \in GeneIds, CarryOn(id)
    PROVE  GeneInv'
<1> DEFINE bundle == genestore_gene_to_bundle(genes[id])
           carried == attach_genestore_capsule(bundle, id)
<1>1. /\ bundle # Nothing /\ skill' = render_portable_skill(carried)
      /\ UNCHANGED <<genes, gene_tags, cut, capsules, found, replay_metrics, candidate>>
  BY DEF CarryOn
<1>2. bundle = [lifecycle |-> "candidate", verified_successes |-> 0, scope |-> "local", capsules |-> {}]
  BY <1>1 DEF genestore_gene_to_bundle
<1>3. carried.lifecycle = "candidate"
  BY <1>2 DEF attach_genestore_capsule
<1> HIDE DEF bundle, carried
<1>4. skill' = [installable |-> FALSE, evidence |-> carried.capsules]
  BY <1>1, <1>3 DEF render_portable_skill
<1>5. LegacyUnproven'
  BY <1>4 DEF LegacyUnproven
<1>6. GeneTypes'
  BY <1>1 DEF GeneInv, GeneTypes
<1>7. NoOrphans' /\ IndexFollowsRows' /\ MetricsAddUp'
  BY <1>1 DEF GeneInv, GenesSound, NoOrphans, IndexFollowsRows, TagRows, MetricsAddUp
<1>8. found' = found /\ SearchHonest
  BY <1>1 DEF GeneInv, GenesSound
<1>9. SearchHonest'
  BY <1>8 DEF SearchHonest
<1> QED
  BY <1>5, <1>6, <1>7, <1>9 DEF GeneInv, GenesSound

LEMMA GeneInitInv == GeneInit => GeneInv
<1> SUFFICES ASSUME GeneInit PROVE GeneInv
  OBVIOUS
<1>1. DOMAIN genes = {} /\ DOMAIN capsules = {} /\ gene_tags = {}
  BY DEF GeneInit
<1>2. GeneTypes
  BY <1>1, FS_EmptySet DEF GeneInit, GeneTypes
<1>3. GenesSound
  BY <1>1 DEF GeneInit, GenesSound, NoOrphans, IndexFollowsRows, SearchHonest, MetricsAddUp,
              LegacyUnproven
<1> QED
  BY <1>2, <1>3 DEF GeneInv

LEMMA GeneStep ==
    ASSUME GeneInv, GeneNext \/ UNCHANGED gene_vars
    PROVE  GeneInv'
<1>1. CASE UNCHANGED gene_vars
  <2>1. GeneTypes' /\ MetricsAddUp'
    BY <1>1 DEF gene_vars, GeneInv, GeneTypes, GenesSound, MetricsAddUp
  <2>2. NoOrphans' /\ IndexFollowsRows'
    BY <1>1 DEF gene_vars, GeneInv, GenesSound, NoOrphans, IndexFollowsRows, TagRows
  <2> QED
    BY <1>1, <2>1, <2>2, StoreStep DEF gene_vars
<1>2. ASSUME NEW id \in GeneIds, NEW gene \in GeneDefs, upsert_gene(id, gene) \/ UpsertCut(id, gene)
      PROVE  GeneInv'
  BY <1>2, UpsertStep
<1>3. ASSUME NEW id \in GeneIds, delete_gene(id)
      PROVE  GeneInv'
  BY <1>3, DeleteStep
<1>4. ASSUME NEW id \in GeneIds, CarryOn(id)
      PROVE  GeneInv'
  BY <1>4, CarryOnStep
<1>5. ASSUME NEW id \in GeneIds, NEW c \in CapsuleIds, upsert_capsule(c, id)
      PROVE  GeneInv'
  BY <1>5, CapsuleStep
<1>6. CASE decay_all
  BY <1>6, DecayStep
<1>7. ASSUME NEW q \in Queries, Search(q)
      PROVE  GeneInv'
  BY <1>7, SearchStep
<1>8. ASSUME NEW q \in Queries, query_replay_candidate(q.words)
      PROVE  GeneInv'
  BY <1>8, ReplayQueryStep
<1>9. ASSUME NEW success \in BOOLEAN, record_replay_outcome(success)
      PROVE  GeneInv'
  BY <1>9, ReplayOutcomeStep
<1>10. ASSUME NEW success \in BOOLEAN, NEW c \in CapsuleIds, record_capsule_outcome(c, success)
       PROVE  GeneInv'
  BY <1>10, CapsuleOutcomeStep
<1>11. CASE record_cold_start
  BY <1>11, ColdStartStep
<1> QED
  BY <1>1, <1>2, <1>3, <1>4, <1>5, <1>6, <1>7, <1>8, <1>9, <1>10, <1>11 DEF GeneNext

-----------------------------------------------------------------------------
(* The theorems.                                                           *)

LEMMA StorageInit == Init => PartitionInv /\ GrowthIsSeen /\ ReplicaInv /\ ImportInv /\ GeneInv
<1> SUFFICES ASSUME Init PROVE PartitionInv /\ GrowthIsSeen /\ ReplicaInv /\ ImportInv /\ GeneInv
  OBVIOUS
<1>1. PartitionInit /\ ImportInit /\ GeneInit
  BY DEF Init
<1>2. PartitionInv
  <2>1. DOMAIN tables = {} /\ DOMAIN archive = {} /\ late = {} /\ refused = {} /\ writes = 0
    BY <1>1 DEF PartitionInit
  <2>2. /\ \A w \in Writers : writer[w] = [at |-> "idle", row |-> Unset]
        /\ DOMAIN writer = Writers /\ strategy \in PartitionStrategy
        /\ \A a \in Archivers : archiver[a] = [at |-> "idle", name |-> Unset]
        /\ DOMAIN archiver = Archivers
    BY <1>1 DEF PartitionInit, Unoccupied
  <2>3. PartitionTypes
    <3>1. writer \in [Writers -> [at : Steps, row : Rows \cup {Unset}]]
      BY <1>1 DEF PartitionInit, Unoccupied, Steps
    <3> QED
      BY <1>1, <2>1, <2>2, <3>1 DEF PartitionTypes, PartitionInit
  <2>4. Leveled /\ LateRowsOnly /\ RefusedOnlyDetached
    BY <2>1 DEF Leveled, LateRowsOnly, RefusedOnlyDetached
  <2>5. Prepared /\ Archiving
    BY <2>2 DEF Prepared, Archiving
  <2>6. CopiedOrLate
    BY <2>1, <2>2 DEF CopiedOrLate
  <2> QED
    BY <2>3, <2>4, <2>5, <2>6 DEF PartitionInv
<1>3. GrowthIsSeen
  BY <1>1, CapacityAssumption DEF PartitionInit, GrowthIsSeen
<1>4. ReplicaInv
  BY <1>1, CapacityAssumption DEF PartitionInit, ReplicaInv, ReplicaFresh
<1>5. ImportInv
  <2>1. /\ source \in Sources /\ rows \in Present /\ at = "idle"
        /\ added = [k \in RecordType |-> {}] /\ last = NoReport
        /\ report = [migrated |-> [k \in RecordType |-> 0], errors |-> {}]
    BY <1>1 DEF ImportInit, EmptyReport
  <2>2. ImportTypes
    BY <2>1, ImportAssumption DEF ImportTypes, Stages, RecordType
  <2>3. Counted
    BY <2>1 DEF Counted, Before, Stages, RecordType
  <2>4. RowsKeyed
    BY <2>1, ImportAssumption DEF RowsKeyed
  <2>5. Validated /\ CountsAreRows
    BY <2>1 DEF Validated, CountsAreRows, RecordType
  <2> QED
    BY <2>2, <2>3, <2>4, <2>5 DEF ImportInv
<1> QED
  BY <1>1, <1>2, <1>3, <1>4, <1>5, GeneInitInv

\* archive_partition, ensure_partition_exists, check_capacity_limits and route_read: a
\* row that was inserted is reachable, in an archive, or came after its partition was
\* copied; a row refused after ensure_partition_exists met a detached partition; growth
\* over the threshold raises its alert; a replica that is read has what is older than
\* the lag. For any numbers of writers and archivers and every interleaving of them.
THEOREM PartitionsKeepRows == Spec => []PartitionsSound
<1>1. Init => PartitionInv /\ GrowthIsSeen /\ ReplicaInv
  BY StorageInit
<1>2. PartitionInv /\ GrowthIsSeen /\ ReplicaInv /\ [Next]_platform_vars
         => (PartitionInv /\ GrowthIsSeen /\ ReplicaInv)'
  BY OnePart, PartitionStep, GrowthStep, ReplicaStep
<1>3. PartitionInv /\ GrowthIsSeen /\ ReplicaInv => PartitionsSound
  BY DEF PartitionInv, ReplicaInv, PartitionsSound
<1> QED
  BY <1>1, <1>2, <1>3, PTL DEF Spec

\* migrate_all and validate: an import counts the rows it added, makes a gene active only
\* if the file has it stable, writes no record with a UUID twice, and when PostgreSQL had
\* no rows of its own and a validation is clean, every gene and capsule of the file is in;
\* for any file and any number of imports and of deaths between two statements.
THEOREM ImportsKeepRecords == Spec => []ImportSound
<1>1. Init => ImportInv
  BY StorageInit
<1>2. ImportInv /\ [Next]_platform_vars => ImportInv'
  BY OnePart, ImportStep
<1> QED
  BY <1>1, <1>2, ImportFollows, PTL DEF Spec

\* upsert_gene, delete_gene, search_genes and the replay hook: no tag and no capsule
\* outlives its gene, the tag index is that of the rows unless an upsert was cut short, a
\* search returns what was asked for and nothing better is left out while few enough
\* genes are stored, the replay metrics add up, and what is carried on is not installable.
THEOREM GenesKeepTags == Spec => []GenesSound
<1>1. Init => GeneInv
  BY StorageInit
<1>2. GeneInv /\ [Next]_platform_vars => GeneInv'
  BY OnePart, GeneStep
<1>3. GeneInv => GenesSound
  BY DEF GeneInv
<1> QED
  BY <1>1, <1>2, <1>3, PTL DEF Spec

\* What is stored is found again, in partitions and archives, after an import and in the
\* gene store.
THEOREM StoredIsFound == Spec => []StorageSound
  BY PartitionsKeepRows, ImportsKeepRecords, GenesKeepTags, PTL DEF StorageSound

-----------------------------------------------------------------------------
(* The gateway: who a request is from.                                     *)

Identity == [user : {UserOf[t] : t \in Tokens}, org : Orgs, roles : {{"user"}}]

\* IAM's histories begin somewhere and are of this token's user.
HistoriesKept ==
    /\ clock \in Nat
    /\ DOMAIN iam = Tokens
    /\ \A t \in Tokens :
          /\ iam[t] \in Seq([from : Nat, id : Identity]) /\ Len(iam[t]) > 0
          /\ \A i \in 1..Len(iam[t]) : iam[t][i].from <= clock /\ iam[t][i].id.user = UserOf[t]

\* A cached identity was held by IAM for a token of the user it is kept under, and the
\* entry has not run out.
EntryHeld(u) ==
    Live(user_context_key("iam", u)) =>
        LET e == hot[user_context_key("iam", u)] IN
        /\ e.begun \in Nat /\ e.stored \in Nat /\ e.begun <= e.stored /\ e.stored <= clock
        /\ clock < e.stored + CacheTTL /\ e.expires = e.stored + CacheTTL
        /\ \E t \in Tokens : UserOf[t] = u /\ e.id \in Held(t, e.begun, e.stored)

EntriesHeld == \A u : EntryHeld(u)

GatewaySteps == {"idle", "lookup", "verify", "store", "check", "forwarded", "answered"}

\* A request on its way has headers that passed, and from then on a contract.
Admitted(r) ==
    /\ r.headers \in HeaderMaps
    /\ r.contract = from_headers(r.headers) /\ r.contract.status = 200

\* What the handler will work with.
Vouchsafed(r) ==
    /\ Admitted(r)
    /\ r.source.begun \in Nat /\ r.source.stored \in Nat
    /\ r.source.begun <= clock /\ r.source.stored <= clock
    /\ \E t \in StandsFor(r.contract.token) : r.id \in Held(t, r.source.begun, r.source.stored)
    /\ r.read < r.source.stored + CacheTTL

\* What a request carries at each of its steps.
RequestFits(c) ==
    LET r == caller[c] IN
    /\ r.at \in GatewaySteps
    /\ r.at \in {"lookup", "verify", "store"} =>
          Admitted(r) /\ r.begun \in Nat /\ r.begun <= clock
    /\ r.at = "store" =>
          /\ r.contract.token \in Tokens /\ r.id.user = UserOf[r.contract.token]
          /\ r.id \in Held(r.contract.token, r.begun, clock)
    /\ r.at = "check" => Vouchsafed(r)
    /\ r.at = "forwarded" =>
          /\ Vouchsafed(r) /\ r.id.org = r.contract.tenant
          /\ r.ctx = ContextFromHeaders(r.headers)
    /\ r.at = "answered" =>
          /\ r.headers \in HeaderMaps /\ r.status \in {400, 401}
          /\ from_headers(r.headers).status = 200 => r.status = 401
          /\ from_headers(r.headers).status # 200 =>
                r.status = from_headers(r.headers).status

GatewayInv ==
    /\ HistoriesKept /\ EntriesHeld
    /\ DOMAIN caller = Callers
    /\ \A c \in Callers : RequestFits(c)

\* The two readers agree on every header map.
LEMMA HeaderFacts ==
    ASSUME NEW h
    PROVE  /\ from_headers(h).status \in {200, 400}
           /\ from_headers(h).status = 200 =>
                 /\ from_request_parts(from_headers(h), h) = ContextFromHeaders(h)
                 /\ ContextFromHeaders(h).status = 200
                 /\ from_headers(h).token = h["authorization"].value
           /\ ContextFromHeaders(h).status = 401 => from_headers(h).status = 400
           /\ (from_headers(h).status = 400 /\ ContextFromHeaders(h).status = 200) =>
                 ~HasText(h["authorization"])
<1> DEFINE bad == {i \in 1..3 : ~HasText(h[RequiredHeaders[i]])}
           named == h[RequiredHeaders[CHOOSE i \in bad : \A j \in bad : i <= j]]
           ctx == [status |-> 200, tenant |-> h["tenant"].value, user |-> h["user"].value,
                   purpose |-> h["purpose"].value, agent |-> Optional(h["agent"]),
                   task |-> Parsed(h["task"]), trace |-> Trace(h["trace"])]
           contract == [status |-> 200, tenant |-> h["tenant"].value, user |-> h["user"].value,
                        purpose |-> h["purpose"].value, agent |-> Optional(h["agent"]),
                        task |-> Parsed(h["task"]), trace |-> Trace(h["trace"]),
                        token |-> h["authorization"].value]
<1>1. CASE bad # {}
  <2>1. \E i \in bad : \A j \in bad : i <= j
    <3>1. PICK k \in bad : TRUE
      BY <1>1
    <3> DEFINE B == bad
    <3>2. B \subseteq 1..3 /\ k \in B
      BY <3>1
    <3>3. \A i \in B : i = 1 \/ i = 2 \/ i = 3
      BY <3>2
    <3> HIDE DEF bad, B
    <3>4. CASE 1 \in B
      BY <3>3, <3>4 DEF B
    <3>5. CASE 1 \notin B /\ 2 \in B
      BY <3>3, <3>5 DEF B
    <3>6. CASE 1 \notin B /\ 2 \notin B
      BY <3>2, <3>3, <3>6 DEF B
    <3> QED
      BY <3>4, <3>5, <3>6
  <2>2. (CHOOSE i \in bad : \A j \in bad : i <= j) \in bad
    BY <2>1
  <2>3. ~HasText(named)
    BY <2>2
  <2> HIDE DEF named
  <2>4. from_headers(h).status = 400 /\ ContextFromHeaders(h).status \in {400, 401}
    BY <1>1, <2>3 DEF from_headers, ContextFromHeaders, named, GatewayError
  <2> QED
    BY <2>4
<1>2. CASE bad = {}
  <2>1. ContextFromHeaders(h) = ctx
    BY <1>2 DEF ContextFromHeaders
  <2>2. CASE HasText(h["authorization"])
    <3>1. from_headers(h) = contract
      BY <1>2, <2>2 DEF from_headers
    <3>2. ctx = [f \in (DOMAIN contract) \ {"token"} |-> contract[f]]
      OBVIOUS
    <3>3. from_request_parts(contract, h) = ctx
      BY <2>1, <3>2 DEF from_request_parts
    <3>4. ctx.status = 200 /\ contract.status = 200 /\ contract.token = h["authorization"].value
      OBVIOUS
    <3> HIDE DEF ctx, contract
    <3> QED
      BY <2>1, <3>1, <3>3, <3>4
  <2>3. CASE ~HasText(h["authorization"])
    <3>1. from_headers(h).status = 400
      BY <1>2, <2>3 DEF from_headers, GatewayError
    <3>2. ctx.status = 200
      OBVIOUS
    <3> QED
      BY <2>1, <2>3, <3>1, <3>2
  <2> QED
    BY <2>2, <2>3
<1> QED
  BY <1>1, <1>2

\* A history that grows now loses nothing that was held until now, and what is held up
\* to a moment is held up to a later one.
LEMMA HeldLater ==
    ASSUME NEW t, NEW a, NEW b \in Nat, NEW c \in Nat, b <= c,
           \A i \in 1..Len(iam[t]) : iam[t][i].from \in Nat
    PROVE  Held(t, a, b) \subseteq Held(t, a, c)
  BY DEF Held

LEMMA AppendFacts ==
    ASSUME NEW S, NEW s \in Seq(S), NEW e \in S
    PROVE  /\ Append(s, e) \in Seq(S)
           /\ Len(s) \in Nat /\ Len(Append(s, e)) = Len(s) + 1
           /\ \A i \in 1..Len(s) : Append(s, e)[i] = s[i]
           /\ Append(s, e)[Len(s) + 1] = e
  OBVIOUS

LEMMA HeldGrows ==
    ASSUME HistoriesKept, NEW t \in Tokens, NEW a \in Nat, a <= clock, NEW b \in Nat,
           iam'[t] = iam[t] \/ \E id \in Identity :
                                   iam'[t] = Append(iam[t], [from |-> clock, id |-> id])
    PROVE  Held(t, a, b) \subseteq Held(t, a, b)'
<1>1. CASE iam'[t] = iam[t]
  BY <1>1 DEF Held
<1>2. ASSUME NEW id \in Identity, iam'[t] = Append(iam[t], [from |-> clock, id |-> id])
      PROVE  Held(t, a, b) \subseteq Held(t, a, b)'
  <2>1. iam[t] \in Seq([from : Nat, id : Identity]) /\ clock \in Nat
    BY DEF HistoriesKept
  <2>2. [from |-> clock, id |-> id] \in [from : Nat, id : Identity]
    BY <2>1
  <2>3. /\ Len(iam'[t]) = Len(iam[t]) + 1 /\ Len(iam[t]) \in Nat
        /\ \A i \in 1..Len(iam[t]) : iam'[t][i] = iam[t][i]
        /\ iam'[t][Len(iam[t]) + 1] = [from |-> clock, id |-> id]
    BY <1>2, <2>1, <2>2
  <2>4. ASSUME NEW i \in 1..Len(iam[t]), iam[t][i].from <= b,
               i < Len(iam[t]) => iam[t][i + 1].from >= a
        PROVE  /\ i \in 1..Len(iam'[t]) /\ iam'[t][i].from <= b /\ iam'[t][i].id = iam[t][i].id
               /\ i < Len(iam'[t]) => iam'[t][i + 1].from >= a
    <3>1. i \in Nat /\ i <= Len(iam[t]) /\ (i < Len(iam[t]) => i + 1 \in 1..Len(iam[t]))
      BY <2>3
    <3>2. i < Len(iam[t]) => iam'[t][i + 1].from >= a
      BY <2>3, <2>4, <3>1
    <3>3. i = Len(iam[t]) => iam'[t][i + 1].from >= a
      BY <2>1, <2>3
    <3>4. i < Len(iam'[t]) => iam'[t][i + 1].from >= a
      BY <3>1, <3>2, <3>3
    <3>5. i \in 1..Len(iam'[t]) /\ iam'[t][i] = iam[t][i]
      BY <2>3, <3>1
    <3> QED
      BY <2>4, <3>4, <3>5
  <2> QED
    BY <2>4 DEF Held
<1> QED
  BY <1>1, <1>2

\* What time and IAM may do to what is held.
Onward ==
    /\ clock \in Nat /\ clock' \in Nat /\ clock <= clock'
    /\ \A t \in Tokens : \A a, b \in 0..clock : Held(t, a, b) \subseteq Held(t, a, b)'
    /\ \A t \in Tokens : \A a \in 0..clock : Held(t, a, clock) \subseteq Held(t, a, clock)'

LEMMA StillOnward == ASSUME GatewayInv, UNCHANGED <<iam, clock>> PROVE Onward
  BY DEF GatewayInv, HistoriesKept, Held, Onward

\* A request that does not move.
LEMMA StillFits ==
    ASSUME GatewayInv, Onward, NEW c \in Callers, caller'[c] = caller[c]
    PROVE  RequestFits(c)'
<1> DEFINE r == caller[c]
<1>1. RequestFits(c) /\ r = caller'[c]
  BY DEF GatewayInv
<1>2. r.at = "store" => r.id \in Held(r.contract.token, r.begun, clock)'
  BY <1>1 DEF RequestFits, Onward, Admitted
<1>3. Vouchsafed(r) => /\ \E t \in StandsFor(r.contract.token) :
                             r.id \in Held(t, r.source.begun, r.source.stored)'
                       /\ r.source.begun <= clock' /\ r.source.stored <= clock'
  <2>1. SUFFICES ASSUME Vouchsafed(r)
                 PROVE  /\ \E t \in StandsFor(r.contract.token) :
                              r.id \in Held(t, r.source.begun, r.source.stored)'
                        /\ r.source.begun <= clock' /\ r.source.stored <= clock'
    OBVIOUS
  <2> HIDE DEF r
  <2>2. PICK t \in StandsFor(r.contract.token) : r.id \in Held(t, r.source.begun, r.source.stored)
    BY <2>1 DEF Vouchsafed
  <2>3. t \in Tokens /\ r.source.begun \in 0..clock /\ r.source.stored \in 0..clock
    BY <2>1, <2>2 DEF Vouchsafed, StandsFor
  <2>4. PICK a, b : a = r.source.begun /\ b = r.source.stored
    OBVIOUS
  <2>5. r.id \in Held(t, a, b)'
    BY <2>2, <2>3, <2>4 DEF Onward
  <2>6. r' = r
    BY <1>1 DEF r
  <2>7. r.id \in Held(t, r.source.begun, r.source.stored)'
    BY <2>4, <2>5, <2>6 DEF Held
  <2>8. StandsFor(r.contract.token)' = StandsFor(r.contract.token)
    BY <2>6 DEF StandsFor
  <2> QED
    BY <2>1, <2>2, <2>3, <2>7, <2>8 DEF Vouchsafed, Onward
<1>4. r.begun \in Nat /\ r.begun <= clock => r.begun <= clock'
  BY DEF Onward
<1> HIDE DEF r
<1> QED
  BY <1>1, <1>2, <1>3, <1>4 DEF RequestFits, Admitted, Vouchsafed, StandsFor, r

\* One request moves; nothing else does.
LEMMA OneMoves ==
    ASSUME GatewayInv, UNCHANGED <<iam, clock>>, NEW c \in Callers, NEW r,
           caller' = [caller EXCEPT ![c] = r],
           RequestFits(c)', EntriesHeld'
    PROVE  GatewayInv'
<1>1. DOMAIN caller' = Callers /\ \A d \in Callers : d # c => caller'[d] = caller[d]
  BY DEF GatewayInv
<1>2. \A d \in Callers : RequestFits(d)'
  BY <1>1, StillOnward, StillFits
<1>3. HistoriesKept'
  BY DEF GatewayInv, HistoriesKept
<1> QED
  BY <1>1, <1>2, <1>3 DEF GatewayInv

LEMMA SameEntries ==
    ASSUME GatewayInv, UNCHANGED <<iam, hot, clock>>
    PROVE  EntriesHeld'
<1>1. ASSUME NEW u PROVE EntryHeld(u)'
  <2>1. \A t, a, b : Held(t, a, b)' = Held(t, a, b)
    BY DEF Held
  <2> QED
    BY <2>1 DEF GatewayInv, EntriesHeld, EntryHeld, Live
<1> QED
  BY <1>1 DEF EntriesHeld

LEMMA ContractStep ==
    ASSUME GatewayInv, NEW c \in Callers, NEW h \in HeaderMaps, enforce_contract(c, h)
    PROVE  GatewayInv'
<1> DEFINE contract == from_headers(h)
           r == IF contract.status # 200
                THEN [at |-> "answered", status |-> contract.status, headers |-> h]
                ELSE [at |-> "lookup", headers |-> h, contract |-> contract, begun |-> clock]
<1>1. caller' = [caller EXCEPT ![c] = r] /\ UNCHANGED <<iam, hot, clock>>
  BY DEF enforce_contract
<1>2. caller'[c] = r /\ clock \in Nat
  BY <1>1 DEF GatewayInv, HistoriesKept
<1>3. contract.status \in {200, 400}
  BY HeaderFacts
<1>4. RequestFits(c)'
  <2>1. CASE contract.status # 200
    <3>1. r.at = "answered" /\ r.status = 400 /\ r.headers = h
      BY <1>3, <2>1
    <3> HIDE DEF r
    <3> QED
      BY <1>2, <1>3, <2>1, <3>1 DEF RequestFits, GatewaySteps
  <2>2. CASE contract.status = 200
    <3>1. r.at = "lookup" /\ r.headers = h /\ r.contract = contract /\ r.begun = clock
      BY <2>2
    <3> HIDE DEF r
    <3> QED
      BY <1>1, <1>2, <2>2, <3>1 DEF RequestFits, GatewaySteps, Admitted
  <2> QED
    BY <2>1, <2>2
<1> HIDE DEF r
<1> QED
  BY <1>1, <1>4, OneMoves, SameEntries

\* A request that is answered: with 401, when its headers had passed.
LEMMA RefusedStep ==
    ASSUME GatewayInv, NEW c \in Callers, Admitted(caller[c]), Reply(c, 401),
           UNCHANGED <<iam, hot, clock>>
    PROVE  GatewayInv'
<1> DEFINE r == [at |-> "answered", status |-> 401, headers |-> caller[c].headers]
<1>1. caller' = [caller EXCEPT ![c] = r]
  BY DEF Reply
<1>2. caller'[c] = r
  BY <1>1 DEF GatewayInv
<1>3. r.at = "answered" /\ r.status = 401 /\ r.headers = caller[c].headers
  OBVIOUS
<1> HIDE DEF r
<1>4. RequestFits(c)'
  BY <1>2, <1>3 DEF RequestFits, GatewaySteps, Admitted
<1> QED
  BY <1>1, <1>4, OneMoves, SameEntries

LEMMA StaysVouchsafed ==
    ASSUME UNCHANGED <<iam, clock>>, NEW r, Vouchsafed(r)
    PROVE  Vouchsafed(r)'
<1>1. \A t, a, b : Held(t, a, b)' = Held(t, a, b)
  BY DEF Held
<1> QED
  BY <1>1 DEF Vouchsafed, Admitted, StandsFor

\* What is found under a text was held by IAM for a token of the user it names.
LEMMA CachedStep ==
    ASSUME GatewayInv, NEW c \in Callers, try_get_cached(c)
    PROVE  GatewayInv'
<1>1. caller[c].at = "lookup" /\ UNCHANGED <<iam, hot, clock>>
  BY DEF try_get_cached
<1>2. Admitted(caller[c]) /\ caller[c].begun \in Nat /\ caller[c].begun <= clock
  BY <1>1 DEF GatewayInv, RequestFits
<1> DEFINE token == caller[c].contract.token
           e == hot[user_context_key("iam", token)]
           hit == [at |-> "check", headers |-> caller[c].headers,
                     contract |-> caller[c].contract, begun |-> caller[c].begun,
                     id |-> e.id, source |-> e, read |-> clock]
           missed == [caller[c] EXCEPT !.at = "verify"]
<1>3. CASE Live(user_context_key("iam", token)) /\ caller' = [caller EXCEPT ![c] = hit]
  <2>1. PICK r : r = hit
    OBVIOUS
  <2>2. /\ r.at = "check" /\ r.headers = caller[c].headers /\ r.contract = caller[c].contract
        /\ r.id = e.id /\ r.source = e /\ r.read = clock
    BY <2>1
  <2>4. /\ e.begun \in Nat /\ e.stored \in Nat /\ e.begun <= e.stored /\ e.stored <= clock
        /\ clock < e.stored + CacheTTL
        /\ \E t \in Tokens : UserOf[t] = token /\ e.id \in Held(t, e.begun, e.stored)
    BY <1>3 DEF GatewayInv, EntriesHeld, EntryHeld
  <2>5. \E t \in StandsFor(token) : e.id \in Held(t, e.begun, e.stored)
    BY <2>4 DEF StandsFor
  <2>6. clock \in Nat
    BY DEF GatewayInv, HistoriesKept
  <2>7. Vouchsafed(r)
    <3>1. PICK kept : kept = e
      OBVIOUS
    <3>2. r.id = kept.id /\ r.source = kept /\ r.contract.token = token
      BY <2>2, <3>1
    <3>3. \E t \in StandsFor(r.contract.token) : r.id \in Held(t, kept.begun, kept.stored)
      BY <2>5, <3>1, <3>2
    <3>4. \E t \in StandsFor(r.contract.token) :
             r.id \in Held(t, r.source.begun, r.source.stored)
      BY <3>2, <3>3
    <3>5. Admitted(r)
      BY <1>2, <2>2 DEF Admitted
    <3>6. /\ r.source.begun \in Nat /\ r.source.stored \in Nat
          /\ r.source.begun <= clock /\ r.source.stored <= clock
          /\ r.read < r.source.stored + CacheTTL
      BY <2>2, <2>4, <2>6
    <3> QED
      BY <3>4, <3>5, <3>6 DEF Vouchsafed
  <2>8. caller' = [caller EXCEPT ![c] = r]
    BY <1>3, <2>1
  <2> HIDE DEF hit
  <2>9. caller'[c] = r
    BY <2>8 DEF GatewayInv
  <2>10. Vouchsafed(r)'
    BY <1>1, <2>7, StaysVouchsafed
  <2>11. RequestFits(c)'
    BY <2>2, <2>9, <2>10 DEF RequestFits, GatewaySteps, Vouchsafed, Admitted
  <2> QED
    BY <1>1, <2>8, <2>11, OneMoves, SameEntries
<1>4. CASE caller' = [caller EXCEPT ![c] = missed]
  <2>1. PICK r : r = missed
    OBVIOUS
  <2>2. caller' = [caller EXCEPT ![c] = r]
    BY <1>4, <2>1
  <2>3. caller'[c] = r
    BY <2>2 DEF GatewayInv
  <2>4. r.headers = caller[c].headers /\ r.contract = caller[c].contract /\ r.begun = caller[c].begun
    BY <2>1
  <2>5. r.at = "verify"
    BY <1>1, <2>1
  <2>6. RequestFits(c)'
    BY <1>1, <1>2, <2>3, <2>4, <2>5 DEF RequestFits, GatewaySteps, Admitted
  <2> QED
    BY <1>1, <2>2, <2>6, OneMoves, SameEntries
<1>5. caller' = [caller EXCEPT ![c] = missed] \/ (Live(user_context_key("iam", token)) /\ caller' = [caller EXCEPT ![c] = hit])
  BY DEF try_get_cached
<1> QED
  BY <1>3, <1>4, <1>5

\* IAM gives the identity it holds now.
LEMMA VerifyStep ==
    ASSUME GatewayInv, NEW c \in Callers, Verify(c)
    PROVE  GatewayInv'
<1>1. caller[c].at = "verify" /\ UNCHANGED <<iam, hot, clock>>
  BY DEF Verify
<1>2. Admitted(caller[c]) /\ caller[c].begun \in Nat /\ caller[c].begun <= clock
  BY <1>1 DEF GatewayInv, RequestFits
<1> DEFINE token == caller[c].contract.token
           id == verify_token(token)
           known == [at |-> "store", headers |-> caller[c].headers,
                     contract |-> caller[c].contract, begun |-> caller[c].begun, id |-> id]
<1>3. CASE id # Absent /\ caller' = [caller EXCEPT ![c] = known]
  <2>1. PICK r : r = known
    OBVIOUS
  <2>2. /\ r.at = "store" /\ r.headers = caller[c].headers /\ r.contract = caller[c].contract
        /\ r.begun = caller[c].begun /\ r.id = id
    BY <2>1
  <2>3. caller' = [caller EXCEPT ![c] = r]
    BY <1>3, <2>1
  <2>4. token \in Tokens /\ id = iam[token][Len(iam[token])].id
    BY <1>3 DEF verify_token
  <2>5. clock \in Nat /\ iam[token] \in Seq([from : Nat, id : Identity]) /\ Len(iam[token]) > 0
    BY <2>4 DEF GatewayInv, HistoriesKept
  <2>6. Len(iam[token]) \in 1..Len(iam[token])
    BY <2>5
  <2>7. id.user = UserOf[token] /\ iam[token][Len(iam[token])].from <= clock
    BY <2>4, <2>6 DEF GatewayInv, HistoriesKept
  <2> HIDE DEF token, id, known
  <2>8. r.id \in Held(token, r.begun, clock)
    BY <2>2, <2>4, <2>6, <2>7 DEF Held
  <2>9. caller'[c] = r /\ r.contract.token = token
    BY <2>2, <2>3 DEF GatewayInv, token
  <2>10. r.id \in Held(r.contract.token, r.begun, clock)'
    BY <1>1, <2>8, <2>9 DEF Held
  <2>11. RequestFits(c)'
    BY <1>1, <1>2, <2>2, <2>4, <2>7, <2>9, <2>10 DEF RequestFits, GatewaySteps, Admitted
  <2> QED
    BY <1>1, <2>3, <2>11, OneMoves, SameEntries
<1>4. (id # Absent /\ caller' = [caller EXCEPT ![c] = known]) \/ Reply(c, 401)
  BY DEF Verify, GatewayError
<1> QED
  BY <1>1, <1>2, <1>3, <1>4, RefusedStep

\* The entry a request leaves says when it asked and when it was stored.
LEMMA IdentityStoreStep ==
    ASSUME GatewayInv, NEW c \in Callers, try_set_cached(c)
    PROVE  GatewayInv'
<1> DEFINE entry == [id |-> caller[c].id, begun |-> caller[c].begun, stored |-> clock,
                     expires |-> clock + CacheTTL]
           key == user_context_key("iam", caller[c].id.user)
           checked == [at |-> "check", headers |-> caller[c].headers,
                       contract |-> caller[c].contract, begun |-> caller[c].begun,
                       id |-> caller[c].id, source |-> entry, read |-> clock]
<1>1. /\ caller[c].at = "store" /\ UNCHANGED <<iam, clock>>
      /\ hot' = Set(key, entry) \/ UNCHANGED hot
      /\ caller' = [caller EXCEPT ![c] = checked]
  BY DEF try_set_cached
<1>2. /\ Admitted(caller[c]) /\ caller[c].begun \in Nat /\ caller[c].begun <= clock
      /\ caller[c].contract.token \in Tokens
      /\ caller[c].id.user = UserOf[caller[c].contract.token]
      /\ caller[c].id \in Held(caller[c].contract.token, caller[c].begun, clock)
      /\ clock \in Nat
  BY <1>1 DEF GatewayInv, RequestFits, HistoriesKept
<1>3. PICK r : r = checked
  OBVIOUS
<1>4. /\ r.at = "check" /\ r.headers = caller[c].headers /\ r.contract = caller[c].contract
      /\ r.id = caller[c].id /\ r.source = entry /\ r.read = clock
  BY <1>3
<1>5. caller' = [caller EXCEPT ![c] = r]
  BY <1>1, <1>3
<1>6. /\ entry.id = caller[c].id /\ entry.begun = caller[c].begun /\ entry.stored = clock
      /\ entry.expires = clock + CacheTTL
  OBVIOUS
<1>7. caller'[c] = r
  BY <1>5 DEF GatewayInv
<1> HIDE DEF checked
<1>8. PICK new : new = entry
  OBVIOUS
<1>9. hot' = Set(key, new) \/ UNCHANGED hot
  BY <1>1, <1>8
<1> HIDE DEF entry
<1>10. Vouchsafed(r)
  <2>1. caller[c].contract.token \in StandsFor(r.contract.token)
    BY <1>2, <1>4 DEF StandsFor
  <2> QED
    BY <1>2, <1>4, <1>6, <2>1, CacheAssumption DEF Vouchsafed, Admitted
<1>11. Vouchsafed(r)'
  BY <1>1, <1>10, StaysVouchsafed
<1>12. RequestFits(c)'
  BY <1>4, <1>7, <1>11 DEF RequestFits, GatewaySteps, Vouchsafed, Admitted
<1>13. ASSUME NEW u PROVE EntryHeld(u)'
  <2>1. \A t, a, b : Held(t, a, b)' = Held(t, a, b)
    BY <1>1 DEF Held
  <2>2. CASE hot' = Set(key, new) /\ user_context_key("iam", u) = key
    <3>1. hot'[user_context_key("iam", u)] = new
      BY <2>2 DEF Set
    <3>2. u = caller[c].id.user
      BY <2>2 DEF user_context_key
    <3>3. \E t \in Tokens : UserOf[t] = u /\ new.id \in Held(t, new.begun, new.stored)
      BY <1>2, <1>6, <1>8, <3>2
    <3>4. clock < new.stored + CacheTTL
      BY <1>2, <1>6, <1>8, CacheAssumption
    <3>5. \E t \in Tokens : UserOf[t] = u /\ new.id \in Held(t, new.begun, new.stored)'
      BY <2>1, <3>3
    <3> QED
      BY <1>1, <1>2, <1>6, <1>8, <3>1, <3>4, <3>5 DEF EntryHeld
  <2>3. CASE hot' = Set(key, new) /\ user_context_key("iam", u) # key
    <3>1. /\ hot'[user_context_key("iam", u)] = hot[user_context_key("iam", u)] \/ ~Live(user_context_key("iam", u))
          /\ user_context_key("iam", u) \in DOMAIN hot' => Live(user_context_key("iam", u))
      BY <2>3 DEF Set, Live
    <3>2. EntryHeld(u)
      BY DEF GatewayInv, EntriesHeld
    <3> QED
      BY <1>1, <2>1, <3>1, <3>2 DEF EntryHeld, Live, user_context_key
  <2>4. CASE UNCHANGED hot
    BY <1>1, <2>1, <2>4 DEF EntryHeld, Live, user_context_key, GatewayInv, EntriesHeld
  <2> QED
    BY <1>9, <2>2, <2>3, <2>4
<1>14. EntriesHeld'
  BY <1>13 DEF EntriesHeld
<1> QED
  BY <1>1, <1>5, <1>12, <1>14, OneMoves

\* The tenant is compared, and the contract becomes the handler's context.
LEMMA TenantStep ==
    ASSUME GatewayInv, NEW c \in Callers, CheckTenant(c)
    PROVE  GatewayInv'
<1>1. caller[c].at = "check" /\ UNCHANGED <<iam, hot, clock>>
  BY DEF CheckTenant
<1>2. Vouchsafed(caller[c])
  BY <1>1 DEF GatewayInv, RequestFits
<1> DEFINE passed == [at |-> "forwarded", headers |-> caller[c].headers,
                      contract |-> caller[c].contract, id |-> caller[c].id,
                      source |-> caller[c].source, read |-> caller[c].read,
                      ctx |-> from_request_parts(caller[c].contract, caller[c].headers)]
<1>3. CASE caller[c].id.org = caller[c].contract.tenant /\ caller' = [caller EXCEPT ![c] = passed]
  <2>1. PICK r : r = passed
    OBVIOUS
  <2>2. /\ r.at = "forwarded" /\ r.headers = caller[c].headers
        /\ r.contract = caller[c].contract /\ r.id = caller[c].id
        /\ r.source = caller[c].source /\ r.read = caller[c].read
        /\ r.ctx = from_request_parts(caller[c].contract, caller[c].headers)
    BY <2>1
  <2>3. caller' = [caller EXCEPT ![c] = r]
    BY <1>3, <2>1
  <2> HIDE DEF passed
  <2>4. caller'[c] = r
    BY <2>3 DEF GatewayInv
  <2>5. Vouchsafed(r)
    BY <1>2, <2>2 DEF Vouchsafed, Admitted
  <2>6. Vouchsafed(r)'
    BY <1>1, <2>5, StaysVouchsafed
  <2>7. r.ctx = ContextFromHeaders(r.headers)
    BY <1>2, <2>2, HeaderFacts DEF Vouchsafed, Admitted
  <2>8. r.id.org = r.contract.tenant
    BY <1>3, <2>2
  <2>9. RequestFits(c)'
    BY <2>2, <2>4, <2>6, <2>7, <2>8 DEF RequestFits, GatewaySteps
  <2> QED
    BY <1>1, <2>3, <2>9, OneMoves, SameEntries
<1>4. \/ caller[c].id.org = caller[c].contract.tenant /\ caller' = [caller EXCEPT ![c] = passed]
      \/ Reply(c, 401)
  BY DEF CheckTenant, GatewayError
<1>5. Admitted(caller[c])
  BY <1>2 DEF Vouchsafed
<1> QED
  BY <1>1, <1>3, <1>4, <1>5, RefusedStep

LEMMA RespondStep ==
    ASSUME GatewayInv, NEW c \in Callers, Respond(c)
    PROVE  GatewayInv'
<1>1. PICK r : r = [at |-> "idle"]
  OBVIOUS
<1>2. caller' = [caller EXCEPT ![c] = r] /\ UNCHANGED <<iam, hot, clock>>
  BY <1>1 DEF Respond
<1>3. caller'[c] = r /\ r.at = "idle"
  BY <1>1, <1>2 DEF GatewayInv
<1>4. RequestFits(c)'
  BY <1>3 DEF RequestFits, GatewaySteps
<1> QED
  BY <1>2, <1>4, OneMoves, SameEntries

\* IAM's histories grow and time passes: what was held stays held.
LEMMA MovesOnStep ==
    ASSUME GatewayInv, Onward, UNCHANGED caller, HistoriesKept',
           \A k \in DOMAIN hot' : /\ k \in DOMAIN hot /\ hot'[k] = hot[k]
                                  /\ clock' = clock \/ clock' < hot[k].expires
    PROVE  GatewayInv'
<1>1. \A c \in Callers : RequestFits(c)'
  BY StillFits
<1>2. ASSUME NEW u PROVE EntryHeld(u)'
  <2> DEFINE key == user_context_key("iam", u)
  <2>1. SUFFICES ASSUME key \in DOMAIN hot' PROVE EntryHeld(u)'
    BY DEF EntryHeld, Live, user_context_key
  <2>2. PICK e : e = hot[key]
    OBVIOUS
  <2>3. hot'[key] = e /\ Live(key) /\ (clock' = clock \/ clock' < e.expires)
    BY <2>1, <2>2 DEF Live
  <2>4. /\ e.begun \in Nat /\ e.stored \in Nat /\ e.begun <= e.stored /\ e.stored <= clock
        /\ clock < e.stored + CacheTTL /\ e.expires = e.stored + CacheTTL
        /\ \E t \in Tokens : UserOf[t] = u /\ e.id \in Held(t, e.begun, e.stored)
    BY <2>2, <2>3 DEF GatewayInv, EntriesHeld, EntryHeld
  <2>5. PICK t \in Tokens : UserOf[t] = u /\ e.id \in Held(t, e.begun, e.stored)
    BY <2>4
  <2>6. e.begun \in 0..clock /\ e.stored \in 0..clock /\ e.stored <= clock'
    BY <2>4 DEF Onward
  <2>7. e.id \in Held(t, e.begun, e.stored)'
    BY <2>5, <2>6 DEF Onward
  <2>8. hot'[user_context_key("iam", u)] = e
    BY <2>3
  <2> HIDE DEF key
  <2> QED
    BY <2>3, <2>4, <2>5, <2>6, <2>7, <2>8 DEF EntryHeld
<1>3. EntriesHeld'
  BY <1>2 DEF EntriesHeld
<1>4. DOMAIN caller' = Callers
  BY DEF GatewayInv
<1> QED
  BY <1>1, <1>3, <1>4 DEF GatewayInv

LEMMA IamStep ==
    ASSUME GatewayInv, NEW t \in Tokens, NEW org \in Orgs, IamChanges(t, org)
    PROVE  GatewayInv'
<1> DEFINE id == IamIdentity(t, org)
           entry == [from |-> clock, id |-> id]
<1>1. /\ iam' = [iam EXCEPT ![t] = Append(@, entry)] /\ UNCHANGED <<hot, clock, caller>>
  BY DEF IamChanges
<1>2. /\ clock \in Nat /\ DOMAIN iam = Tokens
      /\ \A s \in Tokens : /\ iam[s] \in Seq([from : Nat, id : Identity]) /\ Len(iam[s]) > 0
                           /\ \A i \in 1..Len(iam[s]) :
                                 iam[s][i].from <= clock /\ iam[s][i].id.user = UserOf[s]
  BY DEF GatewayInv, HistoriesKept
<1>3. id \in Identity /\ id.user = UserOf[t]
  BY DEF IamIdentity, Identity
<1> HIDE DEF id
<1>4. entry \in [from : Nat, id : Identity] /\ entry.from = clock /\ entry.id = id
  BY <1>2, <1>3
<1> HIDE DEF entry
<1>5. /\ DOMAIN iam' = Tokens /\ iam'[t] = Append(iam[t], entry)
      /\ \A s \in Tokens : s # t => iam'[s] = iam[s]
  BY <1>1, <1>2
<1>6. /\ iam'[t] \in Seq([from : Nat, id : Identity])
      /\ Len(iam[t]) \in Nat /\ Len(iam'[t]) = Len(iam[t]) + 1
      /\ \A i \in 1..Len(iam[t]) : iam'[t][i] = iam[t][i]
      /\ iam'[t][Len(iam[t]) + 1] = entry
  <2>1. iam[t] \in Seq([from : Nat, id : Identity])
    BY <1>2
  <2> QED
    BY <1>4, <1>5, <2>1, AppendFacts
<1>7. ASSUME NEW i \in 1..Len(iam'[t])
      PROVE  iam'[t][i].from <= clock /\ iam'[t][i].id.user = UserOf[t]
  <2>1. CASE i = Len(iam[t]) + 1
    BY <1>2, <1>3, <1>4, <1>6, <2>1
  <2>2. CASE i \in 1..Len(iam[t])
    BY <1>2, <1>6, <2>2
  <2> QED
    BY <1>6, <2>1, <2>2
<1>8. HistoriesKept'
  BY <1>1, <1>2, <1>5, <1>6, <1>7 DEF HistoriesKept
<1>9. \A s \in Tokens : iam'[s] = iam[s] \/ \E new \in Identity :
                            iam'[s] = Append(iam[s], [from |-> clock, id |-> new])
  BY <1>3, <1>5 DEF entry
<1>10. HistoriesKept
  BY DEF GatewayInv
<1>11. ASSUME NEW s \in Tokens, NEW a \in 0..clock, NEW b \in 0..clock
       PROVE  Held(s, a, b) \subseteq Held(s, a, b)'
  <2>1. a \in Nat /\ a <= clock /\ b \in Nat
    BY <1>2
  <2> QED
    BY <1>9, <1>10, <2>1, HeldGrows
<1>12. ASSUME NEW s \in Tokens, NEW a \in 0..clock
       PROVE  Held(s, a, clock) \subseteq Held(s, a, clock)'
  <2>1. PICK b : b = clock
    OBVIOUS
  <2>2. b \in 0..clock
    BY <1>2, <2>1
  <2>3. Held(s, a, b) \subseteq Held(s, a, b)'
    BY <1>11, <2>2
  <2> QED
    BY <1>1, <2>1, <2>3 DEF Held
<1>13. Onward
  BY <1>1, <1>2, <1>11, <1>12 DEF Onward
<1> QED
  BY <1>1, <1>8, <1>13, MovesOnStep

LEMMA TickStep ==
    ASSUME GatewayInv, TimeTicks
    PROVE  GatewayInv'
<1>1. /\ clock' = clock + 1 /\ UNCHANGED <<iam, caller>>
      /\ hot' = [k \in {x \in DOMAIN hot : hot[x].expires > clock + 1} |-> hot[k]]
  BY DEF TimeTicks
<1>2. clock \in Nat
  BY DEF GatewayInv, HistoriesKept
<1>3. ASSUME NEW t \in Tokens
      PROVE  /\ iam'[t] \in Seq([from : Nat, id : Identity]) /\ Len(iam'[t]) > 0
             /\ \A i \in 1..Len(iam'[t]) :
                   /\ iam'[t][i].from \in Nat /\ iam'[t][i].from <= clock'
                   /\ iam'[t][i].id.user = UserOf[t]
  <2>1. /\ iam[t] \in Seq([from : Nat, id : Identity]) /\ Len(iam[t]) > 0
        /\ \A i \in 1..Len(iam[t]) : iam[t][i].from <= clock /\ iam[t][i].id.user = UserOf[t]
    BY DEF GatewayInv, HistoriesKept
  <2>2. ASSUME NEW i \in 1..Len(iam[t])
        PROVE  iam[t][i].from \in Nat /\ iam[t][i].from <= clock + 1
    <3>1. iam[t][i] \in [from : Nat, id : Identity]
      BY <2>1, ElementOfSeq
    <3> QED
      BY <1>2, <2>1, <3>1
  <2>3. iam'[t] = iam[t] /\ clock' = clock + 1
    BY <1>1
  <2>4. ASSUME NEW i \in 1..Len(iam'[t])
        PROVE  /\ iam'[t][i].from \in Nat /\ iam'[t][i].from <= clock'
               /\ iam'[t][i].id.user = UserOf[t]
    <3>1. i \in 1..Len(iam[t])
      BY <2>3
    <3> QED
      BY <2>1, <2>2, <2>3, <3>1
  <2>5. iam'[t] \in Seq([from : Nat, id : Identity]) /\ Len(iam'[t]) > 0
    BY <2>1, <2>3
  <2> QED
    BY <2>4, <2>5
<1>4. HistoriesKept'
  <2>1. DOMAIN iam' = Tokens /\ clock' \in Nat
    BY <1>1, <1>2 DEF GatewayInv, HistoriesKept
  <2> QED
    BY <1>3, <2>1 DEF HistoriesKept
<1>5. \A t, a, b : Held(t, a, b)' = Held(t, a, b)
  BY <1>1 DEF Held
<1>6. ASSUME NEW t \in Tokens, NEW a \in 0..clock
      PROVE  Held(t, a, clock) \subseteq Held(t, a, clock)'
  <2>1. Held(t, a, clock) \subseteq Held(t, a, clock + 1)
    BY <1>1, <1>2, <1>3, HeldLater
  <2>2. Held(t, a, clock)' = Held(t, a, clock + 1)
    BY <1>1 DEF Held
  <2> QED
    BY <2>1, <2>2
<1>7. Onward
  BY <1>1, <1>2, <1>5, <1>6 DEF Onward
<1>8. \A k \in DOMAIN hot' : k \in DOMAIN hot /\ hot'[k] = hot[k] /\ hot[k].expires > clock + 1
  BY <1>1
<1>9. \A u : EntryHeld(u)
  BY DEF GatewayInv, EntriesHeld
<1> QED
  BY <1>1, <1>4, <1>7, <1>8, MovesOnStep

\* The managers of profiles keep theirs under other names.
LEMMA ProfileLeavesEntries ==
    ASSUME GatewayInv, UNCHANGED <<iam, clock, caller>>,
           \A u : LET key == user_context_key("iam", u) IN
                  key \in DOMAIN hot' => key \in DOMAIN hot /\ hot'[key] = hot[key]
    PROVE  GatewayInv'
<1>1. \A c \in Callers : RequestFits(c)'
  BY StillOnward, StillFits
<1>2. ASSUME NEW u PROVE EntryHeld(u)'
  <2>1. EntryHeld(u) /\ \A t, a, b : Held(t, a, b)' = Held(t, a, b)
    BY DEF GatewayInv, EntriesHeld, Held
  <2>2. SUFFICES ASSUME user_context_key("iam", u) \in DOMAIN hot' PROVE EntryHeld(u)'
    BY DEF EntryHeld, Live, user_context_key
  <2>3. Live(user_context_key("iam", u)) /\ hot'[user_context_key("iam", u)] = hot[user_context_key("iam", u)]
    BY <2>2 DEF Live
  <2> QED
    BY <2>1, <2>3 DEF EntryHeld
<1>3. EntriesHeld'
  BY <1>2 DEF EntriesHeld
<1>4. HistoriesKept' /\ DOMAIN caller' = Callers
  BY DEF GatewayInv, HistoriesKept
<1> QED
  BY <1>1, <1>3, <1>4 DEF GatewayInv

LEMMA GatewayStep ==
    ASSUME GatewayInv, GatewayNext
    PROVE  GatewayInv'
<1>1. ASSUME NEW c \in Callers, NEW h \in HeaderMaps, enforce_contract(c, h)
      PROVE  GatewayInv'
  BY <1>1, ContractStep
<1>2. ASSUME NEW c \in Callers,
             try_get_cached(c) \/ Verify(c) \/ try_set_cached(c) \/ CheckTenant(c) \/ Respond(c)
      PROVE  GatewayInv'
  BY <1>2, CachedStep, VerifyStep, IdentityStoreStep, TenantStep, RespondStep
<1>3. ASSUME NEW t \in Tokens, NEW org \in Orgs, IamChanges(t, org)
      PROVE  GatewayInv'
  BY <1>3, IamStep
<1>4. CASE TimeTicks
  BY <1>4, TickStep
<1> QED
  BY <1>1, <1>2, <1>3, <1>4 DEF GatewayNext

\* From the invariant: an identity has an age, and the readers agree.
LEMMA GatewayFollows == GatewayInv => IdentityAged /\ ReadersAgree
<1> SUFFICES ASSUME GatewayInv PROVE IdentityAged /\ ReadersAgree
  OBVIOUS
<1>1. ASSUME NEW c \in Callers, caller[c].at = "forwarded"
      PROVE  /\ \E t \in StandsFor(caller[c].contract.token) :
                   caller[c].id \in Held(t, caller[c].source.begun, caller[c].source.stored)
             /\ caller[c].read < caller[c].source.stored + CacheTTL
             /\ caller[c].id.org = caller[c].contract.tenant
             /\ caller[c].ctx = ContextFromHeaders(caller[c].headers)
  BY <1>1 DEF GatewayInv, RequestFits, Vouchsafed
<1>2. ASSUME NEW c \in Callers, caller[c].at = "answered"
      PROVE  /\ (caller[c].status = 400 /\ ContextFromHeaders(caller[c].headers).status = 200) =>
                   ~HasText(caller[c].headers["authorization"])
             /\ ContextFromHeaders(caller[c].headers).status = 401 => caller[c].status = 400
  BY <1>2, HeaderFacts DEF GatewayInv, RequestFits
<1>3. IdentityAged
  BY <1>1 DEF IdentityAged
<1>4. ReadersAgree
  BY <1>1, <1>2 DEF ReadersAgree
<1> QED
  BY <1>3, <1>4

-----------------------------------------------------------------------------
(* The managers of profiles: what the cached copy may be.                  *)

\* The row, and what a call of the manager has in its hands.
RowFits ==
    /\ DOMAIN profile = {"user", "version", "org", "consent", "lost"}
    /\ profile.version \in Nat /\ profile.consent \in Nat /\ profile.lost \in Nat
    /\ profile.consent <= profile.version /\ profile.lost <= profile.version
    /\ profile.org \in Orgs

\* A fill that nobody overtook has read the row as it is.
ManagerFits(p) ==
    LET m == manager[p] IN
    /\ m.at \in {"idle", "fill", "drop"}
    /\ m.at = "fill" =>
          /\ DOMAIN m = {"at", "version", "org", "overtaken"}
          /\ m.org \in Orgs /\ m.version \in Nat /\ m.version <= profile.version
          /\ m.overtaken \/ (m.version = profile.version /\ m.org = profile.org)
    /\ m.at = "drop" => m.org \in Orgs

\* A copy is of some version there has been.
CopyFits(org) ==
    Live(ProfileKey(org)) =>
        hot[ProfileKey(org)].version \in Nat /\ hot[ProfileKey(org)].version <= profile.version

ProfileInv ==
    /\ RowFits
    /\ DOMAIN manager = Managers /\ \A p \in Managers : ManagerFits(p)
    /\ \A org \in Orgs : CopyFits(org)
    /\ ProfileCopyTrue

\* Nothing of the profile is touched by what leaves its keys, its row and its calls alone.
LEMMA ProfileStays ==
    ASSUME ProfileInv, UNCHANGED <<profile, manager>>,
           \A org \in Orgs : ProfileKey(org) \in DOMAIN hot' =>
              Live(ProfileKey(org)) /\ hot'[ProfileKey(org)] = hot[ProfileKey(org)]
    PROVE  ProfileInv'
<1>1. RowFits' /\ DOMAIN manager' = Managers
  BY DEF ProfileInv, RowFits
<1>2. ASSUME NEW p \in Managers PROVE ManagerFits(p)'
  BY DEF ProfileInv, ManagerFits
<1>3. ASSUME NEW org \in Orgs PROVE CopyFits(org)'
  BY DEF ProfileInv, CopyFits, Live, ProfileKey
<1>4. ProfileCopyTrue'
  BY DEF ProfileInv, RowFits, ProfileCopyTrue, Live, ProfileKey
<1> QED
  BY <1>1, <1>2, <1>3, <1>4 DEF ProfileInv

LEMMA ReadProfileStep ==
    ASSUME ProfileInv, NEW p \in Managers, get_context(p)
    PROVE  ProfileInv'
<1>1. UNCHANGED <<profile, hot>> /\ manager[p].at = "idle"
  BY DEF get_context
<1>2. DOMAIN manager' = Managers /\ \A q \in Managers \ {p} : manager'[q] = manager[q]
  BY DEF get_context, ProfileInv
<1>3. manager'[p] = [at |-> "fill", version |-> profile.version, org |-> profile.org,
                     overtaken |-> FALSE]
  BY DEF get_context, ProfileInv
<1>4. RowFits'
  BY <1>1 DEF ProfileInv, RowFits
<1>5. ASSUME NEW q \in Managers PROVE ManagerFits(q)'
  <2>1. CASE q = p
    BY <1>1, <1>3, <2>1 DEF ManagerFits, ProfileInv, RowFits
  <2>2. CASE q # p
    BY <1>1, <1>2, <2>2 DEF ManagerFits, ProfileInv
  <2> QED
    BY <2>1, <2>2
<1>6. ASSUME NEW org \in Orgs PROVE CopyFits(org)'
  BY <1>1 DEF ProfileInv, CopyFits, Live, ProfileKey
<1>7. ProfileCopyTrue'
  BY <1>1, <1>2 DEF ProfileInv, ProfileCopyTrue, Live, ProfileKey
<1> QED
  BY <1>2, <1>4, <1>5, <1>6, <1>7 DEF ProfileInv

LEMMA FillStep ==
    ASSUME ProfileInv, NEW p \in Managers, populate_cache(p)
    PROVE  ProfileInv'
<1>1. UNCHANGED profile /\ manager[p].at = "fill"
  BY DEF populate_cache
<1>2. DOMAIN manager' = Managers /\ \A q \in Managers \ {p} : manager'[q] = manager[q]
  BY DEF populate_cache, ProfileInv
<1>3. manager'[p].at = "idle"
  BY DEF populate_cache, ProfileInv
<1>4. /\ manager[p].org \in Orgs /\ manager[p].version \in Nat
      /\ manager[p].version <= profile.version
      /\ manager[p].overtaken
         \/ (manager[p].version = profile.version /\ manager[p].org = profile.org)
  BY <1>1 DEF ProfileInv, ManagerFits
<1>5. PICK e : e = [version |-> manager[p].version, overtaken |-> manager[p].overtaken,
                    expires |-> clock + ProfileTTL]
  OBVIOUS
<1>6. e.version = manager[p].version /\ e.overtaken = manager[p].overtaken
  BY <1>5
<1>7. ASSUME NEW org \in Orgs, ProfileKey(org) \in DOMAIN hot'
      PROVE  \/ Live(ProfileKey(org)) /\ hot'[ProfileKey(org)] = hot[ProfileKey(org)]
             \/ org = manager[p].org /\ hot'[ProfileKey(org)] = e
  <2>1. CASE UNCHANGED hot
    BY <1>7, <2>1 DEF Live
  <2>2. CASE hot' = Set(ProfileKey(manager[p].org), e)
    <3>1. CASE org = manager[p].org
      BY <2>2, <3>1 DEF Set
    <3>2. CASE org # manager[p].org
      <4>1. ProfileKey(org) # ProfileKey(manager[p].org)
        BY <3>2 DEF ProfileKey, user_context_key
      <4> QED
        BY <1>7, <2>2, <4>1 DEF Set, Live
    <3> QED
      BY <3>1, <3>2
  <2> QED
    BY <1>5, <2>1, <2>2 DEF populate_cache
<1>8. RowFits'
  BY <1>1 DEF ProfileInv, RowFits
<1>9. ASSUME NEW q \in Managers PROVE ManagerFits(q)'
  <2>1. CASE q = p
    BY <1>3, <2>1 DEF ManagerFits
  <2>2. CASE q # p
    BY <1>1, <1>2, <2>2 DEF ManagerFits, ProfileInv
  <2> QED
    BY <2>1, <2>2
<1>10. ASSUME NEW org \in Orgs PROVE CopyFits(org)'
  <2>1. ProfileKey(org)' = ProfileKey(org)
    BY <1>1 DEF ProfileKey, user_context_key
  <2>2. CopyFits(org)
    BY DEF ProfileInv
  <2> QED
    BY <1>1, <1>4, <1>6, <1>7, <2>1, <2>2 DEF CopyFits, Live
<1>11. ProfileCopyTrue'
  <2>1. ProfileKey(profile.org)' = ProfileKey(profile.org) /\ profile.org \in Orgs
    BY <1>1 DEF ProfileKey, user_context_key, ProfileInv, RowFits
  <2>2. SUFFICES ASSUME ProfileKey(profile.org) \in DOMAIN hot'
                 PROVE  ProfileCopyTrue'
    BY <2>1 DEF ProfileCopyTrue, Live
  <2>3. CASE hot'[ProfileKey(profile.org)] = e
    <3>1. e.version = profile.version \/ e.overtaken
      BY <1>4, <1>6
    <3> QED
      BY <1>1, <2>1, <2>3, <3>1 DEF ProfileCopyTrue
  <2>4. CASE Live(ProfileKey(profile.org)) /\ hot'[ProfileKey(profile.org)] = hot[ProfileKey(profile.org)]
    <3>1. ASSUME NEW q \in Managers, manager[q].at = "drop"
          PROVE  manager'[q] = manager[q]
      BY <1>1, <1>2, <3>1
    <3> QED
      BY <1>1, <2>1, <2>4, <3>1 DEF ProfileCopyTrue, ProfileInv, Live
  <2> QED
    BY <1>7, <2>1, <2>2, <2>3, <2>4
<1> QED
  BY <1>2, <1>8, <1>9, <1>10, <1>11 DEF ProfileInv

\* A write overtakes every fill and moves on to a later version.
LEMMA OvertakeFacts ==
    ASSUME ProfileInv
    PROVE  /\ DOMAIN Overtake(manager) = Managers
           /\ \A q \in Managers :
                 LET m == Overtake(manager)[q] IN
                 /\ m.at = manager[q].at
                 /\ m.at = "fill" =>
                       /\ DOMAIN m = {"at", "version", "org", "overtaken"} /\ m.overtaken
                       /\ m.version = manager[q].version /\ m.org = manager[q].org
                 /\ m.at # "fill" => m = manager[q]
<1>1. ASSUME NEW q \in Managers, manager[q].at = "fill"
      PROVE  LET m == Overtake(manager)[q] IN
             /\ m.at = "fill" /\ DOMAIN m = {"at", "version", "org", "overtaken"} /\ m.overtaken
             /\ m.version = manager[q].version /\ m.org = manager[q].org
  <2>1. DOMAIN manager[q] = {"at", "version", "org", "overtaken"}
    BY <1>1 DEF ProfileInv, ManagerFits
  <2>2. Overtake(manager)[q] = [manager[q] EXCEPT !.overtaken = TRUE]
    BY <1>1 DEF Overtake
  <2> QED
    BY <1>1, <2>1, <2>2
<1>2. ASSUME NEW q \in Managers, manager[q].at # "fill"
      PROVE  Overtake(manager)[q] = manager[q]
  BY <1>2 DEF Overtake
<1>3. DOMAIN Overtake(manager) = Managers
  BY DEF Overtake
<1> QED
  BY <1>1, <1>2, <1>3

\* What every write of the row does to the calls and the copies.
LEMMA Overtaken ==
    ASSUME ProfileInv, profile'.version = profile.version + 1, profile'.user = profile.user,
           UNCHANGED hot, NEW q \in Managers, manager'[q] = Overtake(manager)[q]
    PROVE  ManagerFits(q)'
<1>1. ManagerFits(q) /\ profile.version \in Nat
  BY DEF ProfileInv, RowFits
<1>2. profile.version <= profile'.version
  BY <1>1
<1>3. CASE manager[q].at = "fill"
  <2>1. /\ manager'[q].at = "fill" /\ manager'[q].overtaken
        /\ DOMAIN manager'[q] = {"at", "version", "org", "overtaken"}
        /\ manager'[q].version = manager[q].version /\ manager'[q].org = manager[q].org
    BY <1>3, OvertakeFacts
  <2>2. manager'[q].version <= profile'.version
    BY <1>1, <1>2, <1>3, <2>1 DEF ManagerFits
  <2> QED
    BY <1>1, <1>3, <2>1, <2>2 DEF ManagerFits
<1>4. CASE manager[q].at # "fill"
  BY <1>1, <1>4, OvertakeFacts DEF ManagerFits
<1> QED
  BY <1>3, <1>4

LEMMA CopiesOfOld ==
    ASSUME ProfileInv, profile'.version = profile.version + 1, profile'.user = profile.user,
           UNCHANGED hot, NEW org \in Orgs
    PROVE  CopyFits(org)'
<1>1. CopyFits(org) /\ profile.version \in Nat
  BY DEF ProfileInv, RowFits
<1>2. ProfileKey(org)' = ProfileKey(org)
  BY DEF ProfileKey, user_context_key
<1> QED
  BY <1>1, <1>2 DEF CopyFits, Live

LEMMA UpsertProfileStep ==
    ASSUME ProfileInv, NEW p \in Managers, NEW org \in Orgs, upsert(p, org)
    PROVE  ProfileInv'
<1>1. RowFits
  BY DEF ProfileInv
<1>2. /\ profile' = [user |-> profile.user, version |-> profile.version + 1, org |-> org,
                     consent |-> profile.consent, lost |-> profile.lost]
      /\ UNCHANGED hot
  BY <1>1 DEF upsert, RowFits
<1>3. profile'.version = profile.version + 1 /\ profile'.user = profile.user /\ profile'.org = org
  BY <1>2
<1>4. /\ DOMAIN manager' = Managers
      /\ manager'[p] = [at |-> "drop", org |-> org]
      /\ \A q \in Managers \ {p} : manager'[q] = Overtake(manager)[q]
  BY OvertakeFacts DEF upsert
<1>5. RowFits'
  BY <1>1, <1>2 DEF RowFits
<1>6. ASSUME NEW q \in Managers PROVE ManagerFits(q)'
  <2>1. CASE q = p
    BY <1>4, <2>1 DEF ManagerFits
  <2>2. CASE q # p
    BY <1>2, <1>3, <1>4, <2>2, Overtaken
  <2> QED
    BY <2>1, <2>2
<1>7. ASSUME NEW o \in Orgs PROVE CopyFits(o)'
  BY <1>2, <1>3, CopiesOfOld
<1>8. ProfileCopyTrue'
  <2>1. manager'[p].at = "drop" /\ manager'[p].org = profile'.org
    BY <1>3, <1>4
  <2> QED
    BY <2>1 DEF ProfileCopyTrue
<1> QED
  BY <1>4, <1>5, <1>6, <1>7, <1>8 DEF ProfileInv

LEMMA ConsentStep ==
    ASSUME ProfileInv, NEW p \in Managers, update_consent(p)
    PROVE  ProfileInv'
<1>1. RowFits
  BY DEF ProfileInv
<1>2. /\ profile' = [user |-> profile.user, version |-> profile.version + 1, org |-> profile.org,
                     consent |-> profile.version + 1, lost |-> profile.lost]
      /\ UNCHANGED hot
  BY <1>1 DEF update_consent, RowFits
<1>3. profile'.version = profile.version + 1 /\ profile'.user = profile.user
  BY <1>2
<1>4. /\ DOMAIN manager' = Managers
      /\ \A q \in Managers : manager'[q] = Overtake(manager)[q]
  BY OvertakeFacts DEF update_consent
<1>5. RowFits'
  BY <1>1, <1>2 DEF RowFits
<1>6. ASSUME NEW q \in Managers PROVE ManagerFits(q)'
  BY <1>2, <1>3, <1>4, Overtaken
<1>7. ASSUME NEW o \in Orgs PROVE CopyFits(o)'
  BY <1>2, <1>3, CopiesOfOld
<1>8. ProfileCopyTrue'
  <2>1. ProfileKey(profile.org)' = ProfileKey(profile.org) /\ profile.org \in Orgs
    BY <1>1, <1>2 DEF ProfileKey, user_context_key, RowFits
  <2>2. CopyFits(profile.org)
    BY <2>1 DEF ProfileInv
  <2>3. profile.version \in Nat /\ profile'.consent = profile.version + 1
    BY <1>1, <1>2 DEF RowFits
  <2>4. ASSUME Live(ProfileKey(profile.org))
        PROVE  hot[ProfileKey(profile.org)].version < profile'.consent
    BY <2>2, <2>3, <2>4 DEF CopyFits
  <2> QED
    BY <1>2, <2>1, <2>4 DEF ProfileCopyTrue, Live
<1> QED
  BY <1>4, <1>5, <1>6, <1>7, <1>8 DEF ProfileInv

LEMMA DropProfileStep ==
    ASSUME ProfileInv, NEW p \in Managers, invalidate_cache_best_effort(p)
    PROVE  ProfileInv'
<1>1. RowFits /\ manager[p].at = "drop"
  BY DEF ProfileInv, invalidate_cache_best_effort
<1>2. DOMAIN manager' = Managers /\ \A q \in Managers \ {p} : manager'[q] = manager[q]
  BY DEF invalidate_cache_best_effort, ProfileInv
<1>3. manager'[p].at = "idle"
  BY DEF invalidate_cache_best_effort, ProfileInv
<1>4. /\ profile'.version = profile.version /\ profile'.user = profile.user
      /\ profile'.org = profile.org /\ profile'.consent = profile.consent
      /\ RowFits'
  <2>1. CASE UNCHANGED profile
    BY <1>1, <2>1 DEF RowFits
  <2>2. CASE profile' = [profile EXCEPT !.lost = profile.version]
    <3>1. profile' = [user |-> profile.user, version |-> profile.version, org |-> profile.org,
                      consent |-> profile.consent, lost |-> profile.version]
      BY <1>1, <2>2 DEF RowFits
    <3> QED
      BY <1>1, <3>1 DEF RowFits
  <2> QED
    BY <2>1, <2>2 DEF invalidate_cache_best_effort
<1>5. ASSUME NEW q \in Managers PROVE ManagerFits(q)'
  <2>1. CASE q = p
    BY <1>3, <2>1 DEF ManagerFits
  <2>2. CASE q # p
    BY <1>2, <1>4, <2>2 DEF ManagerFits, ProfileInv
  <2> QED
    BY <2>1, <2>2
<1>6. \A k : k \in DOMAIN hot' => Live(k) /\ hot'[k] = hot[k]
  BY DEF invalidate_cache_best_effort, Drop, Live
<1>7. \A o : ProfileKey(o)' = ProfileKey(o)
  BY <1>4 DEF ProfileKey, user_context_key
<1>8. ASSUME NEW o \in Orgs PROVE CopyFits(o)'
  <2>1. CopyFits(o)
    BY DEF ProfileInv
  <2> QED
    BY <1>4, <1>6, <1>7, <2>1 DEF CopyFits, Live
<1>9. ProfileCopyTrue'
  <2>1. SUFFICES ASSUME ProfileKey(profile.org) \in DOMAIN hot'
                 PROVE  ProfileCopyTrue'
    BY <1>4, <1>7 DEF ProfileCopyTrue, Live
  <2>2. /\ Live(ProfileKey(profile.org))
        /\ hot'[ProfileKey(profile.org)] = hot[ProfileKey(profile.org)]
    BY <1>6, <2>1
  <2>3. profile.org \in Orgs /\ CopyFits(profile.org)
    BY <1>1 DEF RowFits, ProfileInv
  <2>4. CASE hot' = Drop(ProfileKey(manager[p].org)) /\ UNCHANGED profile
    <3>1. manager[p].org # profile.org
      BY <2>1, <2>4 DEF Drop
    <3>2. ASSUME NEW q \in Managers, manager[q].at = "drop", manager[q].org = profile.org
          PROVE  manager'[q] = manager[q]
      BY <1>2, <3>1, <3>2
    <3> QED
      BY <1>7, <2>2, <2>4, <3>2 DEF ProfileInv, ProfileCopyTrue
  <2>5. CASE profile' = [profile EXCEPT !.lost = profile.version]
    <3>1. profile'.lost = profile.version
      BY <1>1, <2>5 DEF RowFits
    <3>2. hot[ProfileKey(profile.org)].version \in Nat /\ profile.version \in Nat
          /\ hot[ProfileKey(profile.org)].version <= profile.version
      BY <1>1, <2>2, <2>3 DEF CopyFits, RowFits
    <3>3. hot[ProfileKey(profile.org)].version = profile.version
          \/ hot[ProfileKey(profile.org)].version < profile.version
      BY <3>2
    <3> QED
      BY <1>4, <1>7, <2>2, <3>1, <3>3 DEF ProfileCopyTrue
  <2> QED
    BY <2>4, <2>5 DEF invalidate_cache_best_effort
<1> QED
  BY <1>2, <1>4, <1>5, <1>8, <1>9 DEF ProfileInv

\* The steps of requests and of time leave every profile's entry or let it run out.
LEMMA ProfileSteps ==
    ASSUME ProfileInv, ProfileNext
    PROVE  ProfileInv'
<1>1. ASSUME NEW p \in Managers,
             get_context(p) \/ populate_cache(p) \/ invalidate_cache_best_effort(p)
             \/ update_consent(p) \/ \E org \in Orgs : upsert(p, org)
      PROVE  ProfileInv'
  BY <1>1, ReadProfileStep, FillStep, DropProfileStep, ConsentStep, UpsertProfileStep
<1>2. ASSUME NEW org \in Orgs, invalidate_context(org) \/ invalidate_cache(profile.user, org)
      PROVE  ProfileInv'
  <2>1. /\ UNCHANGED <<profile, manager>>
        /\ \A k : k \in DOMAIN hot' => Live(k) /\ hot'[k] = hot[k]
    BY <1>2 DEF invalidate_context, invalidate_cache, Drop, Live
  <2> QED
    BY <2>1, ProfileStays
<1>3. CASE TimeTicks
  <2>1. /\ UNCHANGED <<profile, manager>>
        /\ \A k : k \in DOMAIN hot' => Live(k) /\ hot'[k] = hot[k]
    BY <1>3 DEF TimeTicks, Live
  <2> QED
    BY <2>1, ProfileStays
<1> QED
  BY <1>1, <1>2, <1>3 DEF ProfileNext

LEMMA RequestsLeaveProfiles ==
    ASSUME ProfileInv, GatewayNext
    PROVE  ProfileInv'
<1>1. ASSUME NEW c \in Callers, try_set_cached(c) PROVE ProfileInv'
  <2>1. UNCHANGED <<profile, manager>>
    BY <1>1 DEF try_set_cached
  <2>2. \/ UNCHANGED hot
        \/ \E u, e : hot' = Set(user_context_key("iam", u), e)
    BY <1>1 DEF try_set_cached
  <2>3. ASSUME NEW org \in Orgs, ProfileKey(org) \in DOMAIN hot'
        PROVE  Live(ProfileKey(org)) /\ hot'[ProfileKey(org)] = hot[ProfileKey(org)]
    <3>1. \A u : ProfileKey(org) # user_context_key("iam", u)
      BY CacheAssumption DEF ProfileKey, user_context_key
    <3> QED
      BY <2>2, <2>3, <3>1 DEF Set, Live
  <2> QED
    BY <2>1, <2>3, ProfileStays
<1>2. ASSUME UNCHANGED <<hot, profile, manager>> PROVE ProfileInv'
  BY <1>2, ProfileStays DEF Live
<1>3. ASSUME NEW c \in Callers,
             \/ \E h \in HeaderMaps : enforce_contract(c, h)
             \/ try_get_cached(c) \/ Verify(c) \/ CheckTenant(c) \/ Respond(c)
      PROVE  UNCHANGED <<hot, profile, manager>>
  BY <1>3 DEF enforce_contract, try_get_cached, Verify, CheckTenant, Respond
<1>4. ASSUME NEW t \in Tokens, NEW org \in Orgs, IamChanges(t, org)
      PROVE  UNCHANGED <<hot, profile, manager>>
  BY <1>4 DEF IamChanges
<1>5. CASE TimeTicks
  BY <1>5, ProfileSteps DEF ProfileNext
<1> QED
  BY <1>1, <1>2, <1>3, <1>4, <1>5 DEF GatewayNext

LEMMA ProfilesLeaveRequests ==
    ASSUME GatewayInv, ProfileInv, ProfileNext
    PROVE  GatewayInv'
<1>1. \A org \in Orgs : \A u : ProfileKey(org) # user_context_key("iam", u)
  BY CacheAssumption DEF ProfileKey, user_context_key
<1>2. ASSUME NEW p \in Managers, populate_cache(p) PROVE GatewayInv'
  <2>1. manager[p].org \in Orgs
    BY <1>2 DEF populate_cache, ProfileInv, ManagerFits
  <2>2. UNCHANGED <<iam, clock, caller>>
        /\ (UNCHANGED hot \/ \E e : hot' = Set(ProfileKey(manager[p].org), e))
    BY <1>2 DEF populate_cache
  <2>3. \A u : LET key == user_context_key("iam", u) IN
               key \in DOMAIN hot' => key \in DOMAIN hot /\ hot'[key] = hot[key]
    BY <1>1, <2>1, <2>2 DEF Set
  <2> QED
    BY <2>2, <2>3, ProfileLeavesEntries
<1>3. ASSUME UNCHANGED <<iam, clock, caller>>,
             \A k : k \in DOMAIN hot' => k \in DOMAIN hot /\ hot'[k] = hot[k]
      PROVE  GatewayInv'
  BY <1>3, ProfileLeavesEntries
<1>4. ASSUME NEW p \in Managers,
             get_context(p) \/ invalidate_cache_best_effort(p)
             \/ update_consent(p) \/ \E org \in Orgs : upsert(p, org)
      PROVE  /\ UNCHANGED <<iam, clock, caller>>
             /\ \A k : k \in DOMAIN hot' => k \in DOMAIN hot /\ hot'[k] = hot[k]
  BY <1>4 DEF get_context, invalidate_cache_best_effort, update_consent, upsert, Drop
<1>5. ASSUME NEW org \in Orgs, invalidate_context(org) \/ invalidate_cache(profile.user, org)
      PROVE  /\ UNCHANGED <<iam, clock, caller>>
             /\ \A k : k \in DOMAIN hot' => k \in DOMAIN hot /\ hot'[k] = hot[k]
  BY <1>5 DEF invalidate_context, invalidate_cache, Drop
<1>6. CASE TimeTicks
  BY <1>6, TickStep
<1> QED
  BY <1>2, <1>3, <1>4, <1>5, <1>6 DEF ProfileNext

LEMMA GatewayBegins ==
    ASSUME GatewayInit
    PROVE  GatewayInv /\ ProfileInv
<1>1. PICK org \in Orgs : org = CHOOSE o \in Orgs : TRUE
  BY CacheAssumption
<1>2. ASSUME NEW t \in Tokens
      PROVE  /\ iam[t] \in Seq([from : Nat, id : Identity]) /\ Len(iam[t]) = 1
             /\ iam[t][1].from = 0 /\ iam[t][1].id.user = UserOf[t]
  <2>1. IamIdentity(t, org) \in Identity /\ IamIdentity(t, org).user = UserOf[t]
    BY DEF IamIdentity, Identity
  <2>2. iam[t] = <<[from |-> 0, id |-> IamIdentity(t, org)]>>
    BY <1>1 DEF GatewayInit
  <2>3. [from |-> 0, id |-> IamIdentity(t, org)] \in [from : Nat, id : Identity]
    BY <2>1
  <2> QED
    BY <2>1, <2>2, <2>3
<1>3. HistoriesKept
  BY <1>2 DEF HistoriesKept, GatewayInit
<1>4. hot = <<>> /\ \A k : k \notin DOMAIN hot
  BY DEF GatewayInit
<1>5. EntriesHeld
  BY <1>4 DEF EntriesHeld, EntryHeld, Live
<1>6. DOMAIN caller = Callers /\ \A c \in Callers : caller[c].at = "idle"
  BY DEF GatewayInit
<1>7. \A c \in Callers : RequestFits(c)
  BY <1>6 DEF RequestFits, GatewaySteps
<1>8. RowFits
  BY <1>1 DEF RowFits, GatewayInit
<1>9. DOMAIN manager = Managers /\ \A p \in Managers : manager[p].at = "idle"
  BY DEF GatewayInit, Alone
<1>10. \A p \in Managers : ManagerFits(p)
  BY <1>9 DEF ManagerFits
<1>11. (\A o \in Orgs : CopyFits(o)) /\ ProfileCopyTrue
  BY <1>4 DEF CopyFits, ProfileCopyTrue, Live
<1> QED
  BY <1>3, <1>5, <1>6, <1>7, <1>8, <1>9, <1>10, <1>11 DEF GatewayInv, ProfileInv

\* All that can happen to the gateway and the profiles.
LEMMA GatewayKept ==
    ASSUME GatewayInv, ProfileInv, GatewayNext \/ ProfileNext \/ UNCHANGED gateway_vars
    PROVE  GatewayInv' /\ ProfileInv'
<1>1. CASE GatewayNext
  BY <1>1, GatewayStep, RequestsLeaveProfiles
<1>2. CASE ProfileNext
  BY <1>2, ProfilesLeaveRequests, ProfileSteps
<1>3. CASE UNCHANGED gateway_vars
  <2>1. UNCHANGED <<iam, hot, clock, caller, profile, manager>>
    BY <1>3 DEF gateway_vars
  <2>2. GatewayInv'
    BY <2>1, ProfileLeavesEntries
  <2>3. ProfileInv'
    BY <2>1, ProfileStays DEF Live
  <2> QED
    BY <2>2, <2>3
<1> QED
  BY <1>1, <1>2, <1>3

LEMMA GatewayIsSound == GatewayInv /\ ProfileInv => GatewaySound
  BY GatewayFollows DEF ProfileInv, GatewaySound

-----------------------------------------------------------------------------
(* The handlers: requests that overlap.                                    *)

RequestFields == {"at", "op", "memory", "scope", "tenant", "user", "number", "was", "alone"}

\* What a request knows at each of its steps.
HandlerFits(c) ==
    LET r == request[c] IN
    /\ r.at # "idle" => DOMAIN r = RequestFields
    /\ r.at = "snapshot" =>
          /\ r.op = "promote"
          /\ r.alone => r.memory \in DOMAIN items /\ items[r.memory].scope = r.was
    /\ (r.at = "update" /\ r.op = "promote" /\ r.alone) =>
          /\ r.memory \in DOMAIN items => items[r.memory].scope = r.was
          /\ r.memory \notin purged =>
                \E v \in versions : v.memory = r.memory /\ v.scope = r.was
    /\ r.at \in {"purge events", "delete"} =>
          \A v \in versions : v.memory = r.memory => v.late
    /\ r.at = "delete" => \A e \in events : e.memory = r.memory => e.late
    /\ r.at = "status" /\ r.op = "task" => r.number \in task.findings

\* A request that is alone is.
Overlaps(c, d) == (Busy(c) /\ request[c].alone) => ~Busy(d)

TaskFits == DOMAIN task = {"findings", "status"} /\ FindingsFirst

HandlersInv ==
    /\ DOMAIN request = ApiCallers
    /\ \A c \in ApiCallers : HandlerFits(c)
    /\ \A c, d \in ApiCallers : c # d => Overlaps(c, d)
    /\ LeftoversExplained /\ ScopeTrail /\ TaskFits

\* What a step of request c may do to what the others rely on.
Bearable(c) ==
    /\ \A v \in versions' : v \in versions \/ v.late = TooLate(v.memory, {"purge events", "delete"})
    /\ \A e \in events' : e \in events \/ e.late = TooLate(e.memory, {"delete"})
    /\ task.findings \subseteq task'.findings

\* The others stay where they are.
LEMMA OthersFit ==
    ASSUME HandlersInv, NEW c \in ApiCallers, Busy(c), Bearable(c),
           NEW d \in ApiCallers, d # c, request'[d] = request[d]
    PROVE  HandlerFits(d)'
<1>1. HandlerFits(d) /\ Overlaps(c, d) /\ Overlaps(d, c)
  BY DEF HandlersInv
<1>2. Busy(d) => ~request[d].alone
  BY <1>1 DEF Overlaps
<1>4. ASSUME request[d].at \in {"purge events", "delete"},
             NEW v \in versions', v.memory = request[d].memory
      PROVE  v.late
  <2>1. TooLate(v.memory, {"purge events", "delete"})
    BY <1>4 DEF TooLate, TargetOf
  <2> QED
    BY <1>1, <1>4, <2>1 DEF HandlerFits, Bearable
<1>5. ASSUME request[d].at = "delete", NEW e \in events', e.memory = request[d].memory
      PROVE  e.late
  <2>1. TooLate(e.memory, {"delete"})
    BY <1>5 DEF TooLate, TargetOf
  <2> QED
    BY <1>1, <1>5, <2>1 DEF HandlerFits, Bearable
<1>6. request[d].at = "status" /\ request[d].op = "task" => request[d].number \in task'.findings
  BY <1>1 DEF HandlerFits, Bearable
<1>7. request[d].at # "idle" => ~request[d].alone
  BY <1>2 DEF Busy
<1> QED
  BY <1>1, <1>4, <1>5, <1>6, <1>7 DEF HandlerFits

\* A request that ends or goes on is alone as it was.
LEMMA StillOverlap ==
    ASSUME HandlersInv, NEW c \in ApiCallers, Busy(c), DOMAIN request' = ApiCallers,
           \A d \in ApiCallers : d # c => request'[d] = request[d],
           \/ request'[c].at = "idle"
           \/ request'[c].alone = request[c].alone
    PROVE  \A d, e \in ApiCallers : d # e => Overlaps(d, e)'
<1> SUFFICES ASSUME NEW d \in ApiCallers, NEW e \in ApiCallers, d # e
             PROVE  Overlaps(d, e)'
  OBVIOUS
<1>1. Overlaps(d, e)
  BY DEF HandlersInv
<1>2. CASE d = c
  BY <1>1, <1>2 DEF Overlaps, Busy
<1>3. CASE e = c
  BY <1>1, <1>3 DEF Overlaps, Busy
<1>4. CASE d # c /\ e # c
  BY <1>1, <1>4 DEF Overlaps, Busy
<1> QED
  BY <1>2, <1>3, <1>4

\* How a request ends, and how it goes on.
LEMMA EndsFacts ==
    ASSUME HandlersInv, NEW c \in ApiCallers, NEW status, Ends(c, status)
    PROVE  /\ DOMAIN request' = ApiCallers
           /\ \A d \in ApiCallers : d # c => request'[d] = request[d]
           /\ request'[c].at = "idle"
  BY DEF Ends, HandlersInv

LEMMA GoesFacts ==
    ASSUME HandlersInv, NEW c \in ApiCallers, Busy(c), NEW step, Goes(c, step)
    PROVE  /\ DOMAIN request' = ApiCallers
           /\ \A d \in ApiCallers : d # c => request'[d] = request[d]
           /\ request'[c].at = step /\ DOMAIN request'[c] = RequestFields
           /\ \A f \in RequestFields \ {"at"} : request'[c][f] = request[c][f]
<1>1. DOMAIN request[c] = RequestFields
  BY DEF HandlersInv, HandlerFits, Busy
<1>2. "at" \in RequestFields
  BY DEF RequestFields
<1>3. request'[c] = [request[c] EXCEPT !.at = step]
  BY DEF Goes, HandlersInv
<1> QED
  BY <1>1, <1>2, <1>3 DEF Goes, HandlersInv

\* A request that ends takes nothing with it.
LEMMA EndKeeps ==
    ASSUME HandlersInv, NEW c \in ApiCallers, Busy(c), Bearable(c), NEW status, Ends(c, status),
           LeftoversExplained', ScopeTrail', TaskFits'
    PROVE  HandlersInv'
<1>1. /\ DOMAIN request' = ApiCallers
      /\ \A d \in ApiCallers : d # c => request'[d] = request[d]
      /\ request'[c].at = "idle"
  BY EndsFacts
<1>2. HandlerFits(c)'
  BY <1>1 DEF HandlerFits
<1>3. \A d \in ApiCallers : HandlerFits(d)'
  BY <1>1, <1>2, OthersFit
<1>4. \A d, e \in ApiCallers : d # e => Overlaps(d, e)'
  BY <1>1, StillOverlap
<1> QED
  BY <1>1, <1>3, <1>4 DEF HandlersInv

\* A request that goes on has to know what its next step needs.
LEMMA GoKeeps ==
    ASSUME HandlersInv, NEW c \in ApiCallers, Busy(c), Bearable(c), NEW step, Goes(c, step),
           HandlerFits(c)', LeftoversExplained', ScopeTrail', TaskFits'
    PROVE  HandlersInv'
<1>1. /\ DOMAIN request' = ApiCallers
      /\ \A d \in ApiCallers : d # c => request'[d] = request[d]
      /\ \A f \in RequestFields \ {"at"} : request'[c][f] = request[c][f]
  BY GoesFacts
<1>2. \A d \in ApiCallers : HandlerFits(d)'
  BY <1>1, OthersFit
<1>3. request'[c].alone = request[c].alone
  BY <1>1 DEF RequestFields
<1>4. \A d, e \in ApiCallers : d # e => Overlaps(d, e)'
  BY <1>1, <1>3, StillOverlap
<1> QED
  BY <1>1, <1>2, <1>4 DEF HandlersInv

\* Steps that change only the request.
LEMMA OnlyRequest ==
    ASSUME HandlersInv, NEW c \in ApiCallers,
           UNCHANGED <<items, versions, events, task, left, purged>>
    PROVE  Bearable(c) /\ LeftoversExplained' /\ ScopeTrail' /\ TaskFits'
<1>1. Bearable(c)
  BY DEF Bearable
<1>2. LeftoversExplained' /\ ScopeTrail'
  BY DEF HandlersInv, LeftoversExplained, ScopeTrail
<1>3. TaskFits'
  BY DEF HandlersInv, TaskFits, FindingsFirst
<1> QED
  BY <1>1, <1>2, <1>3

LEMMA ArriveStep ==
    ASSUME HandlersInv, NEW c \in ApiCallers, NEW op \in DOMAIN FirstStep, NEW memory, NEW scope,
           NEW tenant, NEW user, Handle(c, op, memory, scope, tenant, user)
    PROVE  HandlersInv'
<1>1. ~Busy(c) /\ UNCHANGED <<items, versions, events, task, left, purged>>
      /\ DOMAIN request' = ApiCallers
  BY DEF Handle
<1>2. PICK r : r = [at |-> FirstStep[op], op |-> op, memory |-> memory, scope |-> scope,
                    tenant |-> tenant, user |-> user, number |-> served + 1, was |-> Missing,
                    alone |-> \A e \in ApiCallers : ~Busy(e)]
  OBVIOUS
<1>3. /\ r.at = FirstStep[op] /\ r.op = op /\ r.memory = memory /\ DOMAIN r = RequestFields
      /\ r.alone = \A e \in ApiCallers : ~Busy(e)
  BY <1>2 DEF RequestFields
<1>4. request'[c] = r
  BY <1>2 DEF Handle
<1>5. \A d \in ApiCallers : d # c /\ ~Busy(d) => request'[d] = request[d]
  BY DEF Handle
<1>6. ASSUME NEW d \in ApiCallers, d # c, Busy(d)
      PROVE  LET q == request'[d] IN
             /\ DOMAIN q = RequestFields
             /\ \A f \in RequestFields \ {"alone"} : q[f] = request[d][f]
             /\ ~q.alone
  <2>1. DOMAIN request[d] = RequestFields
    BY <1>6 DEF HandlersInv, HandlerFits, Busy
  <2>2. request'[d] = [request[d] EXCEPT !.alone = FALSE]
    BY <1>6 DEF Handle
  <2>3. "alone" \in RequestFields
    BY DEF RequestFields
  <2> QED
    BY <2>1, <2>2, <2>3
<1>7. FirstStep[op] \in {"read", "update", "hold", "revoke", "list", "findings", "status"}
      /\ (FirstStep[op] = "update" => op = "verify") /\ (FirstStep[op] = "status" => op = "status")
  BY DEF FirstStep
<1>8. HandlerFits(c)'
  BY <1>3, <1>4, <1>7 DEF HandlerFits
<1>9. ASSUME NEW d \in ApiCallers PROVE HandlerFits(d)'
  <2>1. HandlerFits(d)
    BY DEF HandlersInv
  <2>2. CASE d # c /\ ~Busy(d)
    BY <1>1, <1>5, <2>1, <2>2 DEF HandlerFits
  <2>3. CASE d # c /\ Busy(d)
    <3>1. /\ DOMAIN request'[d] = RequestFields /\ ~request'[d].alone
          /\ \A f \in RequestFields \ {"alone"} : request'[d][f] = request[d][f]
      BY <1>6, <2>3
    <3>2. /\ request'[d].at = request[d].at /\ request'[d].op = request[d].op
          /\ request'[d].memory = request[d].memory /\ request'[d].number = request[d].number
      BY <3>1 DEF RequestFields
    <3> QED
      BY <1>1, <2>1, <3>1, <3>2 DEF HandlerFits
  <2> QED
    BY <1>8, <2>2, <2>3
<1>10. ASSUME NEW d \in ApiCallers, NEW e \in ApiCallers, d # e PROVE Overlaps(d, e)'
  <2>1. ASSUME NEW x \in ApiCallers, x # c
        PROVE  (Busy(x)' <=> Busy(x)) /\ (Busy(x) => ~request'[x].alone)
    <3>1. CASE Busy(x)
      <4>1. request'[x].at = request[x].at /\ ~request'[x].alone
        BY <1>6, <2>1, <3>1 DEF RequestFields
      <4> QED
        BY <3>1, <4>1 DEF Busy
    <3>2. CASE ~Busy(x)
      BY <1>5, <2>1, <3>2 DEF Busy
    <3> QED
      BY <3>1, <3>2
  <2>2. CASE d = c
    <3>1. request'[d].alone => ~Busy(e)
      BY <1>3, <1>4, <2>2
    <3> QED
      BY <1>10, <2>1, <2>2, <3>1 DEF Overlaps
  <2>3. CASE d # c
    BY <2>1, <2>3 DEF Overlaps
  <2> QED
    BY <2>2, <2>3
<1>11. LeftoversExplained' /\ ScopeTrail' /\ TaskFits'
  BY <1>1, OnlyRequest
<1> QED
  BY <1>1, <1>9, <1>10, <1>11 DEF HandlersInv

LEMMA RefuseStep ==
    ASSUME HandlersInv, NEW c \in ApiCallers, RefuseCall(c)
    PROVE  HandlersInv'
<1>1. /\ ~Busy(c) /\ Ends(c, ApiError.bad_request)
      /\ UNCHANGED <<items, versions, events, task, left, purged>>
  BY DEF RefuseCall
<1>2. /\ DOMAIN request' = ApiCallers /\ request'[c].at = "idle"
      /\ \A d \in ApiCallers : d # c => request'[d] = request[d]
  BY <1>1, EndsFacts
<1>3. ASSUME NEW d \in ApiCallers PROVE HandlerFits(d)'
  <2>1. CASE d = c
    BY <1>2, <2>1 DEF HandlerFits
  <2>2. CASE d # c
    <3>1. HandlerFits(d) /\ request'[d] = request[d]
      BY <1>2, <2>2 DEF HandlersInv
    <3> QED
      BY <1>1, <3>1 DEF HandlerFits
  <2> QED
    BY <2>1, <2>2
<1>4. ASSUME NEW d \in ApiCallers, NEW e \in ApiCallers, d # e PROVE Overlaps(d, e)'
  <2>1. Overlaps(d, e)
    BY <1>4 DEF HandlersInv
  <2>2. CASE d = c
    BY <1>2, <2>2 DEF Overlaps, Busy
  <2>3. CASE e = c
    BY <1>2, <2>3 DEF Overlaps, Busy
  <2>4. CASE d # c /\ e # c
    BY <1>2, <2>1, <2>4 DEF Overlaps, Busy
  <2> QED
    BY <2>2, <2>3, <2>4
<1> QED
  BY <1>1, <1>2, <1>3, <1>4, OnlyRequest DEF HandlersInv

\* Requests that read, look for a hold, or come to nothing.
LEMMA ReadingSteps ==
    ASSUME HandlersInv, NEW c \in ApiCallers,
           \/ DatabaseError(c) \/ get_memory(c) \/ get_lineage(c) \/ forget_memory(c)
    PROVE  HandlersInv'
<1>1. Busy(c) /\ UNCHANGED <<items, versions, events, task, left, purged>>
  BY DEF DatabaseError, get_memory, get_lineage, forget_memory, Busy
<1>2. CASE \E status : Ends(c, status)
  BY <1>1, <1>2, OnlyRequest, EndKeeps
<1>3. ASSUME NEW step \in {"purge versions", "revoke"}, Goes(c, step)
      PROVE  HandlersInv'
  <2>1. request'[c].at = step /\ DOMAIN request'[c] = RequestFields
    BY <1>1, <1>3, GoesFacts
  <2>3. HandlerFits(c)'
    BY <1>3, <2>1 DEF HandlerFits
  <2> QED
    BY <1>1, <1>3, <2>3, OnlyRequest, GoKeeps
<1>4. \/ \E status : Ends(c, status)
      \/ \E step \in {"purge versions", "revoke"} : Goes(c, step)
  BY DEF DatabaseError, get_memory, get_lineage, forget_memory
<1> QED
  BY <1>2, <1>3, <1>4

LEMMA ReadForVersionStep ==
    ASSUME HandlersInv, NEW c \in ApiCallers, ReadForVersion(c)
    PROVE  HandlersInv'
<1>1. Busy(c) /\ UNCHANGED <<items, versions, events, task, left, purged>>
  BY DEF ReadForVersion, Busy
<1>2. CASE \E status : Ends(c, status)
  BY <1>1, <1>2, OnlyRequest, EndKeeps
<1>3. CASE /\ TargetOf(c) \in DOMAIN items
           /\ request' = [request EXCEPT ![c].at = "snapshot", ![c].was = items[TargetOf(c)].scope]
  <2>1. DOMAIN request[c] = RequestFields /\ DOMAIN request = ApiCallers
    BY <1>1 DEF HandlersInv, HandlerFits, Busy
  <2>2. DOMAIN request' = ApiCallers /\ \A d \in ApiCallers : d # c => request'[d] = request[d]
    BY <1>3, <2>1
  <2>3. PICK was : was = items[TargetOf(c)].scope
    OBVIOUS
  <2>4. request'[c] = [request[c] EXCEPT !.at = "snapshot", !.was = was]
    BY <1>3, <2>1, <2>3
  <2>5. "at" \in RequestFields /\ "was" \in RequestFields
    BY DEF RequestFields
  <2>6. /\ DOMAIN request'[c] = RequestFields
        /\ request'[c].at = "snapshot" /\ request'[c].was = was
        /\ \A f \in RequestFields \ {"at", "was"} : request'[c][f] = request[c][f]
    BY <2>1, <2>4, <2>5
  <2>7. /\ request'[c].op = request[c].op /\ request'[c].memory = request[c].memory
        /\ request'[c].alone = request[c].alone
    BY <2>6 DEF RequestFields
  <2>8. request[c].op = "promote"
    BY DEF ReadForVersion
  <2>9. HandlerFits(c)'
    BY <1>1, <1>3, <2>3, <2>6, <2>7, <2>8 DEF HandlerFits, TargetOf
  <2>10. \A d \in ApiCallers : HandlerFits(d)'
    BY <1>1, <2>2, <2>9, OnlyRequest, OthersFit
  <2>11. \A d, e \in ApiCallers : d # e => Overlaps(d, e)'
    BY <1>1, <2>2, <2>7, StillOverlap
  <2> QED
    BY <1>1, <2>2, <2>10, <2>11, OnlyRequest DEF HandlersInv
<1> QED
  BY <1>2, <1>3 DEF ReadForVersion

LEMMA InsertVersionStep ==
    ASSUME HandlersInv, NEW c \in ApiCallers, InsertVersion(c)
    PROVE  HandlersInv'
<1>1. PICK row : row = [memory |-> TargetOf(c), number |-> NextNumber(TargetOf(c)),
                        scope |-> request[c].was,
                        late |-> TooLate(TargetOf(c), {"purge events", "delete"})]
  OBVIOUS
<1>2. /\ row.memory = TargetOf(c) /\ row.scope = request[c].was
      /\ row.late = TooLate(row.memory, {"purge events", "delete"})
  BY <1>1
<1>3. /\ Busy(c) /\ request[c].at = "snapshot" /\ Goes(c, "update")
      /\ versions' = versions \cup {row}
      /\ UNCHANGED <<items, events, task, left, purged>>
  BY <1>1 DEF InsertVersion, Busy
<1>4. /\ request'[c].at = "update" /\ DOMAIN request'[c] = RequestFields
      /\ \A f \in RequestFields \ {"at"} : request'[c][f] = request[c][f]
  BY <1>3, GoesFacts
<1>5. /\ request'[c].op = request[c].op /\ request'[c].memory = request[c].memory
      /\ request'[c].was = request[c].was /\ request'[c].alone = request[c].alone
  BY <1>4 DEF RequestFields
<1>6. HandlerFits(c)
  BY DEF HandlersInv
<1>7. Bearable(c)
  BY <1>2, <1>3 DEF Bearable
<1>8. HandlerFits(c)'
  <2>1. \E v \in versions' : v.memory = request[c].memory /\ v.scope = request[c].was
    BY <1>2, <1>3 DEF TargetOf
  <2> QED
    BY <1>3, <1>4, <1>5, <1>6, <2>1 DEF HandlerFits
<1>9. LeftoversExplained'
  <2>1. row.memory \in DOMAIN items \/ row.late
    BY <1>2 DEF TooLate
  <2> QED
    BY <1>3, <2>1 DEF HandlersInv, LeftoversExplained
<1>10. ScopeTrail'
  BY <1>3 DEF HandlersInv, ScopeTrail
<1>11. TaskFits'
  BY <1>3 DEF HandlersInv, TaskFits, FindingsFirst
<1> QED
  BY <1>3, <1>7, <1>8, <1>9, <1>10, <1>11, GoKeeps

LEMMA PromoteStep ==
    ASSUME HandlersInv, NEW c \in ApiCallers, promote_scope(c)
    PROVE  HandlersInv'
<1>1. Busy(c) /\ UNCHANGED <<versions, events, task, purged>> /\ HandlerFits(c)
      /\ request[c].at = "update" /\ request[c].op = "promote"
  BY DEF promote_scope, Busy, HandlersInv
<1>2. CASE UNCHANGED <<items, left>> /\ \E status : Ends(c, status)
  BY <1>1, <1>2, OnlyRequest, EndKeeps
<1>3. CASE /\ TargetOf(c) \in DOMAIN items
           /\ items' = [items EXCEPT ![TargetOf(c)].scope = request[c].scope]
           /\ left' = left \cup {[memory |-> TargetOf(c), scope |-> items[TargetOf(c)].scope,
                                  alone |-> request[c].alone]}
           /\ Ends(c, 200)
  <2>1. DOMAIN items' = DOMAIN items
    BY <1>3
  <2>2. Bearable(c) /\ LeftoversExplained'
    BY <1>1, <2>1 DEF Bearable, HandlersInv, LeftoversExplained
  <2>3. TaskFits'
    BY <1>1 DEF HandlersInv, TaskFits, FindingsFirst
  <2>4. PICK l : l = [memory |-> TargetOf(c), scope |-> items[TargetOf(c)].scope,
                      alone |-> request[c].alone]
    OBVIOUS
  <2>5. /\ l.memory = request[c].memory /\ l.alone = request[c].alone
        /\ l.scope = items[request[c].memory].scope
    BY <2>4 DEF TargetOf
  <2>6. (l.alone /\ l.memory \notin purged) =>
            \E v \in versions : v.memory = l.memory /\ v.scope = l.scope
    BY <1>1, <1>3, <2>5 DEF HandlerFits, TargetOf
  <2>7. left' = left \cup {l}
    BY <1>3, <2>4
  <2>8. ScopeTrail'
    BY <1>1, <2>6, <2>7 DEF HandlersInv, ScopeTrail
  <2> QED
    BY <1>1, <1>3, <2>2, <2>3, <2>8, EndKeeps
<1> QED
  BY <1>2, <1>3 DEF promote_scope

\* Steps that change rows in place.
LEMMA RowsInPlace ==
    ASSUME HandlersInv, NEW c \in ApiCallers, Busy(c), DOMAIN items' = DOMAIN items,
           UNCHANGED <<versions, events, task, left, purged>>
    PROVE  Bearable(c) /\ LeftoversExplained' /\ ScopeTrail' /\ TaskFits'
  BY DEF Bearable, HandlersInv, LeftoversExplained, ScopeTrail, TaskFits, FindingsFirst

LEMMA InPlaceSteps ==
    ASSUME HandlersInv, NEW c \in ApiCallers, verify(c) \/ soft_delete(c) \/ forget_user_data(c)
    PROVE  HandlersInv'
<1>1. /\ Busy(c) /\ DOMAIN items' = DOMAIN items
      /\ UNCHANGED <<versions, events, task, left, purged>>
  BY DEF verify, soft_delete, forget_user_data, Busy
<1>2. CASE \E status : Ends(c, status)
  BY <1>1, <1>2, RowsInPlace, EndKeeps
<1>3. CASE Goes(c, "enqueue") /\ TargetOf(c) \in DOMAIN items
  <2>1. /\ request'[c].at = "enqueue" /\ DOMAIN request'[c] = RequestFields
        /\ \A f \in RequestFields \ {"at"} : request'[c][f] = request[c][f]
    BY <1>1, <1>3, GoesFacts
  <2>2. request'[c].memory = request[c].memory
    BY <2>1 DEF RequestFields
  <2>3. HandlerFits(c)'
    BY <1>1, <1>3, <2>1, <2>2 DEF HandlerFits, TargetOf
  <2> QED
    BY <1>1, <1>3, <2>3, RowsInPlace, GoKeeps
<1>4. (\E status : Ends(c, status)) \/ (Goes(c, "enqueue") /\ TargetOf(c) \in DOMAIN items)
  BY DEF verify, soft_delete, forget_user_data
<1> QED
  BY <1>2, <1>3, <1>4

LEMMA EnqueueStep ==
    ASSUME HandlersInv, NEW c \in ApiCallers, Enqueue(c)
    PROVE  HandlersInv'
<1>1. /\ Busy(c) /\ request[c].at = "enqueue" /\ Ends(c, 200) /\ HandlerFits(c)
      /\ events' = events \cup {[memory |-> TargetOf(c), late |-> TooLate(TargetOf(c), {"delete"})]}
      /\ UNCHANGED <<items, versions, task, left, purged>>
  BY DEF Enqueue, Busy, HandlersInv
<1>2. PICK row : row = [memory |-> TargetOf(c), late |-> TooLate(TargetOf(c), {"delete"})]
  OBVIOUS
<1>3. row.memory = TargetOf(c) /\ row.late = TooLate(row.memory, {"delete"}) /\ events' = events \cup {row}
  BY <1>1, <1>2
<1>4. row.memory \in DOMAIN items \/ row.late
  BY <1>3 DEF TooLate
<1>5. Bearable(c)
  BY <1>1, <1>3 DEF Bearable
<1>6. LeftoversExplained'
  BY <1>1, <1>3, <1>4 DEF HandlersInv, LeftoversExplained
<1>7. ScopeTrail' /\ TaskFits'
  BY <1>1 DEF HandlersInv, ScopeTrail, TaskFits, FindingsFirst
<1> QED
  BY <1>1, <1>5, <1>6, <1>7, EndKeeps

LEMMA PurgeVersionsStep ==
    ASSUME HandlersInv, NEW c \in ApiCallers, PurgeVersions(c)
    PROVE  HandlersInv'
<1>1. /\ Busy(c) /\ HandlerFits(c) /\ request[c].at = "purge versions"
      /\ Goes(c, "purge events")
      /\ versions' = {v \in versions : v.memory # TargetOf(c)}
      /\ purged' = purged \cup {TargetOf(c)}
      /\ UNCHANGED <<items, events, task, left>>
  BY DEF PurgeVersions, Busy, HandlersInv
<1>2. /\ request'[c].at = "purge events" /\ DOMAIN request'[c] = RequestFields
      /\ request'[c].op = request[c].op /\ request'[c].memory = request[c].memory
  BY <1>1, GoesFacts DEF RequestFields
<1>3. Bearable(c)
  BY <1>1 DEF Bearable
<1>4. \A v \in versions' : v.memory # request[c].memory
  BY <1>1 DEF TargetOf
<1>5. HandlerFits(c)'
  BY <1>1, <1>2, <1>4 DEF HandlerFits
<1>6. LeftoversExplained'
  BY <1>1 DEF HandlersInv, LeftoversExplained
<1>7. ScopeTrail'
  BY <1>1 DEF HandlersInv, ScopeTrail
<1>8. TaskFits'
  BY <1>1 DEF HandlersInv, TaskFits, FindingsFirst
<1> QED
  BY <1>1, <1>3, <1>5, <1>6, <1>7, <1>8, GoKeeps

LEMMA PurgeEventsStep ==
    ASSUME HandlersInv, NEW c \in ApiCallers, PurgeEvents(c)
    PROVE  HandlersInv'
<1>1. /\ Busy(c) /\ HandlerFits(c) /\ request[c].at = "purge events"
      /\ Goes(c, "delete")
      /\ events' = {e \in events : e.memory # TargetOf(c)}
      /\ UNCHANGED <<items, versions, task, left, purged>>
  BY DEF PurgeEvents, Busy, HandlersInv
<1>2. /\ request'[c].at = "delete" /\ DOMAIN request'[c] = RequestFields
      /\ request'[c].op = request[c].op /\ request'[c].memory = request[c].memory
  BY <1>1, GoesFacts DEF RequestFields
<1>3. Bearable(c)
  BY <1>1 DEF Bearable
<1>4. \A e \in events' : e.memory # request[c].memory
  BY <1>1 DEF TargetOf
<1>5. HandlerFits(c)'
  BY <1>1, <1>2, <1>4 DEF HandlerFits
<1>6. LeftoversExplained'
  BY <1>1 DEF HandlersInv, LeftoversExplained
<1>7. ScopeTrail' /\ TaskFits'
  BY <1>1 DEF HandlersInv, ScopeTrail, TaskFits, FindingsFirst
<1> QED
  BY <1>1, <1>3, <1>5, <1>6, <1>7, GoKeeps

\* What the delete leaves behind was written after its purges.
LEMMA HardDeleteStep ==
    ASSUME HandlersInv, NEW c \in ApiCallers, hard_delete(c)
    PROVE  HandlersInv'
<1>1. /\ Busy(c) /\ HandlerFits(c) /\ request[c].at = "delete"
      /\ UNCHANGED <<versions, events, task, left, purged>>
  BY DEF hard_delete, Busy, HandlersInv
<1>2. CASE UNCHANGED items /\ \E status : Ends(c, status)
  BY <1>1, <1>2, OnlyRequest, EndKeeps
<1>3. CASE items' = [i \in (DOMAIN items) \ {TargetOf(c)} |-> items[i]] /\ Ends(c, 200)
  <2>1. DOMAIN items' = (DOMAIN items) \ {TargetOf(c)}
    BY <1>3
  <2>3. Bearable(c)
    BY <1>1 DEF Bearable
  <2>4. /\ \A v \in versions : v.memory = TargetOf(c) => v.late
        /\ \A e \in events : e.memory = TargetOf(c) => e.late
    BY <1>1 DEF HandlerFits, TargetOf
  <2>5. LeftoversExplained'
    BY <1>1, <2>1, <2>4 DEF HandlersInv, LeftoversExplained
  <2>6. ScopeTrail' /\ TaskFits'
    BY <1>1 DEF HandlersInv, ScopeTrail, TaskFits, FindingsFirst
  <2> QED
    BY <1>1, <1>3, <2>3, <2>5, <2>6, EndKeeps
<1> QED
  BY <1>2, <1>3 DEF hard_delete

LEMMA UpdateTaskStep ==
    ASSUME HandlersInv, NEW c \in ApiCallers, update_task(c)
    PROVE  HandlersInv'
<1>1. /\ Busy(c) /\ HandlerFits(c) /\ UNCHANGED <<items, versions, events, left, purged>>
      /\ DOMAIN task = {"findings", "status"}
      /\ \A s \in task.status : s.both => s.number \in task.findings
  BY DEF update_task, Busy, HandlersInv, TaskFits, FindingsFirst
<1>2. LeftoversExplained' /\ ScopeTrail'
  BY <1>1 DEF HandlersInv, LeftoversExplained, ScopeTrail
<1>3. CASE /\ task' = [task EXCEPT !.findings = @ \cup {request[c].number}]
           /\ Goes(c, "status") \/ Ends(c, 200)
  <2>1. /\ task'.findings = task.findings \cup {request[c].number} /\ task'.status = task.status
        /\ DOMAIN task' = {"findings", "status"}
    BY <1>1, <1>3
  <2>2. Bearable(c) /\ TaskFits'
    BY <1>1, <2>1 DEF Bearable, TaskFits, FindingsFirst
  <2>3. CASE Goes(c, "status")
    <3>1. /\ request'[c].at = "status" /\ DOMAIN request'[c] = RequestFields
          /\ request'[c].number = request[c].number
      BY <1>1, <2>3, GoesFacts DEF RequestFields
    <3>2. HandlerFits(c)'
      BY <2>1, <3>1 DEF HandlerFits
    <3> QED
      BY <1>1, <1>2, <2>2, <2>3, <3>2, GoKeeps
  <2>4. CASE Ends(c, 200)
    BY <1>1, <1>2, <2>2, <2>4, EndKeeps
  <2> QED
    BY <1>3, <2>3, <2>4
<1>4. CASE /\ request[c].at = "status"
           /\ task' = [task EXCEPT !.status =
                         @ \cup {[number |-> request[c].number, both |-> request[c].op = "task"]}]
           /\ Ends(c, 200)
  <2>1. PICK new : new = [number |-> request[c].number, both |-> request[c].op = "task"]
    OBVIOUS
  <2>2. new.number = request[c].number /\ (new.both => request[c].op = "task")
    BY <2>1
  <2>3. /\ task'.status = task.status \cup {new} /\ task'.findings = task.findings
        /\ DOMAIN task' = {"findings", "status"}
    BY <1>1, <1>4, <2>1
  <2>4. request[c].op = "task" => request[c].number \in task.findings
    BY <1>1, <1>4 DEF HandlerFits
  <2>5. Bearable(c) /\ TaskFits'
    BY <1>1, <2>2, <2>3, <2>4 DEF Bearable, TaskFits, FindingsFirst
  <2> QED
    BY <1>1, <1>2, <1>4, <2>5, EndKeeps
<1> QED
  BY <1>3, <1>4 DEF update_task

LEMMA HandlersStill ==
    ASSUME HandlersInv, UNCHANGED <<items, versions, events, task, request, left, purged>>
    PROVE  HandlersInv'
<1>1. \A c \in ApiCallers : HandlerFits(c)'
  BY DEF HandlersInv, HandlerFits
<1>2. \A c, d \in ApiCallers : c # d => Overlaps(c, d)'
  BY DEF HandlersInv, Overlaps, Busy
<1>3. LeftoversExplained' /\ ScopeTrail' /\ TaskFits' /\ DOMAIN request' = ApiCallers
  BY DEF HandlersInv, LeftoversExplained, ScopeTrail, TaskFits, FindingsFirst
<1> QED
  BY <1>1, <1>2, <1>3 DEF HandlersInv

LEMMA HandlersStep ==
    ASSUME HandlersInv, HandlersNext
    PROVE  HandlersInv'
<1>1. ASSUME NEW c \in ApiCallers,
             \/ RefuseCall(c) \/ DatabaseError(c) \/ get_memory(c) \/ ReadForVersion(c)
             \/ InsertVersion(c) \/ promote_scope(c) \/ verify(c) \/ get_lineage(c)
             \/ forget_memory(c) \/ soft_delete(c) \/ Enqueue(c) \/ PurgeVersions(c)
             \/ PurgeEvents(c) \/ hard_delete(c) \/ forget_user_data(c) \/ update_task(c)
      PROVE  HandlersInv'
  BY <1>1, RefuseStep, ReadingSteps, ReadForVersionStep, InsertVersionStep, PromoteStep,
     InPlaceSteps, EnqueueStep, PurgeVersionsStep, PurgeEventsStep, HardDeleteStep, UpdateTaskStep
<1>2. ASSUME NEW c \in ApiCallers, NEW op \in DOMAIN FirstStep, NEW memory, NEW scope,
             NEW tenant, NEW user, Handle(c, op, memory, scope, tenant, user)
      PROVE  HandlersInv'
  BY <1>2, ArriveStep
<1>3. ASSUME NEW i \in Memories, PlaceHolds(i) PROVE HandlersInv'
  BY <1>3, HandlersStill DEF PlaceHolds
<1>4. {"promote", "verify", "soft", "hard", "cascade", "lineage", "get", "user_data", "task",
       "findings", "status"}
         \subseteq DOMAIN FirstStep
  BY DEF FirstStep
<1> QED
  BY <1>1, <1>2, <1>3, <1>4 DEF HandlersNext

LEMMA HandlersBegin ==
    ASSUME ApiInit
    PROVE  HandlersInv
<1>1. DOMAIN request = ApiCallers /\ \A c \in ApiCallers : request[c].at = "idle"
  BY DEF ApiInit, Idling
<1>2. \A c \in ApiCallers : HandlerFits(c)
  BY <1>1 DEF HandlerFits
<1>3. \A c, d \in ApiCallers : c # d => Overlaps(c, d)
  BY <1>1 DEF Overlaps, Busy
<1>4. LeftoversExplained /\ ScopeTrail
  BY DEF ApiInit, LeftoversExplained, ScopeTrail
<1>5. TaskFits
  BY DEF ApiInit, TaskFits, FindingsFirst
<1> QED
  BY <1>1, <1>2, <1>3, <1>4, <1>5 DEF HandlersInv

\* The pages that are announced: enough, and none of them empty.
LEMMA PagesFacts ==
    ASSUME NEW total \in Nat, NEW n \in Nat, n > 0
    PROVE  /\ total_pages(total, n) * n >= total
           /\ total_pages(total, n) > 0 => (total_pages(total, n) - 1) * n < total
<1>1. PICK q : q = (total + n - 1) \div n
  OBVIOUS
<1>2. total_pages(total, n) = q
  BY <1>1 DEF total_pages
<1>3. q \in Nat /\ q * n <= total + n - 1 /\ total + n - 1 < (q + 1) * n
  BY <1>1
<1>4. (q + 1) * n = q * n + n /\ (q - 1) * n = q * n - n /\ q * n \in Nat
  BY <1>3
<1> QED
  BY <1>2, <1>3, <1>4

LEMMA OwnDataStep ==
    ASSUME PagesCover, OwnData
    PROVE  PagesCover'
<1>1. ASSUME NEW user, NEW path, NEW total \in 0..MaxTotal, NEW n \in PageSizes,
             list_user_memories(user, path, total, n)
      PROVE  PagesCover'
  <2>1. total \in Nat /\ n \in Nat
    BY PagesAssumption
  <2>2. CASE reply' = [of |-> "list", status |-> 403]
    BY <2>2 DEF PagesCover
  <2>3. CASE reply' = [of |-> "list", status |-> 200, total |-> total, per_page |-> n,
                       total_pages |-> total_pages(total, n)]
    <3>1. /\ reply'.total = total /\ reply'.per_page = n
          /\ reply'.total_pages = total_pages(total, n)
      BY <2>3
    <3>2. n > 0 => /\ total_pages(total, n) * n >= total
                   /\ total_pages(total, n) > 0 => (total_pages(total, n) - 1) * n < total
      BY <2>1, PagesFacts
    <3> QED
      BY <3>1, <3>2 DEF PagesCover
  <2> QED
    BY <1>1, <2>2, <2>3 DEF list_user_memories
<1>2. ASSUME reply'.of \in {"export", "consent", "correction"}
      PROVE  PagesCover'
  BY <1>2 DEF PagesCover
<1>3. ASSUME NEW user, NEW path, export_user_memories(user, path) \/ revoke_consent(user, path)
      PROVE  PagesCover'
  BY <1>2, <1>3 DEF export_user_memories, revoke_consent
<1>4. ASSUME NEW req, correct_memory(req) PROVE PagesCover'
  BY <1>2, <1>4 DEF correct_memory
<1> QED
  BY <1>1, <1>3, <1>4 DEF OwnData

\* More roles or more grants keep an access that was allowed.
LEMMA CheckFacts ==
    ASSUME NEW r, NEW p \in PermissionSet, check(r, p)
    PROVE  /\ r.action \notin p.denied
           /\ r.restricted => \/ r.action \in p.explicit
                              \/ (r.action = "read" /\ r.scope = "personal" /\ r.owner = r.user)
           /\ \A role \in Roles : check(r, [p EXCEPT !.roles = @ \cup {role}])
           /\ check(r, [p EXCEPT !.explicit = @ \cup {r.action}])
<1>1. r.action \notin p.denied
      /\ (r.restricted => \/ r.action \in p.explicit
                          \/ (r.action = "read" /\ r.scope = "personal" /\ r.owner = r.user))
  BY DEF check
<1>2. ASSUME NEW q, q.denied = p.denied, p.roles \subseteq q.roles, p.explicit \subseteq q.explicit
      PROVE  check(r, q)
  BY <1>2 DEF check
<1>3. ASSUME NEW role \in Roles PROVE check(r, [p EXCEPT !.roles = @ \cup {role}])
  BY <1>2 DEF PermissionSet
<1>4. check(r, [p EXCEPT !.explicit = @ \cup {r.action}])
  BY <1>2 DEF PermissionSet
<1> QED
  BY <1>1, <1>3, <1>4

LEMMA DecideStep ==
    ASSUME Decide
    PROVE  AccessMonotone'
<1>1. PICK r \in AccessRequest, p \in PermissionSet :
         decision' = [request |-> r, permissions |-> p, allow |-> check(r, p)]
  BY DEF Decide
<1>2. decision'.request = r /\ decision'.permissions = p /\ (decision'.allow <=> check(r, p))
  BY <1>1
<1>3. ASSUME check(r, p)
      PROVE  /\ r.action \notin p.denied
             /\ r.restricted => \/ r.action \in p.explicit
                                \/ (r.action = "read" /\ r.scope = "personal" /\ r.owner = r.user)
             /\ \A role \in Roles : check(r, [p EXCEPT !.roles = @ \cup {role}])
             /\ check(r, [p EXCEPT !.explicit = @ \cup {r.action}])
  BY <1>3, CheckFacts
<1> QED
  BY <1>2, <1>3 DEF AccessMonotone

ApiInv == HandlersInv /\ PagesCover /\ AccessMonotone

LEMMA ApiKept ==
    ASSUME ApiInv, HandlersNext \/ OwnData \/ Decide \/ UNCHANGED api_vars
    PROVE  ApiInv'
<1>1. CASE HandlersNext
  <2>1. ASSUME NEW c \in ApiCallers,
               \/ RefuseCall(c) \/ DatabaseError(c) \/ get_memory(c) \/ ReadForVersion(c)
               \/ InsertVersion(c) \/ promote_scope(c) \/ verify(c) \/ get_lineage(c)
        PROVE  UNCHANGED <<reply, decision>>
    BY <2>1 DEF RefuseCall, DatabaseError, get_memory, ReadForVersion, InsertVersion,
                promote_scope, verify, get_lineage
  <2>2. ASSUME NEW c \in ApiCallers,
               \/ forget_memory(c) \/ soft_delete(c) \/ Enqueue(c) \/ PurgeVersions(c)
               \/ PurgeEvents(c) \/ hard_delete(c) \/ forget_user_data(c) \/ update_task(c)
        PROVE  UNCHANGED <<reply, decision>>
    BY <2>2 DEF forget_memory, soft_delete, Enqueue, PurgeVersions, PurgeEvents, hard_delete,
                forget_user_data, update_task
  <2>3. ASSUME NEW c, NEW op, NEW memory, NEW scope, NEW tenant, NEW user,
               Handle(c, op, memory, scope, tenant, user)
        PROVE  UNCHANGED <<reply, decision>>
    BY <2>3 DEF Handle
  <2>4. ASSUME NEW i, PlaceHolds(i) PROVE UNCHANGED <<reply, decision>>
    BY <2>4 DEF PlaceHolds
  <2>5. UNCHANGED <<reply, decision>>
    BY <1>1, <2>1, <2>2, <2>3, <2>4 DEF HandlersNext
  <2>6. PagesCover' /\ AccessMonotone'
    BY <2>5 DEF ApiInv, PagesCover, AccessMonotone
  <2> QED
    BY <1>1, <2>6, HandlersStep DEF ApiInv
<1>2. CASE OwnData
  <2>1. UNCHANGED <<items, versions, events, task, request, left, purged, decision>>
    BY <1>2 DEF OwnData
  <2>2. AccessMonotone'
    BY <2>1 DEF ApiInv, AccessMonotone
  <2> QED
    BY <1>2, <2>1, <2>2, OwnDataStep, HandlersStill DEF ApiInv
<1>3. CASE Decide
  <2>1. UNCHANGED <<items, versions, events, task, request, left, purged, reply>>
    BY <1>3 DEF Decide
  <2>2. PagesCover'
    BY <2>1 DEF ApiInv, PagesCover
  <2> QED
    BY <1>3, <2>1, <2>2, DecideStep, HandlersStill DEF ApiInv
<1>4. CASE UNCHANGED api_vars
  <2>1. UNCHANGED <<items, versions, events, task, request, left, purged, reply, decision>>
    BY <1>4 DEF api_vars
  <2>2. PagesCover' /\ AccessMonotone'
    BY <2>1 DEF ApiInv, PagesCover, AccessMonotone
  <2> QED
    BY <2>1, <2>2, HandlersStill DEF ApiInv
<1> QED
  BY <1>1, <1>2, <1>3, <1>4

LEMMA ApiBegins == ApiInit => ApiInv
<1> SUFFICES ASSUME ApiInit PROVE ApiInv
  OBVIOUS
<1>1. PagesCover /\ AccessMonotone
  BY DEF ApiInit, PagesCover, AccessMonotone
<1> QED
  BY <1>1, HandlersBegin DEF ApiInv

LEMMA ApiIsSound == ApiInv => ApiSound
  BY DEF ApiInv, HandlersInv, TaskFits, ApiSound

-----------------------------------------------------------------------------
(* The side of the agents: the client, the tools and the contexts.         *)

\* A publication under way is one; what the client signed, it signed well.
PublisherFits ==
    /\ publisher.at \in {"idle", "sent", "done"}
    /\ (publisher.at = "sent" /\ publisher.kind = "share") =>
          publisher.sent.message_type = "publish"

LEMMA OutgoingFacts ==
    ASSUME NEW e
    PROVE  /\ Outgoing(e).message_type = "publish"
           /\ e.signature = "none" => Outgoing(e).signature = Outgoing(e).payload
  BY DEF Outgoing

LEMMA ClientStep ==
    ASSUME ClientTold, PublisherFits, ClientNext
    PROVE  ClientTold' /\ PublisherFits'
<1>1. ASSUME NEW e, NEW key, publish_envelope(e, key) PROVE ClientTold' /\ PublisherFits'
  <2>1. PICK out : out = Outgoing(e)
    OBVIOUS
  <2>2. UNCHANGED shared
    BY <1>1 DEF publish_envelope
  <2>3. CASE publisher'.at = "done" /\ publisher'.result \in {"no_key", "serialization"}
    BY <2>2, <2>3 DEF ClientTold, PublisherFits
  <2>4. CASE publisher' = [at |-> "sent", kind |-> "share", sent |-> out, brought |-> e.signature]
    <3>1. /\ publisher'.at = "sent" /\ publisher'.kind = "share" /\ publisher'.sent = out
          /\ publisher'.brought = e.signature
      BY <2>4
    <3>2. out.message_type = "publish" /\ (e.signature = "none" => out.signature = out.payload)
      BY <2>1, OutgoingFacts
    <3> QED
      BY <2>2, <3>1, <3>2 DEF ClientTold, PublisherFits, Acceptable
  <2> QED
    BY <1>1, <2>1, <2>3, <2>4 DEF publish_envelope
<1>2. ASSUME NEW kind \in ClientCalls, client_call(kind) PROVE ClientTold' /\ PublisherFits'
  BY <1>2 DEF client_call, ClientCalls, ClientTold, PublisherFits
<1>3. CASE RepositoryAnswers
  <2>1. publisher.at = "sent"
    BY <1>3 DEF RepositoryAnswers
  <2>2. ASSUME NEW result, NEW carried, Finish(result, carried)
        PROVE  /\ publisher'.at = "done" /\ publisher'.kind = publisher.kind
               /\ publisher'.sent = publisher.sent /\ publisher'.result = result
               /\ publisher'.carried = carried
    BY <2>2 DEF Finish
  <2>3. ASSUME Acceptable(publisher),
               shared' = IF publisher.kind = "share" THEN shared \cup {publisher.sent} ELSE shared,
               NEW result, Finish(result, TRUE)
        PROVE  ClientTold' /\ PublisherFits'
    BY <2>1, <2>2, <2>3 DEF ClientTold, PublisherFits, Acceptable
  <2>4. ASSUME UNCHANGED shared, NEW result \in {"http", "network"}, Finish(result, FALSE)
        PROVE  ClientTold' /\ PublisherFits'
    BY <2>1, <2>2, <2>4 DEF ClientTold, PublisherFits
  <2> QED
    BY <1>3, <2>3, <2>4 DEF RepositoryAnswers
<1>4. CASE CallAgain
  BY <1>4 DEF CallAgain, ClientTold, PublisherFits
<1> QED
  BY <1>1, <1>2, <1>3, <1>4 DEF ClientNext

\* No required parameter is read leniently, apart from an enumeration with a default.
LEMMA RequiredAreRead ==
    ASSUME NEW name \in DOMAIN ToolParams, NEW j \in 1..Len(ToolParams[name]),
           ToolParams[name][j][1] \in RequiredParams[name]
    PROVE  \/ ToolParams[name][j][2] \in {"uuid", "nonblank", "text"}
           \/ /\ ToolParams[name][j][2] = "enum"
              /\ ToolParams[name][j][1] \in DOMAIN Defaults
              /\ ~(name = "reflect" /\ ToolParams[name][j][1] = "scope")
<1>1. name \in {"remember", "recall", "search", "get_context", "update", "forget", "forget_user",
                "share", "promote", "reflect", "verify", "user_context"}
  BY DEF ToolParams
<1>2. CASE name = "remember"
  BY <1>2 DEF ToolParams, RequiredParams, Defaults, exec_remember
<1>3. CASE name = "recall"
  BY <1>3 DEF ToolParams, RequiredParams, Defaults, exec_recall
<1>4. CASE name = "search"
  BY <1>4 DEF ToolParams, RequiredParams, Defaults, exec_search
<1>5. CASE name = "get_context"
  BY <1>5 DEF ToolParams, RequiredParams, Defaults, exec_get_context
<1>6. CASE name = "update"
  BY <1>6 DEF ToolParams, RequiredParams, Defaults, exec_update
<1>7. CASE name = "forget"
  BY <1>7 DEF ToolParams, RequiredParams, Defaults, exec_forget
<1>8. CASE name = "forget_user"
  BY <1>8 DEF ToolParams, RequiredParams, Defaults
<1>9. CASE name = "share"
  BY <1>9 DEF ToolParams, RequiredParams, Defaults, exec_share
<1>10. CASE name = "promote"
  BY <1>10 DEF ToolParams, RequiredParams, Defaults, exec_promote
<1>11. CASE name = "reflect"
  BY <1>11 DEF ToolParams, RequiredParams, Defaults, exec_reflect
<1>12. CASE name = "verify"
  BY <1>12 DEF ToolParams, RequiredParams, Defaults, exec_verify
<1>13. CASE name = "user_context"
  BY <1>13 DEF ToolParams, RequiredParams, Defaults, exec_user_get_context
<1> QED
  BY <1>1, <1>2, <1>3, <1>4, <1>5, <1>6, <1>7, <1>8, <1>9, <1>10, <1>11, <1>12, <1>13

LEMMA ReadStrictly ==
    ASSUME NEW name, NEW param, NEW need, NEW value \in ParamValues,
           ReadParam(name, param, need, value) # "refused",
           \/ need \in {"uuid", "nonblank", "text"}
           \/ need = "enum" /\ param \in DOMAIN Defaults /\ ~(name = "reflect" /\ param = "scope")
    PROVE  /\ value # "odd"
           /\ value = "missing" =>
                 ReadParam(name, param, need, value)
                    \in {"agent_inferred", "semantic", "soft", "personal"}
<1>1. CASE need \in {"uuid", "nonblank", "text"}
  BY <1>1 DEF ReadParam, ParamValues
<1>2. CASE need = "enum" /\ param \in DOMAIN Defaults /\ ~(name = "reflect" /\ param = "scope")
  <2>1. Defaults[param] \in {"agent_inferred", "semantic", "soft", "personal"}
    BY <1>2 DEF Defaults
  <2>2. ReadParam(name, param, need, value) = parse_enum(name, param, value)
    BY <1>2 DEF ReadParam
  <2> HIDE DEF Defaults
  <2>3. value = "odd" => parse_enum(name, param, value) = "refused"
    BY DEF parse_enum
  <2>4. value = "missing" => parse_enum(name, param, value) = Defaults[param]
    BY <1>2 DEF parse_enum
  <2> QED
    BY <2>1, <2>2, <2>3, <2>4
<1> QED
  BY <1>1, <1>2

LEMMA RefusalFacts ==
    ASSUME NEW r, r = [is_error |-> TRUE, result |-> "invalid params"]
    PROVE  r.is_error
  OBVIOUS

LEMMA AnswerFacts ==
    ASSUME NEW hit \in {"own", "foreign", "none", "error"}, ~Answer("recall", hit).is_error
    PROVE  Answer("recall", hit).result # "foreign"
<1>1. Answer("recall", "foreign").is_error
  BY DEF Answer
<1>2. hit # "foreign"
  BY <1>1
<1> QED
  BY <1>2 DEF Answer

LEMMA ToolStep ==
    ASSUME ToolNext
    PROVE  ToolsCareful'
<1>1. ASSUME NEW name \in DOMAIN ToolParams, execute_tool(name) PROVE ToolsCareful'
  <2>1. PICK given \in [1..Len(ToolParams[name]) -> ParamValues],
             hit \in {"own", "foreign", "none", "error"} :
          LET params == ToolParams[name]
              read == [j \in DOMAIN given |-> ReadParam(name, params[j][1], params[j][2], given[j])]
              unread == \E j \in DOMAIN read : read[j] = "refused"
          IN tool' = [name |-> name, given |-> given, read |-> read, called |-> ~unread,
                      response |-> IF unread THEN [is_error |-> TRUE, result |-> "invalid params"]
                                   ELSE Answer(name, hit)]
    BY <1>1 DEF execute_tool
  <2>2. PICK read : read = [j \in DOMAIN given |->
                              ReadParam(name, ToolParams[name][j][1], ToolParams[name][j][2], given[j])]
    OBVIOUS
  <2>3. /\ DOMAIN read = DOMAIN given /\ DOMAIN given = 1..Len(ToolParams[name])
        /\ \A j \in DOMAIN given : read[j] =
              ReadParam(name, ToolParams[name][j][1], ToolParams[name][j][2], given[j])
    BY <2>2
  <2>4. /\ tool'.name = name /\ tool'.given = given /\ tool'.read = read
        /\ tool'.called <=> ~\E j \in DOMAIN read : read[j] = "refused"
        /\ tool'.response = IF \E j \in DOMAIN read : read[j] = "refused"
                            THEN [is_error |-> TRUE, result |-> "invalid params"]
                            ELSE Answer(name, hit)
    BY <2>1, <2>2
  <2>5. ASSUME tool'.called, NEW j \in DOMAIN given,
               ToolParams[name][j][1] \in RequiredParams[name]
        PROVE  /\ given[j] # "odd"
               /\ given[j] = "missing" =>
                     read[j] \in {"agent_inferred", "semantic", "soft", "personal"}
    <3>1. read[j] # "refused" /\ given[j] \in ParamValues
      BY <2>3, <2>4, <2>5
    <3> QED
      BY <2>3, <2>5, <3>1, RequiredAreRead, ReadStrictly
  <2>6. ASSUME name = "recall", ~tool'.response.is_error
        PROVE  tool'.response.result # "foreign"
    <3>1. CASE \E j \in DOMAIN read : read[j] = "refused"
      <4>1. tool'.response = [is_error |-> TRUE, result |-> "invalid params"]
        BY <2>4, <3>1
      <4> QED
        BY <2>6, <4>1, RefusalFacts
    <3>2. CASE ~\E j \in DOMAIN read : read[j] = "refused"
      <4>1. tool'.response = Answer("recall", hit)
        BY <2>4, <2>6, <3>2
      <4> QED
        BY <2>6, <4>1, AnswerFacts
    <3> QED
      BY <3>1, <3>2
  <2> QED
    BY <2>4, <2>5, <2>6 DEF ToolsCareful
<1>2. ASSUME NEW error, RejectTool(error) PROVE ToolsCareful'
  BY <1>2 DEF RejectTool, ToolsCareful
<1> QED
  BY <1>1, <1>2 DEF ToolNext

Written(S, style) == {Spelled(s, style) : s \in S}

ReadFrom(names) == UNION {parse_context_source(n) : n \in names}

\* What is written under either spelling is read back.
LEMMA SourcesReadBack ==
    ASSUME NEW S \in SUBSET ContextSources, NEW style \in {"variant", "snake"},
           NEW names, NEW other,
           names = Written(S, style) \cup other,
           \A n \in other : parse_context_source(n) = {}
    PROVE  ReadFrom(names) = S
<1>1. ASSUME NEW s \in S PROVE parse_context_source(Spelled(s, style)) = {s}
  BY DEF parse_context_source, Spelled
<1>2. ASSUME NEW x \in ReadFrom(names) PROVE x \in S
  <2>1. PICK n \in names : x \in parse_context_source(n)
    BY <1>2 DEF ReadFrom
  <2>2. PICK s \in S : n = Spelled(s, style)
    BY <2>1 DEF Written
  <2> QED
    BY <1>1, <2>1, <2>2
<1>3. ASSUME NEW s \in S PROVE s \in ReadFrom(names)
  <2>1. Spelled(s, style) \in names /\ s \in parse_context_source(Spelled(s, style))
    BY <1>1 DEF Written
  <2> QED
    BY <2>1 DEF ReadFrom
<1> QED
  BY <1>2, <1>3

LEMMA VariantsReadBack ==
    ASSUME NEW S \in SUBSET ContextSources
    PROVE  ReadFrom(Written(S, "variant")) = S
<1>1. PICK other : other = {}
  OBVIOUS
<1>2. Written(S, "variant") = Written(S, "variant") \cup other
  BY <1>1
<1>3. \A n \in other : parse_context_source(n) = {}
  BY <1>1
<1> QED
  BY <1>2, <1>3, SourcesReadBack

LEMMA WeatherIsNoSource == parse_context_source(Spelled("Weather", "variant")) = {}
  BY DEF parse_context_source, Spelled, ContextSources

LEMMA RawsFacts ==
    ASSUME NEW ctx \in Contexts, NEW raw \in Raws(ctx), raw.json
    PROVE  /\ raw.token_count = ctx.token_count
           /\ raw.degraded_sources = Written(ctx.degraded_sources, "variant")
           /\ \/ raw.sources_used = Written(ctx.sources_used, "variant")
              \/ raw.sources_used = Written(ctx.sources_used, "snake")
                                       \cup {Spelled("Weather", "variant")}
<1>1. PICK A : A = Written(ctx.sources_used, "variant")
  OBVIOUS
<1>2. PICK D : D = Written(ctx.degraded_sources, "variant")
  OBVIOUS
<1>3. PICK B : B = Written(ctx.sources_used, "snake") \cup {Spelled("Weather", "variant")}
  OBVIOUS
<1>4. PICK json : json = [json |-> TRUE, text |-> ctx.text, token_count |-> ctx.token_count,
                          sources_used |-> A, degraded_sources |-> D]
  OBVIOUS
<1>5. raw \in {json, [json EXCEPT !.json = FALSE], [json EXCEPT !.sources_used = B]}
  BY <1>1, <1>2, <1>3, <1>4 DEF Raws, assembled_context_to_json, Written
<1>6. raw.token_count = ctx.token_count /\ raw.degraded_sources = D
      /\ (raw.sources_used = A \/ raw.sources_used = B)
  BY <1>4, <1>5
<1> QED
  BY <1>1, <1>2, <1>3, <1>6

LEMMA ParsedFacts ==
    ASSUME NEW raw, raw.json
    PROVE  LET result == parse_context_response(raw) IN
           /\ result.sources_used = ReadFrom(raw.sources_used)
           /\ result.degraded_sources = ReadFrom(raw.degraded_sources)
           /\ raw.token_count > 0 => result.token_count = raw.token_count
  BY DEF parse_context_response, ReadFrom

LEMMA ReadBackStep ==
    ASSUME NEW ctx \in Contexts, read_context_with_token(ctx)
    PROVE  ContextReadBack'
<1>1. ctx.sources_used \subseteq ContextSources /\ ctx.degraded_sources \subseteq ContextSources
  BY DEF Contexts, ContextSources
<1>2. ASSUME NEW raw \in Raws(ctx),
             prompt' = [of |-> "read", ctx |-> ctx, raw |-> raw, result |-> parse_context_response(raw)]
      PROVE  ContextReadBack'
  <2>1. PICK result : result = parse_context_response(raw)
    OBVIOUS
  <2>2. prompt'.ctx = ctx /\ prompt'.raw = raw /\ prompt'.result = result
    BY <1>2, <2>1
  <2>3. ASSUME raw.json
        PROVE  /\ result.sources_used = ctx.sources_used
               /\ result.degraded_sources = ctx.degraded_sources
               /\ ctx.token_count > 0 => result.token_count = ctx.token_count
    <3>1. /\ result.sources_used = ReadFrom(raw.sources_used)
          /\ result.degraded_sources = ReadFrom(raw.degraded_sources)
          /\ raw.token_count > 0 => result.token_count = raw.token_count
      BY <2>1, <2>3, ParsedFacts
    <3>2. ReadFrom(raw.degraded_sources) = ctx.degraded_sources
      <4>1. raw.degraded_sources = Written(ctx.degraded_sources, "variant")
        BY <2>3, RawsFacts
      <4> QED
        BY <1>1, <4>1, VariantsReadBack
    <3>3. ReadFrom(raw.sources_used) = ctx.sources_used
      <4>1. CASE raw.sources_used = Written(ctx.sources_used, "variant")
        BY <1>1, <4>1, VariantsReadBack
      <4>2. CASE raw.sources_used = Written(ctx.sources_used, "snake")
                                       \cup {Spelled("Weather", "variant")}
        <5>1. \A n \in {Spelled("Weather", "variant")} : parse_context_source(n) = {}
          BY WeatherIsNoSource
        <5> QED
          BY <1>1, <4>2, <5>1, SourcesReadBack
      <4> QED
        BY <2>3, <4>1, <4>2, RawsFacts
    <3>4. raw.token_count = ctx.token_count
      BY <2>3, RawsFacts
    <3> QED
      BY <3>1, <3>2, <3>3, <3>4
  <2> QED
    BY <2>2, <2>3 DEF ContextReadBack
<1>3. ASSUME NEW error, prompt' = [of |-> "error", error |-> error] PROVE ContextReadBack'
  BY <1>3 DEF ContextReadBack
<1> QED
  BY <1>2, <1>3 DEF read_context_with_token

-----------------------------------------------------------------------------
(* The adapter: requests that come late, and what its caller is told.      *)

AgentFields == {"at", "op", "what", "calls", "sent", "ended"}

\* Everything before the i-th candidate has been taken in.
TakenBefore(i) == \A k \in DOMAIN Results : k < i => Results[k] \in taken

\* A request was sent by a numbered call, and a candidate only after those before it.
Dispatched ==
    \A r \in outbound :
        /\ r.n \in Nat /\ r.n <= agent.sent
        /\ \A j \in DOMAIN Results : r.what = Results[j] => TakenBefore(j)

\* Where the adapter is, and what the request it waits for is about.
CallFits ==
    /\ DOMAIN agent = AgentFields /\ agent.sent \in Nat
    /\ agent.at \in {"free", "next", "wait"}
    /\ agent.at = "next" =>
          agent.op = "results" /\ agent.what \in 1..(Len(Results) + 1) /\ TakenBefore(agent.what)
    /\ agent.at = "wait" => agent.op \in {"results", "one"}
    /\ (agent.at = "wait" /\ agent.op = "results") =>
          /\ agent.what \in DOMAIN Results /\ TakenBefore(agent.what)
          /\ \A r \in outbound : r.n = agent.sent => r.what = Results[agent.what]
    /\ (agent.at = "wait" /\ agent.op = "one") =>
          \A r \in outbound : r.n = agent.sent => r.what = agent.what

AdapterInv == Dispatched /\ CallFits /\ ResultsHandedIn

LEMMA ResultsFacts ==
    /\ Len(Results) \in Nat /\ DOMAIN Results = 1..Len(Results)
    /\ \A k \in DOMAIN Results : Results[k] \in Range(Results)
    /\ \A x \in Range(Results) : \E k \in DOMAIN Results : Results[k] = x
  BY ResultsAssumption DEF Range

\* Everything before the end is everything.
LEMMA AllTaken == ASSUME TakenBefore(Len(Results) + 1) PROVE Range(Results) \subseteq taken
<1> SUFFICES ASSUME NEW x \in Range(Results) PROVE x \in taken
  OBVIOUS
<1>1. PICK k \in DOMAIN Results : Results[k] = x
  BY ResultsFacts
<1>2. k < Len(Results) + 1
  BY ResultsFacts
<1> QED
  BY <1>1, <1>2 DEF TakenBefore

\* A call that begins or ends without a request.
LEMMA NoRequestSteps ==
    ASSUME AdapterInv,
           (\E supports \in BOOLEAN : submit_results(supports)) \/ complete_handoff
           \/ AdapterTimesOut \/ promote_memory("personal")
    PROVE  AdapterInv'
<1>1. UNCHANGED <<outbound, taken>> /\ DOMAIN agent = AgentFields
      /\ ("results" \in finished' => "results" \in finished)
  BY DEF submit_results, complete_handoff, AdapterTimesOut, promote_memory, AdapterInv, CallFits
<1>2. DOMAIN agent' = AgentFields /\ agent'.sent = agent.sent
  BY <1>1 DEF submit_results, complete_handoff, AdapterTimesOut, promote_memory, Returns, AgentFields
<1>3. CASE agent'.at = "next" /\ agent'.op = "results" /\ agent'.what = 1 /\ agent'.ended = agent.ended
  <2>1. 1 \in 1..(Len(Results) + 1) /\ \A k \in DOMAIN Results : ~(k < 1)
    BY ResultsFacts
  <2>2. Dispatched'
    BY <1>1, <1>2 DEF AdapterInv, Dispatched, TakenBefore
  <2>3. CallFits'
    BY <1>1, <1>2, <1>3, <2>1 DEF AdapterInv, CallFits, TakenBefore
  <2>4. ResultsHandedIn'
    BY <1>1, <1>3 DEF AdapterInv, ResultsHandedIn
  <2> QED
    BY <2>2, <2>3, <2>4 DEF AdapterInv
<1>4. CASE agent'.at = "free" /\ (~agent'.ended.ok \/ agent'.ended.op \in {"handoff", "unsupported"})
  <2>1. Dispatched'
    BY <1>1, <1>2 DEF AdapterInv, Dispatched, TakenBefore
  <2>2. CallFits'
    BY <1>1, <1>2, <1>4 DEF AdapterInv, CallFits
  <2>3. ResultsHandedIn'
    BY <1>1, <1>4 DEF AdapterInv, ResultsHandedIn
  <2> QED
    BY <2>1, <2>2, <2>3 DEF AdapterInv
<1>5. ASSUME NEW supports \in BOOLEAN, submit_results(supports)
      PROVE  \/ agent'.at = "next" /\ agent'.op = "results" /\ agent'.what = 1 /\ agent'.ended = agent.ended
             \/ agent'.at = "free" /\ agent'.ended.op = "unsupported"
  BY <1>1, <1>5 DEF submit_results, CanCall, AgentFields
<1>6. ASSUME complete_handoff \/ AdapterTimesOut \/ promote_memory("personal")
      PROVE  agent'.at = "free" /\ (~agent'.ended.ok \/ agent'.ended.op = "handoff")
  <2>1. CASE complete_handoff
    <3>1. agent.at = "free"
          /\ \E ok \in BOOLEAN :
                agent' = [agent EXCEPT !.calls = @ + 1,
                                       !.ended = [op |-> "handoff", what |-> 0, ok |-> ok]]
      BY <2>1 DEF complete_handoff, CanCall
    <3>2. PICK e : e.op = "handoff" /\ agent' = [agent EXCEPT !.calls = @ + 1, !.ended = e]
      BY <3>1
    <3>3. agent'.at = agent.at /\ agent'.ended = e
      BY <1>1, <3>2 DEF AgentFields
    <3> QED
      BY <3>1, <3>2, <3>3
  <2>2. CASE AdapterTimesOut
    <3>1. agent' = [agent EXCEPT !.at = "free",
                                 !.ended = [op |-> agent.op, what |-> agent.what, ok |-> FALSE]]
      BY <2>2 DEF AdapterTimesOut, Returns
    <3>2. /\ agent'.at = "free"
          /\ agent'.ended = [op |-> agent.op, what |-> agent.what, ok |-> FALSE]
      BY <1>1, <3>1 DEF AgentFields
    <3> QED
      BY <3>2
  <2>3. CASE promote_memory("personal")
    <3>1. /\ agent.at = "free"
          /\ agent' = [agent EXCEPT !.calls = @ + 1,
                                    !.ended = [op |-> "one", what |-> "personal", ok |-> FALSE]]
      BY <2>3 DEF promote_memory, CanCall
    <3>2. agent'.at = "free" /\ agent'.ended = [op |-> "one", what |-> "personal", ok |-> FALSE]
      BY <1>1, <3>1 DEF AgentFields
    <3> QED
      BY <3>2
  <2> QED
    BY <1>6, <2>1, <2>2, <2>3
<1> QED
  BY <1>3, <1>4, <1>5, <1>6

\* A call that sends one request for itself.
LEMMA OneRequestSteps ==
    ASSUME AdapterInv, submit_candidate_memory \/ promote_memory("team")
    PROVE  AdapterInv'
<1>1. PICK what \in {"note", "team"} :
         /\ Asks(what) /\ UNCHANGED <<taken, finished>>
         /\ agent' = [agent EXCEPT !.at = "wait", !.op = "one", !.what = what,
                                   !.calls = @ + 1, !.sent = @ + 1]
  BY DEF submit_candidate_memory, promote_memory
<1>2. DOMAIN agent = AgentFields /\ agent.sent \in Nat
  BY DEF AdapterInv, CallFits
<1>3. /\ DOMAIN agent' = AgentFields /\ agent'.at = "wait" /\ agent'.op = "one"
      /\ agent'.what = what /\ agent'.sent = agent.sent + 1 /\ agent'.ended = agent.ended
  BY <1>1, <1>2 DEF AgentFields
<1>4. PICK q : q = [n |-> agent.sent + 1, what |-> what]
  OBVIOUS
<1>5. q.n = agent.sent + 1 /\ q.what = what /\ outbound' = outbound \cup {q}
  BY <1>1, <1>4 DEF Asks
<1>6. \A j \in DOMAIN Results : what # Results[j]
  BY ResultsAssumption, ResultsFacts
<1>7. \A r \in outbound : r.n \in Nat /\ r.n <= agent.sent
  BY DEF AdapterInv, Dispatched
<1>8. Dispatched'
  BY <1>1, <1>2, <1>3, <1>5, <1>6, <1>7 DEF AdapterInv, Dispatched, TakenBefore
<1>9. CallFits'
  BY <1>2, <1>3, <1>5, <1>7 DEF CallFits
<1>10. ResultsHandedIn'
  BY <1>1, <1>3 DEF AdapterInv, ResultsHandedIn
<1> QED
  BY <1>8, <1>9, <1>10 DEF AdapterInv

LEMMA SubmitNextStep ==
    ASSUME AdapterInv, SubmitNext
    PROVE  AdapterInv'
<1>1. /\ agent.at = "next" /\ agent.what <= Len(Results) /\ UNCHANGED <<taken, finished>>
      /\ agent' = [agent EXCEPT !.at = "wait", !.sent = @ + 1]
      /\ DOMAIN agent = AgentFields /\ agent.sent \in Nat
      /\ agent.op = "results" /\ agent.what \in 1..(Len(Results) + 1) /\ TakenBefore(agent.what)
  BY DEF SubmitNext, AdapterInv, CallFits
<1>2. agent.what \in DOMAIN Results
  BY <1>1, ResultsFacts
<1>3. /\ DOMAIN agent' = AgentFields /\ agent'.at = "wait" /\ agent'.op = "results"
      /\ agent'.what = agent.what /\ agent'.sent = agent.sent + 1 /\ agent'.ended = agent.ended
  BY <1>1 DEF AgentFields
<1>4. PICK q : q = [n |-> agent.sent + 1, what |-> Results[agent.what]]
  OBVIOUS
<1>5. q.n = agent.sent + 1 /\ q.what = Results[agent.what] /\ outbound' = outbound \cup {q}
  BY <1>4 DEF Asks, SubmitNext
<1>6. \A j \in DOMAIN Results : q.what = Results[j] => TakenBefore(j)
  BY <1>1, <1>2, <1>5, ResultsAssumption
<1>7. \A r \in outbound : r.n \in Nat /\ r.n <= agent.sent
  BY DEF AdapterInv, Dispatched
<1>8. Dispatched'
  BY <1>1, <1>3, <1>5, <1>6, <1>7 DEF AdapterInv, Dispatched, TakenBefore
<1>9. CallFits'
  BY <1>1, <1>2, <1>3, <1>5, <1>7 DEF CallFits, TakenBefore
<1>10. ResultsHandedIn'
  BY <1>1, <1>3 DEF AdapterInv, ResultsHandedIn
<1> QED
  BY <1>8, <1>9, <1>10 DEF AdapterInv

LEMMA FinishTaskStep ==
    ASSUME AdapterInv, FinishTask
    PROVE  AdapterInv'
<1>1. /\ agent.at = "next" /\ agent.what > Len(Results) /\ UNCHANGED <<outbound, taken>>
      /\ DOMAIN agent = AgentFields /\ agent.sent \in Nat
      /\ agent.what \in 1..(Len(Results) + 1) /\ TakenBefore(agent.what)
      /\ \E ok : Returns("results", ok)
  BY DEF FinishTask, AdapterInv, CallFits
<1>2. agent.what = Len(Results) + 1
  BY <1>1, ResultsFacts
<1>3. Range(Results) \subseteq taken
  BY <1>1, <1>2, AllTaken
<1>4. /\ DOMAIN agent' = AgentFields /\ agent'.at = "free" /\ agent'.sent = agent.sent
      /\ agent'.ended.op = "results"
  BY <1>1 DEF Returns, AgentFields
<1>5. Dispatched'
  BY <1>1, <1>4 DEF AdapterInv, Dispatched, TakenBefore
<1>6. CallFits'
  BY <1>1, <1>4 DEF CallFits
<1>7. ResultsHandedIn'
  BY <1>1, <1>3, <1>4 DEF AdapterInv, ResultsHandedIn
<1> QED
  BY <1>5, <1>6, <1>7 DEF AdapterInv

\* The service has dealt with a request: its caller hears of it, or does not.
LEMMA AnsweredSteps ==
    ASSUME AdapterInv, NEW r \in outbound, ServiceTakes(r) \/ ServiceRefuses(r)
    PROVE  AdapterInv'
<1>1. /\ outbound' = outbound \ {r} /\ UNCHANGED finished
      /\ \E ok \in BOOLEAN : /\ taken' = IF ok THEN taken \cup {r.what} ELSE taken
                             /\ Heard(r, ok) \/ UNCHANGED agent
  BY DEF ServiceTakes, ServiceRefuses
<1>2. PICK ok \in BOOLEAN : /\ taken' = IF ok THEN taken \cup {r.what} ELSE taken
                            /\ Heard(r, ok) \/ UNCHANGED agent
  BY <1>1
<1>3. /\ DOMAIN agent = AgentFields /\ CallFits /\ Dispatched /\ ResultsHandedIn
      /\ taken \subseteq taken'
  BY <1>2 DEF AdapterInv, CallFits
<1>4. \A i : TakenBefore(i) => TakenBefore(i)'
  BY <1>3 DEF TakenBefore
<1>5. ASSUME NEW j \in DOMAIN Results, Results[j] \in taken' PROVE TakenBefore(j)'
  <2>1. CASE Results[j] \in taken
    BY <1>3, <2>1 DEF ResultsHandedIn, TakenBefore
  <2>2. CASE Results[j] = r.what
    BY <1>3, <1>4, <2>2 DEF Dispatched
  <2> QED
    BY <1>2, <1>5, <2>1, <2>2
<1>6. \/ UNCHANGED agent
      \/ /\ agent.at = "wait" /\ agent.sent = r.n /\ ok /\ agent.op = "results"
         /\ agent' = [agent EXCEPT !.at = "next", !.what = @ + 1]
      \/ /\ agent.at = "wait" /\ agent.sent = r.n /\ (ok => agent.op # "results")
         /\ Returns(agent.op, ok)
  BY <1>2 DEF Heard
<1>7. Dispatched'
  <2>1. agent'.sent = agent.sent
    BY <1>3, <1>6 DEF Returns, AgentFields
  <2> QED
    BY <1>1, <1>3, <1>4, <2>1 DEF Dispatched
<1>8. ASSUME agent'.ended = agent.ended PROVE ResultsHandedIn'
  BY <1>1, <1>3, <1>5, <1>8 DEF ResultsHandedIn, TakenBefore
<1>9. CASE UNCHANGED agent
  <2>1. CallFits'
    BY <1>1, <1>3, <1>4, <1>9 DEF CallFits
  <2> QED
    BY <1>7, <1>8, <1>9, <2>1 DEF AdapterInv
<1>10. CASE /\ agent.at = "wait" /\ agent.sent = r.n /\ ok /\ agent.op = "results"
            /\ agent' = [agent EXCEPT !.at = "next", !.what = @ + 1]
  <2>1. PICK i : i = agent.what
    OBVIOUS
  <2>2. /\ i \in DOMAIN Results /\ TakenBefore(i) /\ r.what = Results[i] /\ agent.sent \in Nat
    BY <1>3, <1>10, <2>1 DEF CallFits
  <2>3. i + 1 \in 1..(Len(Results) + 1)
        /\ \A k \in DOMAIN Results : k < i + 1 => k < i \/ k = i
    BY <2>2, ResultsFacts
  <2>4. r.what \in taken'
    BY <1>2, <1>10
  <2>5. TakenBefore(i + 1)'
    BY <1>3, <2>2, <2>3, <2>4 DEF TakenBefore
  <2>6. /\ DOMAIN agent' = AgentFields /\ agent'.at = "next" /\ agent'.op = "results"
        /\ agent'.what = i + 1 /\ agent'.sent = agent.sent /\ agent'.ended = agent.ended
    BY <1>3, <1>10, <2>1 DEF AgentFields
  <2>7. CallFits'
    <3>1. TakenBefore(agent.what)'
      BY <2>5, <2>6 DEF TakenBefore
    <3> QED
      BY <2>2, <2>3, <2>6, <3>1 DEF CallFits
  <2> QED
    BY <1>7, <1>8, <2>6, <2>7 DEF AdapterInv
<1>11. CASE /\ agent.at = "wait" /\ agent.sent = r.n /\ (ok => agent.op # "results")
            /\ Returns(agent.op, ok)
  <2>1. PICK e : e = [op |-> agent.op, what |-> agent.what, ok |-> ok]
    OBVIOUS
  <2>2. e.op = agent.op /\ e.what = agent.what /\ (e.ok <=> ok)
    BY <2>1
  <2>3. agent' = [agent EXCEPT !.at = "free", !.ended = e]
    BY <1>11, <2>1 DEF Returns
  <2>4. /\ DOMAIN agent' = AgentFields /\ agent'.at = "free" /\ agent'.sent = agent.sent
        /\ agent'.ended = e
    BY <1>3, <2>3 DEF AgentFields
  <2>5. CallFits'
    BY <1>3, <2>4 DEF CallFits
  <2>6. ~(e.ok /\ e.op = "results")
    BY <1>11, <2>2
  <2>7. ASSUME e.ok, e.op = "one" PROVE e.what \in taken'
    <3>1. r.what = agent.what
      BY <1>3, <1>11, <2>2, <2>7 DEF CallFits
    <3> QED
      BY <1>2, <2>2, <2>7, <3>1
  <2>8. ResultsHandedIn'
    BY <1>1, <1>3, <1>5, <2>4, <2>6, <2>7 DEF ResultsHandedIn, TakenBefore
  <2> QED
    BY <1>7, <2>5, <2>8 DEF AdapterInv
<1> QED
  BY <1>6, <1>9, <1>10, <1>11

LEMMA AdapterSideStep ==
    ASSUME AdapterInv, AdapterSideNext
    PROVE  AdapterInv'
  BY NoRequestSteps, OneRequestSteps, SubmitNextStep, FinishTaskStep, AnsweredSteps
     DEF AdapterSideNext

LEMMA AdapterStill ==
    ASSUME AdapterInv, UNCHANGED <<agent, outbound, taken, finished>>
    PROVE  AdapterInv'
<1>1. Dispatched' /\ ResultsHandedIn'
  BY DEF AdapterInv, Dispatched, ResultsHandedIn, TakenBefore
<1>2. CallFits'
  BY DEF AdapterInv, CallFits, TakenBefore
<1> QED
  BY <1>1, <1>2 DEF AdapterInv

-----------------------------------------------------------------------------
(* The task tools: the row, the copy and those who read them.              *)

\* What a caller of the tools has seen.
ToolFits(c) ==
    LET r == board.callers[c] IN
    /\ r.at \in {"idle", "drop", "look", "fill", "answered"}
    /\ r.at \in {"drop", "look"} => DOMAIN r = {"at", "op"}
    /\ r.at = "fill" =>
          DOMAIN r = {"at", "op", "context", "old"} /\ (r.old \/ r.context = board.row)
    /\ (r.at # "idle" /\ r.op = "update") => c \in board.row
    /\ (r.at = "answered" /\ r.op = "update") => c \in r.context \/ r.old

\* A copy that nobody knows to be old has what every finished update added.
TaskCopyFits ==
    board.copy # Unanswered =>
        /\ DOMAIN board.copy = {"row", "old"}
        /\ \/ board.copy.old
           \/ \A c \in ToolCallers :
                 LET r == board.callers[c] IN
                 (r.at \in {"look", "fill", "answered"} /\ r.op = "update") => c \in board.copy.row

BoardInv ==
    /\ DOMAIN board = {"row", "copy", "callers"} /\ DOMAIN board.callers = ToolCallers
    /\ \A c \in ToolCallers : ToolFits(c)
    /\ TaskCopyFits

\* One caller moves on; the row is as it was.
LEMMA OneCaller ==
    ASSUME BoardInv, NEW c \in ToolCallers, NEW r,
           DOMAIN board' = {"row", "copy", "callers"}, board'.row = board.row,
           board'.callers = [board.callers EXCEPT ![c] = r],
           ToolFits(c)', TaskCopyFits'
    PROVE  BoardInv'
<1>1. DOMAIN board'.callers = ToolCallers
      /\ \A d \in ToolCallers : d # c => board'.callers[d] = board.callers[d]
  BY DEF BoardInv
<1>2. ASSUME NEW d \in ToolCallers, d # c PROVE ToolFits(d)'
  <2>1. ToolFits(d) /\ board'.callers[d] = board.callers[d]
    BY <1>1, <1>2 DEF BoardInv
  <2> QED
    BY <2>1 DEF ToolFits
<1> QED
  BY <1>1, <1>2 DEF BoardInv

\* The same copy is as good as it was for a caller who has added nothing of late.
LEMMA SameCopy ==
    ASSUME BoardInv, NEW c \in ToolCallers, NEW r,
           board'.copy = board.copy, board'.callers = [board.callers EXCEPT ![c] = r],
           \/ ~(r.at \in {"look", "fill", "answered"} /\ r.op = "update")
           \/ board.callers[c].at \in {"look", "fill", "answered"} /\ board.callers[c].op = "update"
    PROVE  TaskCopyFits'
<1>1. board'.callers[c] = r /\ \A d \in ToolCallers : d # c => board'.callers[d] = board.callers[d]
  BY DEF BoardInv
<1>2. TaskCopyFits
  BY DEF BoardInv
<1> QED
  BY <1>1, <1>2 DEF TaskCopyFits

LEMMA OutdatedFacts ==
    ASSUME BoardInv
    PROVE  /\ DOMAIN Outdated(board.callers) = ToolCallers
           /\ \A d \in ToolCallers :
                 LET r == board.callers[d]
                     q == Outdated(board.callers)[d]
                 IN /\ r.at # "fill" => q = r
                    /\ r.at = "fill" => /\ q.at = "fill" /\ q.op = r.op /\ q.old
                                        /\ DOMAIN q = {"at", "op", "context", "old"}
<1>1. ASSUME NEW d \in ToolCallers, board.callers[d].at = "fill"
      PROVE  LET q == Outdated(board.callers)[d]
             IN /\ q.at = "fill" /\ q.op = board.callers[d].op /\ q.old
                /\ DOMAIN q = {"at", "op", "context", "old"}
  <2>1. DOMAIN board.callers[d] = {"at", "op", "context", "old"}
    BY <1>1 DEF BoardInv, ToolFits
  <2>2. Outdated(board.callers)[d] = [board.callers[d] EXCEPT !.old = TRUE]
    BY <1>1 DEF Outdated
  <2> QED
    BY <1>1, <2>1, <2>2
<1>2. \A d \in ToolCallers : board.callers[d].at # "fill" => Outdated(board.callers)[d] = board.callers[d]
  BY DEF Outdated
<1>3. DOMAIN Outdated(board.callers) = ToolCallers
  BY DEF Outdated
<1> QED
  BY <1>1, <1>2, <1>3

LEMMA UpdateContextStep ==
    ASSUME BoardInv, NEW c \in ToolCallers, exec_task_update_context(c)
    PROVE  BoardInv'
<1>1. DOMAIN board = {"row", "copy", "callers"} /\ DOMAIN board.callers = ToolCallers
      /\ board.callers[c].at = "idle"
  BY DEF BoardInv, exec_task_update_context
<1>2. CASE board' = [board EXCEPT !.row = @ \cup {c},
                                  !.callers = [Outdated(@) EXCEPT ![c] = [at |-> "drop", op |-> "update"]]]
  <2>1. PICK f : f = [Outdated(board.callers) EXCEPT ![c] = [at |-> "drop", op |-> "update"]]
    OBVIOUS
  <2>2. /\ DOMAIN f = ToolCallers /\ f[c] = [at |-> "drop", op |-> "update"]
        /\ \A d \in ToolCallers : d # c => f[d] = Outdated(board.callers)[d]
    BY <2>1, OutdatedFacts
  <2>3. board' = [board EXCEPT !.row = @ \cup {c}, !.callers = f]
    BY <1>2, <2>1
  <2>4. /\ DOMAIN board' = {"row", "copy", "callers"} /\ board'.row = board.row \cup {c}
        /\ board'.copy = board.copy /\ board'.callers = f
    BY <1>1, <2>3
  <2>5. f[c].at = "drop" /\ f[c].op = "update" /\ DOMAIN f[c] = {"at", "op"}
    BY <2>2
  <2>6. ToolFits(c)'
    BY <2>4, <2>5 DEF ToolFits
  <2>7. ASSUME NEW d \in ToolCallers, d # c
        PROVE  ToolFits(d)' /\ f[d].at = board.callers[d].at
               /\ (f[d].at # "idle" => f[d].op = board.callers[d].op)
    <3>1. ToolFits(d) /\ f[d] = Outdated(board.callers)[d]
      BY <2>2, <2>7 DEF BoardInv
    <3>2. CASE board.callers[d].at = "fill"
      <4>1. /\ f[d].at = "fill" /\ f[d].op = board.callers[d].op /\ f[d].old
            /\ DOMAIN f[d] = {"at", "op", "context", "old"}
        BY <3>1, <3>2, OutdatedFacts
      <4> QED
        BY <2>4, <3>1, <3>2, <4>1 DEF ToolFits
    <3>3. CASE board.callers[d].at # "fill"
      <4>1. f[d] = board.callers[d]
        BY <3>1, <3>3, OutdatedFacts
      <4> QED
        BY <2>4, <3>1, <3>3, <4>1 DEF ToolFits
    <3> QED
      BY <3>2, <3>3
  <2>8. TaskCopyFits'
    <3>1. TaskCopyFits
      BY DEF BoardInv
    <3>2. \A d \in ToolCallers : (f[d].at \in {"look", "fill", "answered"} /\ f[d].op = "update") =>
             board.callers[d].at \in {"look", "fill", "answered"} /\ board.callers[d].op = "update"
      BY <2>5, <2>7
    <3> QED
      BY <2>4, <3>1, <3>2 DEF TaskCopyFits
  <2> QED
    BY <2>2, <2>4, <2>6, <2>7, <2>8 DEF BoardInv
<1>3. CASE board' = [board EXCEPT !.callers[c] = [at |-> "answered", op |-> "failed"]]
  <2>1. PICK r : r = [at |-> "answered", op |-> "failed"]
    OBVIOUS
  <2>2. r.at = "answered" /\ r.op = "failed"
    BY <2>1
  <2>3. /\ DOMAIN board' = {"row", "copy", "callers"} /\ board'.row = board.row
        /\ board'.copy = board.copy /\ board'.callers = [board.callers EXCEPT ![c] = r]
    BY <1>1, <1>3, <2>1
  <2>4. board'.callers[c] = r
    BY <1>1, <2>3
  <2>5. ToolFits(c)'
    BY <2>2, <2>4 DEF ToolFits
  <2>6. TaskCopyFits'
    BY <2>2, <2>3, SameCopy
  <2> QED
    BY <2>3, <2>5, <2>6, OneCaller
<1> QED
  BY <1>2, <1>3 DEF exec_task_update_context

LEMMA DropCopyStep ==
    ASSUME BoardInv, NEW c \in ToolCallers, DropTaskCopy(c)
    PROVE  BoardInv'
<1>1. DOMAIN board = {"row", "copy", "callers"} /\ DOMAIN board.callers = ToolCallers
      /\ board.callers[c].at = "drop" /\ ToolFits(c) /\ TaskCopyFits
  BY DEF BoardInv, DropTaskCopy
<1>2. PICK copy : /\ copy = Unanswered
                     \/ (board.copy # Unanswered /\ copy = [board.copy EXCEPT !.old = TRUE])
                  /\ board' = [board EXCEPT !.callers[c].at = "look", !.copy = copy]
  BY DEF DropTaskCopy
<1>3. PICK r : r = [board.callers[c] EXCEPT !.at = "look"]
  OBVIOUS
<1>4. DOMAIN r = {"at", "op"} /\ r.at = "look" /\ r.op = board.callers[c].op
  BY <1>1, <1>3 DEF ToolFits
<1>5. /\ DOMAIN board' = {"row", "copy", "callers"} /\ board'.row = board.row
      /\ board'.copy = copy /\ board'.callers = [board.callers EXCEPT ![c] = r]
  BY <1>1, <1>2, <1>3
<1>6. board'.callers[c] = r
  BY <1>1, <1>5
<1>7. ToolFits(c)'
  BY <1>1, <1>4, <1>5, <1>6 DEF ToolFits
<1>8. copy = Unanswered \/ (DOMAIN copy = {"row", "old"} /\ copy.old)
  BY <1>1, <1>2 DEF TaskCopyFits
<1>9. TaskCopyFits'
  BY <1>5, <1>8 DEF TaskCopyFits
<1> QED
  BY <1>5, <1>7, <1>9, OneCaller

LEMMA FetchTaskStep ==
    ASSUME BoardInv, NEW c \in ToolCallers, fetch_task(c)
    PROVE  BoardInv'
<1>1. DOMAIN board = {"row", "copy", "callers"} /\ DOMAIN board.callers = ToolCallers
      /\ board.callers[c].at = "look" /\ ToolFits(c) /\ TaskCopyFits
  BY DEF BoardInv, fetch_task
<1>2. ASSUME NEW r, board' = [board EXCEPT !.callers[c] = r],
             r.at \in {"fill", "answered"}, r.op \in {board.callers[c].op, "failed"},
             r.at = "fill" => DOMAIN r = {"at", "op", "context", "old"} /\ r.context = board.row,
             (r.at = "answered" /\ r.op = "update") => c \in r.context \/ r.old
      PROVE  BoardInv'
  <2>1. /\ DOMAIN board' = {"row", "copy", "callers"} /\ board'.row = board.row
        /\ board'.copy = board.copy /\ board'.callers = [board.callers EXCEPT ![c] = r]
    BY <1>1, <1>2
  <2>2. board'.callers[c] = r
    BY <1>1, <2>1
  <2>3. ToolFits(c)'
    BY <1>1, <1>2, <2>1, <2>2 DEF ToolFits
  <2>4. r.op = "update" => board.callers[c].op = "update"
    BY <1>2
  <2>5. TaskCopyFits'
    BY <1>1, <2>1, <2>4, SameCopy
  <2> QED
    BY <2>1, <2>3, <2>5, OneCaller
<1>3. CASE /\ board.copy # Unanswered
           /\ board' = [board EXCEPT !.callers[c] =
                [at |-> "answered", op |-> @.op, context |-> board.copy.row, old |-> board.copy.old]]
  <2>1. PICK r : r = [at |-> "answered", op |-> board.callers[c].op, context |-> board.copy.row,
                      old |-> board.copy.old]
    OBVIOUS
  <2>2. /\ r.at = "answered" /\ r.op = board.callers[c].op /\ r.context = board.copy.row
        /\ r.old = board.copy.old
    BY <2>1
  <2>3. board' = [board EXCEPT !.callers[c] = r]
    BY <1>3, <2>1
  <2>4. r.op = "update" => c \in r.context \/ r.old
    BY <1>1, <1>3, <2>2 DEF TaskCopyFits
  <2> QED
    BY <1>2, <2>2, <2>3, <2>4
<1>4. CASE board' = [board EXCEPT !.callers[c] =
                [at |-> "fill", op |-> @.op, context |-> board.row, old |-> FALSE]]
  <2>1. PICK r : r = [at |-> "fill", op |-> board.callers[c].op, context |-> board.row, old |-> FALSE]
    OBVIOUS
  <2>2. /\ r.at = "fill" /\ r.op = board.callers[c].op /\ r.context = board.row
        /\ DOMAIN r = {"at", "op", "context", "old"}
    BY <2>1
  <2>3. board' = [board EXCEPT !.callers[c] = r]
    BY <1>4, <2>1
  <2> QED
    BY <1>2, <2>2, <2>3
<1>5. CASE board' = [board EXCEPT !.callers[c] = [at |-> "answered", op |-> "failed"]]
  <2>1. PICK r : r = [at |-> "answered", op |-> "failed"]
    OBVIOUS
  <2>2. r.at = "answered" /\ r.op = "failed"
    BY <2>1
  <2> QED
    BY <1>2, <1>5, <2>1, <2>2
<1> QED
  BY <1>3, <1>4, <1>5 DEF fetch_task

\* What is stored for the next reader is as fresh as what was read.
LEMMA FillCopyStep ==
    ASSUME BoardInv, NEW c \in ToolCallers, FillTaskCopy(c)
    PROVE  BoardInv'
<1>1. DOMAIN board = {"row", "copy", "callers"} /\ DOMAIN board.callers = ToolCallers
      /\ board.callers[c].at = "fill" /\ ToolFits(c) /\ TaskCopyFits
  BY DEF BoardInv, FillTaskCopy
<1>2. PICK made : made = [row |-> board.callers[c].context, old |-> board.callers[c].old]
  OBVIOUS
<1>3. /\ made.row = board.callers[c].context /\ made.old = board.callers[c].old
      /\ DOMAIN made = {"row", "old"}
  BY <1>2
<1>4. PICK copy \in {board.copy, made} :
         board' = [board EXCEPT !.callers[c].at = "answered", !.copy = copy]
  BY <1>2 DEF FillTaskCopy
<1>5. PICK r : r = [board.callers[c] EXCEPT !.at = "answered"]
  OBVIOUS
<1>6. r.at = "answered" /\ r.op = board.callers[c].op /\ r.context = board.callers[c].context
      /\ r.old = board.callers[c].old
  BY <1>1, <1>5 DEF ToolFits
<1>7. /\ DOMAIN board' = {"row", "copy", "callers"} /\ board'.row = board.row
      /\ board'.copy = copy /\ board'.callers = [board.callers EXCEPT ![c] = r]
  BY <1>1, <1>4, <1>5
<1>8. board'.callers[c] = r /\ \A d \in ToolCallers : d # c => board'.callers[d] = board.callers[d]
  BY <1>1, <1>7
<1>9. ToolFits(c)'
  BY <1>1, <1>6, <1>7, <1>8 DEF ToolFits
<1>10. TaskCopyFits'
  <2>1. CASE copy = board.copy
    BY <1>1, <1>6, <1>7, <2>1, SameCopy
  <2>2. CASE copy = made
    <3>1. \A d \in ToolCallers : (board'.callers[d].at # "idle" /\ board'.callers[d].op = "update") =>
              d \in board.row
      BY <1>1, <1>6, <1>8 DEF BoardInv, ToolFits
    <3>2. made.old \/ made.row = board.row
      BY <1>1, <1>3 DEF ToolFits
    <3> QED
      BY <1>3, <1>7, <2>2, <3>1, <3>2 DEF TaskCopyFits
  <2> QED
    BY <2>1, <2>2
<1> QED
  BY <1>7, <1>9, <1>10, OneCaller

LEMMA PlainToolSteps ==
    ASSUME BoardInv, NEW c \in ToolCallers, exec_task_get_context(c) \/ ToolReturns(c)
    PROVE  BoardInv'
<1>1. DOMAIN board = {"row", "copy", "callers"} /\ DOMAIN board.callers = ToolCallers
  BY DEF BoardInv
<1>2. PICK r \in {[at |-> "idle"], [at |-> "look", op |-> "get"]} : board' = [board EXCEPT !.callers[c] = r]
  BY DEF exec_task_get_context, ToolReturns
<1>3. r.at = "idle" \/ (r.at = "look" /\ r.op = "get" /\ DOMAIN r = {"at", "op"})
  BY <1>2
<1>4. /\ DOMAIN board' = {"row", "copy", "callers"} /\ board'.row = board.row
      /\ board'.copy = board.copy /\ board'.callers = [board.callers EXCEPT ![c] = r]
  BY <1>1, <1>2
<1>5. board'.callers[c] = r
  BY <1>1, <1>4
<1>6. ToolFits(c)'
  BY <1>3, <1>5 DEF ToolFits
<1>7. TaskCopyFits'
  BY <1>3, <1>4, SameCopy
<1> QED
  BY <1>4, <1>6, <1>7, OneCaller

LEMMA TaskToolStep ==
    ASSUME BoardInv, TaskToolNext
    PROVE  BoardInv'
  BY UpdateContextStep, DropCopyStep, FetchTaskStep, FillCopyStep, PlainToolSteps DEF TaskToolNext

LEMMA BoardStill ==
    ASSUME BoardInv, UNCHANGED board
    PROVE  BoardInv'
  BY DEF BoardInv, ToolFits, TaskCopyFits

LEMMA BoardShown == BoardInv => OwnFindingsShown
  BY DEF BoardInv, ToolFits, OwnFindingsShown

-----------------------------------------------------------------------------
(* The context an adapter injects.                                         *)

\* A set of naturals that is not empty has a least element.
LEMMA LeastOfNaturals ==
    ASSUME NEW T \in SUBSET Nat, T # {}
    PROVE  \E m \in T : \A k \in T : m <= k
<1>1. PICK m \in T : \A k \in T : ~(<<k, m>> \in OpToRel(<, Nat))
  BY NatLessThanWellFounded, WFMin
<1>2. \A k \in T : ~(k < m)
  BY <1>1 DEF OpToRel
<1> QED
  BY <1>2

\* g has the widths of the beginnings of a text, up to the n-th character.
WidthsTo(text, n, g) ==
    g = [k \in 0..n |-> IF k = 0 THEN 0 ELSE g[k - 1] + text[k]]

Widening(text, n) == \E g : WidthsTo(text, n, g) /\ \A k \in 0..n : g[k] \in Nat

LEMMA WidthsExist ==
    ASSUME NEW text \in Seq(Nat)
    PROVE  Widening(text, Len(text))
<1> DEFINE bad == {n \in 0..Len(text) : ~Widening(text, n)}
<1>1. Len(text) \in Nat /\ \A k \in 1..Len(text) : text[k] \in Nat
  OBVIOUS
<1>2. SUFFICES ASSUME bad # {} PROVE FALSE
  BY <1>1
<1>3. PICK m \in bad : \A k \in bad : m <= k
  <2>1. bad \in SUBSET Nat
    BY <1>1
  <2> HIDE DEF bad
  <2> QED
    BY <1>2, <2>1, LeastOfNaturals
<1>4. CASE m = 0
  <2>1. PICK g : g = [k \in 0..0 |-> 0]
    OBVIOUS
  <2>2. g = [k \in 0..0 |-> IF k = 0 THEN 0 ELSE g[k - 1] + text[k]]
    BY <2>1
  <2>3. \A k \in 0..0 : g[k] \in Nat
    BY <2>1
  <2> QED
    BY <1>3, <1>4, <2>2, <2>3 DEF Widening, WidthsTo
<1>5. CASE m # 0
  <2>1. m \in 1..Len(text) /\ m - 1 \in 0..Len(text) /\ m - 1 \notin bad
    BY <1>1, <1>3, <1>5
  <2>2. PICK g : WidthsTo(text, m - 1, g) /\ \A k \in 0..(m - 1) : g[k] \in Nat
    BY <2>1 DEF Widening
  <2>3. PICK h : h = [k \in 0..m |-> IF k < m THEN g[k] ELSE g[m - 1] + text[m]]
    OBVIOUS
  <2>4. \A k \in 0..(m - 1) : g[k] = IF k = 0 THEN 0 ELSE g[k - 1] + text[k]
    BY <2>2 DEF WidthsTo
  <2>5. \A k \in 0..(m - 1) : h[k] = g[k]
    BY <2>1, <2>3
  <2>6. h[m] = g[m - 1] + text[m]
    BY <2>1, <2>3
  <2>7. ASSUME NEW k \in 0..m
        PROVE  h[k] = (IF k = 0 THEN 0 ELSE h[k - 1] + text[k]) /\ h[k] \in Nat
    <3>1. CASE k = m
      BY <1>1, <2>1, <2>2, <2>5, <2>6, <3>1
    <3>2. CASE k # m
      <4>1. k \in 0..(m - 1) /\ (k # 0 => k - 1 \in 0..(m - 1))
        BY <2>1, <2>7, <3>2
      <4> QED
        BY <2>2, <2>4, <2>5, <4>1
    <3> QED
      BY <3>1, <3>2
  <2>8. h = [k \in 0..m |-> h[k]]
    BY <2>3
  <2>9. WidthsTo(text, m, h)
    BY <2>7, <2>8 DEF WidthsTo
  <2> QED
    BY <1>3, <2>7, <2>9 DEF Widening
<1> QED
  BY <1>4, <1>5

LEMMA WidthsAreNumbers ==
    ASSUME NEW text \in Seq(Nat), NEW g, WidthsTo(text, Len(text), g)
    PROVE  \A k \in 0..Len(text) : g[k] \in Nat
<1> DEFINE bad == {k \in 0..Len(text) : g[k] \notin Nat}
<1>1. Len(text) \in Nat /\ \A k \in 1..Len(text) : text[k] \in Nat
  OBVIOUS
<1>2. SUFFICES ASSUME bad # {} PROVE FALSE
  OBVIOUS
<1>3. PICK m \in bad : \A k \in bad : m <= k
  <2>1. bad \in SUBSET Nat
    BY <1>1
  <2> HIDE DEF bad
  <2> QED
    BY <1>2, <2>1, LeastOfNaturals
<1>4. \A k \in 0..Len(text) : g[k] = IF k = 0 THEN 0 ELSE g[k - 1] + text[k]
  BY DEF WidthsTo
<1>5. m # 0 => m \in 1..Len(text) /\ m - 1 \in 0..Len(text) /\ m - 1 \notin bad
  BY <1>1, <1>3
<1> QED
  BY <1>1, <1>3, <1>4, <1>5

LEMMA WidthNumber ==
    ASSUME NEW text \in Seq(Nat)
    PROVE  Width(text) \in Nat /\ (Len(text) = 0 => Width(text) = 0)
<1>1. PICK g : g = CHOOSE f : WidthsTo(text, Len(text), f)
  OBVIOUS
<1>2. WidthsTo(text, Len(text), g)
  BY <1>1, WidthsExist DEF Widening
<1>3. Width(text) = g[Len(text)]
  BY <1>1 DEF Width, WidthsTo
<1>4. Len(text) \in Nat /\ Len(text) \in 0..Len(text) /\ 0 \in 0..Len(text)
  OBVIOUS
<1>5. g[0] = 0
  BY <1>2, <1>4 DEF WidthsTo
<1> QED
  BY <1>2, <1>3, <1>4, <1>5, WidthsAreNumbers

\* A beginning of a text.
LEMMA BeginningFacts ==
    ASSUME NEW text \in Seq(Nat), NEW n \in 0..Len(text)
    PROVE  /\ SubSeq(text, 1, n) \in Seq(Nat) /\ Len(SubSeq(text, 1, n)) = n
           /\ IsPrefix(SubSeq(text, 1, n), text)
<1>1. Len(text) \in Nat /\ n \in Nat /\ n <= Len(text) /\ \A k \in 1..n : text[k] \in Nat
  OBVIOUS
<1>2. SubSeq(text, 1, n) \in Seq(Nat) /\ Len(SubSeq(text, 1, n)) = n
  BY <1>1, SubSeqProperties
<1>3. SubSeq(SubSeq(text, 1, n), 1, n) = SubSeq(text, 1, n)
  BY <1>2, SubSeqFull
<1> QED
  BY <1>1, <1>2, <1>3 DEF IsPrefix

LEMMA LesserLimit ==
    ASSUME NEW a \in Nat, NEW b \in Nat
    PROVE  Min({a, b}) \in Nat
<1>1. \E x \in {a, b} : \A y \in {a, b} : x <= y
  OBVIOUS
<1>2. Min({a, b}) \in {a, b}
  BY <1>1 DEF Min
<1> QED
  BY <1>2

\* A set of numbers up to n has a largest, if it is not empty.
LEMMA LargestUpTo ==
    ASSUME NEW n \in Nat, NEW T \in SUBSET (0..n), T # {}
    PROVE  Max(T) \in T
<1> DEFINE above == {k \in Nat : \A x \in T : x <= k}
<1>1. n \in above /\ above \in SUBSET Nat
  OBVIOUS
<1>2. PICK m \in above : \A k \in above : m <= k
  <2> HIDE DEF above
  <2> QED
    BY <1>1, LeastOfNaturals
<1>3. m \in T
  <2>1. SUFFICES ASSUME m \notin T PROVE FALSE
    OBVIOUS
  <2>2. \A x \in T : x \in Nat /\ x <= m /\ x # m
    BY <1>2, <2>1
  <2>3. m # 0
    <3>1. PICK x \in T : TRUE
      OBVIOUS
    <3> QED
      BY <2>2, <3>1
  <2>4. m - 1 \in above
    BY <1>2, <2>2, <2>3
  <2> QED
    BY <1>2, <2>4
<1>4. \A x \in T : m >= x
  BY <1>2
<1>5. \E x \in T : \A y \in T : x >= y
  BY <1>3, <1>4
<1> QED
  BY <1>5 DEF Max

\* The text as it is if it fits, else a beginning that does.
LEMMA LimitedFacts ==
    ASSUME NEW text \in Seq(Nat), NEW budget \in Nat
    PROVE  LET short == limit_context(text, budget)
               limit == Min({budget, ContextLimit})
           IN  /\ Width(short) \div 4 <= limit /\ IsPrefix(short, text)
               /\ Width(text) \div 4 <= limit => short = text
<1>1. PICK limit : limit = Min({budget, ContextLimit})
  OBVIOUS
<1>2. limit \in Nat
  BY <1>1, LesserLimit, TextsAssumption
<1>3. PICK fits : fits = {n \in 0..Len(text) : Width(SubSeq(text, 1, n)) <= 4 * limit}
  OBVIOUS
<1>4. limit_context(text, budget)
        = IF Width(text) \div 4 <= limit THEN text ELSE SubSeq(text, 1, Max(fits))
  BY <1>1, <1>3 DEF limit_context
<1>5. CASE Width(text) \div 4 <= limit
  <2>1. IsPrefix(text, text)
    BY SubSeqFull DEF IsPrefix
  <2> QED
    BY <1>1, <1>4, <1>5, <2>1
<1>6. CASE ~(Width(text) \div 4 <= limit)
  <2>1. Len(text) \in Nat /\ 0 \in 0..Len(text)
    OBVIOUS
  <2>2. Width(SubSeq(text, 1, 0)) = 0
    BY <2>1, BeginningFacts, WidthNumber
  <2>3. 0 \in fits /\ fits \in SUBSET (0..Len(text))
    BY <1>2, <1>3, <2>1, <2>2
  <2>4. Max(fits) \in fits
    BY <2>1, <2>3, LargestUpTo
  <2>5. PICK n \in 0..Len(text) : n = Max(fits) /\ Width(SubSeq(text, 1, n)) <= 4 * limit
    BY <1>3, <2>4
  <2>6. PICK short : short = SubSeq(text, 1, n)
    OBVIOUS
  <2>7. short \in Seq(Nat) /\ IsPrefix(short, text)
    BY <2>6, BeginningFacts
  <2>8. Width(short) \in Nat /\ Width(short) <= 4 * limit
    BY <2>5, <2>6, <2>7, WidthNumber
  <2>9. Width(short) \div 4 <= limit
    BY <1>2, <2>8
  <2> QED
    BY <1>1, <1>4, <1>6, <2>5, <2>6, <2>7, <2>9
<1> QED
  BY <1>5, <1>6

LEMMA InjectStep ==
    ASSUME NEW text \in AgentTexts, NEW budget \in AgentBudgets, inject_context(text, budget)
    PROVE  InjectionFits'
<1>1. text \in Seq(Nat) /\ budget \in Nat
  BY TextsAssumption
<1>2. PICK short : short = limit_context(text, budget)
  OBVIOUS
<1>3. PICK limit : limit = Min({budget, ContextLimit})
  OBVIOUS
<1>4. limit \in Nat
  BY <1>1, <1>3, LesserLimit, TextsAssumption
<1>5. /\ Width(short) \div 4 <= limit /\ IsPrefix(short, text)
      /\ Width(text) \div 4 <= limit => short = text
  BY <1>1, <1>2, <1>3, LimitedFacts
<1>6. PICK answered \in BOOLEAN :
         prompt' = [of |-> "injection", raw |-> text, budget |-> budget, answered |-> answered,
                    text |-> IF answered THEN short ELSE <<>>]
  BY <1>2 DEF inject_context
<1>7. PICK out : /\ out = IF answered THEN short ELSE <<>>
                 /\ prompt'.raw = text /\ prompt'.budget = budget /\ prompt'.text = out
                 /\ (prompt'.answered <=> answered)
  BY <1>6
<1>8. Width(out) \div 4 <= limit /\ IsPrefix(out, text)
  <2>1. CASE answered
    BY <1>5, <1>7, <2>1
  <2>2. CASE ~answered
    <3>1. out = <<>> /\ out \in Seq(Nat) /\ Len(out) = 0
      BY <1>7, <2>2
    <3>2. Width(out) = 0
      BY <3>1, WidthNumber
    <3>3. SubSeq(text, 1, 0) = <<>> /\ 0 \in 0..Len(text)
      BY <1>1, SubSeqEmpty
    <3>4. IsPrefix(<<>>, text)
      BY <1>1, <3>3, BeginningFacts
    <3> QED
      BY <1>4, <3>1, <3>2, <3>4
  <2> QED
    BY <2>1, <2>2
<1>9. (answered /\ Width(text) \div 4 <= limit) => out = text
  BY <1>5, <1>7
<1> QED
  BY <1>3, <1>7, <1>8, <1>9 DEF InjectionFits

LEMMA PromptStep ==
    ASSUME PromptNext
    PROVE  InjectionFits' /\ ContextReadBack'
<1>1. ASSUME NEW text \in AgentTexts, NEW budget \in AgentBudgets, inject_context(text, budget)
      PROVE  InjectionFits' /\ ContextReadBack'
  <2>1. prompt'.of = "injection"
    BY <1>1 DEF inject_context
  <2> QED
    BY <1>1, <2>1, InjectStep DEF ContextReadBack
<1>2. ASSUME NEW ctx \in Contexts, read_context_with_token(ctx)
      PROVE  InjectionFits' /\ ContextReadBack'
  <2>1. prompt'.of \in {"read", "error"}
    BY <1>2 DEF read_context_with_token
  <2> QED
    BY <1>2, <2>1, ReadBackStep DEF InjectionFits
<1> QED
  BY <1>1, <1>2 DEF PromptNext

-----------------------------------------------------------------------------
(* The agents' side as a whole. *)

AgentInv ==
    /\ AdapterInv /\ BoardInv /\ PublisherFits
    /\ InjectionFits /\ ContextReadBack /\ ClientTold /\ ToolsCareful

LEMMA AgentKept ==
    ASSUME AgentInv,
           \/ AdapterSideNext \/ PromptNext \/ ClientNext \/ ToolNext \/ TaskToolNext
           \/ UNCHANGED agent_vars
    PROVE  AgentInv'
<1>1. AdapterInv'
  <2>1. AdapterSideNext \/ UNCHANGED <<agent, outbound, taken, finished>>
    BY DEF PromptNext, ClientNext, ToolNext, TaskToolNext, agent_vars
  <2> QED
    BY <2>1, AdapterSideStep, AdapterStill DEF AgentInv
<1>2. BoardInv'
  <2>1. TaskToolNext \/ UNCHANGED board
    BY DEF PromptNext, ClientNext, ToolNext, AdapterSideNext, agent_vars
  <2> QED
    BY <2>1, TaskToolStep, BoardStill DEF AgentInv
<1>3. InjectionFits' /\ ContextReadBack'
  <2>1. PromptNext \/ UNCHANGED prompt
    BY DEF TaskToolNext, ClientNext, ToolNext, AdapterSideNext, agent_vars
  <2> QED
    BY <2>1, PromptStep DEF AgentInv, InjectionFits, ContextReadBack
<1>4. PublisherFits' /\ ClientTold'
  <2>1. ClientNext \/ UNCHANGED <<publisher, shared>>
    BY DEF TaskToolNext, PromptNext, ToolNext, AdapterSideNext, agent_vars
  <2> QED
    BY <2>1, ClientStep DEF AgentInv, PublisherFits, ClientTold, Acceptable
<1>5. ToolsCareful'
  <2>1. ToolNext \/ UNCHANGED tool
    BY DEF TaskToolNext, PromptNext, ClientNext, AdapterSideNext, agent_vars
  <2> QED
    BY <2>1, ToolStep DEF AgentInv, ToolsCareful
<1> QED
  BY <1>1, <1>2, <1>3, <1>4, <1>5 DEF AgentInv

LEMMA AgentBegins ==
    ASSUME AgentInit
    PROVE  AgentInv
<1>1. AdapterInv
  BY DEF AgentInit, AdapterInv, Dispatched, CallFits, ResultsHandedIn, AgentFields
<1>2. BoardInv
  BY DEF AgentInit, BoardInv, ToolFits, TaskCopyFits, Serving
<1>3. PublisherFits /\ ClientTold
  BY DEF AgentInit, PublisherFits, ClientTold
<1>4. InjectionFits /\ ContextReadBack /\ ToolsCareful
  BY DEF AgentInit, InjectionFits, ContextReadBack, ToolsCareful
<1> QED
  BY <1>1, <1>2, <1>3, <1>4 DEF AgentInv

LEMMA AgentsAreSound == AgentInv => AgentsSound
  BY BoardShown DEF AgentInv, AdapterInv, AgentsSound

-----------------------------------------------------------------------------
(* What holds of requests.                                                 *)

\* resolve, RequestContext and the profile manager: a handler works with an identity IAM
\* held for the presented token, or for one of the user that the presented text names,
\* stored less than the time to live before, and for the tenant of the header; both
\* readers of the headers agree; a cached profile is the stored one or known to lag. For
\* any number of requests, of changes in IAM and of calls of the manager.
THEOREM IdentitiesHaveAnAge == Spec => []GatewaySound
<1>1. Init => GatewayInv /\ ProfileInv
  BY GatewayBegins DEF Init
<1>2. GatewayInv /\ ProfileInv /\ [Next]_platform_vars => (GatewayInv /\ ProfileInv)'
  BY OnePart, GatewayKept
<1> QED
  BY <1>1, <1>2, GatewayIsSound, PTL DEF Spec

\* hard_delete, promote_scope, update_task, PagedResult and check: nothing is left of a
\* deleted memory but what was written past the statement that removes such rows, a scope
\* replaced by a lone promotion is in the lineage, a task's status comes with the findings
\* of the same request, the pages
\* hold every item, and access only grows with roles and grants. For any number of
\* requests and every order of their statements.
THEOREM HandlersLeaveNothing == Spec => []ApiSound
<1>1. Init => ApiInv
  BY ApiBegins DEF Init
<1>2. ApiInv /\ [Next]_platform_vars => ApiInv'
  BY OnePart, ApiKept
<1> QED
  BY <1>1, <1>2, ApiIsSound, PTL DEF Spec

\* submit_results, inject_context, publish_envelope, execute_tool and the task tools: the
\* results arrive in their order and before the task is completed, Ok means done, a context
\* fits its budget and is read back as it was written, a tool is not called without what it
\* needs, and an update shows its own findings unless the copy was known to be old. For any
\* results, texts and budgets, however often requests are lost, late or repeated.
THEOREM AgentsAreToldTheTruth == Spec => []AgentsSound
<1>1. Init => AgentInv
  BY AgentBegins DEF Init
<1>2. AgentInv /\ [Next]_platform_vars => AgentInv'
  BY OnePart, AgentKept
<1> QED
  BY <1>1, <1>2, AgentsAreSound, PTL DEF Spec

\* What a request gets is what it may have, and what an agent is told was done was done.
THEOREM RequestsAreServed == Spec => []RequestsSound
  BY IdentitiesHaveAnAge, HandlersLeaveNothing, AgentsAreToldTheTruth, PTL DEF RequestsSound
================================================================================
