------------------------------ MODULE SqliteImport ------------------------------
(***************************************************************************)
(* migrate.rs: genes, capsules and usage receipts of a legacy SQLite file  *)
(* copied into PostgreSQL. One INSERT is a step; the importer may die      *)
(* between any two and be run again.                                       *)
(***************************************************************************)
EXTENDS Naturals, Sequences, FiniteSets

CONSTANTS
    Sources,      \* legacy files: kind -> set of records
    Present,      \* rows PostgreSQL may hold before the first import
    MaxImports,   \* imports in a behaviour
    NoReport

RecordType == {"gene", "capsule", "usage_receipt"}

\* A gene's id may be a UUID or any text; `good` is whether its JSON decodes.
LegacyRecord ==
    [id : STRING, uuid : BOOLEAN, good : BOOLEAN,
     scope : {"local", "project", "tenant", "team", "network"},
     lifecycle : {"candidate", "stable", "deprecated", "quarantined", "revoked"},
     successes : Nat, failures : Nat]

\* A file is finite; the rows that were there before are of others ("foreign"), and
\* their ids are a key.
ASSUME ImportAssumption ==
    /\ \A s \in Sources : \A k \in RecordType :
          s.records[k] \subseteq LegacyRecord /\ IsFiniteSet(s.records[k])
    /\ \A P \in Present :
          /\ IsFiniteSet(P)
          /\ \A row \in P : row.status = "foreign"
          /\ \A x, y \in P : (x.id = y.id /\ x.key = y.key) => x = y

VARIABLES
    source,    \* the SQLite file: its records, and its layout
    rows,      \* memory_item rows: [kind, id, key, status, scope, confidence]
    at,        \* the kind being copied, "idle" between imports
    todo,      \* records still to insert
    count,     \* records of this kind inserted
    added,     \* rows this import has put in, by kind
    report,    \* the MigrationReport under way
    last,      \* the last finished report, with what was asked
    imports    \* imports begun

import_vars == <<source, rows, at, todo, count, added, report, last, imports>>

-----------------------------------------------------------------------------

map_lifecycle_to_status(lifecycle) ==
    CASE lifecycle = "candidate" -> "candidate"
      [] lifecycle = "stable" -> "active"
      [] lifecycle = "deprecated" -> "archived"
      [] lifecycle = "quarantined" -> "quarantined"
      [] lifecycle = "revoked" -> "revoked"

map_scope(scope) ==
    CASE scope = "local" -> "personal"
      [] scope = "project" -> "task"
      [] scope = "tenant" -> "factory"
      [] scope = "team" -> "team"
      [] scope = "network" -> "enterprise"

\* In percent.
derive_confidence(r) ==
    IF r.successes + r.failures = 0 THEN 50
    ELSE (100 * r.successes) \div (r.successes + r.failures)

\* A text id gets a new random UUID at every import; 0 stands for the id's own UUID.
ImportKey(r) == IF r.uuid THEN 0 ELSE imports

gene_to_memory_item(r) ==
    [kind |-> "gene", id |-> r.id, key |-> ImportKey(r), scope |-> map_scope(r.scope),
     status |-> map_lifecycle_to_status(r.lifecycle), confidence |-> derive_confidence(r)]

\* Whatever its gene's state.
capsule_to_memory_item(r) ==
    [kind |-> "capsule", id |-> r.id, key |-> ImportKey(r), scope |-> "personal",
     status |-> "active", confidence |-> 80]

\* memory_item has a primary key on the UUID: of a row with the same UUID, whatever
\* its kind, the second INSERT fails.
insert_memory_item(item) ==
    /\ ~\E row \in rows : row.id = item.id /\ row.key = item.key
    /\ rows' = rows \cup {item}

\* The columns of the table memory_access_audit.
AuditTable == {"audit_id", "memory_id", "accessor_user", "accessor_agent", "action", "purpose",
               "task_id", "trace_id", "policy_decision_id", "created_at"}

\* The columns an imported receipt is written to.
usage_receipt_to_audit == {"id", "memory_id", "accessor_id", "tenant_id", "accessed_at",
                           "access_result", "context_snapshot"}

\* PostgreSQL refuses a statement that names a column the table does not have.
insert_audit_entry == usage_receipt_to_audit \subseteq AuditTable

-----------------------------------------------------------------------------
(* migrate_all: genes, then capsules, then receipts. *)

EmptyReport == [migrated |-> [k \in RecordType |-> 0], errors |-> {}]

\* read_genes, read_capsules, read_receipts: every row of the `data` column must decode,
\* and a missing table reads as empty. In a file of SqliteGeneStore ("columns") the
\* genes and capsules have no such column, and there is no table of receipts.
Readable(kind) ==
    IF source.layout = "columns" THEN kind = "usage_receipt"
    ELSE \A r \in source.records[kind] : r.good

migrate_all ==
    /\ at = "idle" /\ imports < MaxImports
    /\ imports' = imports + 1
    /\ at' = "read gene" /\ todo' = {} /\ count' = 0
    /\ added' = [k \in RecordType |-> {}]
    /\ report' = EmptyReport
    /\ UNCHANGED <<source, rows, last>>

Reading(kind) == at = (CASE kind = "gene" -> "read gene" [] kind = "capsule" -> "read capsule"
                         [] kind = "usage_receipt" -> "read usage_receipt")

Then(kind) == CASE kind = "gene" -> "read capsule" [] kind = "capsule" -> "read usage_receipt"
                [] kind = "usage_receipt" -> "done"

\* A kind that cannot be read is one entry of the report; the next kind is tried.
ReadKind(kind) ==
    /\ Reading(kind)
    /\ IF Readable(kind)
       THEN at' = kind /\ todo' = source.records[kind] /\ count' = 0 /\ UNCHANGED report
       ELSE /\ report' = [report EXCEPT !.errors = @ \cup {kind}]
            /\ at' = Then(kind) /\ UNCHANGED <<todo, count>>
    /\ UNCHANGED <<source, rows, added, last, imports>>

Item(kind, r) == IF kind = "gene" THEN gene_to_memory_item(r) ELSE capsule_to_memory_item(r)

\* One record: counted when it is in.
InsertRecord(r) ==
    /\ at \in {"gene", "capsule"} /\ r \in todo
    /\ insert_memory_item(Item(at, r))
    /\ added' = [added EXCEPT ![at] = @ \cup {Item(at, r)}]
    /\ count' = count + 1
    /\ todo' = todo \ {r}
    /\ UNCHANGED <<source, at, report, last, imports>>

InsertReceipt(r) ==
    /\ at = "usage_receipt" /\ r \in todo
    /\ count' = IF insert_audit_entry THEN count + 1 ELSE count
    /\ todo' = todo \ {r}
    /\ UNCHANGED <<source, rows, at, added, report, last, imports>>

\* The record is in conflict, or the statement fails: logged and skipped.
SkipRecord(r) ==
    /\ at \in {"gene", "capsule"} /\ r \in todo
    /\ todo' = todo \ {r}
    /\ UNCHANGED <<source, rows, at, count, added, report, last, imports>>

\* The kind is through: its count goes into the report.
KindDone ==
    /\ at \in RecordType /\ todo = {}
    /\ report' = [report EXCEPT !.migrated[at] = count]
    /\ at' = Then(at)
    /\ UNCHANGED <<source, rows, todo, count, added, last, imports>>

Complete ==
    /\ at = "done"
    /\ last' = [asked |-> "migrate", report |-> report]
    /\ at' = "idle"
    /\ UNCHANGED <<source, rows, todo, count, added, report, imports>>

\* The process dies: the rows stay, the report is gone.
Die ==
    /\ at # "idle"
    /\ at' = "idle" /\ todo' = {} /\ count' = 0
    /\ report' = EmptyReport /\ last' = NoReport
    /\ added' = [k \in RecordType |-> {}]
    /\ UNCHANGED <<source, rows, imports>>

-----------------------------------------------------------------------------

\* Counting needs no `data` column and decodes nothing.
CountSource(kind) == Cardinality(source.records[kind])

\* Every gene and capsule row of the table is counted, whoever wrote it.
CountTarget(kind) == Cardinality({row \in rows : row.kind = kind})

validate ==
    /\ at = "idle"
    /\ last' = [asked |-> "validate",
                report |-> [migrated |-> [k \in RecordType |-> CountTarget(k)],
                            errors |-> {k \in RecordType : CountTarget(k) # CountSource(k)}]]
    /\ UNCHANGED <<source, rows, at, todo, count, added, report, imports>>

dry_run ==
    /\ at = "idle"
    /\ last' = [asked |-> "dry run",
                report |-> [migrated |-> [k \in RecordType |-> CountSource(k)], errors |-> {}]]
    /\ UNCHANGED <<source, rows, at, todo, count, added, report, imports>>

is_clean(r) == r.errors = {}

-----------------------------------------------------------------------------

ImportInit ==
    /\ source \in Sources
    /\ rows \in Present
    /\ at = "idle" /\ todo = {} /\ count = 0
    /\ added = [k \in RecordType |-> {}]
    /\ report = EmptyReport /\ last = NoReport
    /\ imports = 0

ImportNext ==
    \/ migrate_all \/ \E kind \in RecordType : ReadKind(kind)
    \/ \E r \in todo : InsertRecord(r) \/ InsertReceipt(r) \/ SkipRecord(r)
    \/ KindDone \/ Complete \/ Die \/ validate \/ dry_run

-----------------------------------------------------------------------------

\* migrate_all: the numbers it reports are the rows it put in, whatever was skipped,
\* and what cannot be read is never reported as copied.
CountsAreRows ==
    (last # NoReport /\ last.asked = "migrate" /\ at = "idle") =>
        \A k \in RecordType : last.report.migrated[k] = Cardinality(added[k])

\* validate: when PostgreSQL had no rows of its own and every id is a UUID, a clean
\* report means that every gene and capsule of the file is in, although imports may
\* have died, skipped records and been run again.
CleanMeansComplete ==
    (/\ last # NoReport /\ last.asked = "validate" /\ is_clean(last.report) /\ at = "idle"
     /\ \A row \in rows : row.key = 0 /\ row.status # "foreign") =>
        \A k \in {"gene", "capsule"} : \A r \in source.records[k] :
            \E row \in rows : row.kind = k /\ row.id = r.id

\* gene_to_memory_item: a gene arrives active only if it was stable in the file.
ActiveWasStable ==
    \A row \in rows : (row.kind = "gene" /\ row.status = "active") =>
        \E r \in source.records["gene"] : r.id = row.id /\ r.lifecycle = "stable"

\* Re-running an import: a record with a UUID is in at most once.
OncePerUuid ==
    \A x, y \in rows : (x.kind = y.kind /\ x.id = y.id /\ x.key = 0 /\ y.key = 0) => x = y

ImportSound == CountsAreRows /\ CleanMeansComplete /\ ActiveWasStable /\ OncePerUuid
================================================================================
