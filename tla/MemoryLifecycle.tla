--------------------------- MODULE MemoryLifecycle ---------------------------
(***************************************************************************)
(* The memory_item table and everything that moves an item through its     *)
(* life: the write pipeline, MemoryControlPlane, ForgetManager,            *)
(* VersionManager, RetentionManager and LegalHoldManager.                  *)
(*                                                                         *)
(* None of them opens a transaction: an operation is the sequence of SQL   *)
(* statements its program names, each committed by itself. A process runs  *)
(* one operation at a time on one item; processes interleave between       *)
(* statements, and an error or a crash ends an operation where it stands.  *)
(***************************************************************************)
EXTENDS Naturals, Sequences, FiniteSets, TLC

CONSTANTS
    Ids,        \* memory ids (UUIDs: never used twice)
    Procs,      \* request handlers and background jobs
    Ops,        \* the operations of this instance
    MaxOps,     \* bound on the operations started and the holds placed
    Faults      \* may a statement fail or its process die?

AllOps == {"Submit", "Propose", "Promote", "Revoke", "Quarantine", "Archive",
           "RecordOutcome", "SoftDelete", "HardDelete", "ForgetUserData",
           "CreateVersion", "Rollback", "RetentionArchive", "RetentionDelete"}

ASSUME LifecycleAssumption ==
    /\ Ids # {}
    /\ Ops \subseteq AllOps
    /\ MaxOps \in Nat
    /\ Faults \in BOOLEAN

Status == {"candidate", "active", "archived", "revoked", "quarantined"}

EventKinds == {"MemoryProposed", "MemoryPromoted", "MemoryRevoked",
               "MemoryQuarantined", "MemoryExpired",
               "ExperienceOutcomeRecorded"}

\* The columns the properties tell apart: status, and the number of outcomes
\* folded into the gene of structured_payload.
Item == [status : Status, outcomes : Nat]

NoItem == [status |-> "none", outcomes |-> 0]

-----------------------------------------------------------------------------
(* Programs: the statements of each operation, in order. *)

Statements == {"insert", "read", "read_candidate", "read_unrevoked", "activate",
               "revoke", "quarantine", "archive", "enqueue", "bump", "write_gene",
               "check_hold", "audit", "purge_versions", "purge_events", "delete",
               "revoke_all", "snapshot", "load", "restore", "find_archivable",
               "find_deletable"}

\* Mutant: the candidate is announced before it is activated.
SubmitAnnouncedFirst(active) ==
    IF active THEN <<"insert", "enqueue", "activate">>
              ELSE <<"insert", "enqueue">>

\* submit_candidate and insert_with_importance; a candidate is inserted, then
\* activated when decide_status says so, then announced. The importance and
\* valid_from updates and the read for duplicates change no modelled column.
SubmitProgram(active) ==
    IF active THEN <<"insert", "activate", "enqueue">>
              ELSE <<"insert", "enqueue">>

Program(op) ==
    CASE op = "Propose"          -> <<"insert", "enqueue">>
      [] op = "Promote"          -> <<"read_candidate", "activate", "enqueue">>
      [] op = "Revoke"           -> <<"read_unrevoked", "revoke", "enqueue">>
      [] op = "Quarantine"       -> <<"quarantine", "enqueue">>
      [] op = "Archive"          -> <<"archive", "enqueue">>
      [] op = "RecordOutcome"    -> <<"read", "bump", "write_gene", "enqueue">>
      [] op = "SoftDelete"       -> <<"check_hold", "revoke", "audit", "enqueue">>
      [] op = "HardDelete"       -> <<"check_hold", "audit", "purge_versions",
                                      "purge_events", "delete">>
      [] op = "ForgetUserData"   -> <<"revoke_all">>
      [] op = "CreateVersion"    -> <<"read", "snapshot">>
      [] op = "Rollback"         -> <<"read", "snapshot", "load", "restore">>
      [] op = "RetentionArchive" -> <<"find_archivable", "archive">>
      [] op = "RetentionDelete"  -> <<"find_deletable", "delete">>

\* The event each operation enqueues.
EventOf(op) ==
    CASE op \in {"Submit", "Propose"}    -> "MemoryProposed"
      [] op = "Promote"                  -> "MemoryPromoted"
      [] op \in {"Revoke", "SoftDelete"} -> "MemoryRevoked"
      [] op = "Quarantine"               -> "MemoryQuarantined"
      [] op = "Archive"                  -> "MemoryExpired"
      [] op = "RecordOutcome"            -> "ExperienceOutcomeRecorded"

\* MemoryRepo's update_status and its callers, and the UPDATEs of
\* ForgetManager and RetentionManager.
StatusWritten ==
    [activate |-> "active", revoke |-> "revoked", archive |-> "archived",
     quarantine |-> "quarantined"]

\* Mutant: high confidence outweighs a suspicious verdict.
DecideByConfidence(verdict, confident, highScope) == confident /\ ~highScope

\* decide_status, on what the poison guard and the submission say.
DecideActive(verdict, confident, highScope) ==
    verdict = "Safe" /\ confident /\ ~highScope

-----------------------------------------------------------------------------
VARIABLES
    items,      \* memory_item
    versions,   \* memory_version: the snapshots of an item, by number
    events,     \* outbox_event: the kinds enqueued for an item since its
                \* status last changed
    held,       \* legal_hold
    op,         \* the operation a process runs, or ran last
    target,     \* the item it runs on
    rest,       \* its statements still to execute
    snap,       \* the row it read, or loaded from memory_version
    started,    \* operations started and holds placed (bounds the instance)
    created,    \* ids handed out (history)
    approved,   \* items some review let become active (history)
    recorded,   \* outcomes recorded for an item (history)
    racy,       \* items on which two operations overlapped (history)
    debt,       \* who changed the status of an item last, if he is to enqueue
                \* an event and has not done so yet (history)
    mute,       \* items whose status was last changed by an operation that
                \* enqueues no event or that ended before it did, or whose
                \* events were purged (history)
    unseen      \* forgets past their check of the hold when a hold was placed
                \* on their target (history)

vars == <<items, versions, events, held, op, target, rest, snap, started,
          created, approved, recorded, racy, debt, mute, unseen>>

TypeOK ==
    /\ items \in [Ids -> Item \cup {NoItem}]
    /\ versions \in [Ids -> Seq(Item)]
    /\ events \in [Ids -> SUBSET EventKinds]
    /\ held \subseteq Ids
    /\ op \in [Procs -> AllOps]
    /\ target \in [Procs -> Ids]
    /\ rest \in [Procs -> Seq(Statements)]
    /\ snap \in [Procs -> Item \cup {NoItem}]
    /\ started \in 0..MaxOps
    /\ created \subseteq Ids
    /\ approved \subseteq Ids
    /\ recorded \in [Ids -> Nat]
    /\ racy \subseteq Ids
    /\ debt \in [Ids -> SUBSET Procs]
    /\ mute \subseteq Ids
    /\ unseen \subseteq Procs

Init ==
    /\ items = [i \in Ids |-> NoItem]
    /\ versions = [i \in Ids |-> <<>>]
    /\ events = [i \in Ids |-> {}]
    /\ held = {}
    /\ op = [p \in Procs |-> "Submit"]
    /\ target \in [Procs -> {CHOOSE i \in Ids : TRUE}]
    /\ rest = [p \in Procs |-> <<>>]
    /\ snap = [p \in Procs |-> NoItem]
    /\ started = 0
    /\ created = {}
    /\ approved = {}
    /\ recorded = [i \in Ids |-> 0]
    /\ racy = {}
    /\ debt = [i \in Ids |-> {}]
    /\ mute = {}
    /\ unseen = {}

Idle(p) == rest[p] = <<>>

At(p, stmt) == ~Idle(p) /\ Head(rest[p]) = stmt

Exists(p) == items[target[p]] # NoItem

\* The statement succeeded; the next one follows.
Advance(p) == rest' = [rest EXCEPT ![p] = Tail(@)]

\* An early return: the operation ends where it stands.
Return(p) == rest' = [rest EXCEPT ![p] = <<>>]

\* The items an operation may change.
Reach(o, i) == IF o = "ForgetUserData" THEN Ids ELSE {i}

Begin(p, o, i, program) ==
    /\ Idle(p)
    /\ o \in Ops
    /\ started < MaxOps
    /\ started' = started + 1
    /\ op' = [op EXCEPT ![p] = o]
    /\ target' = [target EXCEPT ![p] = i]
    /\ rest' = [rest EXCEPT ![p] = program]
    /\ unseen' = unseen \ {p}
    /\ racy' = racy \cup {j \in Reach(o, i) :
                             \E q \in Procs : ~Idle(q) /\ j \in Reach(op[q], target[q])}
    /\ UNCHANGED <<items, versions, events, held, snap, recorded, debt, mute>>

\* A submission the poison guard lets through. The review that approves an
\* item is the guard's and the submission's word, not the status decided.
Submit(p, i, verdict, confident, highScope) ==
    /\ verdict # "Blocked"
    /\ i \notin created
    /\ created' = created \cup {i}
    /\ approved' = IF verdict = "Safe" /\ confident /\ ~highScope
                   THEN approved \cup {i} ELSE approved
    /\ Begin(p, "Submit", i,
             SubmitProgram(DecideActive(verdict, confident, highScope)))

Propose(p, i) ==
    /\ i \notin created
    /\ created' = created \cup {i}
    /\ Begin(p, "Propose", i, Program("Propose"))
    /\ UNCHANGED approved

\* Any other operation, requested for an id that was handed out.
Request(p, o, i) ==
    /\ o \notin {"Submit", "Propose"}
    /\ i \in created
    /\ Begin(p, o, i, Program(o))
    /\ UNCHANGED <<created, approved>>

PlaceHold(i) ==
    /\ items[i] # NoItem
    /\ i \notin held
    /\ started < MaxOps
    /\ started' = started + 1
    /\ held' = held \cup {i}
    /\ unseen' = unseen \cup
          {p \in Procs : /\ op[p] \in {"SoftDelete", "HardDelete"} /\ target[p] = i
                        /\ ~Idle(p) /\ ~At(p, "check_hold")}
    /\ UNCHANGED <<items, versions, events, op, target, rest, snap, created,
                   approved, recorded, racy, debt, mute>>

ReleaseHold(i) ==
    /\ i \in held
    /\ held' = held \ {i}
    /\ UNCHANGED <<items, versions, events, op, target, rest, snap, started,
                   created, approved, recorded, racy, debt, mute, unseen>>

-----------------------------------------------------------------------------
(* Statements. *)

\* A statement wrote the status of items: of those it changed, the event is now
\* owed by the processes given, if any.
Owe(owers) ==
    LET changed == {i \in Ids : items'[i] # NoItem
                                 /\ items'[i].status # items[i].status}
    IN  /\ events' = [i \in Ids |-> IF i \in changed THEN {} ELSE events[i]]
        /\ debt' = [i \in Ids |-> IF i \in changed THEN owers ELSE debt[i]]
        /\ mute' = IF owers = {} THEN mute \cup changed ELSE mute \ changed

Insert(p) ==
    /\ At(p, "insert")
    /\ items' = [items EXCEPT ![target[p]] =
                    [status |-> "candidate", outcomes |-> 0]]
    /\ Advance(p)
    /\ Owe({p})
    /\ UNCHANGED <<versions, held, op, target, snap, started, created,
                   approved, recorded, racy, unseen>>

\* Mutant: the status is not checked.
ReadAnyStatus(p) ==
    /\ \E stmt \in {"read", "read_candidate", "read_unrevoked"} : At(p, stmt)
    /\ snap' = [snap EXCEPT ![p] = items[target[p]]]
    /\ IF Exists(p) THEN Advance(p) ELSE Return(p)
    /\ approved' = IF At(p, "read_candidate") THEN approved \cup {target[p]}
                   ELSE approved
    /\ UNCHANGED <<items, versions, events, held, op, target, started, created,
                   recorded, racy, debt, mute, unseen>>

\* get_by_id and the check of the caller; promote approves what it read.
Read(p) ==
    /\ \E stmt \in {"read", "read_candidate", "read_unrevoked"} : At(p, stmt)
    /\ LET row == items[target[p]]
           passes == /\ Exists(p)
                     /\ At(p, "read_candidate") => row.status = "candidate"
                     /\ At(p, "read_unrevoked") => row.status # "revoked"
       IN  /\ snap' = [snap EXCEPT ![p] = row]
           /\ IF passes THEN Advance(p) ELSE Return(p)
           /\ approved' = IF passes /\ At(p, "read_candidate")
                          THEN approved \cup {target[p]} ELSE approved
    /\ UNCHANGED <<items, versions, events, held, op, target, started, created,
                   recorded, racy, debt, mute, unseen>>

\* Mutant: the result of is_under_hold is ignored.
CheckHoldIgnored(p) ==
    /\ At(p, "check_hold")
    /\ Advance(p)
    /\ UNCHANGED <<items, versions, events, held, op, target, snap, started,
                   created, approved, recorded, racy, debt, mute, unseen>>

\* is_under_hold: a separate SELECT before the operation's writes.
CheckHold(p) ==
    /\ At(p, "check_hold")
    /\ IF target[p] \in held THEN Return(p) ELSE Advance(p)
    /\ UNCHANGED <<items, versions, events, held, op, target, snap, started,
                   created, approved, recorded, racy, debt, mute, unseen>>

\* find_archivable and find_deletable: any row of the right status may be old
\* enough.
Find(p) ==
    /\ \/ At(p, "find_archivable") /\ items[target[p]].status = "active"
       \/ /\ At(p, "find_deletable")
          /\ items[target[p]].status \in {"active", "archived", "revoked"}
    /\ Advance(p)
    /\ UNCHANGED <<items, versions, events, held, op, target, snap, started,
                   created, approved, recorded, racy, debt, mute, unseen>>

\* The scan does not return the row.
FindNothing(p) ==
    /\ At(p, "find_archivable") \/ At(p, "find_deletable")
    /\ Return(p)
    /\ UNCHANGED <<items, versions, events, held, op, target, snap, started,
                   created, approved, recorded, racy, debt, mute, unseen>>

\* UPDATE memory_item SET status = ... WHERE memory_id = ...: no condition on
\* the status replaced, NotFound when no row matches.
UpdateStatus(p) ==
    /\ ~Idle(p)
    /\ Head(rest[p]) \in DOMAIN StatusWritten
    /\ IF Exists(p)
       THEN /\ items' = [items EXCEPT ![target[p]].status =
                            StatusWritten[Head(rest[p])]]
            /\ Advance(p)
       ELSE Return(p) /\ UNCHANGED items
    /\ Owe(IF op[p] = "RetentionArchive" THEN {} ELSE {p})
    /\ UNCHANGED <<versions, held, op, target, snap, started, created,
                   approved, recorded, racy, unseen>>

\* forget_user_data: one UPDATE of every item of the user.
RevokeAll(p) ==
    /\ At(p, "revoke_all")
    /\ items' = [i \in Ids |-> IF items[i] = NoItem THEN NoItem
                               ELSE [items[i] EXCEPT !.status = "revoked"]]
    /\ Advance(p)
    /\ Owe({})
    /\ UNCHANGED <<versions, held, op, target, snap, started, created,
                   approved, recorded, racy, unseen>>

\* bump_version: the row must still be there.
BumpVersion(p) ==
    /\ At(p, "bump")
    /\ IF Exists(p) THEN Advance(p) ELSE Return(p)
    /\ UNCHANGED <<items, versions, events, held, op, target, snap, started,
                   created, approved, recorded, racy, debt, mute, unseen>>

\* Mutant: the outcome is added to what the row holds only if it is active.
WriteGeneActive(p) ==
    /\ At(p, "write_gene")
    /\ items' = IF Exists(p) /\ items[target[p]].status = "active"
                THEN [items EXCEPT ![target[p]].outcomes = snap[p].outcomes + 1]
                ELSE items
    /\ recorded' = [recorded EXCEPT ![target[p]] = @ + 1]
    /\ Advance(p)
    /\ UNCHANGED <<versions, events, held, op, target, snap, started, created,
                   approved, racy, debt, mute, unseen>>

\* The gene read at the start, with its outcome added, replaces the payload.
WriteGene(p) ==
    /\ At(p, "write_gene")
    /\ items' = IF Exists(p)
                THEN [items EXCEPT ![target[p]].outcomes = snap[p].outcomes + 1]
                ELSE items
    /\ recorded' = [recorded EXCEPT ![target[p]] = @ + 1]
    /\ Advance(p)
    /\ UNCHANGED <<versions, events, held, op, target, snap, started, created,
                   approved, racy, debt, mute, unseen>>

\* The audit row; no property depends on it, its failure ends the operation.
Audit(p) ==
    /\ At(p, "audit")
    /\ Advance(p)
    /\ UNCHANGED <<items, versions, events, held, op, target, snap, started,
                   created, approved, recorded, racy, debt, mute, unseen>>

Enqueue(p) ==
    /\ At(p, "enqueue")
    /\ events' = [events EXCEPT ![target[p]] = @ \cup {EventOf(op[p])}]
    /\ debt' = [debt EXCEPT ![target[p]] = @ \ {p}]
    /\ Advance(p)
    /\ UNCHANGED <<items, versions, held, op, target, snap, started, created,
                   approved, recorded, racy, mute, unseen>>

\* The next number is MAX(version) + 1 in a subselect: of two inserts at a
\* time one violates UNIQUE (memory_id, version).
Snapshot(p) ==
    /\ At(p, "snapshot")
    /\ \/ /\ versions' = [versions EXCEPT ![target[p]] = Append(@, snap[p])]
          /\ Advance(p)
       \/ /\ \E q \in Procs \ {p} : At(q, "snapshot") /\ target[q] = target[p]
          /\ Return(p)
          /\ UNCHANGED versions
    /\ UNCHANGED <<items, events, held, op, target, snap, started, created,
                   approved, recorded, racy, debt, mute, unseen>>

\* get_version of some number.
Load(p) ==
    /\ At(p, "load")
    /\ \/ \E v \in DOMAIN versions[target[p]] :
             /\ snap' = [snap EXCEPT ![p] = versions[target[p]][v]]
             /\ Advance(p)
       \/ Return(p) /\ UNCHANGED snap
    /\ UNCHANGED <<items, versions, events, held, op, target, started, created,
                   approved, recorded, racy, debt, mute, unseen>>

\* Every column of the row is overwritten from the snapshot.
Restore(p) ==
    /\ At(p, "restore")
    /\ items' = IF Exists(p) THEN [items EXCEPT ![target[p]] = snap[p]] ELSE items
    /\ recorded' = [recorded EXCEPT ![target[p]] = snap[p].outcomes]
    /\ Advance(p)
    /\ Owe({})
    /\ UNCHANGED <<versions, held, op, target, snap, started, created,
                   approved, racy, unseen>>

PurgeVersions(p) ==
    /\ At(p, "purge_versions")
    /\ versions' = [versions EXCEPT ![target[p]] = <<>>]
    /\ Advance(p)
    /\ UNCHANGED <<items, events, held, op, target, snap, started, created,
                   approved, recorded, racy, debt, mute, unseen>>

PurgeEvents(p) ==
    /\ At(p, "purge_events")
    /\ events' = [events EXCEPT ![target[p]] = {}]
    /\ mute' = mute \cup {target[p]}
    /\ Advance(p)
    /\ UNCHANGED <<items, versions, held, op, target, snap, started, created,
                   approved, recorded, racy, debt, unseen>>

Delete(p) ==
    /\ At(p, "delete")
    /\ items' = [items EXCEPT ![target[p]] = NoItem]
    /\ Advance(p)
    /\ UNCHANGED <<versions, events, held, op, target, snap, started, created,
                   approved, recorded, racy, debt, mute, unseen>>

\* A statement fails, or the process dies: nothing is undone.
Abort(p) ==
    /\ Faults
    /\ ~Idle(p)
    /\ Return(p)
    /\ mute' = mute \cup {i \in Ids : p \in debt[i]}
    /\ UNCHANGED <<items, versions, events, held, op, target, snap, started,
                   created, approved, recorded, racy, debt, unseen>>

Statement(p) ==
    \/ Insert(p) \/ Read(p) \/ CheckHold(p) \/ Find(p) \/ FindNothing(p)
    \/ UpdateStatus(p) \/ RevokeAll(p) \/ BumpVersion(p) \/ WriteGene(p)
    \/ Audit(p) \/ Enqueue(p) \/ Snapshot(p) \/ Load(p) \/ Restore(p)
    \/ PurgeVersions(p) \/ PurgeEvents(p) \/ Delete(p)

Next ==
    \/ \E p \in Procs, i \in Ids :
          \/ \E verdict \in {"Safe", "Suspicious", "Blocked"},
                confident, highScope \in BOOLEAN :
                Submit(p, i, verdict, confident, highScope)
          \/ Propose(p, i)
          \/ \E o \in Ops : Request(p, o, i)
    \/ \E i \in Ids : PlaceHold(i) \/ ReleaseHold(i)
    \/ \E p \in Procs : Statement(p) \/ Abort(p)

Spec == Init /\ [][Next]_vars

-----------------------------------------------------------------------------
(* Properties. *)

\* No operation is under way on an item.
Quiet(i) == \A p \in Procs : target[p] = i => Idle(p)

\* Revoking, archiving and rolling back do not ask for holds, nor does
\* forget_user_data or the retention job.
Unchecked == {"Revoke", "Archive", "ForgetUserData", "RetentionArchive",
              "RetentionDelete", "Rollback"}

Taken(i) == /\ items[i] # NoItem
            /\ \/ items'[i] = NoItem
               \/ /\ items'[i].status # items[i].status
                  /\ items'[i].status \in {"revoked", "archived"}

\* An item under a hold is revoked, archived or deleted only by an operation that
\* never asks for holds, or by a soft_delete or hard_delete that had asked
\* before this hold was placed: the check and the write are separate statements,
\* and that window is the only one.
HeldItemsTaken ==
    [][\A i \in held \cap held' : Taken(i) =>
          \E p \in Procs : /\ rest'[p] # rest[p]
                           /\ i \in Reach(op[p], target[p])
                           /\ op[p] \in Unchecked \/ p \in unseen]_vars

\* An item is active only if the pipeline judged it safe, confident and of low
\* scope, or a promotion was granted for it: a rollback brings back no status
\* that nobody approved, and suspicious content waits for review.
ActiveWasApproved ==
    \A i \in Ids : items[i].status = "active" => i \in approved

\* The event that announces a status.
Announces(status) ==
    CASE status = "candidate"   -> {"MemoryProposed"}
      [] status = "active"      -> {"MemoryProposed", "MemoryPromoted"}
      [] status = "archived"    -> {"MemoryExpired"}
      [] status = "revoked"     -> {"MemoryRevoked"}
      [] status = "quarantined" -> {"MemoryQuarantined"}

\* When nothing is under way on an item, an event announcing its status was
\* enqueued after the status last changed, however the operations on it
\* interleaved; an older event of the same kind does not count. The code has
\* these exceptions: the change was made by forget_user_data, the retention job
\* or a rollback, which enqueue nothing; the operation died between the status
\* and the event, which are two statements; or a hard delete purged the events
\* and died before it deleted the row.
StatusAnnounced ==
    \A i \in Ids \ mute : items[i] # NoItem /\ Quiet(i)
                     => Announces(items[i].status) \cap events[i] # {}

\* While a hold is active the item cannot be forgotten, deleted or archived.
HeldItemsKept ==
    [][\A i \in held \cap held' :
          /\ items'[i] # NoItem
          /\ items'[i].status # items[i].status
               => items'[i].status \notin {"revoked", "archived"}]_vars

\* Operations on one item that do not overlap are as good as transactions: a
\* promotion moves candidates only, and a rollback never overwrites a state that
\* no snapshot holds ("so the pre-rollback state is never lost"). The check and
\* the write of an operation are separate statements, so overlapping ones are
\* excluded.
SerialWritesSafe ==
    [][\A p \in Procs :
          Exists(p) /\ target[p] \notin racy /\ rest'[p] # rest[p] /\ items' # items
              => /\ op[p] = "Promote" => items[target[p]].status = "candidate"
                 /\ op[p] = "Rollback"
                      => \E v \in DOMAIN versions[target[p]] :
                            versions[target[p]][v] = items[target[p]]]_vars

\* The gene counts every outcome recorded since the state it was rolled back
\* to, as long as no two operations on it overlapped (record_outcome).
OutcomesCounted ==
    \A i \in Ids \ racy : items[i] # NoItem /\ Quiet(i)
                            => items[i].outcomes = recorded[i]
=============================================================================
