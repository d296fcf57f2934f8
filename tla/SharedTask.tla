----------------------------- MODULE SharedTask -----------------------------
(***************************************************************************)
(* SharedTaskManager on one task: the row in PostgreSQL (TaskRepo), its    *)
(* read-through copy in Redis (HotContextRepo) and the lock a handoff      *)
(* takes (SessionRepo). Each SQL statement and each Redis command is a     *)
(* step; requests interleave between them, any of them may fail, a request *)
(* may die, and Redis may expire the copy or the lock at any time.         *)
(*                                                                         *)
(* The contents of the row (findings, status, version, owner) are          *)
(* abstracted to rev: every UPDATE makes a content no other has.           *)
(***************************************************************************)
EXTENDS Naturals, FiniteSets, TLC

CONSTANTS
    Agents,     \* agents that hand the task over
    Procs,      \* requests
    MaxOps,     \* bound on the requests started
    Faults      \* may a statement or a command fail, or a request die?

Ops == {"get_context", "add_findings", "update_status", "handoff"}

\* Where a request is: its next statement or command.
Steps == {"idle", "read_cache", "read_db", "populate", "write", "acquire",
          "transfer", "append", "invalidate", "release"}

CONSTANTS
    NoEntry,    \* the copy is absent
    NoLock      \* the lock is free

Lock == [holder : Agents, by : Procs]

ASSUME SharedTaskAssumption ==
    /\ Agents # {}
    /\ MaxOps \in Nat
    /\ Faults \in BOOLEAN
    /\ NoLock \notin Lock

VARIABLES
    row,        \* [rev, owner]: shared_task_context
    entry,      \* the copy in Redis, or NoEntry
    lock,       \* [holder, by] or NoLock; by is the request (history)
    op, pc,     \* what a request does and where it is
    from, to,   \* the agents of its handoff
    steps,      \* does its handoff carry pending_steps?
    copy,       \* the row a reader fetched
    started,    \* requests started so far (bounds the instance)
    overdue,    \* requests whose lock expired before they released it (history)
    robbed,     \* requests whose lock another request released (history)
    leaked,     \* requests that died, or whose release failed (history)
    excused     \* the copy outlived a change for a reason of its own (history)

vars == <<row, entry, lock, op, pc, from, to, steps, copy, started, overdue,
          robbed, leaked, excused>>

Row == [rev : Nat, owner : Agents]

TypeOK ==
    /\ row \in Row
    /\ entry \in Row \cup {NoEntry}
    /\ lock \in Lock \cup {NoLock}
    /\ op \in [Procs -> Ops]
    /\ pc \in [Procs -> Steps]
    /\ from \in [Procs -> Agents]
    /\ to \in [Procs -> Agents]
    /\ steps \in [Procs -> BOOLEAN]
    /\ copy \in [Procs -> Row]
    /\ started \in 0..MaxOps
    /\ overdue \subseteq Procs
    /\ robbed \subseteq Procs
    /\ leaked \subseteq Procs
    /\ excused \in BOOLEAN

\* create_task: the row is inserted, nothing is cached.
Init ==
    LET first == CHOOSE a \in Agents : TRUE
    IN  /\ row = [rev |-> 0, owner |-> first]
        /\ entry = NoEntry
        /\ lock = NoLock
        /\ op = [p \in Procs |-> "get_context"]
        /\ pc = [p \in Procs |-> "idle"]
        /\ from = [p \in Procs |-> first]
        /\ to = [p \in Procs |-> first]
        /\ steps = [p \in Procs |-> FALSE]
        /\ copy = [p \in Procs |-> row]
        /\ started = 0
        /\ overdue = {}
        /\ robbed = {}
        /\ leaked = {}
        /\ excused = FALSE

Go(p, step) == pc' = [pc EXCEPT ![p] = step]

Begin(p, o, step) ==
    /\ pc[p] = "idle"
    /\ started < MaxOps
    /\ started' = started + 1
    /\ op' = [op EXCEPT ![p] = o]
    /\ Go(p, step)

-----------------------------------------------------------------------------
(* get_context *)

Get(p) ==
    /\ Begin(p, "get_context", "read_cache")
    /\ UNCHANGED <<row, entry, lock, from, to, steps, copy, overdue, robbed,
                   leaked, excused>>

\* The copy answers, or is absent, or Redis fails: then the row does.
ReadCache(p) ==
    /\ pc[p] = "read_cache"
    /\ \/ entry # NoEntry /\ Go(p, "idle")
       \/ (entry = NoEntry \/ Faults) /\ Go(p, "read_db")
    /\ UNCHANGED <<row, entry, lock, op, from, to, steps, copy, started,
                   overdue, robbed, leaked, excused>>

ReadDb(p) ==
    /\ pc[p] = "read_db"
    /\ copy' = [copy EXCEPT ![p] = row]
    /\ Go(p, "populate")
    /\ UNCHANGED <<row, entry, lock, op, from, to, steps, started, overdue,
                   robbed, leaked, excused>>

\* populate_cache: SETEX of what was read, best effort.
Populate(p) ==
    /\ pc[p] = "populate"
    /\ \/ entry' = copy[p] /\ excused' = (copy[p] # row)
       \/ Faults /\ UNCHANGED <<entry, excused>>
    /\ Go(p, "idle")
    /\ UNCHANGED <<row, lock, op, from, to, steps, copy, started, overdue,
                   robbed, leaked>>

-----------------------------------------------------------------------------
(* Writers *)

\* UPDATE of the row; there is no condition on its version.
Update(owner) == row' = [rev |-> row.rev + 1, owner |-> owner]

AddFindings(p) ==
    /\ Begin(p, "add_findings", "write")
    /\ UNCHANGED <<row, entry, lock, from, to, steps, copy, overdue, robbed,
                   leaked, excused>>

UpdateStatus(p) ==
    /\ Begin(p, "update_status", "write")
    /\ UNCHANGED <<row, entry, lock, from, to, steps, copy, overdue, robbed,
                   leaked, excused>>

\* Mutant: a status is thought not to be worth an invalidation.
WriteStatusOnly(p) ==
    /\ pc[p] = "write"
    /\ Update(row.owner)
    /\ Go(p, IF op[p] = "update_status" THEN "idle" ELSE "invalidate")
    /\ UNCHANGED <<entry, lock, op, from, to, steps, copy, started, overdue,
                   robbed, leaked, excused>>

\* The statement of add_findings or update_status.
Write(p) ==
    /\ pc[p] = "write"
    /\ Update(row.owner)
    /\ Go(p, "invalidate")
    /\ UNCHANGED <<entry, lock, op, from, to, steps, copy, started, overdue,
                   robbed, leaked, excused>>

\* invalidate_cache_best_effort, after which a write is acknowledged.
Invalidate(p) ==
    /\ pc[p] = "invalidate"
    /\ \/ entry' = NoEntry /\ excused' = FALSE
       \/ Faults /\ excused' = TRUE /\ UNCHANGED entry
    /\ Go(p, IF op[p] = "handoff" THEN "release" ELSE "idle")
    /\ UNCHANGED <<row, lock, op, from, to, steps, copy, started, overdue,
                   robbed, leaked>>

-----------------------------------------------------------------------------
(* handoff *)

\* validate: the agents differ.
Handoff(p, a, b, s) ==
    /\ a # b
    /\ Begin(p, "handoff", "acquire")
    /\ from' = [from EXCEPT ![p] = a]
    /\ to' = [to EXCEPT ![p] = b]
    /\ steps' = [steps EXCEPT ![p] = s]
    /\ overdue' = overdue \ {p}
    /\ robbed' = robbed \ {p}
    /\ UNCHANGED <<row, entry, lock, copy, leaked, excused>>

\* Mutant: SET without NX.
AcquireAlways(p) ==
    /\ pc[p] = "acquire"
    /\ lock' = [holder |-> from[p], by |-> p]
    /\ Go(p, "transfer")
    /\ UNCHANGED <<row, entry, op, from, to, steps, copy, started, overdue,
                   robbed, leaked, excused>>

\* acquire_lock: SET NX EX 30; a lock that is taken ends the handoff.
Acquire(p) ==
    /\ pc[p] = "acquire"
    /\ IF lock = NoLock
       THEN /\ lock' = [holder |-> from[p], by |-> p]
            /\ leaked' = leaked \ {p}
            /\ Go(p, "transfer")
       ELSE Go(p, "idle") /\ UNCHANGED <<lock, leaked>>
    /\ UNCHANGED <<row, entry, op, from, to, steps, copy, started, overdue,
                   robbed, excused>>

\* TaskRepo::handoff: whoever the owner was.
Transfer(p) ==
    /\ pc[p] = "transfer"
    /\ Update(to[p])
    /\ Go(p, IF steps[p] THEN "append" ELSE "invalidate")
    /\ UNCHANGED <<entry, lock, op, from, to, steps, copy, started, overdue,
                   robbed, leaked, excused>>

\* The pending steps become findings of the task.
AppendSteps(p) ==
    /\ pc[p] = "append"
    /\ Update(row.owner)
    /\ Go(p, "invalidate")
    /\ UNCHANGED <<entry, lock, op, from, to, steps, copy, started, overdue,
                   robbed, leaked, excused>>

\* release_lock: the script compares the holder, which is from_agent.
Release(p) ==
    /\ pc[p] = "release"
    /\ lock' = IF lock # NoLock /\ lock.holder = from[p] THEN NoLock ELSE lock
    /\ robbed' = IF lock # lock' /\ lock.by # p THEN robbed \cup {lock.by} ELSE robbed
    /\ Go(p, "idle")
    /\ UNCHANGED <<row, entry, op, from, to, steps, copy, started, overdue,
                   leaked, excused>>

-----------------------------------------------------------------------------
(* Faults and expiry *)

\* Mutant: an error of perform_handoff returns before the lock is released.
FailWithoutRelease(p) ==
    /\ Faults
    /\ pc[p] \in {"read_db", "write", "acquire", "transfer", "append", "release"}
    /\ Go(p, "idle")
    /\ excused' = (excused \/ pc[p] = "append")
    /\ leaked' = IF pc[p] = "release" THEN leaked \cup {p} ELSE leaked
    /\ UNCHANGED <<row, entry, lock, op, from, to, steps, copy, started,
                   overdue, robbed>>

\* A statement or the lock's command fails: the request returns the error, a
\* handoff that holds the lock after trying to release it. When the append
\* fails the owner has changed and the copy is not invalidated; when the
\* release fails the lock is left to its expiry.
Fail(p) ==
    /\ Faults
    /\ pc[p] \in {"read_db", "write", "acquire", "transfer", "append", "release"}
    /\ Go(p, IF pc[p] \in {"transfer", "append"} THEN "release" ELSE "idle")
    /\ excused' = (excused \/ pc[p] = "append")
    /\ leaked' = IF pc[p] = "release" THEN leaked \cup {p} ELSE leaked
    /\ UNCHANGED <<row, entry, lock, op, from, to, steps, copy, started,
                   overdue, robbed>>

\* The statement or the SET took effect and its answer was lost: the request
\* returns the error all the same. Nobody releases a lock taken like that.
LoseAnswer(p) ==
    /\ Faults
    /\ \/ /\ pc[p] \in {"write", "transfer", "append"}
          /\ Update(IF pc[p] = "transfer" THEN to[p] ELSE row.owner)
          /\ excused' = TRUE
          /\ Go(p, IF pc[p] = "write" THEN "idle" ELSE "release")
          /\ UNCHANGED <<lock, leaked>>
       \/ /\ pc[p] = "acquire" /\ lock = NoLock
          /\ lock' = [holder |-> from[p], by |-> p]
          /\ leaked' = leaked \cup {p}
          /\ Go(p, "idle")
          /\ UNCHANGED <<row, excused>>
    /\ UNCHANGED <<entry, op, from, to, steps, copy, started, overdue, robbed>>

\* Between acquire_lock and release_lock.
InSection(p) == op[p] = "handoff" /\ pc[p] \in {"transfer", "append", "invalidate", "release"}

\* The request dies where it stands.
Die(p) ==
    /\ Faults
    /\ pc[p] # "idle"
    /\ Go(p, "idle")
    /\ excused' = (excused \/ pc[p] \in {"append", "invalidate"})
    /\ leaked' = IF InSection(p) THEN leaked \cup {p} ELSE leaked
    /\ UNCHANGED <<row, entry, lock, op, from, to, steps, copy, started,
                   overdue, robbed>>

ExpireEntry ==
    /\ entry # NoEntry
    /\ entry' = NoEntry
    /\ excused' = FALSE
    /\ UNCHANGED <<row, lock, op, pc, from, to, steps, copy, started,
                   overdue, robbed, leaked>>

ExpireLock ==
    /\ lock # NoLock
    /\ overdue' = overdue \cup {lock.by}
    /\ lock' = NoLock
    /\ UNCHANGED <<row, entry, op, pc, from, to, steps, copy, started,
                   robbed, leaked, excused>>

Step(p) ==
    \/ ReadCache(p) \/ ReadDb(p) \/ Populate(p)
    \/ Write(p) \/ Invalidate(p)
    \/ Acquire(p) \/ Transfer(p) \/ AppendSteps(p) \/ Release(p)

Next ==
    \/ \E p \in Procs :
          \/ Get(p) \/ AddFindings(p) \/ UpdateStatus(p)
          \/ \E a, b \in Agents, s \in BOOLEAN : Handoff(p, a, b, s)
          \/ Step(p) \/ Fail(p) \/ LoseAnswer(p) \/ Die(p)
    \/ ExpireEntry \/ ExpireLock

Spec == Init /\ [][Next]_vars

\* For TLC: the requests are interchangeable.
Symmetry == Permutations(Procs)

-----------------------------------------------------------------------------
(* Properties. *)

\* Two handoffs change the task at the same time only when the lock of one of
\* them expired, or was released by a namesake: a request with the same
\* from_agent that had lost its own lock ("Handoff between agents requires a
\* distributed lock to prevent races").
HandoffExclusive ==
    \A p, q \in Procs :
        p # q /\ InSection(p) /\ InSection(q)
            => {p, q} \cap (overdue \cup robbed) # {}

\* No path through handoff keeps the lock: while the lock is held the request
\* that took it is between acquire and release, or it died there, or the answer
\* to its SET or its release was lost ("lock is released regardless of outcome").
LockNotLeaked ==
    lock # NoLock => InSection(lock.by) \/ lock.by \in leaked

\* A copy that differs from the row is about to be invalidated, or is there
\* because an invalidation failed, an error ended a write or a handoff half way,
\* or a reader stored what it had read before the last change.
StaleExplained ==
    entry # NoEntry /\ entry # row
        => excused \/ \E p \in Procs : pc[p] \in {"append", "invalidate"}
=============================================================================
