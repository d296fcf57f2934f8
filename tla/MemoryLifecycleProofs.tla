------------------------ MODULE MemoryLifecycleProofs ------------------------
(***************************************************************************)
(* Proofs about MemoryLifecycle, for any number of items and of processes. *)
(***************************************************************************)
EXTENDS MemoryLifecycle, SequenceTheorems, TLAPS

-----------------------------------------------------------------------------
(* The inductive invariant. *)

Programs(o) ==
    IF o = "Submit" THEN {SubmitProgram(TRUE), SubmitProgram(FALSE)} ELSE {Program(o)}

\* The end of a program of an operation.
Suffix(o, r) ==
    \E prog \in Programs(o) : \E k \in 1..Len(prog) + 1 : r = SubSeq(prog, k, Len(prog))

\* What is left of an operation is the end of its program.
Control == \A p \in Procs : Suffix(op[p], rest[p])

\* The statement a process executes next.
First(r) == IF r = <<>> THEN "end" ELSE Head(r)
Where(p) == First(rest[p])

\* An operation that goes by the row it read.
Loaded(p) == Where(p) \in {"bump", "write_gene", "snapshot", "load", "restore"}

\* The row it read was there.
SnapReal == \A p \in Procs : Loaded(p) => snap[p] \in Item

\* Nothing is known of an item before its id was handed out, or by anybody
\* before its row is inserted.
Fresh ==
    /\ \A i \in Ids \ created :
          items[i] = NoItem /\ versions[i] = <<>> /\ recorded[i] = 0
    /\ \A p \in Procs : Where(p) # "end" => target[p] \in created
    /\ \A p \in Procs : Where(p) = "insert" =>
          /\ items[target[p]] = NoItem
          /\ versions[target[p]] = <<>>
          /\ recorded[target[p]] = 0
          /\ \A q \in Procs \ {p} :
                target[q] = target[p] => Where(q) # "insert" /\ ~Loaded(q)

\* A forget that is past its check was past it when the hold was placed.
Seen ==
    \A p \in Procs :
        /\ op[p] \in {"SoftDelete", "HardDelete"}
        /\ Where(p) \notin {"end", "check_hold"}
        /\ target[p] \in held
        => p \in unseen

\* A status nobody approved is not in the table, in a snapshot, in a row about to
\* be written, or in the program of a submission.
Reviewed ==
    /\ ActiveWasApproved
    /\ \A i \in Ids : \A v \in DOMAIN versions[i] :
          versions[i][v].status = "active" => i \in approved
    /\ \A p \in Procs :
          /\ Loaded(p) /\ snap[p].status = "active" => target[p] \in approved
          /\ Where(p) = "activate" => target[p] \in approved
          /\ Where(p) = "insert" /\ First(Tail(rest[p])) = "activate"
                => target[p] \in approved

\* The event that announces the status is still to be enqueued.
Pending(p, i, status) ==
    /\ target[p] = i
    /\ Where(p) \in {"activate", "audit", "enqueue"}
    /\ op[p] \in {"Submit", "Propose", "Promote", "Revoke", "Quarantine", "Archive",
                  "SoftDelete"}
    /\ EventOf(op[p]) \in Announces(status)

\* The status of an item was announced since it changed last, or whoever changed
\* it is about to do so.
Told(i, status) ==
    \/ debt[i] = {} /\ Announces(status) \cap events[i] # {}
    \/ \E p \in Procs : debt[i] = {p} /\ Pending(p, i, status)

AllTold == \A i \in Ids \ mute : items[i] # NoItem => Told(i, items[i].status)

\* Items on which no operations overlapped have one at most under way.
Serial ==
    \A p, q \in Procs : p # q /\ Where(p) # "end" /\ Where(q) # "end"
        => Reach(op[p], target[p]) \cap Reach(op[q], target[q]) \subseteq racy

\* So what that one read is still what the row holds.
ReadStands ==
    \A p \in Procs : Exists(p) /\ target[p] \notin racy =>
        /\ op[p] = "Promote" /\ Where(p) = "activate"
              => items[target[p]].status = "candidate"
        /\ Where(p) \in {"bump", "write_gene", "snapshot"}
              => snap[p] = items[target[p]]
        /\ op[p] = "Rollback" /\ Where(p) \in {"load", "restore"}
              => \E v \in DOMAIN versions[target[p]] :
                    versions[target[p]][v] = items[target[p]]

Counted == \A i \in Ids \ racy : items[i] # NoItem => items[i].outcomes = recorded[i]

IInv ==
    /\ TypeOK
    /\ Control
    /\ SnapReal
    /\ Fresh
    /\ Seen
    /\ Reviewed
    /\ AllTold
    /\ Serial
    /\ ReadStands
    /\ Counted

-----------------------------------------------------------------------------
(* Programs and the statements that follow each other in them. *)

\* What every operation does after each of its statements.
Follows(o, a, b) ==
    /\ a = "insert" =>
          o \in {"Submit", "Propose"} /\ b \in {"activate", "enqueue"}
    /\ a = "activate" => o \in {"Submit", "Promote"} /\ b = "enqueue"
    /\ a = "enqueue" =>
          /\ o \in {"Submit", "Propose", "Promote", "Revoke", "Quarantine",
                   "Archive", "RecordOutcome", "SoftDelete"}
          /\ b = "end"
    /\ a = "read_candidate" => o = "Promote" /\ b = "activate"
    /\ a = "read_unrevoked" => o = "Revoke" /\ b = "revoke"
    /\ a = "revoke" => \/ o = "Revoke" /\ b = "enqueue"
                       \/ o = "SoftDelete" /\ b = "audit"
    /\ a = "quarantine" => o = "Quarantine" /\ b = "enqueue"
    /\ a = "archive" => \/ o = "Archive" /\ b = "enqueue"
                        \/ o = "RetentionArchive" /\ b = "end"
    /\ a = "read" => \/ o = "RecordOutcome" /\ b = "bump"
                     \/ o \in {"CreateVersion", "Rollback"} /\ b = "snapshot"
    /\ a = "bump" => o = "RecordOutcome" /\ b = "write_gene"
    /\ a = "write_gene" => o = "RecordOutcome" /\ b = "enqueue"
    /\ a = "check_hold" => \/ o = "SoftDelete" /\ b = "revoke"
                           \/ o = "HardDelete" /\ b = "audit"
    /\ a = "audit" => \/ o = "SoftDelete" /\ b = "enqueue"
                      \/ o = "HardDelete" /\ b = "purge_versions"
    /\ a = "purge_versions" => o = "HardDelete" /\ b = "purge_events"
    /\ a = "purge_events" => o = "HardDelete" /\ b = "delete"
    /\ a = "delete" => o \in {"HardDelete", "RetentionDelete"} /\ b = "end"
    /\ a = "revoke_all" => o = "ForgetUserData" /\ b = "end"
    /\ a = "snapshot" => \/ o = "CreateVersion" /\ b = "end"
                         \/ o = "Rollback" /\ b = "load"
    /\ a = "load" => o = "Rollback" /\ b = "restore"
    /\ a = "restore" => o = "Rollback" /\ b = "end"
    /\ a = "find_archivable" => o = "RetentionArchive" /\ b = "archive"
    /\ a = "find_deletable" => o = "RetentionDelete" /\ b = "delete"

\* How operations start: only a new item is inserted, a forget checks the hold.
Starts(o, a) ==
    /\ a = "insert" <=> o \in {"Submit", "Propose"}
    /\ o \in {"SoftDelete", "HardDelete"} => a = "check_hold"
    /\ a \in {"insert", "read", "read_candidate", "read_unrevoked", "quarantine",
             "archive", "check_hold", "revoke_all", "find_archivable",
             "find_deletable"}

\* The table lists what follows what in every program.
LEMMA ProgramFlow ==
    ASSUME NEW o \in AllOps, NEW prog \in Programs(o)
    PROVE  /\ prog \in Seq(Statements)
           /\ Len(prog) \in 1..5
           /\ Starts(o, prog[1])
           /\ \A k \in 1..Len(prog) :
                 Follows(o, prog[k], IF k = Len(prog) THEN "end" ELSE prog[k + 1])
<1> USE DEF Statements, Starts, Follows
<1>1. CASE o = "Submit"
  <2>1. CASE prog = <<"insert", "activate", "enqueue">>
    BY <1>1, <2>1
  <2>2. CASE prog = <<"insert", "enqueue">>
    BY <1>1, <2>2
  <2> QED
    BY <1>1, <2>1, <2>2 DEF Programs, SubmitProgram
<1>2. CASE o # "Submit"
  <2>1. prog = Program(o)
    BY <1>2 DEF Programs
  <2>2. CASE o = "Propose"
    <3>1. prog = <<"insert", "enqueue">>
      BY <2>1, <2>2 DEF Program
    <3> QED
      BY <2>2, <3>1
  <2>3. CASE o = "Promote"
    <3>1. prog = <<"read_candidate", "activate", "enqueue">>
      BY <2>1, <2>3 DEF Program
    <3> QED
      BY <2>3, <3>1
  <2>4. CASE o = "Revoke"
    <3>1. prog = <<"read_unrevoked", "revoke", "enqueue">>
      BY <2>1, <2>4 DEF Program
    <3> QED
      BY <2>4, <3>1
  <2>5. CASE o = "Quarantine"
    <3>1. prog = <<"quarantine", "enqueue">>
      BY <2>1, <2>5 DEF Program
    <3> QED
      BY <2>5, <3>1
  <2>6. CASE o = "Archive"
    <3>1. prog = <<"archive", "enqueue">>
      BY <2>1, <2>6 DEF Program
    <3> QED
      BY <2>6, <3>1
  <2>7. CASE o = "RecordOutcome"
    <3>1. prog = <<"read", "bump", "write_gene", "enqueue">>
      BY <2>1, <2>7 DEF Program
    <3> QED
      BY <2>7, <3>1
  <2>8. CASE o = "SoftDelete"
    <3>1. prog = <<"check_hold", "revoke", "audit", "enqueue">>
      BY <2>1, <2>8 DEF Program
    <3> QED
      BY <2>8, <3>1
  <2>9. CASE o = "HardDelete"
    <3>1. prog = <<"check_hold", "audit", "purge_versions",
                    "purge_events", "delete">>
      BY <2>1, <2>9 DEF Program
    <3> QED
      BY <2>9, <3>1
  <2>10. CASE o = "ForgetUserData"
    <3>1. prog = <<"revoke_all">>
      BY <2>1, <2>10 DEF Program
    <3> QED
      BY <2>10, <3>1
  <2>11. CASE o = "CreateVersion"
    <3>1. prog = <<"read", "snapshot">>
      BY <2>1, <2>11 DEF Program
    <3> QED
      BY <2>11, <3>1
  <2>12. CASE o = "Rollback"
    <3>1. prog = <<"read", "snapshot", "load", "restore">>
      BY <2>1, <2>12 DEF Program
    <3> QED
      BY <2>12, <3>1
  <2>13. CASE o = "RetentionArchive"
    <3>1. prog = <<"find_archivable", "archive">>
      BY <2>1, <2>13 DEF Program
    <3> QED
      BY <2>13, <3>1
  <2>14. CASE o = "RetentionDelete"
    <3>1. prog = <<"find_deletable", "delete">>
      BY <2>1, <2>14 DEF Program
    <3> QED
      BY <2>14, <3>1
  <2> QED
    BY <1>2, <2>2, <2>3, <2>4, <2>5, <2>6, <2>7,
       <2>8, <2>9, <2>10, <2>11, <2>12, <2>13, <2>14 DEF AllOps
<1> QED
  BY <1>1, <1>2

\* What is left after a statement is what follows it.
LEMMA SuffixFlow ==
    ASSUME NEW o \in AllOps, NEW r, Suffix(o, r)
    PROVE  /\ r \in Seq(Statements)
           /\ r = <<>> <=> First(r) = "end"
           /\ r # <<>> => /\ First(r) = Head(r) /\ First(r) \in Statements
                          /\ Suffix(o, Tail(r))
                          /\ Follows(o, First(r), First(Tail(r)))
<1>1. PICK prog \in Programs(o) : \E k \in 1..Len(prog) + 1 : r = SubSeq(prog, k, Len(prog))
  BY DEF Suffix
<1>2. PICK k \in 1..Len(prog) + 1 : r = SubSeq(prog, k, Len(prog))
  BY <1>1
<1>3. /\ prog \in Seq(Statements) /\ Len(prog) \in 1..5
      /\ \A n \in 1..Len(prog) :
            Follows(o, prog[n], IF n = Len(prog) THEN "end" ELSE prog[n + 1])
  BY ProgramFlow
<1>4. /\ r \in Seq(Statements) /\ Len(r) = Len(prog) + 1 - k
      /\ \A n \in 1..Len(r) : r[n] = prog[k + n - 1]
  BY <1>2, <1>3
<1>5. CASE k = Len(prog) + 1
  <2>1. r = <<>>
    BY <1>4, <1>5
  <2> QED
    BY <1>4, <2>1 DEF First
<1>6. CASE k \in 1..Len(prog)
  <2>1. r # <<>> /\ Head(r) = prog[k] /\ prog[k] \in Statements
    BY <1>3, <1>4, <1>6
  <2>2. First(r) = prog[k]
    BY <2>1 DEF First
  <2>3. "end" \notin Statements
    BY DEF Statements
  <2>4. /\ Tail(r) \in Seq(Statements) /\ Len(Tail(r)) = Len(prog) - k
        /\ \A n \in 1..Len(Tail(r)) : Tail(r)[n] = prog[k + n]
    BY <1>4, <2>1
  <2>5. Tail(r) = SubSeq(prog, k + 1, Len(prog))
    BY <1>2, <1>3, <1>6, HeadTailOfSubSeq
  <2>6. Suffix(o, Tail(r))
    <3>1. k + 1 \in 1..Len(prog) + 1
      BY <1>3, <1>6
    <3> QED
      BY <2>5, <3>1 DEF Suffix
  <2>7. First(Tail(r)) = IF k = Len(prog) THEN "end" ELSE prog[k + 1]
    <3>1. CASE k = Len(prog)
      <4>1. Tail(r) = <<>>
        BY <1>3, <2>5, <3>1, SubSeqEmpty
      <4> QED
        BY <3>1, <4>1 DEF First
    <3>2. CASE k # Len(prog)
      <4>1. Tail(r) # <<>> /\ Head(Tail(r)) = prog[k + 1]
        BY <1>3, <1>6, <2>4, <3>2
      <4> QED
        BY <3>2, <4>1 DEF First
    <3> QED
      BY <3>1, <3>2
  <2> QED
    BY <1>3, <1>4, <1>6, <2>1, <2>2, <2>3, <2>6, <2>7
<1> QED
  BY <1>3, <1>5, <1>6

\* A program is what is left of it at its start.
LEMMA WholeProgram ==
    ASSUME NEW o \in AllOps, NEW prog \in Programs(o)
    PROVE  Suffix(o, prog) /\ First(prog) = prog[1]
<1>1. prog \in Seq(Statements) /\ Len(prog) \in 1..5
  BY ProgramFlow
<1>2. prog = SubSeq(prog, 1, Len(prog))
  BY <1>1
<1>3. 1 \in 1..Len(prog) + 1
  BY <1>1
<1>4. Suffix(o, prog)
  BY <1>2, <1>3 DEF Suffix
<1> QED
  BY <1>1, <1>4 DEF First

\* Nothing is left of an operation that returned.
LEMMA EmptySuffix ==
    ASSUME NEW o \in AllOps
    PROVE  Suffix(o, <<>>) /\ First(<<>>) = "end"
<1>1. PICK prog : prog \in Programs(o)
  BY DEF Programs
<1>2. prog \in Seq(Statements) /\ Len(prog) \in 1..5
  BY <1>1, ProgramFlow
<1>3. SubSeq(prog, Len(prog) + 1, Len(prog)) = <<>> /\ Len(prog) + 1 \in 1..Len(prog) + 1
  BY <1>2
<1> QED
  BY <1>1, <1>3 DEF Suffix, First

\* The other processes stay where they are.
Others(p) == \A q \in Procs \ {p} : Where(q)' = Where(q) /\ rest'[q] = rest[q]

\* Where a process is.
LEMMA Position ==
    ASSUME TypeOK, Control, NEW p \in Procs
    PROVE  /\ Idle(p) <=> Where(p) = "end"
           /\ \A stmt \in Statements : At(p, stmt) <=> Where(p) = stmt
           /\ Where(p) \in Statements \cup {"end"}
           /\ Where(p) # "end" => \E b : Follows(op[p], Where(p), b)
<1>1. op[p] \in AllOps /\ Suffix(op[p], rest[p])
  BY DEF TypeOK, Control
<1>2. "end" \notin Statements
  BY DEF Statements
<1> QED
  BY <1>1, <1>2, SuffixFlow DEF Where, Idle, At, First

\* A statement that succeeds is followed by the next one.
LEMMA AdvanceMoves ==
    ASSUME TypeOK, Control, UNCHANGED op,
           NEW p \in Procs, ~Idle(p), Advance(p)
    PROVE  /\ rest' \in [Procs -> Seq(Statements)]
           /\ Control'
           /\ Follows(op[p], Where(p), Where(p)')
           /\ Others(p)
           /\ Where(p) = "insert" => Where(p)' = First(Tail(rest[p]))
<1>1. op[p] \in AllOps /\ Suffix(op[p], rest[p]) /\ rest[p] # <<>>
  BY DEF TypeOK, Control, Idle
<1>2. rest'[p] = Tail(rest[p]) /\ \A q \in Procs \ {p} : rest'[q] = rest[q]
  BY DEF TypeOK, Advance
<1>3. /\ Suffix(op[p], Tail(rest[p]))
      /\ Follows(op[p], First(rest[p]), First(Tail(rest[p])))
      /\ Tail(rest[p]) \in Seq(Statements)
  BY <1>1, SuffixFlow
<1> QED
  BY <1>2, <1>3 DEF Control, Where, TypeOK, Advance, Others

\* An operation that returns is over.
LEMMA ReturnMoves ==
    ASSUME TypeOK, Control, UNCHANGED op, NEW p \in Procs, Return(p)
    PROVE  /\ rest' \in [Procs -> Seq(Statements)]
           /\ Control'
           /\ Where(p)' = "end"
           /\ Others(p)
<1>1. rest'[p] = <<>> /\ \A q \in Procs \ {p} : rest'[q] = rest[q]
  BY DEF TypeOK, Return
<1>2. op[p] \in AllOps
  BY DEF TypeOK
<1> QED
  BY <1>1, <1>2, EmptySuffix DEF Control, Where, TypeOK, Return, Others

\* A statement, or its failure, takes one process one step on in its program.
LEMMA Moves ==
    ASSUME TypeOK, Control, NEW p \in Procs, Statement(p) \/ Abort(p)
    PROVE  /\ Where(p) \in Statements /\ Where(p) # "end"
           /\ rest' \in [Procs -> Seq(Statements)] /\ Control' /\ Others(p)
           /\ Where(p)' = "end" \/ Follows(op[p], Where(p), Where(p)')
           /\ UNCHANGED <<held, op, target, started, created, racy, unseen>>
<1>1. UNCHANGED <<held, op, target, started, created, racy, unseen>>
  BY DEF Statement, Abort, Insert, Read, CheckHold, Find, FindNothing, UpdateStatus,
         RevokeAll, BumpVersion, WriteGene, Audit, Enqueue, Snapshot, Load, Restore,
         PurgeVersions, PurgeEvents, Delete
<1>2. ~Idle(p)
  BY DEF Statement, Abort, Insert, Read, CheckHold, Find, FindNothing, UpdateStatus,
         RevokeAll, BumpVersion, WriteGene, Audit, Enqueue, Snapshot, Load, Restore,
         PurgeVersions, PurgeEvents, Delete, At
<1>3. Advance(p) \/ Return(p)
  BY DEF Statement, Abort, Insert, Read, CheckHold, Find, FindNothing, UpdateStatus,
         RevokeAll, BumpVersion, WriteGene, Audit, Enqueue, Snapshot, Load, Restore,
         PurgeVersions, PurgeEvents, Delete
<1>4. "end" \notin Statements
  BY DEF Statements
<1> QED
  BY <1>1, <1>2, <1>3, <1>4, Position, AdvanceMoves, ReturnMoves

\* Where each statement is executed and where it leads.
LEMMA Leads ==
    ASSUME TypeOK, Control, NEW p \in Procs
    PROVE  /\ Insert(p) => /\ Where(p) = "insert" /\ op[p] \in {"Submit", "Propose"}
                           /\ Where(p)' = First(Tail(rest[p]))
                           /\ Where(p)' \in {"activate", "enqueue"}
           /\ CheckHold(p) => /\ Where(p) = "check_hold"
                              /\ target[p] \in held => Where(p)' = "end"
                              /\ Where(p)' \in {"revoke", "audit", "end"}
           /\ Find(p) \/ FindNothing(p) =>
                 /\ Where(p) \in {"find_archivable", "find_deletable"}
                 /\ Where(p)' \in {"archive", "delete", "end"}
           /\ RevokeAll(p) => /\ Where(p) = "revoke_all" /\ op[p] = "ForgetUserData"
                              /\ Where(p)' = "end"
           /\ BumpVersion(p) => /\ Where(p) = "bump"
                                /\ Where(p)' \in {"write_gene", "end"}
           /\ WriteGene(p) => /\ Where(p) = "write_gene" /\ op[p] = "RecordOutcome"
                              /\ Where(p)' = "enqueue"
           /\ Audit(p) => /\ Where(p) = "audit"
                          /\ \/ op[p] = "SoftDelete" /\ Where(p)' = "enqueue"
                             \/ op[p] = "HardDelete" /\ Where(p)' = "purge_versions"
           /\ Enqueue(p) => /\ Where(p) = "enqueue" /\ Where(p)' = "end"
                            /\ op[p] \in {"Submit", "Propose", "Promote", "Revoke",
                                          "Quarantine", "Archive", "RecordOutcome",
                                          "SoftDelete"}
           /\ Restore(p) => /\ Where(p) = "restore" /\ op[p] = "Rollback"
                            /\ Where(p)' = "end"
           /\ PurgeVersions(p) => /\ Where(p) = "purge_versions"
                                  /\ Where(p)' = "purge_events"
           /\ PurgeEvents(p) => Where(p) = "purge_events" /\ Where(p)' = "delete"
           /\ Delete(p) => Where(p) = "delete" /\ Where(p)' = "end"
           /\ Abort(p) => Where(p)' = "end"
<1>1. \A stmt \in Statements : At(p, stmt) => Where(p) = stmt /\ ~Idle(p)
  BY Position DEF At
<1>2. ~Idle(p) /\ Advance(p) /\ UNCHANGED op =>
         /\ Follows(op[p], Where(p), Where(p)')
         /\ Where(p) = "insert" => Where(p)' = First(Tail(rest[p]))
  BY AdvanceMoves
<1>3. Return(p) /\ UNCHANGED op => Where(p)' = "end"
  BY ReturnMoves
<1>4. Insert(p) => At(p, "insert") /\ Advance(p) /\ UNCHANGED op
  BY DEF Insert
<1>5. CheckHold(p) => /\ At(p, "check_hold") /\ UNCHANGED op
                      /\ target[p] \in held => Return(p)
                      /\ target[p] \notin held => Advance(p)
  BY DEF CheckHold
<1>6. Find(p) \/ FindNothing(p) =>
         /\ At(p, "find_archivable") \/ At(p, "find_deletable")
         /\ Advance(p) \/ Return(p)
         /\ UNCHANGED op
  BY DEF Find, FindNothing
<1>7. RevokeAll(p) => At(p, "revoke_all") /\ Advance(p) /\ UNCHANGED op
  BY DEF RevokeAll
<1>8. BumpVersion(p) => At(p, "bump") /\ (Advance(p) \/ Return(p)) /\ UNCHANGED op
  BY DEF BumpVersion
<1>9. WriteGene(p) => At(p, "write_gene") /\ Advance(p) /\ UNCHANGED op
  BY DEF WriteGene
<1>10. Audit(p) => At(p, "audit") /\ Advance(p) /\ UNCHANGED op
  BY DEF Audit
<1>11. Enqueue(p) => At(p, "enqueue") /\ Advance(p) /\ UNCHANGED op
  BY DEF Enqueue
<1>12. Restore(p) => At(p, "restore") /\ Advance(p) /\ UNCHANGED op
  BY DEF Restore
<1>13. /\ PurgeVersions(p) => At(p, "purge_versions") /\ Advance(p) /\ UNCHANGED op
       /\ PurgeEvents(p) => At(p, "purge_events") /\ Advance(p) /\ UNCHANGED op
       /\ Delete(p) => At(p, "delete") /\ Advance(p) /\ UNCHANGED op
  BY DEF PurgeVersions, PurgeEvents, Delete
<1>14. Abort(p) => Return(p) /\ UNCHANGED op
  BY DEF Abort
<1> USE DEF Statements, Follows
<1>15. Insert(p) => /\ Where(p) = "insert" /\ op[p] \in {"Submit", "Propose"}
                    /\ Where(p)' = First(Tail(rest[p]))
                    /\ Where(p)' \in {"activate", "enqueue"}
  BY <1>1, <1>2, <1>4
<1>16. CheckHold(p) => /\ Where(p) = "check_hold"
                       /\ target[p] \in held => Where(p)' = "end"
                       /\ Where(p)' \in {"revoke", "audit", "end"}
  BY <1>1, <1>2, <1>3, <1>5
<1>17. Find(p) \/ FindNothing(p) =>
          /\ Where(p) \in {"find_archivable", "find_deletable"}
          /\ Where(p)' \in {"archive", "delete", "end"}
  BY <1>1, <1>2, <1>3, <1>6
<1>18. RevokeAll(p) => /\ Where(p) = "revoke_all" /\ op[p] = "ForgetUserData"
                       /\ Where(p)' = "end"
  BY <1>1, <1>2, <1>7
<1>19. BumpVersion(p) => Where(p) = "bump" /\ Where(p)' \in {"write_gene", "end"}
  BY <1>1, <1>2, <1>3, <1>8
<1>20. WriteGene(p) => /\ Where(p) = "write_gene" /\ op[p] = "RecordOutcome"
                       /\ Where(p)' = "enqueue"
  BY <1>1, <1>2, <1>9
<1>21. Audit(p) => /\ Where(p) = "audit"
                   /\ \/ op[p] = "SoftDelete" /\ Where(p)' = "enqueue"
                      \/ op[p] = "HardDelete" /\ Where(p)' = "purge_versions"
  BY <1>1, <1>2, <1>10
<1>22. Enqueue(p) => /\ Where(p) = "enqueue" /\ Where(p)' = "end"
                     /\ op[p] \in {"Submit", "Propose", "Promote", "Revoke",
                                   "Quarantine", "Archive", "RecordOutcome", "SoftDelete"}
  BY <1>1, <1>2, <1>11
<1>23. Restore(p) => Where(p) = "restore" /\ op[p] = "Rollback" /\ Where(p)' = "end"
  BY <1>1, <1>2, <1>12
<1>24. /\ PurgeVersions(p) => Where(p) = "purge_versions" /\ Where(p)' = "purge_events"
       /\ PurgeEvents(p) => Where(p) = "purge_events" /\ Where(p)' = "delete"
       /\ Delete(p) => Where(p) = "delete" /\ Where(p)' = "end"
  BY <1>1, <1>2, <1>13
<1>25. Abort(p) => Where(p)' = "end"
  BY <1>3, <1>14
<1> HIDE DEF Statements, Follows
<1> QED
  BY <1>25, <1>15, <1>16, <1>17, <1>18, <1>19, <1>20, <1>21, <1>22, <1>23, <1>24

\* The same of the statements that depend on what they find.
LEMMA LeadsOn ==
    ASSUME TypeOK, Control, NEW p \in Procs
    PROVE  /\ Read(p) =>
                 /\ Where(p) \in {"read", "read_candidate", "read_unrevoked"}
                 /\ snap' = [snap EXCEPT ![p] = items[target[p]]]
                 /\ approved \subseteq approved' /\ approved' \subseteq approved \cup {target[p]}
                 /\ Where(p)' # "end" => Exists(p)
                 /\ Where(p)' = "activate"
                       => items[target[p]].status = "candidate" /\ target[p] \in approved'
                 /\ Where(p)' \in {"activate", "revoke", "bump", "snapshot", "end"}
           /\ UpdateStatus(p) =>
                 /\ Where(p) \in {"activate", "revoke", "archive", "quarantine"}
                 /\ Exists(p) =>
                       /\ items' = [items EXCEPT ![target[p]].status = StatusWritten[Where(p)]]
                       /\ Follows(op[p], Where(p), Where(p)')
                 /\ ~Exists(p) => items' = items /\ Where(p)' = "end"
           /\ Snapshot(p) =>
                 /\ Where(p) = "snapshot"
                 /\ \/ /\ versions' = [versions EXCEPT ![target[p]] = Append(@, snap[p])]
                       /\ Where(p)' \in {"load", "end"}
                    \/ versions' = versions /\ Where(p)' = "end"
           /\ Load(p) =>
                 /\ Where(p) = "load"
                 /\ \/ /\ \E v \in DOMAIN versions[target[p]] :
                             snap' = [snap EXCEPT ![p] = versions[target[p]][v]]
                       /\ Where(p)' = "restore"
                    \/ snap' = snap /\ Where(p)' = "end"
<1>1. \A stmt \in Statements : At(p, stmt) => Where(p) = stmt /\ ~Idle(p)
  BY Position DEF At
<1>2. ~Idle(p) /\ Advance(p) /\ UNCHANGED op => Follows(op[p], Where(p), Where(p)')
  BY AdvanceMoves
<1>3. Return(p) /\ UNCHANGED op => Where(p)' = "end"
  BY ReturnMoves
<1>4. ASSUME Read(p)
      PROVE  /\ Where(p) \in {"read", "read_candidate", "read_unrevoked"}
             /\ snap' = [snap EXCEPT ![p] = items[target[p]]]
             /\ approved \subseteq approved' /\ approved' \subseteq approved \cup {target[p]}
             /\ Where(p)' # "end" => Exists(p)
             /\ Where(p)' = "activate"
                   => items[target[p]].status = "candidate" /\ target[p] \in approved'
             /\ Where(p)' \in {"activate", "revoke", "bump", "snapshot", "end"}
  <2> DEFINE passes == /\ Exists(p)
                       /\ At(p, "read_candidate") => items[target[p]].status = "candidate"
                       /\ At(p, "read_unrevoked") => items[target[p]].status # "revoked"
  <2>1. /\ \E stmt \in {"read", "read_candidate", "read_unrevoked"} : At(p, stmt)
        /\ snap' = [snap EXCEPT ![p] = items[target[p]]]
        /\ IF passes THEN Advance(p) ELSE Return(p)
        /\ approved' = IF passes /\ At(p, "read_candidate")
                       THEN approved \cup {target[p]} ELSE approved
        /\ UNCHANGED op
    BY <1>4 DEF Read
  <2>2. /\ Where(p) \in {"read", "read_candidate", "read_unrevoked"} /\ ~Idle(p)
        /\ Where(p) = "read_candidate" => At(p, "read_candidate")
    BY <2>1, <1>1, Position DEF Statements
  <2>3. passes => Follows(op[p], Where(p), Where(p)')
    BY <2>1, <2>2, <1>2
  <2>4. ~passes => Where(p)' = "end"
    BY <2>1, <1>3
  <2>5. Where(p)' \in {"activate", "revoke", "bump", "snapshot", "end"}
    BY <2>2, <2>3, <2>4 DEF Follows
  <2>6. Where(p)' = "activate" => passes /\ Where(p) = "read_candidate"
    BY <2>2, <2>3, <2>4 DEF Follows
  <2> QED
    BY <2>1, <2>2, <2>4, <2>5, <2>6
<1>5. ASSUME UpdateStatus(p)
      PROVE  /\ Where(p) \in {"activate", "revoke", "archive", "quarantine"}
             /\ Exists(p) =>
                   /\ items' = [items EXCEPT ![target[p]].status = StatusWritten[Where(p)]]
                   /\ Follows(op[p], Where(p), Where(p)')
             /\ ~Exists(p) => items' = items /\ Where(p)' = "end"
  <2>1. DOMAIN StatusWritten = {"activate", "revoke", "archive", "quarantine"}
    BY DEF StatusWritten
  <2>2. ~Idle(p) /\ Where(p) = Head(rest[p])
    BY <1>5 DEF UpdateStatus, Where, First, Idle
  <2> QED
    BY <1>5, <2>1, <2>2, <1>2, <1>3 DEF UpdateStatus
<1>6. ASSUME Snapshot(p)
      PROVE  /\ Where(p) = "snapshot"
             /\ \/ /\ versions' = [versions EXCEPT ![target[p]] = Append(@, snap[p])]
                   /\ Where(p)' \in {"load", "end"}
                \/ versions' = versions /\ Where(p)' = "end"
  <2>1. At(p, "snapshot") /\ UNCHANGED op
    BY <1>6 DEF Snapshot
  <2>2. Where(p) = "snapshot" /\ ~Idle(p)
    BY <2>1, <1>1 DEF Statements
  <2>3. Advance(p) => Where(p)' \in {"load", "end"}
    BY <2>1, <2>2, <1>2 DEF Follows
  <2> QED
    BY <1>6, <2>1, <2>2, <2>3, <1>3 DEF Snapshot
<1>7. ASSUME Load(p)
      PROVE  /\ Where(p) = "load"
             /\ \/ /\ \E v \in DOMAIN versions[target[p]] :
                         snap' = [snap EXCEPT ![p] = versions[target[p]][v]]
                   /\ Where(p)' = "restore"
                \/ snap' = snap /\ Where(p)' = "end"
  <2>1. At(p, "load") /\ UNCHANGED op
    BY <1>7 DEF Load
  <2>2. Where(p) = "load" /\ ~Idle(p)
    BY <2>1, <1>1 DEF Statements
  <2>3. Advance(p) => Where(p)' = "restore"
    BY <2>1, <2>2, <1>2 DEF Follows
  <2> QED
    BY <1>7, <2>1, <2>2, <2>3, <1>3 DEF Load
<1> QED
  BY <1>4, <1>5, <1>6, <1>7

\* Conversely, the statement a process is at tells what it does.
LEMMA Executes ==
    ASSUME TypeOK, Control, NEW p \in Procs, Statement(p)
    PROVE  /\ Where(p) = "insert" => Insert(p)
           /\ Where(p) \in {"read", "read_candidate", "read_unrevoked"} => Read(p)
           /\ Where(p) \in {"activate", "revoke", "archive", "quarantine"} => UpdateStatus(p)
           /\ Where(p) = "check_hold" => CheckHold(p)
           /\ Where(p) = "audit" => Audit(p)
           /\ Where(p) = "enqueue" => Enqueue(p)
           /\ Where(p) = "snapshot" => Snapshot(p)
           /\ Where(p) = "load" => Load(p)
           /\ Where(p) = "delete" => Delete(p)
<1>1. /\ Insert(p) => Where(p) = "insert"
      /\ CheckHold(p) => Where(p) = "check_hold"
      /\ Find(p) \/ FindNothing(p) => Where(p) \in {"find_archivable", "find_deletable"}
      /\ RevokeAll(p) => Where(p) = "revoke_all"
      /\ BumpVersion(p) => Where(p) = "bump"
      /\ WriteGene(p) => Where(p) = "write_gene"
      /\ Audit(p) => Where(p) = "audit"
      /\ Enqueue(p) => Where(p) = "enqueue"
      /\ Restore(p) => Where(p) = "restore"
      /\ PurgeVersions(p) => Where(p) = "purge_versions"
      /\ PurgeEvents(p) => Where(p) = "purge_events"
      /\ Delete(p) => Where(p) = "delete"
  BY Leads
<1>2. /\ Read(p) => Where(p) \in {"read", "read_candidate", "read_unrevoked"}
      /\ UpdateStatus(p) => Where(p) \in {"activate", "revoke", "archive", "quarantine"}
      /\ Snapshot(p) => Where(p) = "snapshot"
      /\ Load(p) => Where(p) = "load"
  BY LeadsOn
<1> QED
  BY <1>1, <1>2 DEF Statement

\* An operation that is requested starts at the first statement of its program.
LEMMA BeginMoves ==
    ASSUME TypeOK, Control, NEW p \in Procs, NEW o \in AllOps, NEW i \in Ids,
           NEW prog \in Programs(o), Begin(p, o, i, prog)
    PROVE  /\ Where(p) = "end" /\ Where(p)' = prog[1] /\ rest'[p] = prog
           /\ rest' \in [Procs -> Seq(Statements)] /\ Control' /\ Others(p)
           /\ op' \in [Procs -> AllOps] /\ op'[p] = o
           /\ target' \in [Procs -> Ids] /\ target'[p] = i
           /\ \A q \in Procs \ {p} : op'[q] = op[q] /\ target'[q] = target[q]
<1>1. prog \in Seq(Statements) /\ Suffix(o, prog) /\ First(prog) = prog[1]
  BY ProgramFlow, WholeProgram
<1>2. /\ rest' = [rest EXCEPT ![p] = prog] /\ op' = [op EXCEPT ![p] = o]
      /\ target' = [target EXCEPT ![p] = i] /\ Idle(p)
  BY DEF Begin
<1>3. /\ rest' \in [Procs -> Seq(Statements)] /\ rest'[p] = prog
      /\ \A q \in Procs \ {p} : rest'[q] = rest[q]
      /\ op' \in [Procs -> AllOps] /\ op'[p] = o
      /\ \A q \in Procs \ {p} : op'[q] = op[q]
      /\ target' \in [Procs -> Ids] /\ target'[p] = i
      /\ \A q \in Procs \ {p} : target'[q] = target[q]
  BY <1>1, <1>2 DEF TypeOK
<1>4. Where(p)' = prog[1] /\ Others(p)
  BY <1>1, <1>3 DEF Where, Others
<1>5. Control'
  BY <1>1, <1>3 DEF Control
<1>6. Where(p) = "end"
  BY <1>2, Position
<1> QED
  BY <1>3, <1>4, <1>5, <1>6

\* A request, of any kind.
Requested(p, i) ==
    \/ \E verdict \in {"Safe", "Suspicious", "Blocked"}, confident, highScope \in BOOLEAN :
          Submit(p, i, verdict, confident, highScope)
    \/ Propose(p, i)
    \/ \E o \in Ops : Request(p, o, i)

\* What every request does.
LEMMA Requests ==
    ASSUME TypeOK, Control, NEW p \in Procs, NEW i \in Ids, Requested(p, i)
    PROVE  /\ Where(p) = "end" /\ Starts(op'[p], Where(p)')
           /\ rest' \in [Procs -> Seq(Statements)] /\ Control' /\ Others(p)
           /\ op' \in [Procs -> AllOps]
           /\ target' \in [Procs -> Ids] /\ target'[p] = i
           /\ \A q \in Procs \ {p} : op'[q] = op[q] /\ target'[q] = target[q]
           /\ started < MaxOps /\ started' = started + 1
           /\ created' = created \cup {i} /\ (Where(p)' = "insert" <=> i \notin created)
           /\ approved \subseteq approved' /\ approved' \subseteq approved \cup {i}
           /\ Where(p)' = "insert" /\ First(Tail(rest'[p])) = "activate" => i \in approved'
           /\ unseen' = unseen \ {p}
           /\ racy' = racy \cup {j \in Reach(op'[p], i) :
                                   \E q \in Procs : ~Idle(q) /\ j \in Reach(op[q], target[q])}
           /\ UNCHANGED <<items, versions, events, held, snap, recorded, debt, mute>>
<1>1. ASSUME NEW o \in AllOps, NEW prog \in Programs(o), Begin(p, o, i, prog)
      PROVE  /\ Where(p) = "end" /\ Starts(op'[p], Where(p)')
             /\ rest' \in [Procs -> Seq(Statements)] /\ Control' /\ Others(p)
             /\ op' \in [Procs -> AllOps] /\ op'[p] = o /\ rest'[p] = prog
             /\ target' \in [Procs -> Ids] /\ target'[p] = i
             /\ \A q \in Procs \ {p} : op'[q] = op[q] /\ target'[q] = target[q]
             /\ started < MaxOps /\ started' = started + 1
             /\ unseen' = unseen \ {p}
             /\ racy' = racy \cup {j \in Reach(op'[p], i) :
                                     \E q \in Procs : ~Idle(q) /\ j \in Reach(op[q], target[q])}
             /\ UNCHANGED <<items, versions, events, held, snap, recorded, debt, mute>>
  <2>1. /\ Where(p) = "end" /\ Where(p)' = prog[1] /\ rest'[p] = prog
        /\ rest' \in [Procs -> Seq(Statements)] /\ Control' /\ Others(p)
        /\ op' \in [Procs -> AllOps] /\ op'[p] = o
        /\ target' \in [Procs -> Ids] /\ target'[p] = i
        /\ \A q \in Procs \ {p} : op'[q] = op[q] /\ target'[q] = target[q]
    BY <1>1, BeginMoves
  <2>2. Starts(o, prog[1])
    BY ProgramFlow
  <2> QED
    BY <1>1, <2>1, <2>2 DEF Begin
<1>2. ASSUME NEW verdict \in {"Safe", "Suspicious", "Blocked"},
             NEW confident \in BOOLEAN, NEW highScope \in BOOLEAN,
             Submit(p, i, verdict, confident, highScope)
      PROVE  /\ \E prog \in Programs("Submit") : Begin(p, "Submit", i, prog)
             /\ created' = created \cup {i} /\ i \notin created
             /\ approved \subseteq approved' /\ approved' \subseteq approved \cup {i}
             /\ First(Tail(rest'[p])) = "activate" => i \in approved'
  <2> DEFINE active == DecideActive(verdict, confident, highScope)
             prog == SubmitProgram(active)
  <2>1. active \in BOOLEAN
    BY DEF DecideActive
  <2>2. prog \in Programs("Submit") /\ Begin(p, "Submit", i, prog)
    BY <1>2, <2>1 DEF Submit, Programs, SubmitProgram
  <2>3. rest'[p] = prog
    BY <2>2, <1>1 DEF AllOps
  <2>4. ~active => First(Tail(prog)) = "enqueue"
    BY DEF SubmitProgram, First
  <2>5. active => i \in approved'
    BY <1>2 DEF Submit, DecideActive
  <2>6. /\ created' = created \cup {i} /\ i \notin created
        /\ approved \subseteq approved' /\ approved' \subseteq approved \cup {i}
    BY <1>2 DEF Submit
  <2> HIDE DEF active, prog
  <2> QED
    BY <2>2, <2>3, <2>4, <2>5, <2>6
<1>3. ASSUME Propose(p, i)
      PROVE  /\ \E prog \in Programs("Propose") : Begin(p, "Propose", i, prog)
             /\ created' = created \cup {i} /\ i \notin created /\ approved' = approved
             /\ First(Tail(rest'[p])) # "activate"
  <2>1. Program("Propose") \in Programs("Propose")
    BY DEF Programs
  <2>2. rest'[p] = Program("Propose")
    BY <1>3, <2>1, <1>1 DEF Propose, AllOps
  <2>3. Program("Propose") = <<"insert", "enqueue">>
    BY DEF Program
  <2>4. First(Tail(<<"insert", "enqueue">>)) = "enqueue"
    BY DEF First
  <2> QED
    BY <1>3, <2>1, <2>2, <2>3, <2>4 DEF Propose
<1>4. ASSUME NEW o \in Ops, Request(p, o, i)
      PROVE  /\ o \in AllOps \ {"Submit", "Propose"}
             /\ \E prog \in Programs(o) : Begin(p, o, i, prog)
             /\ created' = created \cup {i} /\ i \in created /\ approved' = approved
  BY <1>4, LifecycleAssumption DEF Request, Programs
<1>5. CASE \E verdict \in {"Safe", "Suspicious", "Blocked"}, confident, highScope \in BOOLEAN :
              Submit(p, i, verdict, confident, highScope)
  <2>1. "Submit" \in AllOps
    BY DEF AllOps
  <2>2. Starts("Submit", Where(p)') => Where(p)' = "insert"
    BY DEF Starts
  <2> QED
    BY <1>5, <1>2, <1>1, <2>1, <2>2
<1>6. CASE Propose(p, i)
  <2>1. "Propose" \in AllOps
    BY DEF AllOps
  <2>2. Starts("Propose", Where(p)') => Where(p)' = "insert"
    BY DEF Starts
  <2> QED
    BY <1>6, <1>3, <1>1, <2>1, <2>2
<1>7. CASE \E o \in Ops : Request(p, o, i)
  <2>1. PICK o \in Ops : Request(p, o, i)
    BY <1>7
  <2>2. Starts(o, Where(p)') => Where(p)' # "insert"
    BY <2>1, <1>4 DEF Starts
  <2>3. /\ o \in AllOps /\ \E prog \in Programs(o) : Begin(p, o, i, prog)
        /\ created' = created \cup {i} /\ i \in created /\ approved' = approved
    BY <2>1, <1>4
  <2>4. PICK prog \in Programs(o) : Begin(p, o, i, prog)
    BY <2>3
  <2> QED
    BY <2>2, <2>3, <2>4, <1>1
<1> QED
  BY <1>5, <1>6, <1>7 DEF Requested

-----------------------------------------------------------------------------
(* Types. *)

\* The table is empty and nothing is under way.
LEMMA InitIInv == Init => IInv
<1> SUFFICES ASSUME Init PROVE IInv
  OBVIOUS
<1>1. \A p \in Procs : op[p] = "Submit" /\ rest[p] = <<>>
  BY DEF Init
<1>2. \A p \in Procs : Where(p) = "end" /\ Suffix(op[p], rest[p])
  BY <1>1, EmptySuffix DEF Where, AllOps
<1>3. \A i \in Ids : items[i] = NoItem /\ versions[i] = <<>> /\ recorded[i] = 0
  BY DEF Init
<1>4. TypeOK
  <2>1. (CHOOSE i \in Ids : TRUE) \in Ids
    BY LifecycleAssumption
  <2>2. target \in [Procs -> Ids]
    BY <2>1 DEF Init
  <2>3. <<>> \in Seq(Item) /\ <<>> \in Seq(Statements)
    BY EmptySeq
  <2>4. /\ items \in [Ids -> Item \cup {NoItem}] /\ snap \in [Procs -> Item \cup {NoItem}]
        /\ versions \in [Ids -> Seq(Item)] /\ rest \in [Procs -> Seq(Statements)]
        /\ events \in [Ids -> SUBSET EventKinds] /\ recorded \in [Ids -> Nat]
        /\ op \in [Procs -> AllOps] /\ debt \in [Ids -> SUBSET Procs]
    BY <2>3 DEF Init, AllOps
  <2>5. /\ held = {} /\ started = 0 /\ created = {} /\ approved = {} /\ racy = {}
        /\ mute = {} /\ unseen = {} /\ 0 \in 0..MaxOps
    BY LifecycleAssumption DEF Init
  <2> QED
    BY <2>2, <2>4, <2>5 DEF TypeOK
<1>5. Fresh /\ SnapReal
  BY <1>2, <1>3 DEF Fresh, SnapReal, Loaded
<1>6. Seen /\ Serial
  BY <1>2 DEF Seen, Serial
<1>7. Reviewed
  BY <1>2, <1>3 DEF Reviewed, ActiveWasApproved, Loaded, NoItem
<1>8. AllTold /\ Counted
  BY <1>3 DEF AllTold, Counted
<1>9. ReadStands
  BY <1>2 DEF ReadStands
<1> QED
  BY <1>2, <1>4, <1>5, <1>6, <1>7, <1>8, <1>9 DEF IInv, Control

\* A step that executes no statement and requests nothing moves nobody.
LEMMA Stays ==
    ASSUME UNCHANGED <<rest, op>>, Control
    PROVE  Control' /\ \A p \in Procs : Where(p)' = Where(p)
BY DEF Control, Where

\* Every row of the table is an item, and the placeholder is none.
LEMMA NoItemApart == NoItem \notin Item /\ NoItem.outcomes = 0 /\ NoItem.status = "none"
BY DEF NoItem, Item, Status

\* Every step keeps the types, and every process in its program.
LEMMA TypeStep ==
    TypeOK /\ Control /\ SnapReal /\ [Next]_vars => TypeOK' /\ Control' /\ SnapReal'
<1> SUFFICES ASSUME TypeOK, Control, SnapReal, [Next]_vars
             PROVE  TypeOK' /\ Control' /\ SnapReal'
  OBVIOUS
<1>1. ASSUME NEW p \in Procs, NEW i \in Ids, Requested(p, i)
      PROVE  TypeOK' /\ Control' /\ SnapReal'
  <2>1. /\ Starts(op'[p], Where(p)')
        /\ rest' \in [Procs -> Seq(Statements)] /\ Control' /\ Others(p)
        /\ op' \in [Procs -> AllOps] /\ target' \in [Procs -> Ids]
        /\ started < MaxOps /\ started' = started + 1
        /\ created' = created \cup {i} /\ approved' \subseteq approved \cup {i}
        /\ unseen' = unseen \ {p}
        /\ racy' = racy \cup {j \in Reach(op'[p], i) :
                                \E q \in Procs : ~Idle(q) /\ j \in Reach(op[q], target[q])}
        /\ UNCHANGED <<items, versions, events, held, snap, recorded, debt, mute>>
    BY <1>1, Requests
  <2>2. Reach(op'[p], i) \subseteq Ids
    BY DEF Reach
  <2>3. unseen' \subseteq Procs
    BY <2>1 DEF TypeOK
  <2>4. started' \in 0..MaxOps
    BY <2>1, LifecycleAssumption DEF TypeOK
  <2>5. /\ racy' \subseteq Ids /\ created' \subseteq Ids
        /\ approved' \subseteq Ids
    BY <2>1, <2>2 DEF TypeOK
  <2>6. TypeOK'
    BY <2>1, <2>3, <2>4, <2>5 DEF TypeOK
  <2>7. SnapReal'
    BY <2>1 DEF SnapReal, Loaded, Others, Starts
  <2> QED
    BY <2>1, <2>6, <2>7
<1>2. ASSUME NEW i \in Ids, PlaceHold(i) \/ ReleaseHold(i)
      PROVE  TypeOK' /\ Control' /\ SnapReal'
  <2>1. TypeOK'
    <3>1. CASE PlaceHold(i)
      BY <3>1, LifecycleAssumption DEF PlaceHold, TypeOK
    <3>2. CASE ReleaseHold(i)
      BY <3>2 DEF ReleaseHold, TypeOK
    <3> QED
      BY <1>2, <3>1, <3>2
  <2>2. UNCHANGED <<rest, op, snap>>
    BY <1>2 DEF PlaceHold, ReleaseHold
  <2> QED
    BY <2>1, <2>2, Stays DEF SnapReal, Loaded
<1>3. ASSUME NEW p \in Procs, Statement(p) \/ Abort(p)
      PROVE  TypeOK' /\ Control' /\ SnapReal'
  <2>1. /\ rest' \in [Procs -> Seq(Statements)] /\ Control' /\ Others(p)
        /\ UNCHANGED <<held, op, target, started, created, racy, unseen>>
    BY <1>3, Moves
  <2>2. /\ op[p] \in AllOps /\ target[p] \in Ids
        /\ items[target[p]] \in Item \cup {NoItem} /\ snap[p] \in Item \cup {NoItem}
    BY DEF TypeOK
  <2>3. /\ items' \in [Ids -> Item \cup {NoItem}] /\ versions' \in [Ids -> Seq(Item)]
        /\ events' \in [Ids -> SUBSET EventKinds] /\ snap' \in [Procs -> Item \cup {NoItem}]
        /\ approved' \subseteq Ids /\ recorded' \in [Ids -> Nat]
        /\ debt' \in [Ids -> SUBSET Procs] /\ mute' \subseteq Ids
        /\ SnapReal'
    <3> USE DEF TypeOK
    <3>0. ASSUME NEW owers \in SUBSET Procs, Owe(owers)
          PROVE  /\ events' \in [Ids -> SUBSET EventKinds]
                 /\ debt' \in [Ids -> SUBSET Procs] /\ mute' \subseteq Ids
      <4>1. \A i \in Ids : events[i] \subseteq EventKinds /\ debt[i] \subseteq Procs
        OBVIOUS
      <4> QED
        BY <3>0, <4>1 DEF Owe
    <3>1. CASE Insert(p)
      BY <3>0, <3>1, <2>1, Leads DEF Insert, Item, Status, SnapReal, Loaded, Others
    <3>2. CASE Read(p)
      <4>1. snap' \in [Procs -> Item \cup {NoItem}] /\ approved' \subseteq Ids
        BY <3>2, <2>2, LeadsOn
      <4>2. /\ snap' = [snap EXCEPT ![p] = items[target[p]]]
            /\ Where(p)' # "end" => items[target[p]] \in Item
        BY <3>2, <2>2, LeadsOn DEF Exists
      <4>3. SnapReal'
        BY <4>2, <2>1 DEF SnapReal, Loaded, Others
      <4> QED
        BY <3>2, <4>1, <4>3 DEF Read
    <3>3. CASE CheckHold(p)
      <4>1. Where(p)' \in {"revoke", "audit", "end"}
        BY <3>3, Leads, Zenon
      <4> QED
        BY <3>3, <2>1, <4>1 DEF CheckHold, SnapReal, Loaded, Others
    <3>4. CASE Find(p) \/ FindNothing(p)
      BY <3>4, <2>1, Leads DEF Find, FindNothing, SnapReal, Loaded, Others
    <3>5. CASE UpdateStatus(p)
      <4>1. Where(p) \in {"activate", "revoke", "archive", "quarantine"}
        BY <3>5, LeadsOn
      <4>2. StatusWritten[Where(p)] \in Status
        BY <4>1 DEF StatusWritten, Status
      <4>3. items' \in [Ids -> Item \cup {NoItem}]
        <5>1. CASE Exists(p)
          <6>1. items' = [items EXCEPT ![target[p]].status = StatusWritten[Where(p)]]
            BY <3>5, <5>1, LeadsOn
          <6>2. [items[target[p]] EXCEPT !.status = StatusWritten[Where(p)]] \in Item
            BY <5>1, <2>2, <4>2 DEF Item, Exists
          <6> QED
            BY <6>1, <6>2
        <5>2. CASE ~Exists(p)
          BY <3>5, <5>2, LeadsOn
        <5> QED
          BY <5>1, <5>2
      <4>4. ~Loaded(p)'
        BY <3>5, <4>1, LeadsOn DEF Follows, Loaded
      <4> QED
        BY <3>0, <3>5, <2>1, <4>3, <4>4 DEF UpdateStatus, SnapReal, Loaded, Others
    <3>6. CASE RevokeAll(p)
      <4>1. \A i \in Ids : items[i] # NoItem => [items[i] EXCEPT !.status = "revoked"] \in Item
        BY DEF Item, Status
      <4> QED
        BY <3>0, <3>6, <2>1, <4>1, Leads DEF RevokeAll, SnapReal, Loaded, Others
    <3>7. CASE BumpVersion(p)
      <4>1. SnapReal'
        BY <3>7, <2>1, Leads DEF BumpVersion, SnapReal, Loaded, Others
      <4> QED
        BY <3>7, <4>1 DEF BumpVersion
    <3>8. CASE WriteGene(p)
      <4>1. snap[p].outcomes + 1 \in Nat
        BY <2>2, NoItemApart DEF Item
      <4>2. items' \in [Ids -> Item \cup {NoItem}]
        BY <3>8, <2>2, <4>1 DEF WriteGene, Item, Exists
      <4> QED
        <5>1. Where(p)' = "enqueue"
          BY <3>8, Leads
        <5>2. recorded' \in [Ids -> Nat]
          BY <3>8, <2>2 DEF WriteGene
        <5>3. SnapReal'
          BY <3>8, <2>1, <5>1 DEF WriteGene, SnapReal, Loaded, Others
        <5> QED
          BY <3>8, <4>2, <5>2, <5>3 DEF WriteGene
    <3>9. CASE Audit(p)
      BY <3>9, <2>1, Leads DEF Audit, SnapReal, Loaded, Others
    <3>10. CASE Enqueue(p)
      <4>1. EventOf(op[p]) \in EventKinds
        BY <3>10, Leads DEF EventOf, EventKinds
      <4> QED
        BY <3>10, <2>1, <2>2, <4>1, Leads DEF Enqueue, SnapReal, Loaded, Others
    <3>11. CASE Snapshot(p)
      <4>1. snap[p] \in Item
        BY <3>11, LeadsOn DEF SnapReal, Loaded
      <4>2. versions' \in [Ids -> Seq(Item)]
        <5>1. \/ versions' = [versions EXCEPT ![target[p]] = Append(@, snap[p])]
              \/ versions' = versions
          BY <3>11, LeadsOn
        <5>2. Append(versions[target[p]], snap[p]) \in Seq(Item)
          BY <2>2, <4>1
        <5> QED
          BY <5>1, <5>2
      <4>3. SnapReal'
        BY <3>11, <2>1, <4>1, LeadsOn DEF Snapshot, SnapReal, Loaded, Others
      <4> QED
        BY <3>11, <4>2, <4>3 DEF Snapshot
    <3>12. CASE Load(p)
      <4>1. \A v \in DOMAIN versions[target[p]] : versions[target[p]][v] \in Item
        BY <2>2
      <4>2. snap' \in [Procs -> Item \cup {NoItem}] /\ SnapReal'
        <5>1. CASE snap' = snap /\ Where(p)' = "end"
          BY <5>1, <2>1 DEF SnapReal, Loaded, Others
        <5>2. CASE \E v \in DOMAIN versions[target[p]] :
                      snap' = [snap EXCEPT ![p] = versions[target[p]][v]]
          BY <5>2, <2>1, <4>1 DEF SnapReal, Loaded, Others
        <5> QED
          BY <3>12, <5>1, <5>2, LeadsOn
      <4> QED
        BY <3>12, <4>2 DEF Load
    <3>13. CASE Restore(p)
      <4>1. snap[p].outcomes \in Nat
        BY <2>2, NoItemApart DEF Item
      <4> QED
        BY <3>0, <3>13, <2>1, <2>2, <4>1, Leads DEF Restore, SnapReal, Loaded, Others
    <3>14. CASE PurgeVersions(p)
      <4>1. <<>> \in Seq(Item)
        BY EmptySeq
      <4> QED
        BY <3>14, <2>1, <4>1, Leads DEF PurgeVersions, SnapReal, Loaded, Others
    <3>15. CASE PurgeEvents(p)
      <4>1. target[p] \in Ids
        BY <2>1
      <4>2. events' \in [Ids -> SUBSET EventKinds] /\ mute' \subseteq Ids
        BY <3>15, <2>1, <4>1 DEF PurgeEvents
      <4>3. SnapReal'
        BY <3>15, <2>1, Leads DEF PurgeEvents, SnapReal, Loaded, Others
      <4> QED
        BY <3>15, <2>1, <4>2, <4>3, Leads DEF PurgeEvents
    <3>16. CASE Delete(p)
      BY <3>16, <2>1, Leads DEF Delete, SnapReal, Loaded, Others
    <3>17. CASE Abort(p)
      BY <3>17, <2>1, Leads DEF Abort, SnapReal, Loaded, Others
    <3> QED
      BY <1>3, <3>1, <3>2, <3>3, <3>4, <3>5, <3>6, <3>7, <3>8, <3>9, <3>10, <3>11,
         <3>12, <3>13, <3>14, <3>15, <3>16, <3>17 DEF Statement
  <2> QED
    BY <2>1, <2>3 DEF TypeOK
<1>4. CASE UNCHANGED vars
  <2>1. TypeOK' /\ UNCHANGED <<rest, op, snap>>
    BY <1>4 DEF vars, TypeOK
  <2> QED
    BY <2>1, Stays DEF SnapReal, Loaded
<1> QED
  BY <1>1, <1>2, <1>3, <1>4 DEF Next, Requested

-----------------------------------------------------------------------------
(* What statements change, and when. *)

\* The six statements that change the table change one row, but for the UPDATE of
\* forget_user_data; only the one that inserts makes a row appear.
LEMMA ItemsChange ==
    ASSUME TypeOK, Control, NEW p \in Procs, Statement(p) \/ Abort(p)
    PROVE  /\ \A i \in Ids \ {target[p]} :
                 items'[i] = items[i] \/ Where(p) = "revoke_all"
           /\ \A i \in Ids : items[i] = NoItem /\ items'[i] # NoItem
                 => i = target[p] /\ Where(p) = "insert"
           /\ items' # items => Where(p) \in {"insert", "activate", "revoke", "archive",
                                   "quarantine", "revoke_all", "write_gene", "restore",
                                   "delete"}
<1>1. target[p] \in Ids /\ items \in [Ids -> Item \cup {NoItem}]
  BY DEF TypeOK
<1>2. CASE Insert(p)
  <2>1. Where(p) = "insert"
    BY <1>2, Leads
  <2> QED
    BY <1>1, <1>2, <2>1 DEF Insert
<1>3. CASE UpdateStatus(p)
  <2>1. /\ Where(p) \in {"activate", "revoke", "archive", "quarantine"}
        /\ \/ items' = items
           \/ /\ items[target[p]] # NoItem
              /\ items' = [items EXCEPT ![target[p]].status = StatusWritten[Where(p)]]
    BY <1>3, LeadsOn DEF Exists
  <2> QED
    BY <1>1, <2>1
<1>4. CASE RevokeAll(p)
  <2>1. Where(p) = "revoke_all"
    BY <1>4, Leads
  <2> QED
    BY <1>1, <1>4, <2>1 DEF RevokeAll
<1>5. CASE WriteGene(p) \/ Restore(p)
  <2>1. Where(p) \in {"write_gene", "restore"}
    BY <1>5, Leads
  <2> QED
    BY <1>1, <1>5, <2>1 DEF WriteGene, Restore, Exists
<1>6. CASE Delete(p)
  <2>1. Where(p) = "delete"
    BY <1>6, Leads
  <2> QED
    BY <1>1, <1>6, <2>1 DEF Delete
<1>7. CASE items' = items
  BY <1>7
<1> QED
  BY <1>2, <1>3, <1>4, <1>5, <1>6, <1>7
     DEF Statement, Abort, Read, CheckHold, Find, FindNothing, BumpVersion, Audit,
         Enqueue, Snapshot, Load, PurgeVersions, PurgeEvents

\* Snapshots are taken and outcomes recorded of rows that were read; a read finds a
\* row.
LEMMA OthersChange ==
    ASSUME TypeOK, Control, NEW p \in Procs, Statement(p) \/ Abort(p)
    PROVE  /\ \A i \in Ids : versions'[i] # versions[i] =>
                 /\ i = target[p]
                 /\ \/ Where(p) = "snapshot" /\ versions'[i] = Append(versions[i], snap[p])
                    \/ Where(p) = "purge_versions" /\ versions'[i] = <<>>
           /\ \A i \in Ids : recorded'[i] # recorded[i] =>
                 i = target[p] /\ Where(p) \in {"write_gene", "restore"}
           /\ \A q \in Procs \ {p} : snap'[q] = snap[q]
           /\ snap'[p] # snap[p] => Where(p) \in {"read", "read_candidate",
                                                  "read_unrevoked", "load"}
           /\ approved \subseteq approved'
<1>1. target[p] \in Ids
  BY DEF TypeOK
<1>2. CASE WriteGene(p) \/ Restore(p)
  <2>1. Where(p) \in {"write_gene", "restore"}
    BY <1>2, Leads
  <2> QED
    BY <1>1, <1>2, <2>1 DEF WriteGene, Restore, TypeOK
<1>3. CASE Snapshot(p)
  <2>1. /\ Where(p) = "snapshot"
        /\ \/ versions' = [versions EXCEPT ![target[p]] = Append(@, snap[p])]
           \/ versions' = versions
    BY <1>3, LeadsOn
  <2> QED
    BY <1>1, <1>3, <2>1 DEF Snapshot, TypeOK
<1>4. CASE PurgeVersions(p)
  <2>1. Where(p) = "purge_versions"
    BY <1>4, Leads
  <2> QED
    BY <1>1, <1>4, <2>1 DEF PurgeVersions, TypeOK
<1>6. CASE Read(p)
  <2>1. /\ Where(p) \in {"read", "read_candidate", "read_unrevoked"}
        /\ snap' = [snap EXCEPT ![p] = items[target[p]]]
        /\ approved \subseteq approved'
    BY <1>6, LeadsOn
  <2> QED
    BY <1>6, <2>1 DEF Read, TypeOK
<1>7. CASE Load(p)
  <2>1. /\ Where(p) = "load"
        /\ \/ \E v \in DOMAIN versions[target[p]] :
                 snap' = [snap EXCEPT ![p] = versions[target[p]][v]]
           \/ snap' = snap
    BY <1>7, LeadsOn
  <2> QED
    BY <1>7, <2>1 DEF Load, TypeOK
<1>8. CASE UNCHANGED <<versions, recorded, snap, approved>>
  BY <1>8
<1> QED
  BY <1>2, <1>3, <1>4, <1>6, <1>7, <1>8
     DEF Statement, Abort, Insert, CheckHold, Find, FindNothing, UpdateStatus, RevokeAll,
         BumpVersion, Audit, Enqueue, PurgeEvents, Delete

\* An operation goes by a row it read, and there was one.
LEMMA LoadedAfter ==
    ASSUME TypeOK, Control, NEW p \in Procs, Statement(p) \/ Abort(p)
    PROVE  /\ Where(p)' # "insert"
           /\ Loaded(p)' /\ ~Loaded(p) => Where(p) = "read" /\ Exists(p)
<1>1. Where(p)' = "end" \/ Follows(op[p], Where(p), Where(p)')
  BY Moves
<1>2. Where(p) \in Statements
  BY Moves
<1>3. /\ Where(p)' # "insert"
      /\ Loaded(p)' /\ ~Loaded(p) => Where(p) = "read" /\ Where(p)' # "end"
  BY <1>1, <1>2 DEF Follows, Loaded, Statements
<1>4. Where(p) = "read" => Read(p) \/ Where(p)' = "end"
  <2>1. Abort(p) => Where(p)' = "end"
    BY Leads
  <2>2. Statement(p) /\ Where(p) = "read" => Read(p)
    BY Executes
  <2> QED
    BY <2>1, <2>2
<1>5. Read(p) /\ Where(p)' # "end" => Exists(p)
  BY LeadsOn
<1> QED
  BY <1>3, <1>4, <1>5

\* Where the status of a row comes from.
LEMMA StatusAfter ==
    ASSUME TypeOK, Control, NEW p \in Procs, Statement(p) \/ Abort(p),
           NEW i \in Ids, items'[i] # NoItem
    PROVE  \/ items[i] # NoItem /\ items'[i].status = items[i].status
           \/ /\ i = target[p] /\ Where(p) = "insert"
              /\ op[p] \in {"Submit", "Propose"}
              /\ Where(p)' \in {"activate", "enqueue"}
              /\ items'[i].status = "candidate"
           \/ /\ i = target[p] /\ Where(p) \in {"activate", "revoke", "archive", "quarantine"}
              /\ items[i] # NoItem
              /\ Follows(op[p], Where(p), Where(p)')
              /\ items'[i].status = StatusWritten[Where(p)]
           \/ /\ Where(p) = "revoke_all" /\ op[p] = "ForgetUserData"
              /\ items[i] # NoItem /\ items'[i].status = "revoked"
           \/ i = target[p] /\ Where(p) = "restore" /\ items[i] # NoItem /\ items'[i] = snap[p]
<1>1. /\ target[p] \in Ids /\ items \in [Ids -> Item \cup {NoItem}]
      /\ items[i] \in Item \cup {NoItem}
  BY DEF TypeOK
<1>2. CASE Insert(p)
  <2>1. /\ Where(p) = "insert" /\ op[p] \in {"Submit", "Propose"}
        /\ Where(p)' \in {"activate", "enqueue"}
    BY <1>2, Leads
  <2> QED
    BY <1>1, <1>2, <2>1 DEF Insert
<1>3. CASE UpdateStatus(p)
  <2>1. /\ Where(p) \in {"activate", "revoke", "archive", "quarantine"}
        /\ \/ items' = items
           \/ /\ items[target[p]] # NoItem
              /\ items' = [items EXCEPT ![target[p]].status = StatusWritten[Where(p)]]
              /\ Follows(op[p], Where(p), Where(p)')
    BY <1>3, LeadsOn DEF Exists
  <2>2. CASE items' = items
    BY <2>2
  <2>3. CASE /\ items[target[p]] # NoItem
             /\ items' = [items EXCEPT ![target[p]].status = StatusWritten[Where(p)]]
             /\ Follows(op[p], Where(p), Where(p)')
    <3>1. CASE i = target[p]
      <4>1. items[i] \in Item
        BY <1>1, <2>3, <3>1
      <4>2. items'[i] = [items[i] EXCEPT !.status = StatusWritten[Where(p)]]
        BY <1>1, <2>3, <3>1
      <4>3. items'[i].status = StatusWritten[Where(p)]
        BY <4>1, <4>2 DEF Item
      <4> QED
        BY <2>1, <2>3, <3>1, <4>3
    <3>2. CASE i # target[p]
      BY <1>1, <2>3, <3>2
    <3> QED
      BY <3>1, <3>2
  <2> QED
    BY <2>1, <2>2, <2>3
<1>4. CASE RevokeAll(p)
  <2>1. Where(p) = "revoke_all" /\ op[p] = "ForgetUserData"
    BY <1>4, Leads
  <2>2. items[i] # NoItem /\ items'[i] = [items[i] EXCEPT !.status = "revoked"]
    BY <1>4 DEF RevokeAll
  <2>3. items'[i].status = "revoked"
    BY <1>1, <2>2 DEF Item
  <2> QED
    BY <2>1, <2>2, <2>3
<1>5. CASE WriteGene(p)
  BY <1>1, <1>5 DEF WriteGene, Exists, Item
<1>6. CASE Restore(p)
  <2>1. Where(p) = "restore"
    BY <1>6, Leads
  <2> QED
    BY <1>1, <1>6, <2>1 DEF Restore, Exists
<1>7. CASE Delete(p)
  BY <1>1, <1>7 DEF Delete
<1>8. CASE items' = items
  BY <1>8
<1> QED
  BY <1>2, <1>3, <1>4, <1>5, <1>6, <1>7, <1>8
     DEF Statement, Abort, Read, CheckHold, Find, FindNothing, BumpVersion, Audit,
         Enqueue, Snapshot, Load, PurgeVersions, PurgeEvents

\* Where the row a process works with comes from.
LEMMA SnapAfter ==
    ASSUME TypeOK, Control, NEW p \in Procs, Statement(p) \/ Abort(p), Loaded(p)'
    PROVE  \/ Loaded(p) /\ snap'[p] = snap[p]
           \/ /\ Where(p) = "read" /\ Exists(p) /\ Where(p)' \in {"bump", "snapshot"}
              /\ snap'[p] = items[target[p]]
           \/ /\ Where(p) = "load"
              /\ \E v \in DOMAIN versions[target[p]] : snap'[p] = versions[target[p]][v]
<1>1. Loaded(p) \/ (Where(p) = "read" /\ Exists(p))
  BY LoadedAfter
<1>2. Where(p) # "read" /\ Where(p) # "load" => snap'[p] = snap[p] \/ ~Loaded(p)
  BY OthersChange DEF Loaded
<1>3. Where(p)' # "end"
  BY DEF Loaded
<1>4. CASE Where(p) = "read"
  <2>1. Read(p)
    <3>1. Abort(p) => Where(p)' = "end"
      BY Leads
    <3>2. Statement(p) => Read(p)
      BY <1>4, Executes
    <3> QED
      BY <1>3, <3>1, <3>2
  <2>2. snap' = [snap EXCEPT ![p] = items[target[p]]] /\ Exists(p)
    BY <1>3, <2>1, LeadsOn
  <2>3. Follows(op[p], Where(p), Where(p)')
    BY <1>3, Moves
  <2>4. Where(p)' \in {"bump", "snapshot"}
    BY <1>4, <2>3 DEF Follows
  <2> QED
    BY <1>4, <2>2, <2>4 DEF TypeOK
<1>5. CASE Where(p) = "load"
  <2>1. Load(p)
    <3>1. Abort(p) => Where(p)' = "end"
      BY Leads
    <3>2. Statement(p) => Load(p)
      BY <1>5, Executes
    <3> QED
      BY <1>3, <3>1, <3>2
  <2>2. \E v \in DOMAIN versions[target[p]] :
           snap' = [snap EXCEPT ![p] = versions[target[p]][v]]
    BY <1>3, <2>1, LeadsOn
  <2> QED
    BY <1>5, <2>2 DEF TypeOK
<1> QED
  BY <1>1, <1>2, <1>4, <1>5

-----------------------------------------------------------------------------
(* Ids that were not handed out, and holds. *)

\* A row is inserted once, before anything is known of it.
LEMMA FreshStep == IInv /\ [Next]_vars => Fresh'
<1> SUFFICES ASSUME IInv, [Next]_vars PROVE Fresh'
  OBVIOUS
<1>0. TypeOK /\ Control /\ Fresh
  BY DEF IInv
<1>1. ASSUME NEW p \in Procs, NEW i \in Ids, Requested(p, i) PROVE Fresh'
  <2>1. /\ Where(p) = "end" /\ Starts(op'[p], Where(p)') /\ Others(p)
        /\ target'[p] = i /\ \A q \in Procs \ {p} : target'[q] = target[q]
        /\ created' = created \cup {i} /\ (Where(p)' = "insert" <=> i \notin created)
        /\ UNCHANGED <<items, versions, recorded>>
    BY <1>0, <1>1, Requests
  <2>2. ~Loaded(p)'
    BY <2>1 DEF Starts, Loaded
  <2>3. \A q \in Procs \ {p} : Where(q)' = Where(q) /\ (Loaded(q)' <=> Loaded(q))
    BY <2>1 DEF Others, Loaded
  <2>4. \A q \in Procs : i \notin created /\ Where(q) # "end" => target[q] # i
    BY <1>0 DEF Fresh
  <2>5. \A q \in Procs : i \notin created /\ target[q] = i => ~Loaded(q) /\ Where(q) # "insert"
    BY <2>4 DEF Loaded
  <2>6. ASSUME NEW q \in Procs, Where(q)' = "insert"
        PROVE  /\ items'[target'[q]] = NoItem /\ versions'[target'[q]] = <<>>
               /\ recorded'[target'[q]] = 0
               /\ \A r \in Procs \ {q} :
                     target'[r] = target'[q] => Where(r)' # "insert" /\ ~Loaded(r)'
    <3>1. CASE q = p
      BY <3>1, <2>1, <2>3, <2>5, <2>6, <1>0 DEF Fresh
    <3>2. CASE q # p
      <4>1. Where(q) = "insert" /\ target[q] \in created
        BY <3>2, <2>3, <2>6, <1>0 DEF Fresh
      <4> QED
        BY <3>2, <4>1, <2>1, <2>2, <2>3, <1>0 DEF Fresh
    <3> QED
      BY <3>1, <3>2
  <2>7. \A q \in Procs : Where(q)' # "end" => target'[q] \in created'
    BY <2>1, <2>3, <1>0 DEF Fresh
  <2>8. \A j \in Ids \ created' :
           items'[j] = NoItem /\ versions'[j] = <<>> /\ recorded'[j] = 0
    BY <2>1, <1>0 DEF Fresh
  <2> QED
    BY <2>6, <2>7, <2>8 DEF Fresh
<1>2. ASSUME NEW p \in Procs, Statement(p) \/ Abort(p) PROVE Fresh'
  <2>1. /\ Where(p) # "end" /\ Others(p) /\ UNCHANGED <<target, created>>
    BY <1>0, <1>2, Moves
  <2>2. \A i \in Ids : items[i] = NoItem /\ items'[i] # NoItem
           => i = target[p] /\ Where(p) = "insert"
    BY <1>0, <1>2, ItemsChange
  <2>3. /\ \A i \in Ids : versions'[i] # versions[i] =>
              i = target[p] /\ (Loaded(p) \/ versions'[i] = <<>>)
        /\ \A i \in Ids : recorded'[i] # recorded[i] => i = target[p] /\ Loaded(p)
    BY <1>0, <1>2, OthersChange DEF Loaded
  <2>4. Where(p)' # "insert" /\ (Loaded(p)' /\ ~Loaded(p) => Exists(p))
    BY <1>0, <1>2, LoadedAfter
  <2>5. \A q \in Procs \ {p} : Where(q)' = Where(q) /\ (Loaded(q)' <=> Loaded(q))
    BY <2>1 DEF Others, Loaded
  <2>6. target[p] \in created /\ \A q \in Procs : target[q] \in Ids
    BY <2>1, <1>0 DEF Fresh, TypeOK
  <2>7. ASSUME NEW q \in Procs, Where(q)' = "insert"
        PROVE  /\ items'[target[q]] = NoItem /\ versions'[target[q]] = <<>>
               /\ recorded'[target[q]] = 0
               /\ \A r \in Procs \ {q} :
                     target[r] = target[q] => Where(r)' # "insert" /\ ~Loaded(r)'
    <3>1. q # p /\ Where(q) = "insert"
      BY <2>4, <2>5, <2>7
    <3>2. /\ items[target[q]] = NoItem /\ versions[target[q]] = <<>>
          /\ recorded[target[q]] = 0
          /\ \A r \in Procs \ {q} :
                target[r] = target[q] => Where(r) # "insert" /\ ~Loaded(r)
      BY <3>1, <1>0 DEF Fresh
    <3>3. target[p] = target[q] => ~Exists(p)
      BY <3>2 DEF Exists
    <3> QED
      BY <3>1, <3>2, <3>3, <2>2, <2>3, <2>4, <2>5, <2>6
  <2>8. \A i \in Ids \ created : items'[i] = NoItem /\ versions'[i] = <<>> /\ recorded'[i] = 0
    BY <1>0, <2>2, <2>3, <2>6 DEF Fresh
  <2>9. \A q \in Procs : Where(q)' # "end" => target[q] \in created
    BY <1>0, <2>5, <2>6 DEF Fresh
  <2> QED
    BY <2>1, <2>7, <2>8, <2>9 DEF Fresh
<1>3. CASE (\E i \in Ids : PlaceHold(i) \/ ReleaseHold(i)) \/ UNCHANGED vars
  <2>1. UNCHANGED <<items, versions, recorded, created, target, rest, op>>
    BY <1>3 DEF PlaceHold, ReleaseHold, vars
  <2> QED
    BY <1>0, <2>1, Stays DEF Fresh, Loaded
<1> QED
  BY <1>1, <1>2, <1>3 DEF Next, Requested

\* Whoever passes the check sees no hold, and is noted when one is placed later.
LEMMA SeenStep == IInv /\ [Next]_vars => Seen'
<1> SUFFICES ASSUME IInv, [Next]_vars PROVE Seen'
  OBVIOUS
<1>0. TypeOK /\ Control /\ Seen
  BY DEF IInv
<1>1. ASSUME NEW p \in Procs, NEW i \in Ids, Requested(p, i) PROVE Seen'
  <2>1. /\ Starts(op'[p], Where(p)') /\ Others(p)
        /\ \A q \in Procs \ {p} : op'[q] = op[q] /\ target'[q] = target[q]
        /\ unseen' = unseen \ {p} /\ UNCHANGED held
    BY <1>0, <1>1, Requests
  <2>2. op'[p] \in {"SoftDelete", "HardDelete"} => Where(p)' = "check_hold"
    BY <2>1 DEF Starts
  <2> QED
    BY <1>0, <2>1, <2>2 DEF Seen, Others
<1>2. ASSUME NEW p \in Procs, Statement(p) \/ Abort(p) PROVE Seen'
  <2>1. /\ Where(p) # "end" /\ Others(p) /\ UNCHANGED <<held, op, target, unseen>>
    BY <1>0, <1>2, Moves
  <2>2. CASE CheckHold(p)
    <3>1. target[p] \in held => Where(p)' = "end"
      BY <1>0, <2>2, Leads
    <3> QED
      BY <1>0, <2>1, <3>1 DEF Seen, Others
  <2>3. CASE ~CheckHold(p)
    <3>1. Statement(p) => Where(p) # "check_hold"
      BY <1>0, <2>3, Executes
    <3>2. Abort(p) => Where(p)' = "end"
      BY <1>0, Leads
    <3>3. Where(p) # "check_hold" \/ Where(p)' = "end"
      BY <1>2, <3>1, <3>2
    <3> QED
      BY <1>0, <2>1, <3>3 DEF Seen, Others
  <2> QED
    BY <2>2, <2>3
<1>3. ASSUME NEW i \in Ids, PlaceHold(i) \/ ReleaseHold(i) PROVE Seen'
  <2>1. UNCHANGED <<target, rest, op>>
    BY <1>3 DEF PlaceHold, ReleaseHold
  <2>2. \A p \in Procs : Where(p)' = Where(p)
    BY <1>0, <2>1, Stays
  <2>3. CASE PlaceHold(i)
    <3>1. \A p \in Procs : /\ Idle(p) <=> Where(p) = "end"
                           /\ At(p, "check_hold") <=> Where(p) = "check_hold"
      BY <1>0, Position DEF Statements
    <3> QED
      BY <1>0, <2>1, <2>2, <2>3, <3>1 DEF PlaceHold, Seen
  <2>4. CASE ReleaseHold(i)
    BY <1>0, <2>1, <2>2, <2>4 DEF ReleaseHold, Seen
  <2> QED
    BY <1>3, <2>3, <2>4
<1>4. CASE UNCHANGED vars
  <2>1. UNCHANGED <<held, target, rest, op, unseen>>
    BY <1>4 DEF vars
  <2> QED
    BY <1>0, <2>1, Stays DEF Seen
<1> QED
  BY <1>1, <1>2, <1>3, <1>4 DEF Next, Requested

\* Only five statements take an item, and all of them are of an operation on it.
LEMMA TakenBy ==
    ASSUME TypeOK, Control, Fresh, NEW p \in Procs, Statement(p) \/ Abort(p),
           NEW i \in Ids, Taken(i)
    PROVE  /\ i \in Reach(op[p], target[p])
           /\ i = target[p] \/ Where(p) = "revoke_all"
           /\ Where(p) \in {"revoke", "archive", "revoke_all", "restore", "delete"}
<1>1. /\ target[p] \in Ids /\ items \in [Ids -> Item \cup {NoItem}]
      /\ items[i] \in Item
  BY DEF TypeOK, Taken
<1>2. CASE Insert(p)
  <2>1. Where(p) = "insert"
    BY <1>2, Leads
  <2>2. i # target[p]
    BY <2>1 DEF Fresh, Taken
  <2> QED
    BY <1>1, <1>2, <2>2 DEF Insert, Taken
<1>3. CASE UpdateStatus(p)
  <2>1. /\ Where(p) \in {"activate", "revoke", "archive", "quarantine"}
        /\ \/ items' = items
           \/ items' = [items EXCEPT ![target[p]].status = StatusWritten[Where(p)]]
    BY <1>3, LeadsOn DEF Exists
  <2>2. i = target[p] /\ items'[i] = [items[i] EXCEPT !.status = StatusWritten[Where(p)]]
    BY <1>1, <2>1 DEF Taken
  <2>3. items'[i].status = StatusWritten[Where(p)]
    BY <1>1, <2>2 DEF Item
  <2>4. /\ StatusWritten["activate"] = "active"
        /\ StatusWritten["quarantine"] = "quarantined"
    BY DEF StatusWritten
  <2>5. Where(p) \notin {"activate", "quarantine"}
    BY <2>3, <2>4, NoItemApart DEF Taken
  <2> QED
    BY <2>1, <2>2, <2>5 DEF Reach
<1>4. CASE RevokeAll(p)
  <2>1. Where(p) = "revoke_all" /\ op[p] = "ForgetUserData"
    BY <1>4, Leads
  <2> QED
    BY <2>1 DEF Reach
<1>5. CASE WriteGene(p)
  <2>1. items'[i] = items[i] \/ items'[i] = [items[i] EXCEPT !.outcomes = snap[p].outcomes + 1]
    BY <1>1, <1>5 DEF WriteGene
  <2>2. items'[i].status = items[i].status
    BY <1>1, <2>1 DEF Item
  <2>3. items[i].status # "none"
    BY <1>1 DEF Item, Status
  <2> QED
    BY <2>2, <2>3, NoItemApart DEF Taken
<1>6. CASE Restore(p) \/ Delete(p)
  <2>1. Where(p) \in {"restore", "delete"}
    BY <1>6, Leads
  <2>2. i = target[p]
    BY <1>1, <1>6 DEF Restore, Delete, Taken
  <2> QED
    BY <2>1, <2>2 DEF Reach
<1>7. CASE items' = items
  BY <1>7 DEF Taken
<1> QED
  BY <1>2, <1>3, <1>4, <1>5, <1>6, <1>7
     DEF Statement, Abort, Read, CheckHold, Find, FindNothing, BumpVersion, Audit,
         Enqueue, Snapshot, Load, PurgeVersions, PurgeEvents

-----------------------------------------------------------------------------
(* Reviews. *)

\* No step brings a status back, or about, that nobody approved.
LEMMA ReviewedStep == IInv /\ [Next]_vars => Reviewed'
<1> SUFFICES ASSUME IInv, [Next]_vars PROVE Reviewed'
  OBVIOUS
<1>0. TypeOK /\ Control /\ Reviewed
  BY DEF IInv
<1>1. ASSUME NEW p \in Procs, NEW i \in Ids, Requested(p, i) PROVE Reviewed'
  <2>1. /\ Starts(op'[p], Where(p)') /\ Others(p)
        /\ target'[p] = i
        /\ \A q \in Procs \ {p} : target'[q] = target[q]
        /\ approved \subseteq approved'
        /\ Where(p)' = "insert" /\ First(Tail(rest'[p])) = "activate" => i \in approved'
        /\ UNCHANGED <<items, versions, snap>>
    BY <1>0, <1>1, Requests
  <2>2. ~Loaded(p)' /\ Where(p)' # "activate"
    BY <2>1 DEF Starts, Loaded
  <2>3. \A q \in Procs \ {p} : /\ Where(q)' = Where(q) /\ rest'[q] = rest[q]
                               /\ Loaded(q)' <=> Loaded(q)
    BY <2>1 DEF Others, Loaded
  <2> QED
    BY <1>0, <2>1, <2>2, <2>3 DEF Reviewed, ActiveWasApproved
<1>2. ASSUME NEW p \in Procs, Statement(p) \/ Abort(p) PROVE Reviewed'
  <2>1. Others(p) /\ UNCHANGED <<op, target>>
    BY <1>0, <1>2, Moves
  <2>2. /\ \A i \in Ids : versions'[i] # versions[i] =>
              /\ i = target[p]
              /\ \/ Where(p) = "snapshot" /\ versions'[i] = Append(versions[i], snap[p])
                 \/ Where(p) = "purge_versions" /\ versions'[i] = <<>>
        /\ \A q \in Procs \ {p} : snap'[q] = snap[q]
        /\ approved \subseteq approved'
    BY <1>0, <1>2, OthersChange
  <2>3. target[p] \in Ids /\ \A q \in Procs : target[q] \in Ids
    BY <1>0 DEF TypeOK
  <2>4. ActiveWasApproved'
    <3> SUFFICES ASSUME NEW i \in Ids, items'[i].status = "active" PROVE i \in approved'
      BY DEF ActiveWasApproved
    <3>1. items'[i] # NoItem
      BY NoItemApart
    <3>2. CASE items[i] # NoItem /\ items'[i].status = items[i].status
      BY <1>0, <2>2, <3>2 DEF Reviewed, ActiveWasApproved
    <3>3. CASE /\ i = target[p] /\ Where(p) \in {"activate", "revoke", "archive", "quarantine"}
               /\ items'[i].status = StatusWritten[Where(p)]
      <4>1. Where(p) = "activate"
        BY <3>3 DEF StatusWritten
      <4> QED
        BY <1>0, <2>2, <3>3, <4>1 DEF Reviewed
    <3>4. CASE i = target[p] /\ Where(p) = "restore" /\ items'[i] = snap[p]
      BY <1>0, <2>2, <3>4 DEF Reviewed, Loaded
    <3> QED
      BY <1>0, <1>2, <3>1, <3>2, <3>3, <3>4, StatusAfter
  <2>5. \A i \in Ids : \A v \in DOMAIN versions'[i] :
           versions'[i][v].status = "active" => i \in approved'
    <3> SUFFICES ASSUME NEW i \in Ids, NEW v \in DOMAIN versions'[i],
                        versions'[i][v].status = "active"
                 PROVE  i \in approved'
      OBVIOUS
    <3>1. CASE versions'[i] = versions[i]
      BY <1>0, <2>2, <3>1 DEF Reviewed
    <3>2. CASE versions'[i] = <<>>
      BY <3>2
    <3>3. CASE i = target[p] /\ Where(p) = "snapshot" /\ versions'[i] = Append(versions[i], snap[p])
      <4>1. versions[i] \in Seq(Item)
        BY <1>0 DEF TypeOK
      <4>2. \/ v \in DOMAIN versions[i] /\ versions'[i][v] = versions[i][v]
            \/ versions'[i][v] = snap[p]
        BY <3>3, <4>1
      <4> QED
        BY <1>0, <2>2, <3>3, <4>2 DEF Reviewed, Loaded
    <3> QED
      BY <2>2, <3>1, <3>2, <3>3
  <2>6. ASSUME NEW q \in Procs
        PROVE  /\ Loaded(q)' /\ snap'[q].status = "active" => target[q] \in approved'
               /\ Where(q)' = "activate" => target[q] \in approved'
               /\ Where(q)' = "insert" /\ First(Tail(rest'[q])) = "activate"
                     => target[q] \in approved'
    <3>1. CASE q # p
      BY <1>0, <2>1, <2>2, <3>1 DEF Reviewed, Others, Loaded
    <3>2. CASE q = p
      <4>1. ASSUME Loaded(p)', snap'[p].status = "active" PROVE target[p] \in approved'
        <5>1. CASE Loaded(p) /\ snap'[p] = snap[p]
          BY <1>0, <2>2, <4>1, <5>1 DEF Reviewed
        <5>2. CASE snap'[p] = items[target[p]]
          BY <1>0, <2>2, <2>3, <4>1, <5>2 DEF Reviewed, ActiveWasApproved
        <5>3. CASE \E v \in DOMAIN versions[target[p]] : snap'[p] = versions[target[p]][v]
          BY <1>0, <2>2, <2>3, <4>1, <5>3 DEF Reviewed
        <5> QED
          BY <1>0, <1>2, <4>1, <5>1, <5>2, <5>3, SnapAfter
      <4>2. ASSUME Where(p)' = "activate" PROVE target[p] \in approved'
        <5>1. Follows(op[p], Where(p), Where(p)') /\ Where(p) \in Statements
          BY <1>0, <1>2, <4>2, Moves
        <5>2. Where(p) \in {"insert", "read_candidate"}
          BY <4>2, <5>1 DEF Follows, Statements
        <5>3. Statement(p) => Insert(p) \/ Read(p)
          BY <1>0, <5>2, Executes
        <5>4. Abort(p) => Where(p)' = "end"
          BY <1>0, Leads
        <5>5. Insert(p) \/ Read(p)
          BY <1>2, <4>2, <5>3, <5>4
        <5>7. CASE Insert(p)
          <6>1. Where(p) = "insert" /\ Where(p)' = First(Tail(rest[p]))
            BY <1>0, <5>7, Leads
          <6> QED
            BY <1>0, <2>2, <4>2, <6>1 DEF Reviewed
        <5>8. CASE Read(p)
          BY <1>0, <4>2, <5>8, LeadsOn
        <5> QED
          BY <5>5, <5>7, <5>8
      <4>3. Where(p)' # "insert"
        BY <1>0, <1>2, LoadedAfter
      <4> QED
        BY <3>2, <4>1, <4>2, <4>3
    <3> QED
      BY <3>1, <3>2
  <2> QED
    BY <2>1, <2>4, <2>5, <2>6 DEF Reviewed
<1>3. CASE (\E i \in Ids : PlaceHold(i) \/ ReleaseHold(i)) \/ UNCHANGED vars
  <2>1. UNCHANGED <<items, versions, snap, approved, target, rest, op>>
    BY <1>3 DEF PlaceHold, ReleaseHold, vars
  <2> QED
    BY <1>0, <2>1, Stays DEF Reviewed, ActiveWasApproved, Loaded
<1> QED
  BY <1>1, <1>2, <1>3 DEF Next, Requested

-----------------------------------------------------------------------------
(* Operations that do not overlap. *)

\* An operation that begins while another one is under way on its item makes the
\* item racy.
LEMMA SerialStep == IInv /\ [Next]_vars => Serial'
<1> SUFFICES ASSUME IInv, [Next]_vars PROVE Serial'
  OBVIOUS
<1>0. TypeOK /\ Control /\ Serial
  BY DEF IInv
<1>1. ASSUME NEW p \in Procs, NEW i \in Ids, Requested(p, i) PROVE Serial'
  <2>1. /\ Others(p) /\ target'[p] = i
        /\ \A q \in Procs \ {p} : op'[q] = op[q] /\ target'[q] = target[q]
        /\ racy' = racy \cup {j \in Reach(op'[p], i) :
                                \E q \in Procs : ~Idle(q) /\ j \in Reach(op[q], target[q])}
    BY <1>0, <1>1, Requests
  <2>2. \A q \in Procs : Where(q) # "end" => ~Idle(q)
    BY <1>0, Position
  <2>3. ASSUME NEW q \in Procs \ {p}, Where(q)' # "end"
        PROVE  Reach(op'[p], target'[p]) \cap Reach(op'[q], target'[q]) \subseteq racy'
    <3>1. ~Idle(q) /\ op'[q] = op[q] /\ target'[q] = target[q]
      BY <2>1, <2>2, <2>3 DEF Others
    <3> QED
      BY <2>1, <3>1
  <2>4. ASSUME NEW q \in Procs \ {p}, NEW r \in Procs \ {p}, q # r,
               Where(q)' # "end", Where(r)' # "end"
        PROVE  Reach(op'[q], target'[q]) \cap Reach(op'[r], target'[r]) \subseteq racy'
    <3>1. Where(q) # "end" /\ Where(r) # "end"
      BY <2>1, <2>4 DEF Others
    <3>2. Reach(op[q], target[q]) \cap Reach(op[r], target[r]) \subseteq racy
      BY <1>0, <2>4, <3>1 DEF Serial
    <3> QED
      BY <2>1, <3>2
  <2> QED
    BY <2>3, <2>4 DEF Serial
<1>2. ASSUME NEW p \in Procs, Statement(p) \/ Abort(p) PROVE Serial'
  <2>1. Where(p) # "end" /\ Others(p) /\ UNCHANGED <<op, target, racy>>
    BY <1>0, <1>2, Moves
  <2>2. \A q \in Procs : Where(q)' # "end" => Where(q) # "end"
    BY <2>1 DEF Others
  <2> QED
    BY <1>0, <2>1, <2>2 DEF Serial
<1>3. CASE (\E i \in Ids : PlaceHold(i) \/ ReleaseHold(i)) \/ UNCHANGED vars
  <2>1. UNCHANGED <<racy, target, rest, op>>
    BY <1>3 DEF PlaceHold, ReleaseHold, vars
  <2> QED
    BY <1>0, <2>1, Stays DEF Serial
<1> QED
  BY <1>1, <1>2, <1>3 DEF Next, Requested

\* Where the outcomes of a row come from, and what is recorded of them.
LEMMA OutcomesAfter ==
    ASSUME TypeOK, Control, NEW p \in Procs, Statement(p) \/ Abort(p),
           NEW i \in Ids, items'[i] # NoItem
    PROVE  \/ /\ items[i] # NoItem /\ items'[i].outcomes = items[i].outcomes
              /\ recorded'[i] = recorded[i]
           \/ /\ i = target[p] /\ Where(p) = "insert"
              /\ items'[i].outcomes = 0 /\ recorded'[i] = recorded[i]
           \/ /\ i = target[p] /\ Where(p) = "write_gene" /\ items[i] # NoItem
              /\ items'[i].outcomes = snap[p].outcomes + 1
              /\ recorded'[i] = recorded[i] + 1
           \/ items'[i].outcomes = snap[p].outcomes /\ recorded'[i] = snap[p].outcomes
<1>1. /\ target[p] \in Ids /\ items \in [Ids -> Item \cup {NoItem}]
      /\ items[i] \in Item \cup {NoItem} /\ recorded \in [Ids -> Nat]
  BY DEF TypeOK
<1>2. CASE Insert(p)
  <2>1. Where(p) = "insert"
    BY <1>2, Leads
  <2> QED
    BY <1>1, <1>2, <2>1 DEF Insert
<1>3. CASE UpdateStatus(p)
  BY <1>1, <1>3 DEF UpdateStatus, Exists, Item
<1>4. CASE RevokeAll(p)
  BY <1>1, <1>4 DEF RevokeAll, Item
<1>5. CASE WriteGene(p)
  <2>1. Where(p) = "write_gene"
    BY <1>5, Leads
  <2>2. CASE i = target[p]
    <3>1. items[i] # NoItem /\ items' = [items EXCEPT ![target[p]].outcomes = snap[p].outcomes + 1]
      BY <1>1, <1>5, <2>2 DEF WriteGene, Exists
    <3>2. items[i] \in Item
      BY <1>1, <3>1
    <3>3. items'[i].outcomes = snap[p].outcomes + 1
      BY <1>1, <2>2, <3>1, <3>2 DEF Item
    <3>4. recorded'[i] = recorded[i] + 1
      BY <1>1, <1>5, <2>2 DEF WriteGene
    <3> QED
      BY <2>1, <2>2, <3>1, <3>3, <3>4
  <2>3. CASE i # target[p]
    BY <1>1, <1>5, <2>3 DEF WriteGene
  <2> QED
    BY <2>2, <2>3
<1>6. CASE Restore(p)
  BY <1>1, <1>6 DEF Restore, Exists
<1>7. CASE Delete(p)
  BY <1>1, <1>7 DEF Delete
<1>8. CASE UNCHANGED <<items, recorded>>
  BY <1>8
<1> QED
  BY <1>2, <1>3, <1>4, <1>5, <1>6, <1>7, <1>8
     DEF Statement, Abort, Read, CheckHold, Find, FindNothing, BumpVersion, Audit,
         Enqueue, Snapshot, Load, PurgeVersions, PurgeEvents

\* An outcome is added to the row that was read, which nobody changed since.
LEMMA CountedStep == IInv /\ [Next]_vars => Counted'
<1> SUFFICES ASSUME IInv, [Next]_vars PROVE Counted'
  OBVIOUS
<1>0. TypeOK /\ Control /\ Fresh /\ ReadStands /\ Counted
  BY DEF IInv
<1>1. ASSUME NEW p \in Procs, NEW i \in Ids, Requested(p, i) PROVE Counted'
  <2>1. racy \subseteq racy' /\ UNCHANGED <<items, recorded>>
    BY <1>0, <1>1, Requests
  <2> QED
    BY <1>0, <2>1 DEF Counted
<1>2. ASSUME NEW p \in Procs, Statement(p) \/ Abort(p) PROVE Counted'
  <2>1. UNCHANGED racy
    BY <1>0, <1>2, Moves
  <2> SUFFICES ASSUME NEW i \in Ids \ racy, items'[i] # NoItem
               PROVE  items'[i].outcomes = recorded'[i]
    BY <2>1 DEF Counted
  <2>2. CASE /\ items[i] # NoItem /\ items'[i].outcomes = items[i].outcomes
             /\ recorded'[i] = recorded[i]
    BY <1>0, <2>2 DEF Counted
  <2>3. CASE /\ i = target[p] /\ Where(p) = "insert"
             /\ items'[i].outcomes = 0 /\ recorded'[i] = recorded[i]
    BY <1>0, <2>3 DEF Fresh
  <2>4. CASE /\ i = target[p] /\ Where(p) = "write_gene" /\ items[i] # NoItem
             /\ items'[i].outcomes = snap[p].outcomes + 1
             /\ recorded'[i] = recorded[i] + 1
    <3>1. snap[p] = items[i]
      BY <1>0, <2>4 DEF ReadStands, Exists
    <3> QED
      BY <1>0, <2>4, <3>1 DEF Counted
  <2>5. CASE items'[i].outcomes = snap[p].outcomes /\ recorded'[i] = snap[p].outcomes
    BY <2>5
  <2> QED
    BY <1>0, <1>2, <2>2, <2>3, <2>4, <2>5, OutcomesAfter
<1>3. CASE (\E i \in Ids : PlaceHold(i) \/ ReleaseHold(i)) \/ UNCHANGED vars
  BY <1>0, <1>3 DEF PlaceHold, ReleaseHold, vars, Counted
<1> QED
  BY <1>1, <1>2, <1>3 DEF Next, Requested

\* What an operation read stands, and so does the snapshot a rollback took.
LEMMA ReadStandsStep == IInv /\ [Next]_vars => ReadStands'
<1> SUFFICES ASSUME IInv, [Next]_vars PROVE ReadStands'
  OBVIOUS
<1>0. TypeOK /\ Control /\ Serial /\ ReadStands
  BY DEF IInv
<1> DEFINE Stands(q) ==
       /\ op[q] = "Promote" /\ Where(q) = "activate"
             => items[target[q]].status = "candidate"
       /\ Where(q) \in {"bump", "write_gene", "snapshot"} => snap[q] = items[target[q]]
       /\ op[q] = "Rollback" /\ Where(q) \in {"load", "restore"}
             => \E v \in DOMAIN versions[target[q]] :
                   versions[target[q]][v] = items[target[q]]
<1>1. ASSUME NEW p \in Procs, NEW i \in Ids, Requested(p, i) PROVE ReadStands'
  <2>1. /\ Starts(op'[p], Where(p)') /\ Others(p)
        /\ \A q \in Procs \ {p} : op'[q] = op[q] /\ target'[q] = target[q]
        /\ racy \subseteq racy' /\ UNCHANGED <<items, versions, snap>>
    BY <1>0, <1>1, Requests
  <2>2. Where(p)' \notin {"activate", "bump", "write_gene", "snapshot", "load", "restore"}
    BY <2>1 DEF Starts
  <2> QED
    BY <1>0, <2>1, <2>2 DEF ReadStands, Exists, Others
<1>2. ASSUME NEW p \in Procs, Statement(p) \/ Abort(p) PROVE ReadStands'
  <2>1. /\ Where(p) \in Statements /\ Where(p) # "end" /\ Others(p)
        /\ UNCHANGED <<op, target, racy>>
        /\ Where(p)' = "end" \/ Follows(op[p], Where(p), Where(p)')
    BY <1>0, <1>2, Moves
  <2>2. /\ \A i \in Ids \ {target[p]} : items'[i] = items[i] \/ Where(p) = "revoke_all"
        /\ items' # items => Where(p) \in {"insert", "activate", "revoke", "archive",
                                "quarantine", "revoke_all", "write_gene", "restore", "delete"}
    BY <1>0, <1>2, ItemsChange
  <2>3. /\ \A i \in Ids : versions'[i] # versions[i] =>
              i = target[p] /\ Where(p) \in {"snapshot", "purge_versions"}
        /\ \A q \in Procs \ {p} : snap'[q] = snap[q]
        /\ snap'[p] # snap[p] => Where(p) \in {"read", "read_candidate",
                                               "read_unrevoked", "load"}
    BY <1>0, <1>2, OthersChange
  <2>4. Abort(p) => Where(p)' = "end"
    BY <1>0, Leads
  <2> SUFFICES ASSUME NEW q \in Procs, Exists(q)', target[q] \notin racy
               PROVE  Stands(q)'
    BY <2>1 DEF ReadStands
  <2>5. target[q] \in Ids /\ target[p] \in Ids /\ items'[target[q]] # NoItem
    BY <1>0, <2>1 DEF TypeOK, Exists
  <2>6. CASE q # p
    <3>1. CASE Where(q) = "end"
      BY <2>1, <2>6, <3>1 DEF Others
    <3>2. CASE Where(q) # "end"
      <4>1. Reach(op[p], target[p]) \cap Reach(op[q], target[q]) \subseteq racy
        BY <1>0, <2>1, <2>6, <3>2 DEF Serial
      <4>2. target[q] \in Reach(op[q], target[q]) /\ target[p] \in Reach(op[p], target[p])
        BY <2>5 DEF Reach
      <4>3. target[q] # target[p] /\ op[p] # "ForgetUserData"
        BY <2>5, <4>1, <4>2 DEF Reach
      <4>4. Where(p) # "revoke_all"
        <5>1. \E b : Follows(op[p], Where(p), b)
          BY <1>0, <2>1, Position
        <5> QED
          BY <4>3, <5>1 DEF Follows
      <4>5. /\ items'[target[q]] = items[target[q]]
            /\ versions'[target[q]] = versions[target[q]] /\ snap'[q] = snap[q]
        BY <2>2, <2>3, <2>5, <2>6, <4>3, <4>4
      <4>6. Stands(q)
        BY <1>0, <2>5, <4>5 DEF ReadStands, Exists
      <4> QED
        BY <2>1, <2>6, <4>5, <4>6 DEF Others
    <3> QED
      BY <3>1, <3>2
  <2>7. CASE q = p
    <3>1. ASSUME op[p] = "Promote", Where(p)' = "activate"
          PROVE  items'[target[p]].status = "candidate"
      <4>1. Where(p) = "read_candidate"
        BY <2>1, <3>1 DEF Follows, Statements
      <4>2. Read(p)
        BY <1>0, <1>2, <2>4, <3>1, <4>1, Executes
      <4>3. items[target[p]].status = "candidate"
        BY <1>0, <3>1, <4>2, LeadsOn
      <4> QED
        BY <2>2, <4>1, <4>3
    <3>2. ASSUME Where(p)' \in {"bump", "write_gene", "snapshot"}
          PROVE  snap'[p] = items'[target[p]]
      <4>1. \/ Where(p) = "read" /\ Where(p)' \in {"bump", "snapshot"}
            \/ Where(p) = "bump"
        BY <2>1, <3>2 DEF Follows, Statements
      <4>2. items' = items
        BY <2>2, <4>1
      <4>3. CASE Where(p) = "read"
        <5>1. Loaded(p)' /\ ~Loaded(p) /\ Where(p) # "load"
          BY <3>2, <4>3 DEF Loaded
        <5> QED
          BY <1>0, <1>2, <4>2, <5>1, SnapAfter
      <4>4. CASE Where(p) = "bump"
        BY <1>0, <2>3, <2>5, <2>7, <4>2, <4>4 DEF ReadStands, Exists
      <4> QED
        BY <4>1, <4>3, <4>4
    <3>3. ASSUME op[p] = "Rollback", Where(p)' \in {"load", "restore"}
          PROVE  \E v \in DOMAIN versions'[target[p]] :
                    versions'[target[p]][v] = items'[target[p]]
      <4>1. \/ Where(p) = "snapshot" /\ Where(p)' = "load"
            \/ Where(p) = "load"
        BY <2>1, <3>3 DEF Follows, Statements
      <4>2. items' = items
        BY <2>2, <4>1
      <4>3. CASE Where(p) = "snapshot" /\ Where(p)' = "load"
        <5>1. Snapshot(p)
          BY <1>0, <1>2, <2>4, <4>3, Executes
        <5>2. versions' = [versions EXCEPT ![target[p]] = Append(@, snap[p])]
          BY <1>0, <4>3, <5>1, LeadsOn
        <5>3. versions[target[p]] \in Seq(Item) /\ versions \in [Ids -> Seq(Item)]
          BY <1>0, <2>5 DEF TypeOK
        <5>4. versions'[target[p]] = Append(versions[target[p]], snap[p])
          BY <2>5, <5>2, <5>3
        <5>5. /\ Len(versions[target[p]]) + 1 \in DOMAIN versions'[target[p]]
              /\ versions'[target[p]][Len(versions[target[p]]) + 1] = snap[p]
          BY <5>3, <5>4
        <5>6. snap[p] = items[target[p]]
          BY <1>0, <2>5, <2>7, <4>2, <4>3 DEF ReadStands, Exists
        <5> QED
          BY <4>2, <5>5, <5>6
      <4>4. CASE Where(p) = "load"
        <5>1. versions'[target[p]] = versions[target[p]]
          BY <2>3, <2>5, <4>4
        <5> QED
          BY <1>0, <2>5, <2>7, <3>3, <4>2, <4>4, <5>1 DEF ReadStands, Exists
      <4> QED
        BY <4>1, <4>3, <4>4
    <3> QED
      BY <2>1, <2>7, <3>1, <3>2, <3>3
  <2> QED
    BY <2>6, <2>7
<1>3. CASE (\E i \in Ids : PlaceHold(i) \/ ReleaseHold(i)) \/ UNCHANGED vars
  <2>1. UNCHANGED <<items, versions, snap, racy, target, rest, op>>
    BY <1>3 DEF PlaceHold, ReleaseHold, vars
  <2> QED
    BY <1>0, <2>1, Stays DEF ReadStands, Exists
<1> QED
  BY <1>1, <1>2, <1>3 DEF Next, Requested

-----------------------------------------------------------------------------
(* Announcements. *)

\* The operations that write a status enqueue the event announcing it.
LEMMA EventsFit ==
    /\ \A o \in {"Submit", "Propose"} :
          EventOf(o) \in Announces("candidate") /\ EventOf(o) \in Announces("active")
    /\ EventOf("Promote") \in Announces("active")
    /\ \A o \in {"Revoke", "SoftDelete"} : EventOf(o) \in Announces("revoked")
    /\ EventOf("Archive") \in Announces("archived")
    /\ EventOf("Quarantine") \in Announces("quarantined")
<1>1. \A o \in {"Submit", "Propose"} : EventOf(o) = "MemoryProposed"
  BY DEF EventOf
<1>2. /\ EventOf("Promote") = "MemoryPromoted"
      /\ EventOf("Archive") = "MemoryExpired"
      /\ EventOf("Quarantine") = "MemoryQuarantined"
  BY DEF EventOf
<1>3. \A o \in {"Revoke", "SoftDelete"} : EventOf(o) = "MemoryRevoked"
  BY DEF EventOf
<1>4. /\ Announces("candidate") = {"MemoryProposed"}
      /\ Announces("active") = {"MemoryProposed", "MemoryPromoted"}
      /\ Announces("archived") = {"MemoryExpired"}
      /\ Announces("revoked") = {"MemoryRevoked"}
      /\ Announces("quarantined") = {"MemoryQuarantined"}
  BY DEF Announces
<1> QED
  BY <1>1, <1>2, <1>3, <1>4

\* What a statement that writes statuses does to the account of one item.
LEMMA OweFacts ==
    ASSUME TypeOK, TypeOK', NEW owers, Owe(owers), NEW i \in Ids \ mute',
           items'[i] # NoItem
    PROVE  \/ /\ items[i] # NoItem /\ items'[i].status = items[i].status
              /\ i \notin mute /\ events'[i] = events[i] /\ debt'[i] = debt[i]
           \/ /\ items'[i].status # items[i].status
              /\ owers # {} /\ debt'[i] = owers
<1>1. items'[i] \in Item /\ items'[i].status # "none"
  BY DEF TypeOK, Item, Status
<1>2. CASE items'[i].status = items[i].status
  <2>1. items[i] # NoItem
    BY <1>1, <1>2, NoItemApart
  <2> QED
    BY <1>2, <2>1 DEF Owe
<1>3. CASE items'[i].status # items[i].status
  BY <1>3 DEF Owe
<1> QED
  BY <1>2, <1>3

\* The account of an item whose status is announced by the step, or by nobody.
Same(p, i) ==
    /\ items[i] # NoItem /\ items'[i].status = items[i].status /\ i \notin mute
    /\ \/ events'[i] = events[i] /\ debt'[i] = debt[i]
       \/ /\ Where(p) = "enqueue" /\ i = target[p]
          /\ events'[i] = events[i] \cup {EventOf(op[p])}
          /\ debt'[i] = debt[i] \ {p}

Wrote(p, i) ==
    /\ i = target[p] /\ debt'[i] = {p}
    /\ \/ /\ Where(p) = "insert" /\ op[p] \in {"Submit", "Propose"}
          /\ Where(p)' \in {"activate", "enqueue"}
          /\ items'[i].status = "candidate"
       \/ /\ Where(p) \in {"activate", "revoke", "archive", "quarantine"}
          /\ op[p] # "RetentionArchive"
          /\ Follows(op[p], Where(p), Where(p)')
          /\ items'[i].status = StatusWritten[Where(p)]

\* A statement leaves the status of an item alone or writes it and owes the event.
LEMMA AccountAfter ==
    ASSUME TypeOK, TypeOK', Control, NEW p \in Procs, Statement(p),
           NEW i \in Ids \ mute', items'[i] # NoItem
    PROVE  Same(p, i) \/ Wrote(p, i)
<1>1. /\ target[p] \in Ids /\ items \in [Ids -> Item \cup {NoItem}]
      /\ debt \in [Ids -> SUBSET Procs] /\ events \in [Ids -> SUBSET EventKinds]
  BY DEF TypeOK
<1>2. CASE Insert(p)
  <2>1. /\ Where(p) = "insert" /\ op[p] \in {"Submit", "Propose"}
        /\ Where(p)' \in {"activate", "enqueue"}
    BY <1>2, Leads
  <2>2. Owe({p}) /\ (i # target[p] => items'[i] = items[i])
        /\ (i = target[p] => items'[i].status = "candidate")
    BY <1>1, <1>2 DEF Insert
  <2> QED
    BY <2>1, <2>2, OweFacts DEF Same, Wrote
<1>3. CASE UpdateStatus(p)
  <2>1. /\ Where(p) \in {"activate", "revoke", "archive", "quarantine"}
        /\ \/ items' = items
           \/ /\ items' = [items EXCEPT ![target[p]].status = StatusWritten[Where(p)]]
              /\ Follows(op[p], Where(p), Where(p)')
    BY <1>3, LeadsOn DEF Exists
  <2>2. PICK owers : owers = IF op[p] = "RetentionArchive" THEN {} ELSE {p}
    OBVIOUS
  <2>3. Owe(owers)
    BY <1>3, <2>2 DEF UpdateStatus
  <2>4. ASSUME items'[i].status # items[i].status
        PROVE  /\ i = target[p] /\ items'[i].status = StatusWritten[Where(p)]
               /\ Follows(op[p], Where(p), Where(p)')
    <3>1. /\ i = target[p] /\ Follows(op[p], Where(p), Where(p)')
          /\ items'[i] = [items[i] EXCEPT !.status = StatusWritten[Where(p)]]
      BY <1>1, <2>1, <2>4
    <3>2. items[i] \in Item \cup {NoItem}
      BY <1>1
    <3>3. items'[i].status = StatusWritten[Where(p)]
      BY <3>1, <3>2 DEF Item, NoItem
    <3> QED
      BY <3>1, <3>3
  <2> QED
    BY <2>1, <2>2, <2>3, <2>4, OweFacts DEF Same, Wrote
<1>4. CASE RevokeAll(p) \/ Restore(p)
  <2>1. Owe({})
    BY <1>4 DEF RevokeAll, Restore
  <2> QED
    BY <2>1, OweFacts DEF Same
<1>5. CASE Enqueue(p)
  <2>1. Where(p) = "enqueue" /\ UNCHANGED <<items, mute>>
    BY <1>5, Leads DEF Enqueue
  <2> QED
    BY <1>1, <1>5, <2>1 DEF Enqueue, Same
<1>6. CASE PurgeEvents(p)
  BY <1>1, <1>6 DEF PurgeEvents, Same
<1>7. CASE WriteGene(p)
  <2>1. UNCHANGED <<events, debt, mute>>
    BY <1>7 DEF WriteGene
  <2>2. items[i] # NoItem /\ items'[i].status = items[i].status
    BY <1>1, <1>7 DEF WriteGene, Exists, Item
  <2> QED
    BY <2>1, <2>2 DEF Same
<1>8. CASE Delete(p)
  BY <1>1, <1>8 DEF Delete, Same
<1>9. CASE UNCHANGED <<items, events, debt, mute>>
  BY <1>9 DEF Same
<1> QED
  BY <1>2, <1>3, <1>4, <1>5, <1>6, <1>7, <1>8, <1>9
     DEF Statement, Read, CheckHold, Find, FindNothing, BumpVersion, Audit, Snapshot,
         Load, PurgeVersions

\* Who is about to announce a status still is, or does.
LEMMA ToldKept ==
    ASSUME TypeOK, Control, NEW p \in Procs, Statement(p), NEW i \in Ids, Same(p, i),
           NEW s, Told(i, s)
    PROVE  Told(i, s)'
<1>1. /\ Where(p) # "end" /\ Others(p) /\ UNCHANGED <<op, target>>
  BY Moves
<1>2. events[i] \subseteq events'[i]
  BY DEF Same
<1>3. CASE debt[i] = {} /\ Announces(s) \cap events[i] # {}
  <2>1. debt'[i] = {}
    BY <1>3 DEF Same
  <2> QED
    BY <1>2, <1>3, <2>1 DEF Told
<1>4. ASSUME NEW q \in Procs, debt[i] = {q}, Pending(q, i, s), q # p
      PROVE  Told(i, s)'
  <2>1. debt'[i] = {q}
    BY <1>4 DEF Same
  <2>2. Pending(q, i, s)'
    BY <1>1, <1>4 DEF Pending, Others
  <2> QED
    BY <2>1, <2>2 DEF Told
<1>5. CASE debt[i] = {p} /\ Pending(p, i, s)
  <2>1. /\ target[p] = i /\ Where(p) \in {"activate", "audit", "enqueue"}
        /\ op[p] \in {"Submit", "Propose", "Promote", "Revoke", "Quarantine", "Archive",
                      "SoftDelete"}
        /\ EventOf(op[p]) \in Announces(s)
    BY <1>5 DEF Pending
  <2>2. CASE Where(p) = "enqueue"
    <3>1. Enqueue(p)
      BY <2>2, Executes
    <3>2. EventOf(op[p]) \in events'[i] /\ debt'[i] = {}
      BY <1>5, <2>1, <3>1 DEF Enqueue, TypeOK
    <3> QED
      BY <2>1, <3>2 DEF Told
  <2>3. CASE Where(p) # "enqueue"
    <3>1. Where(p)' = "enqueue"
      <4>1. CASE Where(p) = "audit"
        <5>1. Audit(p)
          BY <4>1, Executes
        <5> QED
          BY <2>1, <5>1, Leads
      <4>2. CASE Where(p) = "activate"
        <5>1. UpdateStatus(p) /\ Exists(p)
          BY <2>1, <4>2, Executes DEF Same, Exists
        <5>2. Follows(op[p], Where(p), Where(p)')
          BY <5>1, LeadsOn
        <5> QED
          BY <4>2, <5>2 DEF Follows
      <4> QED
        BY <2>1, <2>3, <4>1, <4>2
    <3>2. debt'[i] = {p}
      BY <1>5, <2>3 DEF Same
    <3>3. Pending(p, i, s)'
      BY <1>1, <2>1, <3>1 DEF Pending
    <3> QED
      BY <3>2, <3>3 DEF Told
  <2> QED
    BY <2>2, <2>3
<1> QED
  BY <1>3, <1>4, <1>5 DEF Told

\* A statement that writes a status is followed by the one that announces it.
LEMMA WrittenTold ==
    ASSUME TypeOK, Control, NEW p \in Procs, Statement(p), NEW i \in Ids, Wrote(p, i),
           NEW s, s = items'[i].status
    PROVE  Told(i, s)'
<1>1. UNCHANGED <<op, target>>
  BY Moves
<1>2. CASE /\ Where(p) = "insert" /\ op[p] \in {"Submit", "Propose"}
           /\ Where(p)' \in {"activate", "enqueue"}
           /\ items'[i].status = "candidate"
  <2>1. EventOf(op[p]) \in Announces("candidate")
    BY <1>2, EventsFit
  <2> QED
    BY <1>1, <1>2, <2>1 DEF Told, Pending, Wrote
<1>3. CASE /\ Where(p) \in {"activate", "revoke", "archive", "quarantine"}
           /\ op[p] # "RetentionArchive"
           /\ Follows(op[p], Where(p), Where(p)')
           /\ items'[i].status = StatusWritten[Where(p)]
  <2>1. \/ /\ Where(p) = "activate" /\ op[p] \in {"Submit", "Promote"} /\ Where(p)' = "enqueue"
        \/ /\ Where(p) = "revoke" /\ op[p] \in {"Revoke", "SoftDelete"}
           /\ Where(p)' \in {"enqueue", "audit"}
        \/ Where(p) = "archive" /\ op[p] = "Archive" /\ Where(p)' = "enqueue"
        \/ Where(p) = "quarantine" /\ op[p] = "Quarantine" /\ Where(p)' = "enqueue"
    BY <1>3 DEF Follows
  <2>2. EventOf(op[p]) \in Announces(StatusWritten[Where(p)])
    <3>1. /\ StatusWritten["activate"] = "active" /\ StatusWritten["revoke"] = "revoked"
          /\ StatusWritten["archive"] = "archived"
          /\ StatusWritten["quarantine"] = "quarantined"
      BY DEF StatusWritten
    <3> QED
      BY <2>1, <3>1, EventsFit
  <2> QED
    BY <1>1, <1>3, <2>1, <2>2 DEF Told, Pending, Wrote
<1> QED
  BY <1>2, <1>3 DEF Wrote

\* No step loses an announcement, but for those that leave the item mute.
LEMMA AllToldStep == IInv /\ [Next]_vars => AllTold'
<1> SUFFICES ASSUME IInv, [Next]_vars PROVE AllTold'
  OBVIOUS
<1>0. TypeOK /\ TypeOK' /\ Control /\ AllTold
  BY TypeStep DEF IInv
<1>1. ASSUME NEW p \in Procs, NEW i \in Ids, Requested(p, i) PROVE AllTold'
  <2>1. /\ Where(p) = "end" /\ Others(p)
        /\ \A q \in Procs \ {p} : op'[q] = op[q] /\ target'[q] = target[q]
        /\ UNCHANGED <<items, events, debt, mute>>
    BY <1>0, <1>1, Requests
  <2>2. \A j \in Ids : \A s : Told(j, s) => Told(j, s)'
    BY <2>1 DEF Told, Pending, Others
  <2> QED
    BY <1>0, <2>1, <2>2 DEF AllTold
<1>2. ASSUME NEW p \in Procs, Statement(p) PROVE AllTold'
  <2> SUFFICES ASSUME NEW i \in Ids \ mute', items'[i] # NoItem, NEW s,
                      s = items'[i].status
               PROVE  Told(i, s)'
    BY DEF AllTold, Told, Pending
  <2>1. CASE Same(p, i)
    <3>1. Told(i, s)
      BY <1>0, <2>1 DEF AllTold, Same
    <3> QED
      BY <1>0, <1>2, <2>1, <3>1, ToldKept
  <2>2. CASE Wrote(p, i)
    BY <1>0, <1>2, <2>2, WrittenTold
  <2> QED
    BY <1>0, <1>2, <2>1, <2>2, AccountAfter
<1>3. ASSUME NEW p \in Procs, Abort(p) PROVE AllTold'
  <2>1. Others(p) /\ UNCHANGED <<op, target>>
    BY <1>0, <1>3, Moves
  <2>2. UNCHANGED <<items, events, debt>> /\ mute' = mute \cup {i \in Ids : p \in debt[i]}
    BY <1>3 DEF Abort
  <2>3. ASSUME NEW i \in Ids \ mute', NEW s, Told(i, s) PROVE Told(i, s)'
    <3>1. p \notin debt[i]
      BY <2>2
    <3> QED
      BY <2>1, <2>2, <2>3, <3>1 DEF Told, Pending, Others
  <2> QED
    BY <1>0, <2>2, <2>3 DEF AllTold
<1>4. CASE (\E i \in Ids : PlaceHold(i) \/ ReleaseHold(i)) \/ UNCHANGED vars
  <2>1. UNCHANGED <<items, events, debt, mute, target, rest, op>>
    BY <1>4 DEF PlaceHold, ReleaseHold, vars
  <2> QED
    BY <1>0, <2>1, Stays DEF AllTold, Told, Pending
<1> QED
  BY <1>1, <1>2, <1>3, <1>4 DEF Next, Requested

-----------------------------------------------------------------------------
(* Theorems. *)

\* Every reachable state satisfies the inductive invariant.
THEOREM Inductive == Spec => []IInv
<1>1. IInv /\ [Next]_vars => IInv'
  <2> SUFFICES ASSUME IInv, [Next]_vars PROVE IInv'
    OBVIOUS
  <2>1. TypeOK' /\ Control' /\ SnapReal'
    BY TypeStep DEF IInv
  <2>2. Fresh' /\ Seen' /\ Reviewed'
    BY FreshStep, SeenStep, ReviewedStep
  <2>3. AllTold'
    BY AllToldStep
  <2>4. Serial' /\ ReadStands' /\ Counted'
    BY SerialStep, ReadStandsStep, CountedStep
  <2> QED
    BY <2>1, <2>2, <2>3, <2>4 DEF IInv
<1> QED
  BY <1>1, InitIInv, PTL DEF Spec

\* The memory tables and the operations under way on them keep their types.
THEOREM TypeCorrect == Spec => []TypeOK
<1>1. IInv => TypeOK
  BY DEF IInv
<1> QED
  BY <1>1, Inductive, PTL

\* Who takes a held item, in one step.
LEMMA HeldTaken ==
    ASSUME IInv, [Next]_vars, NEW i \in held \cap held', Taken(i)
    PROVE  \E p \in Procs : /\ rest'[p] # rest[p]
                            /\ i \in Reach(op[p], target[p])
                            /\ op[p] \in Unchecked \/ p \in unseen
<1>0. TypeOK /\ Control /\ Fresh /\ Seen /\ i \in Ids
  BY DEF IInv, TypeOK
<1>1. items' # items
  BY DEF Taken
<1>2. \A q \in Procs, j \in Ids : Requested(q, j) => items' = items
  BY <1>0, Requests
<1>3. PICK p \in Procs : Statement(p) \/ Abort(p)
  BY <1>1, <1>2 DEF Next, Requested, PlaceHold, ReleaseHold, vars
<1>4. /\ i \in Reach(op[p], target[p])
      /\ i = target[p] \/ Where(p) = "revoke_all"
      /\ Where(p) \in {"revoke", "archive", "revoke_all", "restore", "delete"}
  BY <1>0, <1>3, TakenBy
<1>5. PICK b : Follows(op[p], Where(p), b)
  BY <1>0, <1>4, Position
<1>6. \/ op[p] \in Unchecked
      \/ op[p] \in {"SoftDelete", "HardDelete"} /\ Where(p) # "revoke_all"
  BY <1>4, <1>5 DEF Follows, Unchecked
<1>7. op[p] \in {"SoftDelete", "HardDelete"} /\ Where(p) # "revoke_all" => p \in unseen
  BY <1>0, <1>4 DEF Seen
<1>8. Where(p)' # Where(p)
  <2>1. Where(p)' = "end" \/ Follows(op[p], Where(p), Where(p)')
    BY <1>0, <1>3, Moves
  <2> QED
    BY <1>4, <2>1 DEF Follows
<1>9. rest'[p] # rest[p]
  BY <1>8 DEF Where
<1> QED
  BY <1>4, <1>6, <1>7, <1>9

\* A held item is taken only by the operations that never ask for holds, and by a
\* forget that had asked before this hold was placed, whoever else works on the
\* item.
THEOREM HoldsStopForgets == Spec => HeldItemsTaken
<1>1. IInv /\ [Next]_vars =>
         [\A i \in held \cap held' : Taken(i) =>
             \E p \in Procs : /\ rest'[p] # rest[p]
                              /\ i \in Reach(op[p], target[p])
                              /\ op[p] \in Unchecked \/ p \in unseen]_vars
  BY HeldTaken
<1> QED
  BY <1>1, Inductive, PTL DEF Spec, HeldItemsTaken

\* submit_candidate, promote and rollback_to_version: no interleaving of them makes
\* an item active that neither the pipeline nor a promotion approved.
THEOREM ActiveIsApproved == Spec => []ActiveWasApproved
<1>1. IInv => ActiveWasApproved
  BY DEF IInv, Reviewed
<1> QED
  BY <1>1, Inductive, PTL

\* The outbox got an event for the status of every item nobody is working on after
\* that status changed last, but for the exceptions that mute lists.
THEOREM StatusesAnnounced == Spec => []StatusAnnounced
<1>1. IInv => StatusAnnounced
  <2> SUFFICES ASSUME IInv, NEW i \in Ids \ mute, items[i] # NoItem, Quiet(i)
               PROVE  Announces(items[i].status) \cap events[i] # {}
    BY DEF StatusAnnounced
  <2>1. Told(i, items[i].status)
    BY DEF IInv, AllTold
  <2>2. \A p \in Procs : target[p] = i => Where(p) = "end"
    BY Position DEF IInv, Quiet
  <2> QED
    BY <2>1, <2>2 DEF Told, Pending
<1> QED
  BY <1>1, Inductive, PTL

\* record_outcome: no outcome is lost on an item whose operations did not overlap.
THEOREM OutcomesAreCounted == Spec => []OutcomesCounted
<1>1. IInv => OutcomesCounted
  BY DEF IInv, Counted, OutcomesCounted
<1> QED
  BY <1>1, Inductive, PTL

\* promote and rollback_to_version are as good as transactions on an item whose
\* operations do not overlap.
THEOREM SerialIsSafe == Spec => SerialWritesSafe
<1>1. ASSUME IInv, [Next]_vars, NEW p \in Procs, Exists(p), target[p] \notin racy,
             rest'[p] # rest[p], items' # items
      PROVE  /\ op[p] = "Promote" => items[target[p]].status = "candidate"
             /\ op[p] = "Rollback"
                  => \E v \in DOMAIN versions[target[p]] :
                        versions[target[p]][v] = items[target[p]]
  <2>0. TypeOK /\ Control /\ ReadStands
    BY <1>1 DEF IInv
  <2>1. \A q \in Procs, i \in Ids : Requested(q, i) => items' = items
    BY <2>0, Requests
  <2>2. PICK q \in Procs : Statement(q) \/ Abort(q)
    BY <1>1, <2>1 DEF Next, Requested, PlaceHold, ReleaseHold, vars
  <2>3. q = p
    <3>1. Others(q)
      BY <2>0, <2>2, Moves
    <3> QED
      BY <1>1, <3>1 DEF Others
  <2>4. Where(p) \in {"insert", "activate", "revoke", "archive", "quarantine",
                      "revoke_all", "write_gene", "restore", "delete"}
    BY <1>1, <2>0, <2>2, <2>3, ItemsChange
  <2>5. \E b : Follows(op[p], Where(p), b)
    BY <2>0, <2>4, Position
  <2>6. /\ op[p] = "Promote" => Where(p) = "activate"
        /\ op[p] = "Rollback" => Where(p) = "restore"
    BY <2>4, <2>5 DEF Follows
  <2> QED
    BY <1>1, <2>0, <2>6 DEF ReadStands
<1>2. IInv /\ [Next]_vars =>
         [\A p \in Procs :
             Exists(p) /\ target[p] \notin racy /\ rest'[p] # rest[p] /\ items' # items
                 => /\ op[p] = "Promote" => items[target[p]].status = "candidate"
                    /\ op[p] = "Rollback"
                         => \E v \in DOMAIN versions[target[p]] :
                               versions[target[p]][v] = items[target[p]]]_vars
  BY <1>1
<1> QED
  BY <1>2, Inductive, PTL DEF Spec, SerialWritesSafe
==============================================================================
