-------------------------- MODULE SharedTaskProofs --------------------------
(***************************************************************************)
(* Proofs about SharedTask, for any number of agents and of requests.      *)
(***************************************************************************)
EXTENDS SharedTask, TLAPS

\* Only a handoff reaches the statements under the lock, and only
\* add_findings and update_status reach the other one.
StepsOfOp ==
    \A p \in Procs :
        /\ pc[p] \in {"acquire", "transfer", "append", "release"} => op[p] = "handoff"
        /\ pc[p] = "write" => op[p] # "handoff"

\* A handoff between acquire and release has the lock, unless it lost it.
Owns ==
    \A p \in Procs :
        InSection(p) /\ p \notin overdue \cup robbed => lock # NoLock /\ lock.by = p

\* The lock was taken in the name of the request's from_agent, so that its own
\* release finds it.
HeldInName ==
    lock # NoLock =>
        \/ lock.by \in leaked
        \/ InSection(lock.by) /\ lock.holder = from[lock.by]

IInv ==
    /\ TypeOK
    /\ StepsOfOp
    /\ Owns
    /\ HeldInName
    /\ StaleExplained

\* A task is created with nothing cached and the lock free.
LEMMA InitIInv == Init => IInv
<1> SUFFICES ASSUME Init PROVE IInv
  OBVIOUS
<1> DEFINE first == CHOOSE a \in Agents : TRUE
<1>1. first \in Agents
  BY SharedTaskAssumption
<1>2. row \in Row
  BY <1>1 DEF Init, Row
<1>3. TypeOK
  <2>1. from \in [Procs -> Agents] /\ to \in [Procs -> Agents]
    BY <1>1 DEF Init
  <2>2. op \in [Procs -> Ops] /\ pc \in [Procs -> Steps] /\ steps \in [Procs -> BOOLEAN]
    BY DEF Init, Ops, Steps
  <2>3. copy \in [Procs -> Row]
    BY <1>2 DEF Init
  <2>4. /\ entry = NoEntry /\ lock = NoLock /\ started = 0 /\ excused = FALSE
        /\ overdue = {} /\ robbed = {} /\ leaked = {}
    BY Zenon DEF Init
  <2>5. started \in 0..MaxOps
    BY <2>4, SharedTaskAssumption
  <2> QED
    BY <1>2, <2>1, <2>2, <2>3, <2>4, <2>5, Zenon DEF TypeOK
<1> QED
  BY <1>3 DEF Init, IInv, StepsOfOp, Owns, HeldInName, StaleExplained, InSection

\* Every step keeps the types.
LEMMA TypeStep == TypeOK /\ [Next]_vars => TypeOK'
<1> SUFFICES ASSUME TypeOK, [Next]_vars PROVE TypeOK'
  OBVIOUS
<1> USE SharedTaskAssumption DEF TypeOK, Go, Steps
<1>1. ASSUME NEW p \in Procs, NEW o \in Ops, NEW s \in Steps, Begin(p, o, s)
      PROVE  started' \in 0..MaxOps /\ op' \in [Procs -> Ops] /\ pc' \in [Procs -> Steps]
  BY <1>1 DEF Begin
<1>2. ASSUME NEW a \in Agents, Update(a) PROVE row' \in Row
  BY <1>2 DEF Update, Row
<1>3. row.owner \in Agents
  BY DEF Row
<1>4. ASSUME NEW p \in Procs, Get(p) \/ AddFindings(p) \/ UpdateStatus(p)
      PROVE  TypeOK'
  BY <1>4, <1>1 DEF Get, AddFindings, UpdateStatus, Ops
<1>5. ASSUME NEW p \in Procs, NEW a \in Agents, NEW b \in Agents, NEW s \in BOOLEAN,
             Handoff(p, a, b, s)
      PROVE  TypeOK'
  BY <1>5, <1>1 DEF Handoff, Ops
<1>6. ASSUME NEW p \in Procs, ReadCache(p) \/ ReadDb(p) \/ Populate(p) PROVE TypeOK'
  <2>1. CASE ReadCache(p)
    BY <2>1 DEF ReadCache
  <2>2. CASE ReadDb(p)
    BY <2>2 DEF ReadDb
  <2>3. CASE Populate(p)
    <3>1. entry' \in Row \cup {NoEntry} /\ excused' \in BOOLEAN
      BY <2>3 DEF Populate
    <3> QED
      BY <2>3, <3>1 DEF Populate
  <2> QED
    BY <1>6, <2>1, <2>2, <2>3
<1>7. ASSUME NEW p \in Procs, Write(p) \/ Transfer(p) \/ AppendSteps(p) PROVE TypeOK'
  BY <1>7, <1>2, <1>3 DEF Write, Transfer, AppendSteps
<1>8. ASSUME NEW p \in Procs, Invalidate(p) PROVE TypeOK'
  BY <1>8 DEF Invalidate
<1>9. ASSUME NEW p \in Procs, Acquire(p) PROVE TypeOK'
  BY <1>9 DEF Acquire, Lock
<1>10. ASSUME NEW p \in Procs, Release(p) PROVE TypeOK'
  BY <1>10 DEF Release, Lock
<1>11. ASSUME NEW p \in Procs, Fail(p) \/ Die(p) PROVE TypeOK'
  BY <1>11 DEF Fail, Die
<1>12. ASSUME NEW p \in Procs, LoseAnswer(p) PROVE TypeOK'
  <2>1. row' \in Row /\ excused' \in BOOLEAN
    BY <1>12, <1>2, <1>3 DEF LoseAnswer
  <2>2. lock' \in Lock \cup {NoLock} /\ leaked' \subseteq Procs
    BY <1>12 DEF LoseAnswer, Lock
  <2>3. pc' \in [Procs -> Steps]
    BY <1>12 DEF LoseAnswer
  <2> QED
    BY <1>12, <2>1, <2>2, <2>3 DEF LoseAnswer
<1>13. CASE ExpireEntry
  BY <1>13 DEF ExpireEntry
<1>14. CASE ExpireLock
  BY <1>14 DEF ExpireLock, Lock
<1>15. CASE UNCHANGED vars
  BY <1>15 DEF vars
<1> QED
  BY <1>4, <1>5, <1>6, <1>7, <1>8, <1>9, <1>10, <1>11, <1>12, <1>13, <1>14, <1>15
     DEF Next, Step

\* No statement belongs to another operation than the one that was begun.
LEMMA StepsOfOpStep == TypeOK /\ StepsOfOp /\ [Next]_vars => StepsOfOp'
<1> SUFFICES ASSUME TypeOK, StepsOfOp, [Next]_vars PROVE StepsOfOp'
  OBVIOUS
<1> USE DEF TypeOK, StepsOfOp, Go
<1>1. ASSUME NEW p \in Procs,
             \/ Get(p) \/ AddFindings(p) \/ UpdateStatus(p)
             \/ \E a, b \in Agents, s \in BOOLEAN : Handoff(p, a, b, s)
      PROVE  StepsOfOp'
  BY <1>1 DEF Get, AddFindings, UpdateStatus, Handoff, Begin
<1>2. ASSUME NEW p \in Procs, Step(p) PROVE StepsOfOp'
  BY <1>2 DEF Step, ReadCache, ReadDb, Populate, Write, Invalidate, Acquire,
              Transfer, AppendSteps, Release
<1>3. ASSUME NEW p \in Procs, Fail(p) \/ LoseAnswer(p) \/ Die(p) PROVE StepsOfOp'
  BY <1>3 DEF Fail, LoseAnswer, Die
<1>4. CASE ExpireEntry \/ ExpireLock \/ UNCHANGED vars
  BY <1>4 DEF ExpireEntry, ExpireLock, vars
<1> QED
  BY <1>1, <1>2, <1>3, <1>4 DEF Next

\* A step that leaves the lock, and what is known of its loss, alone, and
\* takes no handoff into its section or out of it, keeps what is said of it.
LEMMA LockQuiet ==
    ASSUME Owns, HeldInName, TypeOK,
           UNCHANGED <<lock, overdue, robbed, leaked, from>>,
           \A p \in Procs : InSection(p)' <=> InSection(p)
    PROVE  Owns' /\ HeldInName'
BY DEF Owns, HeldInName, TypeOK, Lock

\* Every step keeps the lock with its owner, in its owner's name.
LEMMA LockStep ==
    TypeOK /\ StepsOfOp /\ Owns /\ HeldInName /\ [Next]_vars => Owns' /\ HeldInName'
<1> SUFFICES ASSUME TypeOK, StepsOfOp, Owns, HeldInName, [Next]_vars
             PROVE  Owns' /\ HeldInName'
  OBVIOUS
<1> USE SharedTaskAssumption DEF TypeOK, Go
<1>1. ASSUME NEW p \in Procs, Get(p) \/ AddFindings(p) \/ UpdateStatus(p)
      PROVE  Owns' /\ HeldInName'
  <2>1. \A q \in Procs : InSection(q)' <=> InSection(q)
    BY <1>1 DEF Get, AddFindings, UpdateStatus, Begin, InSection
  <2> QED
    BY <1>1, <2>1, LockQuiet DEF Get, AddFindings, UpdateStatus
<1>2. ASSUME NEW p \in Procs, NEW a \in Agents, NEW b \in Agents, NEW s \in BOOLEAN,
             Handoff(p, a, b, s)
      PROVE  Owns' /\ HeldInName'
  <2>1. \A q \in Procs : InSection(q)' <=> InSection(q) /\ q # p
    BY <1>2 DEF Handoff, Begin, InSection
  <2>2. Owns'
    BY <1>2, <2>1 DEF Handoff, Owns
  <2>3. ~InSection(p)
    BY <1>2 DEF Handoff, Begin, InSection
  <2>4. HeldInName'
    BY <1>2, <2>1, <2>3 DEF Handoff, HeldInName, Lock
  <2> QED
    BY <2>2, <2>4
<1>3. ASSUME NEW p \in Procs,
             \/ ReadCache(p) \/ ReadDb(p) \/ Populate(p) \/ Write(p)
             \/ Transfer(p) \/ AppendSteps(p)
      PROVE  Owns' /\ HeldInName'
  <2>1. \A q \in Procs : InSection(q)' <=> InSection(q)
    BY <1>3 DEF ReadCache, ReadDb, Populate, Write, Transfer, AppendSteps,
                StepsOfOp, InSection
  <2> QED
    BY <1>3, <2>1, LockQuiet DEF ReadCache, ReadDb, Populate, Write, Transfer, AppendSteps
<1>4. ASSUME NEW p \in Procs, Invalidate(p) PROVE Owns' /\ HeldInName'
  <2>1. \A q \in Procs : InSection(q)' <=> InSection(q)
    BY <1>4 DEF Invalidate, InSection
  <2> QED
    BY <1>4, <2>1, LockQuiet DEF Invalidate
<1>5. ASSUME NEW p \in Procs, Acquire(p) PROVE Owns' /\ HeldInName'
  <2>1. CASE lock = NoLock
    <3>1. lock' = [holder |-> from[p], by |-> p] /\ lock' # NoLock
      BY <1>5, <2>1 DEF Acquire, Lock
    <3>2. \A q \in Procs : InSection(q)' <=> InSection(q) \/ q = p
      BY <1>5, <2>1 DEF Acquire, StepsOfOp, InSection
    <3> QED
      BY <1>5, <2>1, <3>1, <3>2 DEF Acquire, Owns, HeldInName
  <2>2. CASE lock # NoLock
    <3>1. \A q \in Procs : InSection(q)' <=> InSection(q)
      BY <1>5, <2>2 DEF Acquire, InSection
    <3> QED
      BY <1>5, <2>2, <3>1, LockQuiet DEF Acquire
  <2> QED
    BY <2>1, <2>2
<1>6. ASSUME NEW p \in Procs, Release(p) PROVE Owns' /\ HeldInName'
  <2>1. \A q \in Procs : InSection(q)' <=> InSection(q) /\ q # p
    BY <1>6 DEF Release, InSection
  <2>2. InSection(p)
    BY <1>6 DEF Release, StepsOfOp, InSection
  <2>3. CASE lock # NoLock /\ lock.holder = from[p]
    <3>1. lock' = NoLock /\ lock \in Lock /\ lock.by \in Procs
      BY <1>6, <2>3 DEF Release, Lock
    <3>2. \A q \in Procs : q # p /\ lock.by = q => q \in robbed'
      BY <1>6, <2>3, <3>1 DEF Release
    <3>3. robbed \subseteq robbed' /\ UNCHANGED overdue
      BY <1>6 DEF Release
    <3> QED
      BY <2>1, <3>1, <3>2, <3>3 DEF Owns, HeldInName
  <2>4. CASE ~(lock # NoLock /\ lock.holder = from[p])
    <3>1. UNCHANGED <<lock, overdue, robbed, leaked, from>>
      BY <1>6, <2>4 DEF Release
    <3>2. lock # NoLock => lock.by # p \/ lock.by \in leaked
      BY <2>4 DEF HeldInName
    <3> QED
      BY <2>1, <3>1, <3>2 DEF Owns, HeldInName, Lock
  <2> QED
    BY <2>3, <2>4
<1>7. ASSUME NEW p \in Procs, Fail(p) PROVE Owns' /\ HeldInName'
  <2>1. /\ \A q \in Procs : q # p => (InSection(q)' <=> InSection(q))
        /\ InSection(p)' => InSection(p)
        /\ InSection(p) /\ ~InSection(p)' => p \in leaked'
    BY <1>7 DEF Fail, StepsOfOp, InSection
  <2>2. leaked \subseteq leaked' /\ UNCHANGED <<lock, overdue, robbed, from>>
    BY <1>7 DEF Fail
  <2> QED
    BY <2>1, <2>2 DEF Owns, HeldInName, Lock
<1>8. ASSUME NEW p \in Procs, Die(p) PROVE Owns' /\ HeldInName'
  <2>1. /\ \A q \in Procs : q # p => (InSection(q)' <=> InSection(q))
        /\ ~InSection(p)'
        /\ InSection(p) => p \in leaked'
    BY <1>8 DEF Die, InSection
  <2>2. leaked \subseteq leaked' /\ UNCHANGED <<lock, overdue, robbed, from>>
    BY <1>8 DEF Die
  <2> QED
    BY <2>1, <2>2 DEF Owns, HeldInName, Lock
<1>9. ASSUME NEW p \in Procs, LoseAnswer(p) PROVE Owns' /\ HeldInName'
  <2>1. CASE pc[p] = "acquire"
    <3>1. /\ lock = NoLock
          /\ lock' = [holder |-> from[p], by |-> p]
          /\ p \in leaked'
          /\ UNCHANGED <<overdue, robbed>>
      BY <1>9, <2>1 DEF LoseAnswer
    <3>2. \A q \in Procs : InSection(q)' <=> InSection(q)
      BY <1>9, <2>1 DEF LoseAnswer, InSection
    <3> QED
      BY <3>1, <3>2 DEF Owns, HeldInName
  <2>2. CASE pc[p] # "acquire"
    <3>1. \A q \in Procs : InSection(q)' <=> InSection(q)
      BY <1>9, <2>2 DEF LoseAnswer, StepsOfOp, InSection
    <3> QED
      BY <1>9, <2>2, <3>1, LockQuiet DEF LoseAnswer
  <2> QED
    BY <2>1, <2>2
<1>10. CASE ExpireEntry \/ UNCHANGED vars
  <2>1. \A q \in Procs : InSection(q)' <=> InSection(q)
    BY <1>10 DEF ExpireEntry, vars, InSection
  <2> QED
    BY <1>10, <2>1, LockQuiet DEF ExpireEntry, vars
<1>11. CASE ExpireLock
  <2>1. \A q \in Procs : InSection(q)' <=> InSection(q)
    BY <1>11 DEF ExpireLock, InSection
  <2> QED
    BY <1>11, <2>1 DEF ExpireLock, Owns, HeldInName
<1> QED
  BY <1>1, <1>2, <1>3, <1>4, <1>5, <1>6, <1>7, <1>8, <1>9, <1>10, <1>11 DEF Next, Step

\* Every step that lets the copy and the row differ leaves the reason.
LEMMA StaleStep == TypeOK /\ StaleExplained /\ [Next]_vars => StaleExplained'
<1> SUFFICES ASSUME TypeOK, StaleExplained, [Next]_vars PROVE StaleExplained'
  OBVIOUS
<1> USE DEF TypeOK, StaleExplained, Go
<1>1. ASSUME NEW p \in Procs,
             \/ Get(p) \/ AddFindings(p) \/ UpdateStatus(p)
             \/ \E a, b \in Agents, s \in BOOLEAN : Handoff(p, a, b, s)
      PROVE  StaleExplained'
  BY <1>1 DEF Get, AddFindings, UpdateStatus, Handoff, Begin
<1>2. ASSUME NEW p \in Procs, ReadCache(p) \/ ReadDb(p) \/ Acquire(p) \/ Release(p)
      PROVE  StaleExplained'
  BY <1>2 DEF ReadCache, ReadDb, Acquire, Release
<1>3. ASSUME NEW p \in Procs, Populate(p) PROVE StaleExplained'
  BY <1>3 DEF Populate
<1>4. ASSUME NEW p \in Procs, Write(p) \/ Transfer(p) \/ AppendSteps(p)
      PROVE  StaleExplained'
  BY <1>4 DEF Write, Transfer, AppendSteps
<1>5. ASSUME NEW p \in Procs, Invalidate(p) PROVE StaleExplained'
  BY <1>5 DEF Invalidate
<1>6. ASSUME NEW p \in Procs, Fail(p) \/ Die(p) PROVE StaleExplained'
  BY <1>6 DEF Fail, Die
<1>7. ASSUME NEW p \in Procs, LoseAnswer(p) PROVE StaleExplained'
  BY <1>7 DEF LoseAnswer
<1>8. CASE ExpireEntry \/ ExpireLock \/ UNCHANGED vars
  BY <1>8 DEF ExpireEntry, ExpireLock, vars
<1> QED
  BY <1>1, <1>2, <1>3, <1>4, <1>5, <1>6, <1>7, <1>8 DEF Next, Step

\* The inductive invariant holds of every state of SharedTaskManager.
THEOREM Inductive == Spec => []IInv
<1>1. IInv /\ [Next]_vars => IInv'
  BY TypeStep, StepsOfOpStep, LockStep, StaleStep DEF IInv
<1> QED
  BY InitIInv, <1>1, PTL DEF Spec

\* Every reachable state of the task, its copy and its lock is well typed.
THEOREM TypeCorrect == Spec => []TypeOK
<1>1. IInv => TypeOK
  BY DEF IInv
<1> QED
  BY Inductive, <1>1, PTL

\* However many handoffs are called at once, two are under the lock together
\* only when one of them lost it: perform_handoff runs alone while it holds the
\* lock acquire_lock gave it.
THEOREM HandoffsExclude == Spec => []HandoffExclusive
<1>1. IInv => HandoffExclusive
  BY DEF IInv, Owns, HandoffExclusive
<1> QED
  BY Inductive, <1>1, PTL

\* The lock is released whatever the outcome of perform_handoff: while it is
\* held its request is still to release it, unless that request died or the
\* answer to its command was lost.
THEOREM LockReleased == Spec => []LockNotLeaked
<1>1. IInv => LockNotLeaked
  BY DEF IInv, HeldInName, LockNotLeaked
<1> QED
  BY Inductive, <1>1, PTL

\* A copy that differs from the row has one of the reasons StaleExplained lists,
\* whatever the number of readers and writers.
THEOREM StaleHasReason == Spec => []StaleExplained
<1>1. IInv => StaleExplained
  BY DEF IInv
<1> QED
  BY Inductive, <1>1, PTL
=============================================================================
