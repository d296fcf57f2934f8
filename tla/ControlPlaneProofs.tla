-------------------------- MODULE ControlPlaneProofs --------------------------
(***************************************************************************)
(* Proofs about two parts of the control plane that share no state: the    *)
(* registry of an engine with its circuit breaker (for any number of       *)
(* concurrent searches, any positive threshold, and engines that come and  *)
(* go), and the scope of a memory (for any number of concurrent promote    *)
(* calls, route calls and rollbacks, and any number of approval requests). *)
(***************************************************************************)
EXTENDS EngineRegistry, ScopeEscalation, TLAPS

-----------------------------------------------------------------------------
(* EngineRegistry.                                                         *)

\* What the number of probes says of the breaker: a half-open circuit had its
\* first probe, an open one that has cooled down had none, and an entry that is
\* not there had none.
Probing ==
    /\ ~present => probes = 0
    /\ present /\ breaker.state = "HalfOpen" => breaker.cooled /\ probes <= 1
    /\ present /\ breaker.state = "Open" /\ breaker.cooled => probes = 0

RegistryIInv ==
    /\ RegistryTypeOK
    /\ OpenIffFailing
    /\ Probing
    /\ ProbesBounded

\* A breaker is a record of its three fields.
LEMMA BreakerFields ==
    ASSUME NEW b \in Breaker
    PROVE  /\ b = [state |-> b.state, failures |-> b.failures, cooled |-> b.cooled]
           /\ b.state \in {"Closed", "Open", "HalfOpen"}
           /\ b.failures \in Nat
           /\ b.cooled \in BOOLEAN
  BY DEF Breaker

\* CircuitBreaker::new is closed and has counted nothing.
LEMMA NewBreakerFacts ==
    /\ NewBreaker \in Breaker
    /\ NewBreaker.state = "Closed" /\ NewBreaker.failures = 0
    /\ NewBreaker.cooled = FALSE
  BY DEF NewBreaker, Breaker

\* The breaker an operation of search works on satisfies the invariant too,
\* whether it was there or not.
LEMMA EntryFacts ==
    ASSUME RegistryIInv
    PROVE  /\ Entry \in Breaker
           /\ Entry.state = "Closed" <=> Entry.failures < FailureThreshold
           /\ Entry.state = "HalfOpen" => Entry.cooled /\ probes <= 1
           /\ Entry.state = "Open" /\ Entry.cooled => probes = 0
           /\ probes \in Nat /\ probes <= 2
<1>1. CASE present
  BY <1>1 DEF RegistryIInv, RegistryTypeOK, Entry, OpenIffFailing, Probing, ProbesBounded
<1>2. CASE ~present
  BY <1>2, NewBreakerFacts, RegistryAssumption DEF RegistryIInv, RegistryTypeOK, Entry, Probing
<1> QED
  BY <1>1, <1>2

\* The registry starts with the engine and a new breaker.
LEMMA RegistryInitIInv == RegistryInit => RegistryIInv
<1> SUFFICES ASSUME RegistryInit PROVE RegistryIInv
  OBVIOUS
<1>1. searching \in [Callers -> {"idle", "found", "calling"}]
  BY DEF RegistryInit
<1> QED
  BY <1>1, NewBreakerFacts, RegistryAssumption
     DEF RegistryInit, RegistryIInv, RegistryTypeOK, OpenIffFailing, Probing, ProbesBounded

\* Every step keeps the inductive invariant.
LEMMA RegistryStepIInv == RegistryIInv /\ [RegistryNext]_registry_vars => RegistryIInv'
<1> SUFFICES ASSUME RegistryIInv, [RegistryNext]_registry_vars PROVE RegistryIInv'
  OBVIOUS
<1>0. RegistryTypeOK /\ FailureThreshold \in Nat \ {0}
  BY RegistryAssumption DEF RegistryIInv
<1>1. ASSUME NEW c \in Callers, Find(c) \/ Cancel(c) PROVE RegistryIInv'
  <2>1. /\ UNCHANGED <<engine, breaker, present, writer, healthy, probes>>
        /\ searching' \in [Callers -> {"idle", "found", "calling"}]
    BY <1>0, <1>1 DEF Find, Cancel, RegistryTypeOK
  <2> QED
    BY <2>1 DEF RegistryIInv, RegistryTypeOK, OpenIffFailing, Probing, ProbesBounded
<1>2. ASSUME NEW c \in Callers, Allow(c) PROVE RegistryIInv'
  <2>1. /\ present' = TRUE
        /\ UNCHANGED <<engine, writer, healthy>>
        /\ searching' \in [Callers -> {"idle", "found", "calling"}]
    BY <1>0, <1>2 DEF Allow, RegistryTypeOK
  <2>2. CASE Rejected(Entry)
    <3>1. breaker' = Entry /\ probes' = probes
      BY <1>2, <2>2 DEF Allow
    <3> QED
      BY <1>0, <2>1, <3>1, EntryFacts
         DEF RegistryIInv, RegistryTypeOK, OpenIffFailing, Probing, ProbesBounded
  <2>3. CASE ~Rejected(Entry)
    <3>1. /\ breaker' = Allowed(Entry)
          /\ probes' = IF Entry.state = "Closed" THEN probes ELSE probes + 1
      BY <1>2, <2>3 DEF Allow
    <3>2. CASE Entry.state = "Closed"
      BY <1>0, <2>1, <3>1, <3>2, EntryFacts
         DEF RegistryIInv, RegistryTypeOK, OpenIffFailing, Probing, ProbesBounded, Allowed
    <3>3. CASE Entry.state = "HalfOpen"
      <4>1. /\ breaker'.state = "Open" /\ ~breaker'.cooled
            /\ breaker'.failures = Entry.failures
            /\ breaker' \in Breaker
        BY <3>1, <3>3, EntryFacts DEF Allowed, Breaker
      <4> QED
        BY <1>0, <2>1, <3>1, <3>3, <4>1, EntryFacts
           DEF RegistryIInv, RegistryTypeOK, OpenIffFailing, Probing, ProbesBounded
    <3>4. CASE Entry.state = "Open"
      <4>1. Entry.cooled /\ probes = 0
        BY <2>3, <3>4, EntryFacts DEF Rejected
      <4>2. /\ breaker'.state = "HalfOpen" /\ breaker'.cooled
            /\ breaker'.failures = Entry.failures
            /\ breaker' \in Breaker
        BY <3>1, <3>4, <4>1, EntryFacts DEF Allowed, Breaker
      <4> QED
        BY <1>0, <2>1, <3>1, <3>4, <4>1, <4>2, EntryFacts
           DEF RegistryIInv, RegistryTypeOK, OpenIffFailing, Probing, ProbesBounded
    <3> QED
      BY <3>2, <3>3, <3>4, EntryFacts, BreakerFields
  <2> QED
    BY <2>2, <2>3
<1>3. ASSUME NEW c \in Callers, Success(c) PROVE RegistryIInv'
  <2>1. /\ present' = TRUE
        /\ UNCHANGED <<engine, writer, healthy, probes>>
        /\ searching' \in [Callers -> {"idle", "found", "calling"}]
    BY <1>0, <1>3 DEF Success, RegistryTypeOK
  <2>2. breaker'.state = "Closed" /\ breaker'.failures = 0 /\ breaker' \in Breaker
    BY <1>3, EntryFacts DEF Success, Succeeded, Breaker
  <2> QED
    BY <1>0, <2>1, <2>2, EntryFacts
       DEF RegistryIInv, RegistryTypeOK, OpenIffFailing, Probing, ProbesBounded
<1>4. ASSUME NEW c \in Callers, Failure(c) PROVE RegistryIInv'
  <2>1. /\ present' = TRUE
        /\ UNCHANGED <<engine, writer, healthy, probes>>
        /\ searching' \in [Callers -> {"idle", "found", "calling"}]
    BY <1>0, <1>4 DEF Failure, RegistryTypeOK
  <2>2. /\ breaker' = Failed(Entry)
        /\ Entry.failures \in Nat
    BY <1>4, EntryFacts, BreakerFields DEF Failure
  <2>3. /\ breaker'.failures = Entry.failures + 1
        /\ ~breaker'.cooled
        /\ breaker'.state = IF Entry.failures + 1 >= FailureThreshold
                            THEN "Open" ELSE Entry.state
        /\ breaker' \in Breaker
    BY <2>2, EntryFacts, BreakerFields DEF Failed, Breaker
  <2>4. breaker'.state = "Closed" <=> breaker'.failures < FailureThreshold
    BY <1>0, <2>2, <2>3, EntryFacts
  <2>5. breaker'.state # "HalfOpen"
    BY <1>0, <2>2, <2>3, EntryFacts
  <2> QED
    BY <1>0, <2>1, <2>3, <2>4, <2>5, EntryFacts
       DEF RegistryIInv, RegistryTypeOK, OpenIffFailing, Probing, ProbesBounded
<1>5. CASE Register \/ Unregister \/ Flip
  <2>1. /\ UNCHANGED <<breaker, present, searching, probes>>
        /\ engine' \in BOOLEAN
    BY <1>0, <1>5 DEF Register, Unregister, Flip, RegistryTypeOK
  <2>2. writer' \in {"none", "registering", "defaulting", "unregistering"}
    BY <1>0, <1>5 DEF Register, Unregister, Flip, RegistryTypeOK
  <2>3. healthy' \in BOOLEAN
    BY <1>0, <1>5 DEF Register, Unregister, Flip, RegistryTypeOK
  <2> QED
    BY <2>1, <2>2, <2>3 DEF RegistryIInv, RegistryTypeOK, OpenIffFailing, Probing, ProbesBounded
<1>6. CASE RegisterDefault
  BY <1>0, <1>6, NewBreakerFacts
     DEF RegisterDefault, RegistryIInv, RegistryTypeOK, OpenIffFailing, Probing, ProbesBounded
<1>7. CASE FinishWriter
  <2>1. CASE writer = "defaulting"
    BY <1>7, <2>1
       DEF FinishWriter, RegistryIInv, RegistryTypeOK, OpenIffFailing, Probing, ProbesBounded
  <2>2. CASE writer # "defaulting"
    BY <1>0, <1>7, <2>2, NewBreakerFacts
       DEF FinishWriter, RegistryIInv, RegistryTypeOK, OpenIffFailing, Probing, ProbesBounded
  <2> QED
    BY <2>1, <2>2
<1>8. CASE Cool
  <2>1. /\ present /\ breaker.state # "Closed"
        /\ breaker' \in Breaker
        /\ breaker'.state = breaker.state /\ breaker'.failures = breaker.failures
        /\ breaker'.cooled /\ probes' = 0
        /\ UNCHANGED <<engine, present, writer, searching, healthy>>
    BY <1>0, <1>8 DEF Cool, RegistryTypeOK, Breaker
  <2> QED
    BY <1>0, <2>1 DEF RegistryIInv, RegistryTypeOK, OpenIffFailing, Probing, ProbesBounded
<1>9. CASE UNCHANGED registry_vars
  BY <1>9 DEF registry_vars, RegistryIInv, RegistryTypeOK, OpenIffFailing, Probing, ProbesBounded
<1> QED
  BY <1>1, <1>2, <1>3, <1>4, <1>5, <1>6, <1>7, <1>8, <1>9 DEF RegistryNext, Search

-----------------------------------------------------------------------------
(* The theorems. *)

\* The inductive invariant holds of every reachable state.
THEOREM RegistryInvariance == RegistrySpec => []RegistryIInv
  BY RegistryInitIInv, RegistryStepIInv, PTL DEF RegistrySpec

\* Every reachable state is well typed.
THEOREM RegistryTypeCorrect == RegistrySpec => []RegistryTypeOK
  BY RegistryInvariance, PTL DEF RegistryIInv

\* For any number of searches, whenever their results come in, the circuit is
\* closed exactly while there are fewer failures in a row than the threshold.
THEOREM CircuitFollowsFailures == RegistrySpec => []OpenIffFailing
  BY RegistryInvariance, PTL DEF RegistryIInv

\* However many searches are waiting, a failing engine gets at most two of them
\* per cooldown.
THEOREM AtMostTwoProbes == RegistrySpec => []ProbesBounded
  BY RegistryInvariance, PTL DEF RegistryIInv

-----------------------------------------------------------------------------
(* ScopeEscalation.                                                        *)

\* A scope the memory may have: one reached through approvals and, with the
\* store in memory, through approvals that stand.
Lawful(s) ==
    /\ ReachedBy(s, Backed)
    /\ guarded => ReachedBy(s, Standing)

\* A rank the memory may be promoted to from the one below.
Cleared(r) == Backed(r) /\ (guarded => Standing(r))

\* What a call in flight relies on: a promote goes one above a scope that was
\* lawful when it was read, and is cleared before it writes; a rollback writes a
\* lawful scope. The route relies on nothing.
CallLawful(p) ==
    /\ pc[p] \in Promoting =>
           /\ goal[p] \in assessed
           /\ goal[p] - 1 \in Ranks
           /\ Lawful(goal[p] - 1)
    /\ pc[p] = "update" => Cleared(goal[p])
    /\ pc[p] = "restore" => Lawful(goal[p])

\* A promote that was not overtaken still goes one above the scope.
OnTrack(p) ==
    pc[p] \in Promoting /\ p \notin overtaken => scope \in Ranks /\ goal[p] = scope + 1

\* An approval on record was granted.
ApprovedGranted == \A t \in Ranks : Approved(t) => t \in granted

ScopeIInv ==
    /\ ScopeTypeOK
    /\ ApprovedGranted
    /\ Lawful(scope)
    /\ \A v \in DOMAIN snapshots : Lawful(snapshots[v])
    /\ \A p \in Calls : CallLawful(p) /\ OnTrack(p)

\* What no step of the scope takes back.
Grown ==
    /\ given \subseteq given'
    /\ assessed \subseteq assessed'
    /\ granted \subseteq granted'
    /\ guarded' = guarded
    /\ guarded => \A t \in Ranks : Approved(t) => Approved(t)'

\* The scope a memory is created with was given to it.
LEMMA GivenIsLawful == ASSUME NEW s \in given PROVE Lawful(s)
  BY DEF Lawful, ReachedBy

\* One rank more.
LEMMA LawfulClimb ==
    ASSUME ScopeTypeOK, NEW s \in Ranks, s + 1 \in Ranks, Lawful(s), Cleared(s + 1)
    PROVE  Lawful(s + 1)
<1>1. ASSUME NEW b \in Ranks, b < s
      PROVE  Climbed(b, s + 1) = Climbed(b, s) \cup {s + 1}
  BY <1>1 DEF Climbed, Ranks, Top
<1>2. Climbed(s, s + 1) = {s + 1}
  BY DEF Climbed, Ranks, Top
<1>3. s < s + 1 /\ \A b \in Ranks : b < s => b < s + 1
  BY DEF Ranks, Top
<1>4. ReachedBy(s + 1, Backed)
  <2>1. CASE s \in given
    BY <1>2, <1>3, <2>1 DEF ReachedBy, Cleared
  <2>2. CASE s \notin given
    <3>1. PICK b \in given \cap Ranks : b < s /\ \A r \in Climbed(b, s) : Backed(r)
      BY <2>2 DEF Lawful, ReachedBy
    <3>2. \A r \in Climbed(b, s + 1) : Backed(r)
      BY <1>1, <3>1 DEF Cleared
    <3> QED
      BY <1>3, <3>1, <3>2 DEF ReachedBy
  <2> QED
    BY <2>1, <2>2
<1>5. ASSUME guarded PROVE ReachedBy(s + 1, Standing)
  <2>1. CASE s \in given
    BY <1>2, <1>3, <1>5, <2>1 DEF ReachedBy, Cleared
  <2>2. CASE s \notin given
    <3>1. PICK b \in given \cap Ranks : b < s /\ \A r \in Climbed(b, s) : Standing(r)
      BY <1>5, <2>2 DEF Lawful, ReachedBy
    <3>2. \A r \in Climbed(b, s + 1) : Standing(r)
      BY <1>1, <1>5, <3>1 DEF Cleared
    <3> QED
      BY <1>3, <3>1, <3>2 DEF ReachedBy
  <2> QED
    BY <2>1, <2>2
<1> QED
  BY <1>4, <1>5 DEF Lawful

\* A rank cleared stays cleared, and a lawful scope lawful.
LEMMA ClearedKept ==
    ASSUME Grown, NEW r \in Ranks, Cleared(r) PROVE Cleared(r)'
  BY DEF Grown, Cleared, Backed, Standing

LEMMA LawfulKept ==
    ASSUME Grown, NEW s, Lawful(s) PROVE Lawful(s)'
<1>1. \A b : Climbed(b, s) \subseteq Ranks /\ Climbed(b, s)' = Climbed(b, s)
  BY DEF Climbed
<1>2. \A r \in Ranks : Backed(r) => Backed(r)'
  BY DEF Grown, Backed
<1>3. guarded => \A r \in Ranks : Standing(r) => Standing(r)'
  BY DEF Grown, Standing
<1>4. ReachedBy(s, Backed)'
  BY <1>1, <1>2 DEF Lawful, ReachedBy, Grown
<1>5. guarded => ReachedBy(s, Standing)'
  BY <1>1, <1>3 DEF Lawful, ReachedBy, Grown
<1> QED
  BY <1>4, <1>5 DEF Lawful, Grown

\* What a step does not touch of a call stays in order.
LEMMA OthersKept ==
    ASSUME Grown, ScopeTypeOK, NEW q \in Calls, CallLawful(q),
           pc'[q] = pc[q], goal'[q] = goal[q]
    PROVE  CallLawful(q)'
<1>1. PICK g : g = goal[q]
  OBVIOUS
<1>2. PICK h : h = g - 1
  OBVIOUS
<1>3. pc[q] \in Promoting => h \in Ranks /\ Lawful(h) /\ Lawful(h)'
  BY <1>1, <1>2, LawfulKept DEF CallLawful
<1>4. pc[q] = "restore" => Lawful(g)'
  BY <1>1, LawfulKept DEF CallLawful
<1>5. pc[q] = "update" => Cleared(g)'
  <2>1. pc[q] = "update" => g \in Ranks /\ Cleared(g)
    BY <1>1 DEF CallLawful, Promoting, ScopeTypeOK
  <2> QED
    BY <2>1, ClearedKept
<1>6. goal'[q] = g /\ goal'[q] - 1 = h
  BY <1>1, <1>2
<1>7. pc[q] \in Promoting => Lawful(goal[q] - 1)'
  BY <1>3, <1>6 DEF Lawful, ReachedBy, Backed, Standing, Approved, Climbed
<1>8. pc[q] = "restore" => Lawful(goal[q])'
  BY <1>4, <1>6 DEF Lawful, ReachedBy, Backed, Standing, Approved, Climbed
<1>9. pc[q] = "update" => Cleared(goal[q])'
  BY <1>5, <1>6 DEF Cleared, Backed, Standing, Approved
<1> QED
  BY <1>3, <1>6, <1>7, <1>8, <1>9 DEF CallLawful, Grown

\* A memory is created with its scope, and no request has been filed.
LEMMA ScopeInitIInv == ScopeInit => ScopeIInv
<1> SUFFICES ASSUME ScopeInit PROVE ScopeIInv
  OBVIOUS
<1>1. ScopeTypeOK
  <2>1. approvals \in Seq(Approval) /\ snapshots \in Seq(Scopes)
    BY DEF ScopeInit
  <2>2. pc \in [Calls -> {"idle", "set", "restore"} \cup Promoting]
    BY DEF ScopeInit
  <2>3. goal \in [Calls -> Scopes]
    BY DEF ScopeInit, Scopes, Ranks, Top
  <2> QED
    BY <2>1, <2>2, <2>3 DEF ScopeInit, ScopeTypeOK
<1>2. Lawful(scope)
  BY GivenIsLawful DEF ScopeInit
<1>3. \A p \in Calls : CallLawful(p) /\ OnTrack(p)
  BY DEF ScopeInit, CallLawful, OnTrack, Promoting
<1>4. ApprovedGranted
  BY DEF ScopeInit, ApprovedGranted, Approved
<1>5. \A v \in DOMAIN snapshots : Lawful(snapshots[v])
  BY DEF ScopeInit
<1> QED
  BY <1>1, <1>2, <1>3, <1>4, <1>5 DEF ScopeIInv

\* What the end of a call and a write change.
LEMMA EndCallFacts ==
    ASSUME ScopeTypeOK, NEW p \in Calls, EndCall(p)
    PROVE  /\ pc'[p] = "idle"
           /\ \A q \in Calls \ {p} : pc'[q] = pc[q] /\ goal'[q] = goal[q]
           /\ pc' \in [Calls -> {"idle", "set", "restore"} \cup Promoting]
           /\ goal' \in [Calls -> Scopes]
  BY DEF EndCall, ScopeTypeOK, Scopes, Ranks, Top

\* Every step keeps the types.
LEMMA ScopeTypeStep == ScopeIInv /\ [ScopeNext]_scope_vars => ScopeTypeOK'
<1> SUFFICES ASSUME ScopeIInv, [ScopeNext]_scope_vars PROVE ScopeTypeOK'
  OBVIOUS
<1>a. ScopeTypeOK /\ \A p \in Calls : pc[p] \in Promoting => goal[p] \in Ranks
  BY DEF ScopeIInv, CallLawful, ScopeTypeOK
<1> USE <1>a DEF ScopeTypeOK
<1>0. Ranks \subseteq Scopes
  BY DEF Scopes
<1>1. ASSUME NEW p \in Calls, NEW t \in Ranks, Promote(p, t) PROVE ScopeTypeOK'
  BY <1>0, <1>1 DEF Promote, Promoting
<1>2. ASSUME NEW p \in Calls, FindApproved(p) PROVE ScopeTypeOK'
  BY <1>2 DEF FindApproved, Promoting
<1>3. ASSUME NEW p \in Calls, FileRequest(p) PROVE ScopeTypeOK'
  <2>1. [target |-> goal[p], status |-> "pending"] \in Approval
    BY <1>3 DEF FileRequest, Promoting, Approval, ApprovalStatus
  <2>2. approvals' \in Seq(Approval)
    BY <1>3, <2>1 DEF FileRequest
  <2> QED
    BY <1>3, <2>2, EndCallFacts DEF FileRequest
<1>4. ASSUME NEW p \in Calls, Write(p), given' \subseteq Scopes PROVE ScopeTypeOK'
  BY <1>4, EndCallFacts DEF Write
<1>5. ASSUME NEW p \in Calls, Fail(p) PROVE ScopeTypeOK'
  BY <1>5, EndCallFacts DEF Fail
<1>6. ASSUME CreateVersion PROVE snapshots' \in Seq(Scopes)
  BY <1>6 DEF CreateVersion
<1>7. ASSUME NEW p \in Calls, NEW s \in RouteScopes, PromoteRoute(p, s)
      PROVE  ScopeTypeOK'
  BY <1>6, <1>7, ScopeAssumption DEF PromoteRoute
<1>8. ASSUME NEW p \in Calls, NEW v \in 1..MaxVersions, Rollback(p, v)
      PROVE  ScopeTypeOK'
  <2>1. snapshots'[v] \in Scopes
    BY <1>6, <1>8 DEF Rollback
  <2> QED
    BY <1>6, <1>8, <2>1 DEF Rollback
<1>9. ASSUME NEW i \in DOMAIN approvals, NEW d \in Decisions, Decide(i, d)
      PROVE  ScopeTypeOK'
  <2>1. approvals[i] \in Approval
    OBVIOUS
  <2>2. [approvals[i] EXCEPT !.status = d] \in Approval
    BY <2>1 DEF Approval, ApprovalStatus
  <2>3. approvals' \in Seq(Approval)
    BY <1>9, <2>2 DEF Decide
  <2>4. granted' \subseteq Ranks
    BY <1>9, <2>1 DEF Decide, Approval
  <2> QED
    BY <1>9, <2>3, <2>4 DEF Decide
<1>10. ASSUME NEW I \in SUBSET DOMAIN approvals, ExpirePending(I)
       PROVE  ScopeTypeOK'
  <2>0. \A i \in DOMAIN approvals : approvals[i] \in Approval
    OBVIOUS
  <2>1. \A i \in DOMAIN approvals :
            [approvals[i] EXCEPT !.status = "expired"] \in Approval
    BY <2>0 DEF Approval, ApprovalStatus
  <2>2. approvals' \in Seq(Approval)
    BY <1>10, <2>0, <2>1 DEF ExpirePending
  <2> QED
    BY <1>10, <2>2 DEF ExpirePending
<1>11. CASE DeleteMemory \/ UNCHANGED scope_vars
  BY <1>11 DEF DeleteMemory, scope_vars
<1>12. ASSUME NEW p \in Calls, UpdateScope(p) \/ SetScope(p) \/ RestoreScope(p)
       PROVE  ScopeTypeOK'
  <2>1. Write(p) /\ given' \subseteq Scopes
    BY <1>12 DEF UpdateScope, SetScope, RestoreScope
  <2> QED
    BY <1>4, <2>1
<1> QED
  BY <1>1, <1>2, <1>3, <1>5, <1>7, <1>8, <1>9, <1>10, <1>11, <1>12 DEF ScopeNext

\* Filing a request and expiring some change no approval, and a decision takes
\* none away from the store in memory.
LEMMA ApprovalSteps ==
    ASSUME ScopeIInv
    PROVE  /\ \A p \in Calls : FileRequest(p) =>
                  \A t \in Ranks : Approved(t)' <=> Approved(t)
           /\ \A I \in SUBSET DOMAIN approvals : ExpirePending(I) =>
                  \A t \in Ranks : Approved(t)' <=> Approved(t)
           /\ \A i \in DOMAIN approvals, d \in Decisions : Decide(i, d) =>
                  /\ \A t \in Ranks : Approved(t)' => t \in granted'
                  /\ guarded => \A t \in Ranks : Approved(t) => Approved(t)'
<1>1. approvals \in Seq(Approval)
  BY DEF ScopeIInv, ScopeTypeOK
<1>2. ASSUME NEW p \in Calls, FileRequest(p), NEW t \in Ranks
      PROVE  Approved(t)' <=> Approved(t)
  <2> DEFINE x == [target |-> goal[p], status |-> "pending"]
             n == Len(approvals) + 1
  <2>1. /\ DOMAIN approvals' = DOMAIN approvals \cup {n}
        /\ \A i \in DOMAIN approvals : approvals'[i] = approvals[i]
        /\ approvals'[n] = x
        /\ n \notin DOMAIN approvals
    BY <1>1, <1>2 DEF FileRequest
  <2>2. x.status # "approved"
    OBVIOUS
  <2> QED
    BY <2>1, <2>2 DEF Approved
<1>3. ASSUME NEW I \in SUBSET DOMAIN approvals, ExpirePending(I), NEW t \in Ranks
      PROVE  Approved(t)' <=> Approved(t)
  <2>1. /\ DOMAIN approvals' = DOMAIN approvals
        /\ \A i \in DOMAIN approvals \ I : approvals'[i] = approvals[i]
        /\ \A i \in I : approvals'[i] = [approvals[i] EXCEPT !.status = "expired"]
    BY <1>3 DEF ExpirePending
  <2>2. \A i \in I : approvals'[i].status = "expired" /\ approvals[i].status = "pending"
    BY <1>1, <1>3, <2>1 DEF ExpirePending, Approval
  <2> QED
    BY <2>1, <2>2 DEF Approved
<1>4. ASSUME NEW i \in DOMAIN approvals, NEW d \in Decisions, Decide(i, d)
      PROVE  /\ \A t \in Ranks : Approved(t)' => t \in granted'
             /\ guarded => \A t \in Ranks : Approved(t) => Approved(t)'
  <2>0. approvals[i] \in Approval
    BY <1>1
  <2>1. /\ DOMAIN approvals' = DOMAIN approvals
        /\ \A j \in DOMAIN approvals \ {i} : approvals'[j] = approvals[j]
        /\ approvals'[i].status = d
        /\ approvals'[i].target = approvals[i].target
    <3>1. /\ DOMAIN approvals' = DOMAIN approvals
          /\ \A j \in DOMAIN approvals \ {i} : approvals'[j] = approvals[j]
          /\ approvals'[i] = [approvals[i] EXCEPT !.status = d]
      BY <1>4 DEF Decide
    <3> QED
      BY <2>0, <3>1 DEF Approval
  <2>2. guarded => approvals[i].status # "approved"
    BY <1>4 DEF Decide, Decidable
  <2>3. /\ granted \subseteq granted'
        /\ d = "approved" => approvals[i].target \in granted'
    BY <1>4 DEF Decide
  <2>4. \A t \in Ranks : Approved(t) => t \in granted
    BY DEF ScopeIInv, ApprovedGranted
  <2>5. \A t \in Ranks : Approved(t)' => t \in granted'
    BY <2>1, <2>3, <2>4 DEF Approved
  <2>6. guarded => \A t \in Ranks : Approved(t) => Approved(t)'
    BY <2>1, <2>2 DEF Approved
  <2> QED
    BY <2>5, <2>6
<1> QED
  BY <1>2, <1>3, <1>4

\* So no step takes back what made a scope lawful.
LEMMA StepGrows == ScopeIInv /\ [ScopeNext]_scope_vars => Grown /\ ApprovedGranted'
<1> SUFFICES ASSUME ScopeIInv, [ScopeNext]_scope_vars PROVE Grown /\ ApprovedGranted'
  OBVIOUS
<1>1. ASSUME UNCHANGED <<guarded, granted>>, given \subseteq given',
             assessed \subseteq assessed',
             \A t \in Ranks : Approved(t)' <=> Approved(t)
      PROVE  Grown /\ ApprovedGranted'
  BY <1>1 DEF Grown, ApprovedGranted, ScopeIInv
<1>2. ASSUME UNCHANGED <<approvals, guarded, granted>>, given \subseteq given',
             assessed \subseteq assessed'
      PROVE  Grown /\ ApprovedGranted'
  BY <1>1, <1>2 DEF Approved
<1>3. ASSUME NEW p \in Calls, NEW t \in Ranks, Promote(p, t)
      PROVE  Grown /\ ApprovedGranted'
  BY <1>2, <1>3 DEF Promote
<1>4. ASSUME NEW p \in Calls, FindApproved(p) \/ Fail(p)
      PROVE  Grown /\ ApprovedGranted'
  BY <1>2, <1>4 DEF FindApproved, Fail
<1>5. ASSUME NEW p \in Calls, UpdateScope(p) \/ SetScope(p) \/ RestoreScope(p)
      PROVE  Grown /\ ApprovedGranted'
  BY <1>2, <1>5 DEF UpdateScope, SetScope, RestoreScope, Write
<1>6. ASSUME NEW p \in Calls,
             (\E s \in RouteScopes : PromoteRoute(p, s))
             \/ (\E v \in 1..MaxVersions : Rollback(p, v))
      PROVE  Grown /\ ApprovedGranted'
  BY <1>2, <1>6 DEF PromoteRoute, Rollback
<1>7. ASSUME NEW p \in Calls, FileRequest(p) PROVE Grown /\ ApprovedGranted'
  <2>1. UNCHANGED <<guarded, given, assessed, granted>>
    BY <1>7 DEF FileRequest
  <2> QED
    BY <1>1, <1>7, <2>1, ApprovalSteps
<1>8. ASSUME NEW I \in SUBSET DOMAIN approvals, ExpirePending(I)
      PROVE  Grown /\ ApprovedGranted'
  <2>1. UNCHANGED <<guarded, given, assessed, granted>>
    BY <1>8 DEF ExpirePending
  <2> QED
    BY <1>1, <1>8, <2>1, ApprovalSteps
<1>9. ASSUME NEW i \in DOMAIN approvals, NEW d \in Decisions, Decide(i, d)
      PROVE  Grown /\ ApprovedGranted'
  <2>1. UNCHANGED <<guarded, given, assessed>> /\ granted \subseteq granted'
    BY <1>9 DEF Decide
  <2> QED
    BY <1>9, <2>1, ApprovalSteps DEF Grown, ApprovedGranted
<1>10. CASE DeleteMemory \/ UNCHANGED scope_vars
  BY <1>2, <1>10 DEF DeleteMemory, scope_vars
<1> QED
  BY <1>3, <1>4, <1>5, <1>6, <1>7, <1>8, <1>9, <1>10 DEF ScopeNext

\* A step that leaves the scope and the versions alone keeps them lawful.
LEMMA ScopeKept ==
    ASSUME ScopeIInv, Grown
    PROVE  /\ UNCHANGED scope => Lawful(scope)'
           /\ UNCHANGED snapshots => (\A v \in DOMAIN snapshots : Lawful(snapshots[v]))'
<1>1. ASSUME UNCHANGED scope PROVE Lawful(scope)'
  <2>1. PICK s : s = scope
    OBVIOUS
  <2>2. Lawful(s)'
    BY <2>1, LawfulKept DEF ScopeIInv
  <2> QED
    BY <1>1, <2>1, <2>2 DEF Lawful, ReachedBy, Backed, Standing, Approved, Climbed
<1>2. ASSUME UNCHANGED snapshots, NEW v \in DOMAIN snapshots PROVE Lawful(snapshots[v])'
  <2>1. PICK s : s = snapshots[v]
    OBVIOUS
  <2>2. Lawful(s)'
    BY <2>1, LawfulKept DEF ScopeIInv
  <2> QED
    BY <1>2, <2>1, <2>2 DEF Lawful, ReachedBy, Backed, Standing, Approved, Climbed
<1> QED
  BY <1>1, <1>2

\* A call that returns leaves the others as they were.
LEMMA EndKeeps ==
    ASSUME ScopeIInv, Grown, NEW p \in Calls, EndCall(p)
    PROVE  \A q \in Calls : CallLawful(q)'
<1>1. ASSUME NEW q \in Calls, q # p PROVE CallLawful(q)'
  BY <1>1, EndCallFacts, OthersKept DEF ScopeIInv
<1>2. CallLawful(p)'
  <2>1. pc'[p] = "idle"
    BY EndCallFacts DEF ScopeIInv
  <2> QED
    BY <2>1 DEF CallLawful, Promoting
<1> QED
  BY <1>1, <1>2

\* A write of a lawful scope.
LEMMA WriteKeeps ==
    ASSUME ScopeIInv, Grown, ScopeTypeOK', NEW p \in Calls, Write(p), NEW g,
           g = goal[p], exists => Lawful(g)'
    PROVE  /\ Lawful(scope)'
           /\ (\A v \in DOMAIN snapshots : Lawful(snapshots[v]))'
           /\ \A q \in Calls : CallLawful(q)' /\ OnTrack(q)'
<1>1. UNCHANGED snapshots /\ EndCall(p) /\ scope' = IF exists THEN goal[p] ELSE scope
  BY DEF Write
<1>2. Lawful(scope)'
  <2>1. CASE exists
    <3>1. scope' = g /\ Lawful(g)'
      BY <1>1, <2>1
    <3> QED
      BY <3>1 DEF Lawful, ReachedBy, Backed, Standing, Approved, Climbed
  <2>2. CASE ~exists
    BY <1>1, <2>2, ScopeKept
  <2> QED
    BY <2>1, <2>2
<1>3. \A q \in Calls : CallLawful(q)'
  BY <1>1, EndKeeps
<1>4. ASSUME NEW q \in Calls PROVE OnTrack(q)'
  <2>1. CASE q = p
    BY <1>1, <2>1, EndCallFacts DEF OnTrack, Promoting, ScopeIInv
  <2>2. CASE q # p
    <3>1. pc'[q] = pc[q] /\ goal'[q] = goal[q] /\ OnTrack(q)
      BY <1>1, <2>2, EndCallFacts DEF ScopeIInv
    <3>2. q \notin overtaken' /\ pc[q] \in Promoting
              => q \notin overtaken /\ scope' = scope
      BY <2>2 DEF Write
    <3> QED
      BY <3>1, <3>2 DEF OnTrack
  <2> QED
    BY <2>1, <2>2
<1> QED
  BY <1>1, <1>2, <1>3, <1>4, ScopeKept

\* A version takes the scope as it is.
LEMMA VersionKeeps ==
    ASSUME ScopeIInv, Grown, CreateVersion, UNCHANGED scope
    PROVE  (\A v \in DOMAIN snapshots : Lawful(snapshots[v]))'
<1> SUFFICES ASSUME NEW v \in DOMAIN snapshots' PROVE Lawful(snapshots[v])'
  OBVIOUS
<1>1. \/ v \in DOMAIN snapshots /\ snapshots'[v] = snapshots[v]
      \/ snapshots'[v] = scope
  BY DEF CreateVersion, ScopeIInv, ScopeTypeOK
<1>2. PICK s : s = snapshots'[v]
  OBVIOUS
<1>3. Lawful(s)
  BY <1>1, <1>2 DEF ScopeIInv
<1>4. Lawful(s)'
  BY <1>3, LawfulKept
<1> QED
  BY <1>2, <1>4 DEF Lawful, ReachedBy, Backed, Standing, Approved, Climbed

\* Every step keeps the inductive invariant.
LEMMA ScopeStepIInv == ScopeIInv /\ [ScopeNext]_scope_vars => ScopeIInv'
<1> SUFFICES ASSUME ScopeIInv, [ScopeNext]_scope_vars PROVE ScopeIInv'
  OBVIOUS
<1>0. ScopeTypeOK /\ ScopeTypeOK' /\ Grown /\ ApprovedGranted'
  BY ScopeTypeStep, StepGrows DEF ScopeIInv
<1>a. ASSUME NEW q \in Calls, pc'[q] = pc[q], goal'[q] = goal[q] PROVE CallLawful(q)'
  BY <1>0, <1>a, OthersKept DEF ScopeIInv
<1>b. ASSUME NEW q \in Calls, pc'[q] = pc[q], goal'[q] = goal[q], UNCHANGED scope,
             q \in overtaken => q \in overtaken'
      PROVE  OnTrack(q)'
  BY <1>b DEF OnTrack, ScopeIInv
<1>c. ASSUME UNCHANGED <<scope, snapshots>>,
             \A q \in Calls : CallLawful(q)' /\ OnTrack(q)'
      PROVE  ScopeIInv'
  BY <1>0, <1>c, ScopeKept DEF ScopeIInv
<1>1. ASSUME NEW p \in Calls, NEW t \in Ranks, Promote(p, t) PROVE ScopeIInv'
  <2>1. /\ scope \in Ranks /\ t = scope + 1
        /\ UNCHANGED <<scope, snapshots, overtaken>>
        /\ t \in assessed'
        /\ pc'[p] = IF t = 1 THEN "update" ELSE "find"
        /\ goal'[p] = t
        /\ \A q \in Calls \ {p} : pc'[q] = pc[q] /\ goal'[q] = goal[q]
    BY <1>0, <1>1 DEF Promote, Assess, ApprovalRequired, ScopeTypeOK
  <2>2. goal'[p] - 1 = scope /\ t # 0
    BY <2>1 DEF Ranks, Top
  <2>3. Lawful(goal[p] - 1)'
    <3>1. PICK s : s = scope
      OBVIOUS
    <3>2. Lawful(s)'
      BY <1>0, <3>1, LawfulKept DEF ScopeIInv
    <3> QED
      BY <2>2, <3>1, <3>2 DEF Lawful, ReachedBy, Backed, Standing, Approved, Climbed
  <2>4. t = 1 => Cleared(goal[p])'
    BY <2>1 DEF Cleared, Backed, Standing
  <2>5. CallLawful(p)' /\ OnTrack(p)'
    BY <2>1, <2>2, <2>3, <2>4 DEF CallLawful, OnTrack
  <2> QED
    BY <1>a, <1>b, <1>c, <2>1, <2>5
<1>2. ASSUME NEW p \in Calls, FindApproved(p) PROVE ScopeIInv'
  <2>1. /\ UNCHANGED <<scope, snapshots, overtaken, approvals, assessed, granted,
                        guarded, goal>>
        /\ pc[p] = "find"
        /\ pc'[p] = IF Approved(goal[p]) THEN "update" ELSE "insert"
        /\ \A q \in Calls \ {p} : pc'[q] = pc[q] /\ goal'[q] = goal[q]
    BY <1>0, <1>2 DEF FindApproved, ScopeTypeOK
  <2>2. goal[p] \in assessed /\ goal[p] - 1 \in Ranks /\ Lawful(goal[p] - 1)
        /\ goal[p] \in Ranks
    BY <1>0, <2>1 DEF ScopeIInv, CallLawful, Promoting, ScopeTypeOK
  <2>3. Lawful(goal[p] - 1)'
    <3>1. PICK s : s = goal[p] - 1
      OBVIOUS
    <3>2. Lawful(s)' /\ goal'[p] - 1 = s
      BY <1>0, <2>1, <2>2, <3>1, LawfulKept
    <3> QED
      BY <3>1, <3>2 DEF Lawful, ReachedBy, Backed, Standing, Approved, Climbed
  <2>4. Approved(goal[p]) => Cleared(goal[p])
    BY <1>0, <2>2 DEF Cleared, Backed, Standing, ScopeIInv, ApprovedGranted
  <2>5. Cleared(goal[p])' <=> Cleared(goal[p])
    BY <2>1 DEF Cleared, Backed, Standing, Approved
  <2>6. CallLawful(p)'
    <3>1. goal'[p] = goal[p]
      BY <2>1
    <3>2. goal'[p] \in assessed' /\ goal'[p] - 1 \in Ranks
      BY <2>1, <2>2, <3>1
    <3>3. pc'[p] = "update" => Cleared(goal[p])'
      BY <2>1, <2>4, <2>5
    <3>4. pc'[p] # "restore"
      BY <2>1
    <3> QED
      BY <2>3, <3>2, <3>3, <3>4 DEF CallLawful
  <2>7. OnTrack(p)'
    BY <2>1 DEF OnTrack, ScopeIInv, Promoting
  <2> QED
    BY <1>a, <1>b, <1>c, <2>1, <2>6, <2>7
<1>3. ASSUME NEW p \in Calls, FileRequest(p) \/ Fail(p) PROVE ScopeIInv'
  <2>1. EndCall(p) /\ UNCHANGED <<scope, snapshots>> /\ overtaken' = overtaken \ {p}
    BY <1>3 DEF FileRequest, Fail
  <2>2. \A q \in Calls : CallLawful(q)'
    BY <1>0, <2>1, EndKeeps
  <2>3. ASSUME NEW q \in Calls PROVE OnTrack(q)'
    <3>1. CASE q = p
      BY <1>0, <2>1, <3>1, EndCallFacts DEF OnTrack, Promoting
    <3>2. CASE q # p
      BY <1>0, <1>b, <2>1, <3>2, EndCallFacts
    <3> QED
      BY <3>1, <3>2
  <2> QED
    BY <1>c, <2>1, <2>2, <2>3
<1>4. ASSUME NEW p \in Calls, UpdateScope(p) PROVE ScopeIInv'
  <2>1. Write(p) /\ pc[p] = "update"
    BY <1>4 DEF UpdateScope
  <2>2. PICK g : g = goal[p]
    OBVIOUS
  <2>3. PICK s : s = g - 1
    OBVIOUS
  <2>4. s \in Ranks /\ g \in Ranks /\ Lawful(s) /\ Cleared(g)
    BY <1>0, <2>1, <2>2, <2>3 DEF ScopeIInv, CallLawful, Promoting, ScopeTypeOK
  <2>5. g = s + 1
    BY <2>3, <2>4 DEF Ranks, Top
  <2>6. Lawful(s + 1)
    BY <1>0, <2>4, <2>5, LawfulClimb
  <2>7. Lawful(g)'
    BY <1>0, <2>5, <2>6, LawfulKept
  <2> QED
    BY <1>0, <2>1, <2>2, <2>7, WriteKeeps DEF ScopeIInv
<1>5. ASSUME NEW p \in Calls, SetScope(p) PROVE ScopeIInv'
  <2>1. Write(p)
    BY <1>5 DEF SetScope
  <2>2. PICK g : g = goal[p]
    OBVIOUS
  <2>3. exists => Lawful(g)'
    <3>1. exists => g \in given'
      BY <1>5, <2>2 DEF SetScope
    <3> QED
      BY <3>1 DEF Lawful, ReachedBy
  <2> QED
    BY <1>0, <2>1, <2>2, <2>3, WriteKeeps DEF ScopeIInv
<1>6. ASSUME NEW p \in Calls, RestoreScope(p) PROVE ScopeIInv'
  <2>1. Write(p) /\ pc[p] = "restore"
    BY <1>6 DEF RestoreScope
  <2>2. PICK g : g = goal[p]
    OBVIOUS
  <2>3. Lawful(g)'
    BY <1>0, <2>1, <2>2, LawfulKept DEF ScopeIInv, CallLawful
  <2> QED
    BY <1>0, <2>1, <2>2, <2>3, WriteKeeps DEF ScopeIInv
<1>7. ASSUME NEW p \in Calls, NEW s \in RouteScopes, PromoteRoute(p, s) PROVE ScopeIInv'
  <2>1. /\ CreateVersion /\ UNCHANGED <<scope, overtaken>>
        /\ pc'[p] = "set"
        /\ \A q \in Calls \ {p} : pc'[q] = pc[q] /\ goal'[q] = goal[q]
    BY <1>0, <1>7 DEF PromoteRoute, ScopeTypeOK
  <2>2. CallLawful(p)' /\ OnTrack(p)'
    BY <2>1 DEF CallLawful, OnTrack, Promoting
  <2> QED
    BY <1>0, <1>a, <1>b, <2>1, <2>2, ScopeKept, VersionKeeps DEF ScopeIInv
<1>8. ASSUME NEW p \in Calls, NEW v \in 1..MaxVersions, Rollback(p, v) PROVE ScopeIInv'
  <2>1. /\ CreateVersion /\ UNCHANGED <<scope, overtaken>>
        /\ pc'[p] = "restore" /\ goal'[p] = snapshots'[v] /\ v \in DOMAIN snapshots'
        /\ \A q \in Calls \ {p} : pc'[q] = pc[q] /\ goal'[q] = goal[q]
    BY <1>0, <1>8 DEF Rollback, ScopeTypeOK
  <2>2. (\A w \in DOMAIN snapshots : Lawful(snapshots[w]))'
    BY <1>0, <2>1, VersionKeeps
  <2>3. Lawful(goal[p])'
    BY <2>1, <2>2 DEF Lawful, ReachedBy, Backed, Standing, Approved, Climbed
  <2>4. CallLawful(p)' /\ OnTrack(p)'
    BY <2>1, <2>3 DEF CallLawful, OnTrack, Promoting
  <2> QED
    BY <1>0, <1>a, <1>b, <2>1, <2>2, <2>4, ScopeKept DEF ScopeIInv
<1>9. CASE \/ \E i \in DOMAIN approvals, d \in Decisions : Decide(i, d)
           \/ \E I \in SUBSET DOMAIN approvals : ExpirePending(I)
           \/ DeleteMemory
           \/ UNCHANGED scope_vars
  <2>1. UNCHANGED <<scope, snapshots, pc, goal, overtaken>>
    BY <1>9 DEF Decide, ExpirePending, DeleteMemory, scope_vars
  <2> QED
    BY <1>a, <1>b, <1>c, <2>1
<1> QED
  BY <1>1, <1>2, <1>3, <1>4, <1>5, <1>6, <1>7, <1>8, <1>9 DEF ScopeNext

-----------------------------------------------------------------------------
(* The theorems. *)

\* The inductive invariant holds of every reachable state.
THEOREM ScopeInvariance == ScopeSpec => []ScopeIInv
  BY ScopeInitIInv, ScopeStepIInv, PTL DEF ScopeSpec

\* Every reachable state is well typed.
THEOREM ScopeTypeCorrect == ScopeSpec => []ScopeTypeOK
  BY ScopeInvariance, PTL DEF ScopeIInv

\* For any number of concurrent promotes, route calls and rollbacks, with
\* whatever stale reads: a memory is wider than the scopes it was given outright
\* only by ranks that were assessed and, above Task, approved.
THEOREM NoUnearnedScope == ScopeSpec => []Earned
<1>1. ScopeIInv => Earned
  BY DEF ScopeIInv, Lawful, Earned
<1> QED
  BY <1>1, ScopeInvariance, PTL

\* With the store in memory those approvals still stand.
THEOREM NoWithdrawnApproval == ScopeSpec => []ApprovalsStand
<1>1. ScopeIInv => ApprovalsStand
  BY DEF ScopeIInv, Lawful, ApprovalsStand
<1> QED
  BY <1>1, ScopeInvariance, PTL

\* One step of a promote that nobody overtook.
LEMMA PromotionStep ==
    ASSUME ScopeIInv, [ScopeNext]_scope_vars, NEW p \in Calls, p \notin overtaken,
           pc[p] = "update", pc'[p] = "idle", scope' # scope
    PROVE  scope' = scope + 1
<1>1. ScopeTypeOK /\ goal[p] = scope + 1
  BY DEF ScopeIInv, OnTrack, Promoting
<1>2. ASSUME NEW q \in Calls, Write(q) PROVE q = p /\ scope' = goal[p]
  <2>1. q = p
    BY <1>1, <1>2, EndCallFacts DEF Write
  <2> QED
    BY <1>2, <2>1 DEF Write
<1>3. ASSUME NEW q \in Calls, UpdateScope(q) \/ SetScope(q) \/ RestoreScope(q)
      PROVE  scope' = scope + 1
  BY <1>1, <1>2, <1>3 DEF UpdateScope, SetScope, RestoreScope
<1>4. \E q \in Calls : UpdateScope(q) \/ SetScope(q) \/ RestoreScope(q)
  BY DEF ScopeNext, Promote, FindApproved, FileRequest, Fail, PromoteRoute, Rollback,
     Decide, ExpirePending, DeleteMemory, scope_vars
<1> QED
  BY <1>3, <1>4

\* A promote that nobody overtook widens the scope by one rank.
THEOREM PromotionsAreMonotone == ScopeSpec => PromotionsWiden
<1>1. ScopeIInv /\ [ScopeNext]_scope_vars
          => [\A p \in Calls \ overtaken :
                 pc[p] = "update" /\ pc'[p] = "idle" /\ scope' # scope
                     => scope' = scope + 1]_scope_vars
  BY PromotionStep
<1> QED
  BY <1>1, ScopeInvariance, PTL DEF ScopeSpec, PromotionsWiden
================================================================================
