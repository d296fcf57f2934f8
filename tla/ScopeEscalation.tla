--------------------------- MODULE ScopeEscalation ---------------------------
(***************************************************************************)
(* The scope of one memory and everything that writes it: the promote      *)
(* calls of ScopeEscalationManager, with the approval requests they file,  *)
(* the decisions on them and their expiry; the promote route of the API,   *)
(* which sets any scope; and the rollback to a version. Each SQL statement *)
(* is a step, but a version snapshot is taken in one (it is only ever      *)
(* read back by rollback). Both approval stores are modelled: the one in   *)
(* memory decides pending requests only, the one in PostgreSQL updates the *)
(* status of any.                                                          *)
(*                                                                         *)
(* A scope is its rank on the ladder Personal, Task, Team, Factory,        *)
(* Enterprise; Agent and Process are OffLadder. The thresholds grow along  *)
(* the ladder; confidence and evidence change at any time, so a memory may *)
(* meet the rule of a rank or not. The 24 hours of a request may be over   *)
(* at any time.                                                            *)
(***************************************************************************)
EXTENDS Naturals, Sequences, FiniteSets, TLC

CONSTANTS
    Calls,         \* concurrent calls
    MaxApprovals,  \* bound on the approval requests filed
    MaxVersions,   \* bound on the versions, so on route calls and rollbacks
    RouteScopes    \* the scopes asked of the promote route in this instance

\* ladder_rank
Top == 4
Ranks == 0..Top
OffLadder == Top + 1
Scopes == Ranks \cup {OffLadder}

ASSUME ScopeAssumption ==
    /\ MaxApprovals \in Nat
    /\ MaxVersions \in Nat
    /\ RouteScopes \subseteq Scopes

Decisions == {"approved", "rejected"}
ApprovalStatus == {"pending", "expired"} \cup Decisions

VARIABLES
    scope,       \* memory_item.scope
    exists,      \* is there a row for the memory?
    snapshots,   \* the scopes in memory_version, in the order of insertion
    approvals,   \* approval_request, in the order of insertion
    guarded,     \* is it the store in memory?
    pc,          \* the next statement of a call
    goal,        \* the scope it is to write
    given,       \* scopes the memory was given outright: by its creation, and
                 \* by the promote route (history)
    assessed,    \* ranks an assessment has let through (history)
    granted,     \* ranks for which a request was once approved (history)
    overtaken    \* promote calls since whose read another call changed the
                 \* scope (history)

scope_vars == <<scope, exists, snapshots, approvals, guarded, pc, goal, given,
                assessed, granted, overtaken>>

Approval == [target : Ranks, status : ApprovalStatus]

Promoting == {"find", "insert", "update"}

ScopeTypeOK ==
    /\ scope \in Scopes
    /\ exists \in BOOLEAN
    /\ snapshots \in Seq(Scopes)
    /\ approvals \in Seq(Approval)
    /\ guarded \in BOOLEAN
    /\ pc \in [Calls -> {"idle", "set", "restore"} \cup Promoting]
    /\ goal \in [Calls -> Scopes]
    /\ given \subseteq Scopes
    /\ assessed \subseteq Ranks
    /\ granted \subseteq Ranks
    /\ overtaken \subseteq Calls

ScopeInit ==
    /\ scope \in Scopes
    /\ exists = TRUE
    /\ snapshots = <<>>
    /\ approvals = <<>>
    /\ guarded \in BOOLEAN
    /\ pc = [p \in Calls |-> "idle"]
    /\ goal = [p \in Calls |-> 0]
    /\ given = {scope}
    /\ assessed = {}
    /\ granted = {}
    /\ overtaken = {}

-----------------------------------------------------------------------------
(* ScopeEscalationManager::promote *)

\* Mutant: no wider than the next scope, but it may be the same or narrower.
AssessUpTo(t) == scope \in Ranks /\ t <= scope + 1

\* assess: on the ladder, not at the top, to the next rank only.
Assess(t) == scope \in Ranks /\ t = scope + 1

\* Every rule but the first, Personal to Task, asks for an approver.
ApprovalRequired(t) == t # 1

\* get_memory and assess; a request that is refused, for its target or because
\* the confidence or the evidence does not suffice, changes nothing.
Promote(p, t) ==
    /\ pc[p] = "idle"
    /\ exists
    /\ Assess(t)
    /\ pc' = [pc EXCEPT ![p] = IF ApprovalRequired(t) THEN "find" ELSE "update"]
    /\ goal' = [goal EXCEPT ![p] = t]
    /\ assessed' = assessed \cup {t}
    /\ UNCHANGED <<scope, exists, snapshots, approvals, guarded, given,
                   granted, overtaken>>

Approved(t) ==
    \E i \in DOMAIN approvals :
        approvals[i].target = t /\ approvals[i].status = "approved"

\* Mutant: a request that is still pending is good enough.
FindFiled(p) ==
    /\ pc[p] = "find"
    /\ pc' = [pc EXCEPT ![p] =
                IF \E i \in DOMAIN approvals :
                      /\ approvals[i].target = goal[p]
                      /\ approvals[i].status \in {"approved", "pending"}
                THEN "update" ELSE "insert"]
    /\ UNCHANGED <<scope, exists, snapshots, approvals, guarded, goal, given,
                   assessed, granted, overtaken>>

\* A call returns.
EndCall(p) ==
    /\ pc' = [pc EXCEPT ![p] = "idle"]
    /\ goal' = [goal EXCEPT ![p] = 0]

\* find_approved: of the memory and the target, whatever became of it before.
\* An approval is not used up.
FindApproved(p) ==
    /\ pc[p] = "find"
    /\ pc' = [pc EXCEPT ![p] =
                IF Approved(goal[p]) THEN "update" ELSE "insert"]
    /\ UNCHANGED <<scope, exists, snapshots, approvals, guarded, goal, given,
                   assessed, granted, overtaken>>

\* insert: a pending request, even when there is one like it.
FileRequest(p) ==
    /\ pc[p] = "insert"
    /\ Len(approvals) < MaxApprovals
    /\ approvals' = Append(approvals, [target |-> goal[p], status |-> "pending"])
    /\ EndCall(p)
    /\ overtaken' = overtaken \ {p}
    /\ UNCHANGED <<scope, exists, snapshots, guarded, given, assessed,
                   granted>>

\* A call writes its scope, whatever the scope is by now, unless the row is
\* gone (MemoryNotFound); the promotes under way have read another scope.
Write(p) ==
    /\ scope' = IF exists THEN goal[p] ELSE scope
    /\ overtaken' = {q \in Calls \ {p} :
                        q \in overtaken \/ (pc[q] \in Promoting /\ scope' # scope)}
    /\ EndCall(p)
    /\ UNCHANGED <<exists, snapshots, approvals, guarded, assessed, granted>>

\* update_scope
UpdateScope(p) ==
    /\ pc[p] = "update"
    /\ Write(p)
    /\ UNCHANGED given

\* A statement fails, or the call is dropped: what it has written stays.
Fail(p) ==
    /\ pc[p] # "idle"
    /\ EndCall(p)
    /\ overtaken' = overtaken \ {p}
    /\ UNCHANGED <<scope, exists, snapshots, approvals, guarded, given,
                   assessed, granted>>

-----------------------------------------------------------------------------
(* PostgresMemoryService::promote_scope, behind POST /v1/memories/{id}/promote,
   and VersionManager::rollback_to_version *)

\* create_version: NotFound without a row.
CreateVersion ==
    /\ exists
    /\ Len(snapshots) < MaxVersions
    /\ snapshots' = Append(snapshots, scope)

\* The route assesses nothing and asks for no approval.
PromoteRoute(p, s) ==
    /\ pc[p] = "idle"
    /\ CreateVersion
    /\ pc' = [pc EXCEPT ![p] = "set"]
    /\ goal' = [goal EXCEPT ![p] = s]
    /\ UNCHANGED <<scope, exists, approvals, guarded, given, assessed, granted,
                   overtaken>>

SetScope(p) ==
    /\ pc[p] = "set"
    /\ Write(p)
    /\ given' = IF exists THEN given \cup {goal[p]} ELSE given

\* The current state is snapshotted before the version asked for is read.
Rollback(p, v) ==
    /\ pc[p] = "idle"
    /\ CreateVersion
    /\ v \in DOMAIN snapshots'
    /\ pc' = [pc EXCEPT ![p] = "restore"]
    /\ goal' = [goal EXCEPT ![p] = snapshots'[v]]
    /\ UNCHANGED <<scope, exists, approvals, guarded, given, assessed, granted,
                   overtaken>>

\* All columns are restored, the scope among them.
RestoreScope(p) ==
    /\ pc[p] = "restore"
    /\ Write(p)
    /\ UNCHANGED given

-----------------------------------------------------------------------------
(* approve_promotion, reject_promotion, expire_pending_promotions *)

\* Mutant: an approval may be taken back.
DecidableUnlessExpired(i) == guarded => approvals[i].status # "expired"

\* Only the store in memory looks at the status.
Decidable(i) == guarded => approvals[i].status = "pending"

\* update_status
Decide(i, decision) ==
    /\ Decidable(i)
    /\ approvals' = [approvals EXCEPT ![i].status = decision]
    /\ granted' = IF decision = "approved"
                  THEN granted \cup {approvals[i].target} ELSE granted
    /\ UNCHANGED <<scope, exists, snapshots, guarded, pc, goal, given,
                   assessed, overtaken>>

\* expire_pending: the pending requests whose time is up.
ExpirePending(I) ==
    /\ I # {}
    /\ \A i \in I : approvals[i].status = "pending"
    /\ approvals' = [i \in DOMAIN approvals |->
                        IF i \in I THEN [approvals[i] EXCEPT !.status = "expired"]
                                   ELSE approvals[i]]
    /\ UNCHANGED <<scope, exists, snapshots, guarded, pc, goal, given,
                   assessed, granted, overtaken>>

-----------------------------------------------------------------------------
(* Another writer of the memory *)

\* hard_delete
DeleteMemory ==
    /\ exists
    /\ exists' = FALSE
    /\ UNCHANGED <<scope, snapshots, approvals, guarded, pc, goal, given,
                   assessed, granted, overtaken>>

ScopeNext ==
    \/ \E p \in Calls :
          \/ \E t \in Ranks : Promote(p, t)
          \/ FindApproved(p) \/ FileRequest(p) \/ UpdateScope(p) \/ Fail(p)
          \/ \E s \in RouteScopes : PromoteRoute(p, s)
          \/ SetScope(p)
          \/ \E v \in 1..MaxVersions : Rollback(p, v)
          \/ RestoreScope(p)
    \/ \E i \in DOMAIN approvals, d \in Decisions : Decide(i, d)
    \/ \E I \in SUBSET DOMAIN approvals : ExpirePending(I)
    \/ DeleteMemory

ScopeSpec == ScopeInit /\ [][ScopeNext]_scope_vars

-----------------------------------------------------------------------------
(* Properties. *)

\* The ranks between a scope and a wider one.
Climbed(b, s) == {r \in Ranks : b < r /\ r <= s}

\* The memory was given the scope s outright, or it was given a narrower one
\* from which every rank on the way up is sound.
ReachedBy(s, Sound(_)) ==
    \/ s \in given
    \/ /\ s \in Ranks
       /\ \E b \in given \cap Ranks : b < s /\ \A r \in Climbed(b, s) : Sound(r)

\* Somebody's assessment let the rank through and, above Task, somebody once
\* approved it.
Backed(r) == r \in assessed /\ (r # 1 => r \in granted)

\* However promotions interleave with each other, with the route and with
\* rollbacks, on stale reads and decisions changed under them: a memory is never
\* wider than a scope it was given outright unless each rank in between, not
\* only the last, passed an assessment and, above Task, was approved by somebody
\* ("memories must go through explicit promotion before wider sharing"; the
\* route is how a scope is given without).
Earned == ReachedBy(scope, Backed)

Standing(r) == r # 1 => Approved(r)

\* With the store in memory a decision is final, so the approvals of all the
\* ranks a memory was promoted through still stand, even of those decided while
\* the promotion was under way, and even when a rollback brings the scope back.
\* PostgreSQL does not promise this.
ApprovalsStand == guarded => ReachedBy(scope, Standing)

\* A promote that changes the scope makes it the next wider one, unless another
\* call changed the scope after this one had read it: then the last to write
\* wins, and may narrow the scope or jump over ranks.
PromotionsWiden ==
    [][\A p \in Calls \ overtaken :
          pc[p] = "update" /\ pc'[p] = "idle" /\ scope' # scope
              => scope' = scope + 1]_scope_vars
=============================================================================
