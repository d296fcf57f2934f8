------------------------------ MODULE ApiHandlers ------------------------------
(***************************************************************************)
(* api/routes.rs, api/user_memory.rs and governance/acl.rs: the handlers   *)
(* of the v1 REST interface and the engine that decides on access. A       *)
(* handler is a sequence of statements without a transaction; any of them  *)
(* may fail, which is answered 500 and leaves what was done. The pipelines *)
(* behind submit, search and assemble have modules of their own.           *)
(***************************************************************************)
EXTENDS Naturals, Sequences, FiniteSets

CONSTANTS
    ApiCallers,       \* requests in flight
    Memories,         \* ids of memory items
    ApiTenants, ApiUsers, ScopeOrder,
    MaxApiCalls,      \* requests in a behaviour
    Roles, RolePermissions,   \* role_permissions of the AclEngine
    PageSizes, MaxTotal,
    Missing

\* per_page and the total are usizes; here their sum does not wrap.
ASSUME PagesAssumption == PageSizes \subseteq Nat /\ MaxTotal \in Nat

VARIABLES
    items,       \* memory_item: id -> [tenant, owner, scope, status, verified]
    versions,    \* memory_version rows: [memory, number, scope, late]
    events,      \* outbox events: [memory, late]
    held,        \* ids under legal hold
    task,        \* the shared task: the requests whose findings and whose status it has
    request,     \* the requests in flight
    left,        \* scopes a promotion replaced: [memory, scope, alone]
    purged,      \* ids whose versions a hard delete has removed
    served,      \* requests so far
    reply,       \* the last answer of the handlers on a user's own data
    decision     \* the last AccessDecision

api_vars == <<items, versions, events, held, task, request, left, purged, served, reply, decision>>

\* ApiError: the status a domain error is answered with.
ApiError == [not_found |-> 404, tenant |-> 403, legal_hold |-> 403, lock |-> 409,
             poison_blocked |-> 400, invalid_handoff |-> 400, bad_request |-> 400,
             database |-> 500]

Idling == [at |-> "idle"]

\* The request is answered.
Ends(c, status) == request' = [request EXCEPT ![c] = [at |-> "idle", status |-> status]]

Goes(c, step) == request' = [request EXCEPT ![c].at = step]

Busy(c) == request[c].at # "idle"

TargetOf(c) == request[c].memory

\* A row of this memory written now outlives it: it is gone, or a hard delete of it is
\* past the statement that removes such rows.
TooLate(memory, steps) ==
    \/ memory \notin DOMAIN items
    \/ \E d \in ApiCallers : request[d].at \in steps /\ TargetOf(d) = memory

-----------------------------------------------------------------------------
(* A request arrives. Its `alone` says whether no other was under way at   *)
(* any moment of it.                                                       *)

\* An update of a task carries findings, a status, or both.
FirstStep == [get |-> "read", promote |-> "read", verify |-> "update", soft |-> "hold",
              hard |-> "hold", user_data |-> "revoke", cascade |-> "hold", lineage |-> "list",
              task |-> "findings", findings |-> "findings", status |-> "status"]

\* promote, verify and forget do not compare tenants; get_memory does.
Handle(c, op, memory, scope, tenant, user) ==
    /\ ~Busy(c) /\ served < MaxApiCalls
    /\ served' = served + 1
    /\ request' = [d \in ApiCallers |->
         CASE d = c -> [at |-> FirstStep[op], op |-> op, memory |-> memory, scope |-> scope,
                        tenant |-> tenant, user |-> user, number |-> served + 1, was |-> Missing,
                        alone |-> \A e \in ApiCallers : ~Busy(e)]
           [] d # c /\ ~Busy(d) -> request[d]
           [] d # c /\ Busy(d) -> [request[d] EXCEPT !.alone = FALSE]]
    /\ UNCHANGED <<items, versions, events, held, task, left, purged, reply, decision>>

\* An empty verified_by, a missing memory_id or user_id: 400, nothing is done.
RefuseCall(c) ==
    /\ ~Busy(c) /\ served < MaxApiCalls
    /\ served' = served + 1
    /\ Ends(c, ApiError.bad_request)
    /\ UNCHANGED <<items, versions, events, held, task, left, purged, reply, decision>>

\* A statement fails.
DatabaseError(c) ==
    /\ Busy(c)
    /\ Ends(c, ApiError.database)
    /\ UNCHANGED <<items, versions, events, held, task, left, purged, served, reply, decision>>

get_memory(c) ==
    /\ request[c].at = "read" /\ request[c].op = "get"
    /\ Ends(c, CASE TargetOf(c) \notin DOMAIN items -> ApiError.not_found
                 [] TargetOf(c) \in DOMAIN items /\ items[TargetOf(c)].tenant # request[c].tenant -> ApiError.tenant
                 [] OTHER -> 200)
    /\ UNCHANGED <<items, versions, events, held, task, left, purged, served, reply, decision>>

\* create_version: the row is read, and then inserted under the next number.
ReadForVersion(c) ==
    /\ request[c].at = "read" /\ request[c].op = "promote"
    /\ IF TargetOf(c) \in DOMAIN items
       THEN request' = [request EXCEPT ![c].at = "snapshot", ![c].was = items[TargetOf(c)].scope]
       ELSE Ends(c, ApiError.not_found)
    /\ UNCHANGED <<items, versions, events, held, task, left, purged, served, reply, decision>>

NextNumber(memory) ==
    LET taken == {v.number : v \in {w \in versions : w.memory = memory}}
    IN CHOOSE n \in 1..(Cardinality(versions) + MaxApiCalls + 1) :
          (\A k \in taken : k < n) /\ (n = 1 \/ n - 1 \in taken)

InsertVersion(c) ==
    /\ request[c].at = "snapshot"
    /\ versions' = versions \cup {[memory |-> TargetOf(c), number |-> NextNumber(TargetOf(c)),
                                   scope |-> request[c].was,
                                   late |-> TooLate(TargetOf(c), {"purge events", "delete"})]}
    /\ Goes(c, "update")
    /\ UNCHANGED <<items, events, held, task, left, purged, served, reply, decision>>

\* promote_scope: the column is set, whatever scope it has and whatever the status.
promote_scope(c) ==
    /\ request[c].at = "update" /\ request[c].op = "promote"
    /\ IF TargetOf(c) \in DOMAIN items
       THEN /\ items' = [items EXCEPT ![TargetOf(c)].scope = request[c].scope]
            /\ left' = left \cup {[memory |-> TargetOf(c), scope |-> items[TargetOf(c)].scope,
                                   alone |-> request[c].alone]}
            /\ Ends(c, 200)
       ELSE Ends(c, ApiError.not_found) /\ UNCHANGED <<items, left>>
    /\ UNCHANGED <<versions, events, held, task, purged, served, reply, decision>>

verify(c) ==
    /\ request[c].at = "update" /\ request[c].op = "verify"
    /\ IF TargetOf(c) \in DOMAIN items
       THEN items' = [items EXCEPT ![TargetOf(c)].verified = TRUE] /\ Ends(c, 200)
       ELSE Ends(c, ApiError.not_found) /\ UNCHANGED items
    /\ UNCHANGED <<versions, events, held, task, left, purged, served, reply, decision>>

get_lineage(c) ==
    /\ request[c].at = "list"
    /\ Ends(c, 200)
    /\ UNCHANGED <<items, versions, events, held, task, left, purged, served, reply, decision>>

-----------------------------------------------------------------------------
(* forget_memory. *)

forget_memory(c) ==
    /\ request[c].at = "hold"
    /\ IF TargetOf(c) \in held THEN Ends(c, ApiError.legal_hold)
       ELSE Goes(c, IF request[c].op = "hard" THEN "purge versions" ELSE "revoke")
    /\ UNCHANGED <<items, versions, events, held, task, left, purged, served, reply, decision>>

\* soft_delete, and cascade_forget of a memory nothing derives from: the cascade
\* counts 0 for a memory that is gone.
soft_delete(c) ==
    /\ request[c].at = "revoke" /\ request[c].op \in {"soft", "cascade"}
    /\ IF TargetOf(c) \in DOMAIN items
       THEN items' = [items EXCEPT ![TargetOf(c)].status = "revoked"] /\ Goes(c, "enqueue")
       ELSE /\ Ends(c, IF request[c].op = "soft" THEN ApiError.not_found ELSE 200)
            /\ UNCHANGED items
    /\ UNCHANGED <<versions, events, held, task, left, purged, served, reply, decision>>

Enqueue(c) ==
    /\ request[c].at = "enqueue"
    /\ events' = events \cup {[memory |-> TargetOf(c), late |-> TooLate(TargetOf(c), {"delete"})]}
    /\ Ends(c, 200)
    /\ UNCHANGED <<items, versions, held, task, left, purged, served, reply, decision>>

\* hard_delete: versions, then events, then the row.
PurgeVersions(c) ==
    /\ request[c].at = "purge versions"
    /\ versions' = {v \in versions : v.memory # TargetOf(c)}
    /\ purged' = purged \cup {TargetOf(c)}
    /\ Goes(c, "purge events")
    /\ UNCHANGED <<items, events, held, task, left, served, reply, decision>>

PurgeEvents(c) ==
    /\ request[c].at = "purge events"
    /\ events' = {e \in events : e.memory # TargetOf(c)}
    /\ Goes(c, "delete")
    /\ UNCHANGED <<items, versions, held, task, left, purged, served, reply, decision>>

hard_delete(c) ==
    /\ request[c].at = "delete"
    /\ IF TargetOf(c) \in DOMAIN items
       THEN items' = [i \in (DOMAIN items) \ {TargetOf(c)} |-> items[i]] /\ Ends(c, 200)
       ELSE Ends(c, ApiError.not_found) /\ UNCHANGED items
    /\ UNCHANGED <<versions, events, held, task, left, purged, served, reply, decision>>

\* One statement, without looking for holds.
forget_user_data(c) ==
    /\ request[c].at = "revoke" /\ request[c].op = "user_data"
    /\ items' = [i \in DOMAIN items |->
                   IF items[i].owner = request[c].user /\ items[i].tenant = request[c].tenant
                   THEN [items[i] EXCEPT !.status = "revoked"] ELSE items[i]]
    /\ Ends(c, 200)
    /\ UNCHANGED <<versions, events, held, task, left, purged, served, reply, decision>>

PlaceHolds(i) ==
    /\ i \in (DOMAIN items) \ held
    /\ held' = held \cup {i}
    /\ UNCHANGED <<items, versions, events, task, request, left, purged, served, reply, decision>>

\* update_task: the findings, then the status, each if the request has it.
update_task(c) ==
    /\ \/ /\ request[c].at = "findings"
          /\ task' = [task EXCEPT !.findings = @ \cup {request[c].number}]
          /\ IF request[c].op = "task" THEN Goes(c, "status") ELSE Ends(c, 200)
       \/ /\ request[c].at = "status"
          /\ task' = [task EXCEPT !.status =
                        @ \cup {[number |-> request[c].number, both |-> request[c].op = "task"]}]
          /\ Ends(c, 200)
    /\ UNCHANGED <<items, versions, events, held, left, purged, served, reply, decision>>

-----------------------------------------------------------------------------
(* The handlers on a user's own memories; the service behind them is a     *)
(* trait without an implementation.                                        *)

\* PagedResult::new.
total_pages(total, per_page) == IF per_page = 0 THEN 0 ELSE (total + per_page - 1) \div per_page

\* Another user's list, export or consent is refused.
list_user_memories(user, path, total, per_page) ==
    reply' = IF user # path THEN [of |-> "list", status |-> 403]
             ELSE [of |-> "list", status |-> 200, total |-> total, per_page |-> per_page,
                   total_pages |-> total_pages(total, per_page)]

export_user_memories(user, path) == reply' = [of |-> "export", status |-> IF user # path THEN 403 ELSE 200]

revoke_consent(user, path) == reply' = [of |-> "consent", status |-> IF user # path THEN 403 ELSE 200]

\* Blank texts and a confidence outside the unit interval (here 0..1) are refused.
MemoryCorrection == [reason : {"blank", "text"}, content : {"none", "blank", "text"},
                     confidence : {Missing, 0, 1, 2}]

correct_memory(req) ==
    reply' = [of |-> "correction",
              status |-> IF \/ req.reason = "blank" \/ req.content = "blank"
                            \/ (req.confidence # Missing /\ req.confidence \notin 0..1) THEN 400
                         ELSE 200]

OwnData ==
    /\ \/ \E u, path \in ApiUsers :
            \/ \E total \in 0..MaxTotal, n \in PageSizes : list_user_memories(u, path, total, n)
            \/ export_user_memories(u, path) \/ revoke_consent(u, path)
       \/ \E req \in MemoryCorrection : correct_memory(req)
    /\ UNCHANGED <<items, versions, events, held, task, request, left, purged, served, decision>>

-----------------------------------------------------------------------------
(* AclEngine. *)

AclAction == {"read", "promote"}

PermissionSet == [roles : SUBSET Roles, explicit : SUBSET AclAction, denied : SUBSET AclAction]

AccessRequest ==
    [user : ApiUsers, action : AclAction, scope : {"personal", "task", "team", "enterprise"},
     restricted : BOOLEAN, owner : ApiUsers \cup {Missing}, subject : ApiUsers \cup {Missing}]

\* The pipeline: the first rule that speaks decides.
check(r, p) ==
    IF r.action \in p.denied THEN FALSE
    ELSE IF r.action = "read" /\ r.scope = "personal" /\ r.owner = r.user THEN TRUE
    ELSE IF r.restricted /\ r.action \notin p.explicit THEN FALSE
    ELSE IF r.scope = "enterprise" /\ "enterprise" \notin p.roles THEN FALSE
    ELSE IF r.scope = "task" THEN r.owner = r.user \/ r.action \in p.explicit \/ r.subject = r.user
    ELSE r.action \in p.explicit \/ \E role \in p.roles : r.action \in RolePermissions[role]

Decide ==
    /\ decision = Missing
    /\ \E r \in AccessRequest, p \in PermissionSet :
         decision' = [request |-> r, permissions |-> p, allow |-> check(r, p)]
    /\ UNCHANGED <<items, versions, events, held, task, request, left, purged, served, reply>>

-----------------------------------------------------------------------------

ApiInit ==
    /\ items = [i \in Memories |-> [tenant |-> CHOOSE t \in ApiTenants : TRUE,
                  owner |-> CHOOSE u \in ApiUsers : TRUE, scope |-> ScopeOrder[1],
                  status |-> "active", verified |-> FALSE]]
    /\ versions = {} /\ events = {} /\ held = {}
    /\ task = [findings |-> {}, status |-> {}]
    /\ request = [c \in ApiCallers |-> Idling]
    /\ left = {} /\ purged = {} /\ served = 0
    /\ reply = Missing /\ decision = Missing

HandlersNext ==
    \/ \E c \in ApiCallers :
         \/ \E i \in Memories : \/ \E s \in 1..Len(ScopeOrder) : Handle(c, "promote", i, ScopeOrder[s], Missing, Missing)
                                \/ \E op \in {"verify", "soft", "hard", "cascade", "lineage"} : Handle(c, op, i, Missing, Missing, Missing)
                                \/ \E t \in ApiTenants : Handle(c, "get", i, Missing, t, Missing)
         \/ \E t \in ApiTenants, u \in ApiUsers : Handle(c, "user_data", Missing, Missing, t, u)
         \/ \E op \in {"task", "findings", "status"} : Handle(c, op, Missing, Missing, Missing, Missing)
         \/ RefuseCall(c) \/ DatabaseError(c) \/ get_memory(c) \/ ReadForVersion(c) \/ InsertVersion(c)
         \/ promote_scope(c) \/ verify(c) \/ get_lineage(c) \/ forget_memory(c) \/ soft_delete(c)
         \/ Enqueue(c) \/ PurgeVersions(c) \/ PurgeEvents(c) \/ hard_delete(c)
         \/ forget_user_data(c) \/ update_task(c)
    \/ \E i \in Memories : PlaceHolds(i)

-----------------------------------------------------------------------------

\* hard_delete: what is left of a memory whose row is gone was written after the last
\* delete of such rows, by a promotion or a soft delete that had begun before; a delete
\* cut short keeps the row, so that it can be asked for again.
LeftoversExplained ==
    /\ \A v \in versions : v.memory \in DOMAIN items \/ v.late
    /\ \A e \in events : e.memory \in DOMAIN items \/ e.late

\* promote_scope: a scope that a promotion replaced while nothing else was under way
\* is in the lineage, as long as no hard delete has removed it.
ScopeTrail ==
    \A l \in left : (l.alone /\ l.memory \notin purged) =>
        \E v \in versions : v.memory = l.memory /\ v.scope = l.scope

\* update_task: of a request that carries both, the status is set only if the findings are.
FindingsFirst == \A s \in task.status : s.both => s.number \in task.findings

\* list_user_memories: the pages announced hold every item, and none is empty.
PagesCover ==
    (reply # Missing /\ reply.of = "list" /\ reply.status = 200 /\ reply.per_page > 0) =>
        /\ reply.total_pages * reply.per_page >= reply.total
        /\ reply.total_pages > 0 => (reply.total_pages - 1) * reply.per_page < reply.total

\* check: a denied permission is never allowed, restricted content needs an explicit
\* grant or its own reader, and more roles or grants never take away an access.
AccessMonotone ==
    (decision # Missing /\ decision.allow) =>
        LET r == decision.request
            p == decision.permissions
        IN /\ r.action \notin p.denied
           /\ r.restricted => \/ r.action \in p.explicit
                              \/ (r.action = "read" /\ r.scope = "personal" /\ r.owner = r.user)
           /\ \A role \in Roles : check(r, [p EXCEPT !.roles = @ \cup {role}])
           /\ check(r, [p EXCEPT !.explicit = @ \cup {r.action}])

ApiSound == LeftoversExplained /\ ScopeTrail /\ FindingsFirst /\ PagesCover /\ AccessMonotone
================================================================================
