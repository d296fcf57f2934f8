----------------------------- MODULE Degradation -----------------------------
(***************************************************************************)
(* DegradationManager: concurrent reports of failures and recoveries. Each *)
(* report changes the set of degraded subsystems, then recompute_level     *)
(* reads the set under its lock, releases it, and writes the level and the *)
(* deny flag under two further locks. Each lock is a step.                 *)
(***************************************************************************)
EXTENDS Naturals

CONSTANTS
    Subsystems,  \* the subsystems reported on in this instance
    Reporters    \* concurrent reports

Critical == {"PermissionEngine", "IdentityResolver"}

Engines == {"Mem0", "Cognee", "Graphiti"}

Recall == {"PostgresVector", "PostgresKeyword", "PostgresStructured"}

\* recompute_level, on the degraded set: Deny first, then the most restrictive
\* level that applies. OutboxWorker counts for nothing.
Level(degraded) ==
    IF Critical \cap degraded # {} THEN "Deny"
    ELSE IF Recall \subseteq degraded THEN "MinimalContext"
    ELSE IF "PostgresVector" \in degraded THEN "KeywordFallback"
    ELSE IF "Redis" \in degraded THEN "NoHotContext"
    ELSE IF Engines \cap degraded # {} THEN "PgBaselineOnly"
    ELSE "Normal"

VARIABLES
    degraded,   \* degraded_subsystems
    level,      \* current_level
    deny,       \* deny_request
    pc,         \* where a report is
    computed    \* the level a report has computed

vars == <<degraded, level, deny, pc, computed>>

Init ==
    /\ degraded = {}
    /\ level = "Normal"
    /\ deny = FALSE
    /\ pc = [r \in Reporters |-> "idle"]
    /\ computed = [r \in Reporters |-> "Normal"]

ReportFailure(r, s) ==
    /\ pc[r] = "idle"
    /\ degraded' = degraded \cup {s}
    /\ pc' = [pc EXCEPT ![r] = "compute"]
    /\ UNCHANGED <<level, deny, computed>>

ReportRecovery(r, s) ==
    /\ pc[r] = "idle"
    /\ degraded' = degraded \ {s}
    /\ pc' = [pc EXCEPT ![r] = "compute"]
    /\ UNCHANGED <<level, deny, computed>>

Compute(r) ==
    /\ pc[r] = "compute"
    /\ computed' = [computed EXCEPT ![r] = Level(degraded)]
    /\ pc' = [pc EXCEPT ![r] = "level"]
    /\ UNCHANGED <<degraded, level, deny>>

WriteLevel(r) ==
    /\ pc[r] = "level"
    /\ level' = computed[r]
    /\ pc' = [pc EXCEPT ![r] = "deny"]
    /\ UNCHANGED <<degraded, deny, computed>>

WriteDeny(r) ==
    /\ pc[r] = "deny"
    /\ deny' = (computed[r] = "Deny")
    /\ pc' = [pc EXCEPT ![r] = "idle"]
    /\ UNCHANGED <<degraded, level, computed>>

Next ==
    \E r \in Reporters :
        \/ \E s \in Subsystems : ReportFailure(r, s) \/ ReportRecovery(r, s)
        \/ Compute(r) \/ WriteLevel(r) \/ WriteDeny(r)

Spec == Init /\ [][Next]_vars

-----------------------------------------------------------------------------
(* Properties. *)

\* Once every report has returned, requests are denied whenever the permission
\* or the identity subsystem is down ("denied (never fail-open)").
NeverFailOpen ==
    (\A r \in Reporters : pc[r] = "idle") /\ Critical \cap degraded # {}
        => deny
=============================================================================
