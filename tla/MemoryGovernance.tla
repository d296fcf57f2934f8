--------------------------- MODULE MemoryGovernance ---------------------------
(***************************************************************************)
(* The governance of one memory: its life (MemoryLifecycle) and its scope  *)
(* (ScopeEscalation). They share the row of memory_item but no column, and *)
(* each takes a deletion by the other for a request of its own, so one of  *)
(* the two moves in a behaviour.                                           *)
(***************************************************************************)
EXTENDS MemoryLifecycle, ScopeEscalation

VARIABLE half

GovernanceInit == half \in {"life", "scope"} /\ Init /\ ScopeInit
                  /\ (half = "life" => scope = 0 /\ guarded)

GovernanceNext ==
    /\ UNCHANGED half
    /\ \/ half = "life" /\ Next /\ UNCHANGED scope_vars
       \/ half = "scope" /\ ScopeNext /\ UNCHANGED vars

GovernanceSpec == GovernanceInit /\ [][GovernanceNext]_<<half, vars, scope_vars>>

\* The processes and the calls of TLC's instance are interchangeable.
Symmetry == Permutations(Procs) \cup Permutations(Calls)
===============================================================================
