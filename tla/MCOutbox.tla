------------------------------ MODULE MCOutbox ------------------------------
(* Outbox for TLC. *)
EXTENDS Outbox

\* An event whose worker deletes what is announced; one whose worker deletes
\* another entry; and one that is read back as another type, for which its
\* payload lacks fields, so that it fails on every attempt (the payload of a
\* proposal: memory_id, memory_type, action, gene_id, gene_version).
MixedSubmissions ==
    {[type |-> "UserContextUpdated", fields |-> {"tenant_id", "user_id"}],
     [type |-> "PermissionChanged", fields |-> {"tenant_id", "user_id"}],
     [type |-> "MemoryProposed", fields |-> {}]}

\* build_forget_outbox_payload: memory_id, action, requested_by.
ForgetSubmissions == {[type |-> "MemoryRevoked", fields |-> {}]}

\* A change of permissions that names the tenant and the user.
PermissionSubmissions ==
    {[type |-> "PermissionChanged", fields |-> {"tenant_id", "user_id"}]}

Both == {"hot_context", "cache"}
=============================================================================
