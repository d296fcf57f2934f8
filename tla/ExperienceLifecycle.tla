------------------------- MODULE ExperienceLifecycle -------------------------
(***************************************************************************)
(* ExperienceControlPlane on one version of one gene, in SQLite. A server  *)
(* holds a mutex for the length of a call, but two processes may open the  *)
(* same file and no call opens a transaction: each statement is a step, a  *)
(* call of another process may come between any two, and an error or a     *)
(* crash ends a call where it stands.                                      *)
(*                                                                         *)
(* Every write is upsert_gene, which replaces the whole row by the copy    *)
(* the call read before and changed. Capsules and use sessions are written *)
(* too, but nothing reads them again: begin_use, and the statements about  *)
(* them, change nothing the model tells apart.                             *)
(***************************************************************************)
EXTENDS Naturals, Sequences, FiniteSets, SequencesExt

CONSTANTS
    Procs,          \* processes that have the file open
    Contexts,       \* task_context_hash values
    MinSuccesses,   \* successes that make a gene stable (3 in the code)
    MinContexts,    \* distinct contexts that do (2 in the code)
    MaxReceipts,    \* bound on the receipts recorded
    MaxOps,         \* bound on the calls started
    None            \* no gene, no receipt

ASSUME ExperienceAssumption ==
    /\ MinSuccesses \in Nat \ {0}
    /\ MinContexts \in Nat
    /\ MaxReceipts \in Nat
    /\ MaxOps \in Nat

Outcomes == {"succeeded", "failed", "safety_failed", "inconclusive"}

\* Nothing sets Deprecated.
Lifecycles == {"candidate", "stable", "quarantined", "revoked"}

\* "unshared" stands for Local, Project and Tenant, "shared" for Team and Network.
Scopes == {"unshared", "shared"}

Receipt == [outcome : Outcomes, context : Contexts]

-----------------------------------------------------------------------------
(* outcome_stats. The receipts of the gene are kept as what it makes of them:  *)
(* the outcomes in the order of created_at and the set of the contexts.        *)

Failures == {"failed", "safety_failed"}

With(rs, outcomes) == {i \in DOMAIN rs.outcomes : rs.outcomes[i] \in outcomes}

\* Failures since the last success, in the order of created_at; inconclusive
\* ones neither count nor interrupt.
Consecutive(rs) ==
    Cardinality({i \in With(rs, Failures) :
                    \A j \in With(rs, {"succeeded"}) : j < i})

Stats(rs) == [successes |-> Cardinality(With(rs, {"succeeded"})),
              failures  |-> Cardinality(With(rs, Failures)),
              contexts  |-> Cardinality(rs.contexts)]

Gene == [lifecycle : Lifecycles, scope : Scopes,
         stats : [successes : Nat, failures : Nat, contexts : Nat]]

\* Mutant: one failure among many successes is forgiven.
JudgeForgiving(lifecycle, outcome, rs) ==
    IF outcome = "safety_failed" THEN "quarantined"
    ELSE IF Consecutive(rs) >= 2 THEN "candidate"
    ELSE IF /\ Stats(rs).successes >= MinSuccesses
            /\ Stats(rs).contexts >= MinContexts
         THEN "stable" ELSE lifecycle

\* Mutant: successes in one context are enough.
JudgeAnyContext(lifecycle, outcome, rs) ==
    IF outcome = "safety_failed" THEN "quarantined"
    ELSE IF Consecutive(rs) >= 2 THEN "candidate"
    ELSE IF Stats(rs).successes >= MinSuccesses /\ Stats(rs).failures = 0
         THEN "stable" ELSE lifecycle

\* The lifecycle after an outcome: record_outcome's three rules, in order.
Judge(lifecycle, outcome, rs) ==
    IF outcome = "safety_failed" THEN "quarantined"
    ELSE IF Consecutive(rs) >= 2 THEN "candidate"
    ELSE IF /\ Stats(rs).successes >= MinSuccesses
            /\ Stats(rs).contexts >= MinContexts
            /\ Stats(rs).failures = 0
         THEN "stable" ELSE lifecycle

-----------------------------------------------------------------------------
VARIABLES
    gene,       \* the row of experience_genes, or None
    receipts,   \* the rows of experience_usage_receipts
    pc,         \* the next statement of a call
    mine,       \* the copy of the gene a call will write
    outcome,    \* the outcome in the receipt a call has inserted
    proposing,  \* processes whose call is propose, with receipts to record
    started,    \* calls started (bounds the instance)
    earned,     \* have the receipts ever been enough for stable? (history)
    past,       \* "serial" until a call ends between its receipt and its gene
                \* ("cut") or two calls overlap ("overlapped") (history)
    current     \* has record_outcome written the gene since the last receipt and
                \* the last propose, no two calls having overlapped? (history)

vars == <<gene, receipts, pc, mine, outcome, proposing, started,
          earned, past, current>>

Steps == {"idle", "read", "insert", "stats", "write", "govern"}

TypeOK ==
    /\ gene \in Gene \cup {None}
    /\ receipts \in [outcomes : Seq(Outcomes), contexts : SUBSET Contexts]
    /\ pc \in [Procs -> Steps]
    /\ mine \in [Procs -> Gene \cup {None}]
    /\ outcome \in [Procs -> Outcomes \cup {None}]
    /\ proposing \in SUBSET Procs
    /\ started \in 0..MaxOps
    /\ earned \in BOOLEAN
    /\ past \in {"serial", "cut", "overlapped"}
    /\ current \in BOOLEAN

Init ==
    /\ gene = None
    /\ receipts = [outcomes |-> <<>>, contexts |-> {}]
    /\ pc = [p \in Procs |-> "idle"]
    /\ mine = [p \in Procs |-> None]
    /\ outcome = [p \in Procs |-> None]
    /\ proposing = {}
    /\ started = 0
    /\ earned = FALSE
    /\ past = "serial"
    /\ current = FALSE

Go(p, step) == pc' = [pc EXCEPT ![p] = step]

\* A call ends; what it held is forgotten.
Return(p) ==
    /\ Go(p, "idle")
    /\ mine' = [mine EXCEPT ![p] = None]
    /\ outcome' = [outcome EXCEPT ![p] = None]
    /\ proposing' = proposing \ {p}

\* A call begins with its first statement.
Begin(p, step) ==
    /\ pc[p] = "idle"
    /\ started < MaxOps
    /\ started' = started + 1
    /\ past' = IF \E q \in Procs : pc[q] # "idle" THEN "overlapped" ELSE past
    /\ Go(p, step)
    /\ current' = (current /\ past' # "overlapped")
    /\ UNCHANGED <<gene, receipts, proposing, earned>>

Keep(p, copy) == mine' = [mine EXCEPT ![p] = copy]

-----------------------------------------------------------------------------
(* propose and record_outcome *)

\* The gene of a bundle becomes a candidate that is not shared; the counters are
\* the bundle's own and claim what stable would need. upsert_gene replaces whatever the gene
\* was; then the bundle's receipts, if any, are recorded.
Propose(p) ==
    /\ pc[p] = "idle"
    /\ started < MaxOps
    /\ started' = started + 1
    /\ past' = IF \E q \in Procs : pc[q] # "idle" THEN "overlapped" ELSE past
    /\ gene' = [lifecycle |-> "candidate", scope |-> "unshared",
                stats |-> [successes |-> MinSuccesses, failures |-> 0,
                           contexts |-> MinContexts]]
    /\ current' = FALSE
    /\ \/ Go(p, "read") /\ proposing' = proposing \cup {p}
       \/ Go(p, "idle") /\ UNCHANGED proposing
    /\ UNCHANGED <<receipts, mine, outcome, earned>>

\* get_gene
Read(p) ==
    /\ gene # None
    /\ Keep(p, gene)

RecordOutcome(p) == Read(p) /\ Begin(p, "insert") /\ UNCHANGED outcome

\* record_outcome called by propose.
RecordProposed(p) ==
    /\ pc[p] = "read"
    /\ Read(p)
    /\ Go(p, "insert")
    /\ UNCHANGED <<gene, receipts, outcome, proposing, started, earned,
                   past, current>>

Earns(rs) == /\ Stats(rs).successes >= MinSuccesses
             /\ Stats(rs).contexts >= MinContexts
             /\ Stats(rs).failures = 0

\* The receipt goes where its created_at, which the agent set, puts it.
InsertReceipt(p, r) ==
    /\ pc[p] = "insert"
    /\ Len(receipts.outcomes) < MaxReceipts
    /\ \E k \in 1..(Len(receipts.outcomes) + 1) :
          receipts' = [outcomes |-> InsertAt(receipts.outcomes, k, r.outcome),
                       contexts |-> receipts.contexts \cup {r.context}]
    /\ earned' = (earned \/ Earns(receipts'))
    /\ current' = FALSE
    /\ outcome' = [outcome EXCEPT ![p] = r.outcome]
    /\ Go(p, "stats")
    /\ UNCHANGED <<gene, mine, proposing, started, past>>

\* Mutant: the counters are written only when the lifecycle changes.
ComputeWhenChanged(p) ==
    /\ pc[p] = "stats"
    /\ LET next == Judge(mine[p].lifecycle, outcome[p], receipts)
       IN  mine' = IF next = mine[p].lifecycle THEN mine
                   ELSE [mine EXCEPT ![p].stats = Stats(receipts),
                                     ![p].lifecycle = next]
    /\ outcome' = [outcome EXCEPT ![p] = None]
    /\ Go(p, "write")
    /\ UNCHANGED <<gene, receipts, proposing, started, earned,
                   past, current>>

\* outcome_stats, over the receipts of everybody, and the three rules.
Compute(p) ==
    /\ pc[p] = "stats"
    /\ mine' = [mine EXCEPT ![p].stats = Stats(receipts),
                            ![p].lifecycle = Judge(@, outcome[p], receipts)]
    /\ outcome' = [outcome EXCEPT ![p] = None]
    /\ Go(p, "write")
    /\ UNCHANGED <<gene, receipts, proposing, started, earned,
                   past, current>>

\* upsert_gene of record_outcome; propose goes on to the bundle's next receipt.
Write(p) ==
    /\ pc[p] = "write"
    /\ gene' = mine[p]
    /\ current' = (past # "overlapped")
    /\ \/ Return(p)
       \/ /\ p \in proposing
          /\ Go(p, "read")
          /\ mine' = [mine EXCEPT ![p] = None]
          /\ UNCHANGED <<outcome, proposing>>
    /\ UNCHANGED <<receipts, started, earned, past>>

-----------------------------------------------------------------------------
(* promote and revoke, with governance *)

\* get_gene; "only stable genes can be published".
Publishable == gene # None /\ gene.lifecycle = "stable"

Promote(p, scope) ==
    /\ Publishable
    /\ Keep(p, [gene EXCEPT !.scope = scope])
    /\ Begin(p, "govern")
    /\ UNCHANGED outcome

\* From any lifecycle.
Revoke(p, quarantine) ==
    /\ gene # None
    /\ Keep(p, [gene EXCEPT !.lifecycle =
                    IF quarantine THEN "quarantined" ELSE "revoked"])
    /\ Begin(p, "govern")
    /\ UNCHANGED outcome

\* upsert_gene of promote and revoke.
Govern(p) ==
    /\ pc[p] = "govern"
    /\ gene' = mine[p]
    /\ Return(p)
    /\ UNCHANGED <<receipts, started, earned, past, current>>

-----------------------------------------------------------------------------
\* The call returns an error or its process dies: a statement fails, or the
\* id of the receipt is on record already.
Fail(p) ==
    /\ pc[p] # "idle"
    /\ past' = IF pc[p] \in {"stats", "write"} /\ past = "serial"
               THEN "cut" ELSE past
    /\ Return(p)
    /\ UNCHANGED <<gene, receipts, started, earned, current>>

Next ==
    \E p \in Procs :
        \/ Propose(p)
        \/ RecordOutcome(p) \/ RecordProposed(p)
        \/ \E r \in Receipt : InsertReceipt(p, r)
        \/ Compute(p) \/ Write(p)
        \/ \E s \in Scopes : Promote(p, s)
        \/ \E q \in BOOLEAN : Revoke(p, q)
        \/ Govern(p) \/ Fail(p)

Spec == Init /\ [][Next]_vars

-----------------------------------------------------------------------------
(* Properties. *)

\* A gene is stable, or shared, only if at some time its receipts
\* were enough: successes in several contexts and no failure. Neither a bundle's
\* own counters nor calls that overwrite each other's row get around it.
StableWasEarned ==
    gene # None /\ (gene.lifecycle = "stable" \/ gene.scope = "shared") => earned

\* A gene is not stable while a safety failure is on record or its last two
\* outcomes are failures, in whatever order the receipts came in and however
\* often it was proposed again. (A process that dies between the receipt and the
\* gene, or writes back an older copy, loses the verdict.)
UnsafeNotStable ==
    gene # None /\ past = "serial" /\ (\A p \in Procs : pc[p] = "idle")
        => \/ gene.lifecycle # "stable"
           \/ With(receipts, {"safety_failed"}) = {} /\ Consecutive(receipts) < 2

\* The counters of the gene are those of its receipts, also when earlier calls
\* were cut short: each record_outcome counts all the receipts again.
CountersHeal ==
    gene # None /\ current => gene.stats = Stats(receipts)
==============================================================================
