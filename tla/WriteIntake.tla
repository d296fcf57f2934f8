------------------------------ MODULE WriteIntake ------------------------------
(***************************************************************************)
(* write_pipeline.rs: the stages of a submission. The guard scans it, the  *)
(* tenant's active items are read to see whether it is a duplicate, its    *)
(* entities are looked up, the row is written in up to four statements,    *)
(* and the event is enqueued. Submitters run at the same time; any         *)
(* statement may fail and leaves what was written before it.               *)
(***************************************************************************)
EXTENDS Naturals, Sequences, FiniteSets, FiniteSetsExt, PoisonGuard

CONSTANTS
    Submitters,     \* concurrent calls of submit_candidate
    Submissions,    \* what may be submitted
    Nil

\* CandidateSubmission. text is the content trimmed and lower-cased, signs what the
\* guard finds in it.
CandidateSubmission ==
    [tenant : STRING, text : STRING, subject : STRING \cup {Nil},
     source : {"iam", "hr", "user_explicit", "business_event", "tool_result", "agent_inferred"},
     scope : STRING, confidence : 0..100, signs : SUBSET Sign]

ASSUME SubmissionsAssumption == Submissions \subseteq CandidateSubmission

VARIABLES
    rows,       \* memory_item, by submitter; Nil before the insert
    proposed,   \* payloads of MemoryProposed, by submitter
    stage,      \* where each submission is
    sub,        \* the submission
    dup         \* whether it was found to be a duplicate

intake_vars == <<rows, proposed, stage, sub, dup>>

IntakeInit ==
    /\ rows = [s \in Submitters |-> Nil]
    /\ proposed = [s \in Submitters |-> Nil]
    /\ stage = [s \in Submitters |-> "idle"]
    /\ sub = [s \in Submitters |-> Nil]
    /\ dup = [s \in Submitters |-> FALSE]

to_poison_source_type(source) ==
    CASE source \in {"iam", "hr", "user_explicit"} -> "authoritative"
      [] source = "agent_inferred" -> "agent_inferred"
      [] source = "tool_result" -> "tool_result"
      [] source = "business_event" -> "business_event"

source_to_authority_level(source) ==
    CASE source \in {"iam", "hr"} -> 3 [] source = "user_explicit" -> 2
      [] source \in {"business_event", "tool_result"} -> 1 [] source = "agent_inferred" -> 0

source_authority_weight(source) ==
    CASE source \in {"iam", "hr"} -> 90 [] source = "user_explicit" -> 80
      [] source = "business_event" -> 70 [] source = "tool_result" -> 50
      [] source = "agent_inferred" -> 30

compute_importance(source, is_duplicate) ==
    (source_authority_weight(source) * (IF is_duplicate THEN 50 ELSE 100)) \div 200 + 50

is_high_scope(scope) == scope \in {"team", "process", "factory", "enterprise"}

\* Equal after trimming and lower casing (content_hash), or about the same subject.
SameThing(a, b) == a.text = b.text \/ (a.subject # Nil /\ a.subject = b.subject)

check_duplicate(x, s) ==
    \E o \in Submitters \ {s} :
        rows[o] # Nil /\ rows[o].status = "active" /\ rows[o].tenant = x.tenant
        /\ SameThing(x, rows[o])

Verdict(x) == scan(x.signs, to_poison_source_type(x.source), FALSE)

decide_status(x) ==
    IF Verdict(x) = "suspicious" THEN "candidate"
    ELSE IF x.confidence >= 70 /\ ~is_high_scope(x.scope) THEN "active" ELSE "candidate"

At(s, from, to) == stage[s] = from /\ stage' = [stage EXCEPT ![s] = to]

\* Stages 1 and 2; a blocked submission goes no further.
Arrive(s, x) ==
    /\ stage[s] = "idle"
    /\ stage' = [stage EXCEPT ![s] = IF Verdict(x) = "blocked" THEN "refused" ELSE "scanned"]
    /\ sub' = [sub EXCEPT ![s] = x]
    /\ UNCHANGED <<rows, proposed, dup>>

\* Stage 3: the newest hundred active items of the tenant. (Stage 4 links at most
\* ten entities by name; it changes the payload only.)
Score(s) ==
    /\ At(s, "scanned", "scored")
    /\ dup' = [dup EXCEPT ![s] = check_duplicate(sub[s], s)]
    /\ UNCHANGED <<rows, proposed, sub>>

\* extract_candidate and the insert: a candidate with the default importance.
insert(s) ==
    /\ At(s, "scored", "inserted")
    /\ rows' = [rows EXCEPT ![s] =
          [tenant |-> sub[s].tenant, text |-> sub[s].text, subject |-> sub[s].subject,
           scope |-> sub[s].scope, status |-> "candidate", importance |-> Nil,
           authority |-> source_to_authority_level(sub[s].source), valid_from |-> FALSE]]
    /\ UNCHANGED <<proposed, sub, dup>>

SetImportance(s) ==
    /\ At(s, "inserted", "weighed")
    /\ rows' = [rows EXCEPT ![s].importance = compute_importance(sub[s].source, dup[s])]
    /\ UNCHANGED <<proposed, sub, dup>>

\* The status only when it is not candidate, then valid_from.
SetStatus(s) ==
    /\ stage[s] = "weighed"
    /\ IF decide_status(sub[s]) = "candidate"
       THEN At(s, "weighed", "stored") /\ UNCHANGED rows
       ELSE /\ At(s, "weighed", "promoted")
            /\ rows' = [rows EXCEPT ![s].status = "active"]
    /\ UNCHANGED <<proposed, sub, dup>>

SetValidFrom(s) ==
    /\ At(s, "promoted", "stored")
    /\ rows' = [rows EXCEPT ![s].valid_from = TRUE]
    /\ UNCHANGED <<proposed, sub, dup>>

\* The payload of the event, and the WriteResult.
WriteResult(x, is_duplicate) ==
    [status |-> decide_status(x), importance |-> compute_importance(x.source, is_duplicate),
     suspicious |-> Verdict(x) = "suspicious"]

Enqueue(s) ==
    /\ At(s, "stored", "done")
    /\ proposed' = [proposed EXCEPT ![s] = WriteResult(sub[s], dup[s])]
    /\ UNCHANGED <<rows, sub, dup>>

\* A statement fails: the submitter gets an error, the row stays as it is.
Fail(s) ==
    /\ stage[s] \notin {"idle", "refused", "done", "failed"}
    /\ stage' = [stage EXCEPT ![s] = "failed"]
    /\ UNCHANGED <<rows, proposed, sub, dup>>

IntakeNext ==
    \E s \in Submitters :
        \/ \E x \in Submissions : Arrive(s, x)
        \/ Score(s) \/ insert(s) \/ SetImportance(s) \/ SetStatus(s) \/ SetValidFrom(s)
        \/ Enqueue(s) \/ Fail(s)

-----------------------------------------------------------------------------

\* submit_candidate, whatever statement fails and however submitters interleave: a
\* row that is active was safe, confident and of a low scope; what the event
\* announces is what the row says, and a suspicious text waits for review.
IntakeSound ==
    /\ \A s \in Submitters : rows[s] # Nil /\ rows[s].status = "active" =>
          /\ Verdict(sub[s]) = "safe"
          /\ sub[s].confidence >= 70
          /\ ~is_high_scope(rows[s].scope)
    /\ \A s \in Submitters : proposed[s] # Nil =>
          /\ proposed[s].status = rows[s].status
          /\ proposed[s].importance = rows[s].importance
          /\ rows[s].status = "active" => rows[s].valid_from
          /\ proposed[s].suspicious => rows[s].status = "candidate"
================================================================================
