----------------------------- MODULE DecisionTrail -----------------------------
(***************************************************************************)
(* decision.rs and sot_verification.rs. A decision record passes from the  *)
(* options to the outcome; its stage is derived from the columns that are  *)
(* filled. Every operation reads the record, checks the stage and updates  *)
(* in two statements of their own, so two callers may interleave. A memory *)
(* is verified against systems of record before it may control production, *)
(* while time passes.                                                      *)
(***************************************************************************)
EXTENDS Naturals, Sequences, FiniteSets, FiniteSetsExt

CONSTANTS
    Callers,    \* concurrent callers of the decision manager
    Systems,    \* SoTSystem: the systems of record asked
    Memories,   \* memory items verified: authority, confidence, valid_to
    MaxNow,     \* bound on the clock
    Blank       \* a column without a value

SoTSystem == {"erp", "mes", "plm", "qms", "eam", "scada", "historian"}

ASSUME SystemsAssumption == Systems \subseteq SoTSystem

VARIABLES
    record,     \* the row of decision_record; Blank before create
    doing,      \* the operation each caller has checked and not yet written
    now,        \* the clock
    check,      \* the verification under way
    audit,      \* results in the audit trail
    versions    \* results in the version history

trail_vars == <<record, doing, now, check, audit, versions>>

Stages == {"Proposed", "Recommended", "Decided", "Executed", "Resolved", "Withdrawn"}

\* DecisionRecord, as far as its stage goes.
DecisionRecord ==
    [recommendation : {Blank, "given"}, human_decision : {Blank, "taken", "withdrawn"},
     action : {Blank, "done"}, outcome : {Blank, "known"}]

ASSUME BlankAssumption ==
    /\ Blank \notin Stages \cup {"given", "taken", "withdrawn", "done", "known"}
    /\ Blank \notin DecisionRecord

\* VerificationResult, and what it is made from.
NoCheck == [state |-> "idle", item |-> Blank, expired |-> FALSE, asked |-> {},
            responses |-> <<>>, overall |-> Blank, safe |-> FALSE, since |-> 0]

TrailInit ==
    /\ record = Blank
    /\ doing = [c \in Callers |-> Blank]
    /\ now = 0
    /\ check = NoCheck
    /\ audit = {}
    /\ versions = {}

-----------------------------------------------------------------------------
(* The decision record *)

\* Mutant: a decision does not wait for the recommendation.
SkippingTransition(from, to) ==
    \/ <<from, to>> \in {<<"Proposed", "Recommended">>, <<"Recommended", "Decided">>,
                         <<"Proposed", "Decided">>,
                         <<"Decided", "Executed">>, <<"Executed", "Resolved">>}
    \/ to = "Withdrawn" /\ from # "Withdrawn"

is_valid_transition(from, to) ==
    \/ <<from, to>> \in {<<"Proposed", "Recommended">>, <<"Recommended", "Decided">>,
                         <<"Decided", "Executed">>, <<"Executed", "Resolved">>}
    \/ to = "Withdrawn" /\ from # "Withdrawn"

get_state(r) ==
    CASE r.human_decision = "withdrawn" -> "Withdrawn"
      [] r.human_decision # "withdrawn" /\ r.outcome # Blank -> "Resolved"
      [] r.human_decision # "withdrawn" /\ r.outcome = Blank /\ r.action # Blank -> "Executed"
      [] r.human_decision \notin {"withdrawn", Blank} /\ r.action = Blank
            /\ r.outcome = Blank -> "Decided"
      [] r.human_decision = Blank /\ r.action = Blank /\ r.outcome = Blank
            /\ r.recommendation # Blank -> "Recommended"
      [] OTHER -> "Proposed"

NewRecord == [recommendation |-> Blank, human_decision |-> Blank, action |-> Blank,
              outcome |-> Blank]

create ==
    /\ record = Blank
    /\ record' = NewRecord
    /\ UNCHANGED <<doing, now, check, audit, versions>>

\* The head of every operation: get, then the check of the stage. An operation that
\* is refused, or finds no record, has no effect.
ReadAndCheck(c, to) ==
    /\ doing[c] = Blank
    /\ record # Blank
    /\ is_valid_transition(get_state(record), to)
    /\ doing' = [doing EXCEPT ![c] = to]
    /\ UNCHANGED <<record, now, check, audit, versions>>

\* The update, whatever the record has become.
Update(c, to, columns) ==
    /\ doing[c] = to
    /\ record' = [f \in DOMAIN record |-> IF f \in DOMAIN columns THEN columns[f] ELSE record[f]]
    /\ doing' = [doing EXCEPT ![c] = Blank]
    /\ UNCHANGED <<now, check, audit, versions>>

set_recommendation(c) == Update(c, "Recommended", [recommendation |-> "given"])
record_human_decision(c) == Update(c, "Decided", [human_decision |-> "taken"])
record_action(c) == Update(c, "Executed", [action |-> "done"])
record_outcome(c) == Update(c, "Resolved", [outcome |-> "known"])
withdraw(c) == Update(c, "Withdrawn", [human_decision |-> "withdrawn"])

-----------------------------------------------------------------------------
(* Verification *)

Tick ==
    /\ check.state = "asking"
    /\ now < MaxNow
    /\ now' = now + 1
    /\ UNCHANGED <<record, doing, check, audit, versions>>

\* ValidityChecker; no valid_to never expires.
is_expired(m, t) == m.valid_to # Blank /\ m.valid_to < t
is_low_confidence(m) == m.confidence < 70

MatchResult == {"Matched", "Mismatched", "NotFound", "SystemUnavailable"}

aggregate_status(responses) ==
    LET of(r) == Cardinality({j \in DOMAIN responses : responses[j] = r})
    IN  CASE responses = <<>> -> "Unverified"
          [] of("Mismatched") > 0 -> "Conflicting"
          [] responses # <<>> /\ of("Matched") = Len(responses) -> "Verified"
          [] of("Mismatched") = 0 /\ of("Matched") \in 1..(Len(responses) - 1) ->
                "PartiallyVerified"
          [] OTHER -> "Unverified"

\* verify, up to the first query. A source of truth is not asked about.
verify(m, queries) ==
    /\ check.state = "idle"
    /\ check' = [NoCheck EXCEPT
          !.item = m, !.since = now, !.expired = is_expired(m, now), !.asked = queries,
          !.state = IF m.authority = "L0" THEN "recording" ELSE "asking",
          !.overall = IF m.authority = "L0" THEN "Verified" ELSE Blank,
          !.safe = m.authority = "L0" /\ ~is_low_confidence(m) /\ ~is_expired(m, now)]
    /\ UNCHANGED <<record, doing, now, audit, versions>>

\* One query; an adapter error counts as an unavailable system, any other error
\* ends the verification.
Query(result) ==
    /\ check.state = "asking"
    /\ Len(check.responses) < Cardinality(check.asked)
    /\ check' = IF result = "error" THEN [check EXCEPT !.state = "failed"]
                ELSE [check EXCEPT !.responses = Append(@, result)]
    /\ UNCHANGED <<record, doing, now, audit, versions>>

\* All have answered: the gate for production control. What was read of the
\* validity before the queries is what counts.
Gate ==
    LET overall == aggregate_status(check.responses)
    IN  /\ check.state = "asking"
        /\ Len(check.responses) = Cardinality(check.asked)
        /\ check' = [check EXCEPT !.state = "recording", !.overall = overall,
                        !.safe = /\ overall = "Verified"
                                 /\ ~is_low_confidence(check.item)
                                 /\ ~check.expired]
        /\ UNCHANGED <<record, doing, now, audit, versions>>

\* record_result: the audit trail, then the version history; the first failure
\* ends the verification without a result.
record_result(ok) ==
    /\ check.state \in {"recording", "audited"}
    /\ LET first == check.state = "recording"
           entry == [overall |-> check.overall, safe |-> check.safe]
       IN  /\ audit' = IF first /\ ok THEN audit \cup {entry} ELSE audit
           /\ versions' = IF ~first /\ ok THEN versions \cup {entry} ELSE versions
           /\ check' = [check EXCEPT !.state =
                 IF ~ok THEN "failed" ELSE IF first THEN "audited" ELSE "done"]
    /\ UNCHANGED <<record, doing, now>>

DecisionNext ==
    \/ create
    \/ \E c \in Callers, to \in Stages \ {"Proposed"} : ReadAndCheck(c, to)
    \/ \E c \in Callers : set_recommendation(c)
    \/ \E c \in Callers : record_human_decision(c)
    \/ \E c \in Callers : record_action(c)
    \/ \E c \in Callers : record_outcome(c)
    \/ \E c \in Callers : withdraw(c)

VerifyNext ==
    \/ Tick
    \/ \E m \in Memories, q \in SUBSET Systems : verify(m, q)
    \/ \E r \in MatchResult \cup {"error"} : Query(r)
    \/ Gate
    \/ \E ok \in BOOLEAN : record_result(ok)

-----------------------------------------------------------------------------

\* However callers interleave between their check and their update, no stage is
\* skipped: an outcome has an action, an action a decision, and a decision that is
\* not a withdrawal a recommendation.
StagesInOrder ==
    record # Blank =>
        /\ record.outcome # Blank => record.action # Blank
        /\ record.action # Blank => record.human_decision # Blank /\ record.recommendation # Blank
        /\ record.human_decision \notin {Blank, "withdrawn"} => record.recommendation # Blank

\* verify says safe only of a memory that is confident, had not expired when the
\* verification began, and is a source of truth or matched by every system asked;
\* a result in the version history, and a result returned, is in the audit trail.
SafeWasVerified ==
    /\ check.state = "done" /\ check.safe =>
          /\ ~is_low_confidence(check.item)
          /\ ~is_expired(check.item, check.since)
          /\ \/ check.item.authority = "L0"
             \/ /\ check.asked # {}
                /\ \A j \in DOMAIN check.responses : check.responses[j] = "Matched"
    /\ versions \subseteq audit

================================================================================
