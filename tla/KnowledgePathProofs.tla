-------------------------- MODULE KnowledgePathProofs --------------------------
(***************************************************************************)
(* Proofs about KnowledgePath, for any number of callers, submitters,      *)
(* systems and memories and for any store. Decisions and verifications are *)
(* recorded in order and submissions are stored as they were judged; what  *)
(* is shared has been vetted; what a search returns may be seen and is     *)
(* ranked; facts and profiles of any number of sources are resolved by     *)
(* authority and not by the order they came in; experiences rest on their  *)
(* episodes and simulations on their memories.                             *)
(***************************************************************************)
EXTENDS KnowledgePath, FiniteSetTheorems, SequenceTheorems, WellFoundedInduction, TLAPS

-----------------------------------------------------------------------------
(* The inductive invariant of decisions and verifications. *)

\* What a caller found when it checked is there when it writes: columns that were
\* filled stay filled, though others may fill or overwrite them in between.
Found(c) ==
    /\ doing[c] # Blank => record \in DecisionRecord
    /\ doing[c] = "Decided" => record.recommendation # Blank
    /\ doing[c] = "Executed" => record.human_decision # Blank /\ record.recommendation # Blank
    /\ doing[c] = "Resolved" => record.action # Blank

Filled ==
    /\ record \in DecisionRecord \cup {Blank}
    /\ doing \in [Callers -> Stages \cup {Blank}]
    /\ \A c \in Callers : Found(c)
    /\ StagesInOrder

Overall == {"Unverified", "Conflicting", "Verified", "PartiallyVerified", Blank}

Checks == [state : {"idle", "asking", "recording", "audited", "done", "failed"},
           item : Memories \cup {Blank}, expired : BOOLEAN, asked : SUBSET Systems,
           responses : Seq(MatchResult), overall : Overall, safe : BOOLEAN, since : Nat]

\* A memory that may be called safe.
Safe(k) ==
    /\ ~is_low_confidence(k.item)
    /\ ~is_expired(k.item, k.since)
    /\ \/ k.item.authority = "L0"
       \/ k.asked # {} /\ \A j \in DOMAIN k.responses : k.responses[j] = "Matched"

\* The verdict is justified from the moment it is reached, and is in the audit trail
\* before it is in the version history.
Weighed ==
    /\ check \in Checks /\ now \in Nat
    /\ check.state = "asking" => (check.expired <=> is_expired(check.item, check.since))
    /\ check.state \in {"recording", "audited", "done"} /\ check.safe => Safe(check)
    /\ check.state = "audited" => [overall |-> check.overall, safe |-> check.safe] \in audit
    /\ versions \subseteq audit

-----------------------------------------------------------------------------
(* The inductive invariant of submissions. *)

Written == {"inserted", "weighed", "promoted", "stored", "done"}

RowFields == {"tenant", "text", "subject", "scope", "status", "importance", "authority",
              "valid_from"}

\* The row of a submission, as far as it has got.
Stored(s) ==
    LET row == rows[s]
        x == sub[s]
    IN  /\ stage[s] \in {"idle", "scanned", "scored", "refused"} => row = Nil
        /\ stage[s] # "done" => proposed[s] = Nil
        /\ stage[s] \in Written => DOMAIN row = RowFields /\ row.scope = x.scope
        /\ stage[s] \in {"inserted", "weighed"} => row.status = "candidate"
        /\ stage[s] \in {"weighed", "promoted", "stored", "done"}
              => row.importance = compute_importance(x.source, dup[s])
        /\ stage[s] \in {"promoted", "stored", "done"} => row.status = decide_status(x)
        /\ stage[s] \in {"stored", "done"} /\ row.status = "active" => row.valid_from
        /\ stage[s] = "done" => proposed[s] = WriteResult(x, dup[s])

\* A submission past the guard was not blocked.
Passed(s) ==
    stage[s] \in {"scanned", "scored"} \cup Written => Verdict(sub[s]) # "blocked"

Kept ==
    /\ stage \in [Submitters -> {"idle", "scanned", "scored", "refused", "failed"} \cup Written]
    /\ DOMAIN rows = Submitters /\ DOMAIN proposed = Submitters
    /\ DOMAIN sub = Submitters /\ DOMAIN dup = Submitters
    /\ \A s \in Submitters : Stored(s) /\ Passed(s)
    /\ IntakeSound

RecordInv == Filled /\ Weighed /\ Kept

-----------------------------------------------------------------------------
(* The inductive invariant of contexts and searches. *)

SegmentFields == {"text", "section", "priority", "authority", "confidence", "candidate",
                  "field", "length", "parts", "marks", "kept", "intact"}

\* What the order and the cost of a segment rest on.
Costed(g) ==
    /\ g.priority \in Int /\ g.authority \in Int /\ g.confidence \in Int
    /\ g.length \in Nat /\ g.marks \in Nat /\ g.section \in DOMAIN NameLength

IsSegment(g) == DOMAIN g = SegmentFields /\ Costed(g)

\* As it comes from a source, its beginning is there.
Made(g) == IsSegment(g) /\ 1 \in g.kept

\* A list of segments.
Listed(s) ==
    \E n \in Nat : /\ s \in [1..n -> {s[i] : i \in 1..n}]
                   /\ \A i \in 1..n : Made(s[i])

Gathered == DOMAIN got = Sources /\ \A s \in Sources : Listed(got[s].segs)

Disagree(a, b) ==
    a.field = b.field /\ a.field # NoCap /\ a.section # b.section /\ a.text # b.text

\* A text in which what is not verified is marked, if its beginning is there, and what is
\* disputed is flagged; any part of it is such a text too.
Presentable(text, conflicts) ==
    /\ \A i \in DOMAIN text : /\ IsSegment(text[i])
                              /\ IsLow(text[i]) /\ 1 \in text[i].kept => text[i].marks > 0
    /\ \A i, j \in DOMAIN text :
          Disagree(text[i], text[j]) => \E c \in conflicts : c.field = text[i].field

\* No text is there without its beginning.
Begun(text) == \A i \in DOMAIN text : 1 \in text[i].kept

NoneHigh(text) == \A s \in SignsIn(text) : s[2] # "high"

\* What is packaged was presentable when it was assembled, and stays so.
Offered ==
    /\ pc \in {"assembled", "packaged", "vetted", "shared"} =>
          Presentable(ctx.text, ctx.conflicts) /\ Begun(ctx.text) /\ IsFiniteSet(DOMAIN ctx.low)
    /\ pc \in {"packaged", "vetted", "shared"} =>
          /\ DOMAIN pkg = {"text", "budget", "highest", "conflicts"}
          /\ Presentable(pkg.text, pkg.conflicts)
          /\ Begun(pkg.text) \/ TextTokens(ctx.text) > pkg.budget
    /\ pc \in {"vetted", "shared"} => NoneHigh(pkg.text)
    /\ pc = "shared" => found.asked = Tenant

ContextInv == store \subseteq Items /\ Gathered /\ Offered

-----------------------------------------------------------------------------
(* The composition. *)

\* A step of the path is a step of one part and leaves the others as they are.
LEMMA OnePart ==
    ASSUME [Next]_<<part, knowledge_vars, context_vars>>
    PROVE  /\ DecisionNext \/ VerifyNext \/ UNCHANGED trail_vars
           /\ IntakeNext \/ UNCHANGED intake_vars
           /\ FactNext \/ UNCHANGED fact_vars
           /\ ContextNext \/ UNCHANGED context_vars
           /\ GraphNext \/ UNCHANGED graph_vars
           /\ ReflectionNext \/ UNCHANGED reflection_vars
           /\ TwinNext \/ UNCHANGED twin_vars
  BY DEF Next, KnowledgeNext, knowledge_vars

-----------------------------------------------------------------------------
(* Decisions. *)

\* The beginning of every operation.
LEMMA CheckedStep ==
    ASSUME Filled, NEW c \in Callers, NEW to \in Stages \ {"Proposed"}, ReadAndCheck(c, to)
    PROVE  Filled'
<1>1. record' = record /\ doing' = [doing EXCEPT ![c] = to] /\ record \in DecisionRecord
  BY DEF ReadAndCheck, Filled
<1>2. Found(c)'
  <2>1. doing'[c] = to /\ is_valid_transition(get_state(record), to)
    BY <1>1 DEF Filled, ReadAndCheck
  <2>2. CASE to = "Decided"
    <3>1. get_state(record) = "Recommended"
      BY <2>1, <2>2 DEF is_valid_transition
    <3>2. record.recommendation # Blank
      BY <3>1, <1>1 DEF get_state
    <3> QED
      BY <1>1, <2>1, <2>2, <3>2 DEF Found
  <2>3. CASE to = "Executed"
    <3>1. get_state(record) = "Decided"
      BY <2>1, <2>3 DEF is_valid_transition
    <3>2. record.human_decision \notin {"withdrawn", Blank}
      BY <3>1, <1>1 DEF get_state
    <3>3. record.recommendation # Blank
      BY <3>2, <1>1, BlankAssumption DEF Filled, StagesInOrder, ReadAndCheck
    <3> QED
      BY <1>1, <2>1, <2>3, <3>2, <3>3 DEF Found
  <2>4. CASE to = "Resolved"
    <3>1. get_state(record) = "Executed"
      BY <2>1, <2>4 DEF is_valid_transition
    <3>2. record.action # Blank
      BY <3>1, <1>1 DEF get_state
    <3> QED
      BY <1>1, <2>1, <2>4, <3>2 DEF Found
  <2>5. CASE to \notin {"Decided", "Executed", "Resolved"}
    BY <1>1, <2>1, <2>5 DEF Found
  <2> QED
    BY <2>2, <2>3, <2>4, <2>5
<1>3. \A d \in Callers : Found(d)'
  BY <1>1, <1>2 DEF Filled, Found
<1> QED
  BY <1>1, <1>3 DEF Filled, StagesInOrder

\* A column is filled; the others stay.
LEMMA UpdateStep ==
    ASSUME Filled, NEW c \in Callers, NEW r, r \in DecisionRecord,
           record' = r, doing' = [doing EXCEPT ![c] = Blank], record \in DecisionRecord,
           \A f \in DOMAIN r : record[f] # Blank => r[f] # Blank,
           StagesInOrder'
    PROVE  Filled'
<1>1. DOMAIN r = {"recommendation", "human_decision", "action", "outcome"}
  BY DEF DecisionRecord
<1>2. \A d \in Callers : Found(d)'
  BY <1>1, BlankAssumption DEF Filled, Found, Stages
<1> QED
  BY <1>2 DEF Filled

\* The updates of the decision record.
LEMMA WriteStep ==
    ASSUME Filled, NEW c \in Callers,
           \/ set_recommendation(c) \/ record_human_decision(c) \/ record_action(c)
           \/ record_outcome(c) \/ withdraw(c)
    PROVE  Filled'
<1> USE BlankAssumption
<1>1. record \in DecisionRecord /\ doing' = [doing EXCEPT ![c] = Blank]
  BY DEF Filled, Found, set_recommendation, record_human_decision, record_action,
         record_outcome, withdraw, Update, Stages
<1>2. DOMAIN record = {"recommendation", "human_decision", "action", "outcome"}
  BY <1>1 DEF DecisionRecord
<1>3. CASE set_recommendation(c)
  <2>1. record' = [record EXCEPT !.recommendation = "given"]
    BY <1>1, <1>2, <1>3 DEF set_recommendation, Update, DecisionRecord
  <2>2. record' \in DecisionRecord /\ StagesInOrder'
    BY <1>1, <2>1 DEF DecisionRecord, StagesInOrder, Filled
  <2> QED
    BY <1>1, <2>1, <2>2, UpdateStep DEF DecisionRecord
<1>4. CASE record_human_decision(c)
  <2>1. record' = [record EXCEPT !.human_decision = "taken"]
    BY <1>1, <1>2, <1>4 DEF record_human_decision, Update, DecisionRecord
  <2>2. record.recommendation # Blank
    BY <1>4 DEF record_human_decision, Update, Filled, Found
  <2>3. record' \in DecisionRecord /\ StagesInOrder'
    BY <1>1, <2>1, <2>2 DEF DecisionRecord, StagesInOrder, Filled
  <2> QED
    BY <1>1, <2>1, <2>3, UpdateStep DEF DecisionRecord
<1>5. CASE record_action(c)
  <2>1. record' = [record EXCEPT !.action = "done"]
    BY <1>1, <1>2, <1>5 DEF record_action, Update, DecisionRecord
  <2>2. record.human_decision # Blank /\ record.recommendation # Blank
    BY <1>5 DEF record_action, Update, Filled, Found
  <2>3. record' \in DecisionRecord /\ StagesInOrder'
    BY <1>1, <2>1, <2>2 DEF DecisionRecord, StagesInOrder, Filled
  <2> QED
    BY <1>1, <2>1, <2>3, UpdateStep DEF DecisionRecord
<1>6. CASE record_outcome(c)
  <2>1. record' = [record EXCEPT !.outcome = "known"]
    BY <1>1, <1>2, <1>6 DEF record_outcome, Update, DecisionRecord
  <2>2. record.action # Blank
    BY <1>6 DEF record_outcome, Update, Filled, Found
  <2>3. record' \in DecisionRecord /\ StagesInOrder'
    BY <1>1, <2>1, <2>2 DEF DecisionRecord, StagesInOrder, Filled
  <2> QED
    BY <1>1, <2>1, <2>3, UpdateStep DEF DecisionRecord
<1>7. CASE withdraw(c)
  <2>1. record' = [record EXCEPT !.human_decision = "withdrawn"]
    BY <1>1, <1>2, <1>7 DEF withdraw, Update, DecisionRecord
  <2>2. record' \in DecisionRecord /\ StagesInOrder'
    BY <1>1, <2>1 DEF DecisionRecord, StagesInOrder, Filled
  <2> QED
    BY <1>1, <2>1, <2>2, UpdateStep DEF DecisionRecord
<1> QED
  BY <1>3, <1>4, <1>5, <1>6, <1>7

\* Every step of the decision manager and of the verifier keeps the record in order.
LEMMA FilledStep == Filled /\ (DecisionNext \/ VerifyNext \/ UNCHANGED trail_vars) => Filled'
<1> SUFFICES ASSUME Filled, DecisionNext \/ VerifyNext \/ UNCHANGED trail_vars PROVE Filled'
  OBVIOUS
<1>1. CASE create
  <2>1. record' = NewRecord /\ doing' = doing /\ NewRecord \in DecisionRecord
    BY <1>1 DEF create, NewRecord, DecisionRecord
  <2>2. NewRecord.outcome = Blank /\ NewRecord.action = Blank /\ NewRecord.human_decision = Blank
    BY DEF NewRecord
  <2>3. StagesInOrder'
    BY <2>1, <2>2 DEF StagesInOrder
  <2>4. \A c \in Callers : Found(c)'
    <3>1. \A c \in Callers : doing[c] # Blank => record \in DecisionRecord
      BY DEF Filled, Found
    <3>2. ASSUME NEW c \in Callers, doing[c] # Blank PROVE Found(c)'
      BY <1>1, <3>1, <3>2, BlankAssumption DEF create
    <3> QED
      BY <2>1, <3>2, BlankAssumption DEF Found, Stages
  <2> QED
    BY <2>1, <2>3, <2>4 DEF Filled
<1>2. CASE VerifyNext \/ UNCHANGED trail_vars
  <2>1. UNCHANGED <<record, doing>>
    BY <1>2 DEF VerifyNext, Tick, verify, Query, Gate, record_result, trail_vars
  <2> QED
    BY <2>1 DEF Filled, Found, StagesInOrder
<1> QED
  BY <1>1, <1>2, CheckedStep, WriteStep DEF DecisionNext

-----------------------------------------------------------------------------
(* Verifications. *)

\* Verified means that every system asked matched, and that there was one.
LEMMA VerifiedMatched ==
    ASSUME NEW responses \in Seq(MatchResult), aggregate_status(responses) = "Verified"
    PROVE  responses # <<>> /\ \A j \in DOMAIN responses : responses[j] = "Matched"
<1> DEFINE M == {j \in DOMAIN responses : responses[j] = "Matched"}
<1>1. responses # <<>> /\ Cardinality(M) = Len(responses)
  BY DEF aggregate_status
<1>2. DOMAIN responses = 1..Len(responses) /\ Len(responses) \in Nat
  OBVIOUS
<1>3. IsFiniteSet(DOMAIN responses) /\ Cardinality(DOMAIN responses) = Len(responses)
  BY <1>2, FS_Interval
<1>4. M = DOMAIN responses
  BY <1>1, <1>3, FS_Subset, M \in SUBSET DOMAIN responses
<1> QED
  BY <1>1, <1>4

\* The fields of a check.
LEMMA CheckFields ==
    ASSUME NEW k \in Checks
    PROVE  /\ k.state \in {"idle", "asking", "recording", "audited", "done", "failed"}
           /\ k.item \in Memories \cup {Blank} /\ k.expired \in BOOLEAN
           /\ k.asked \in SUBSET Systems /\ k.responses \in Seq(MatchResult)
           /\ k.overall \in Overall /\ k.safe \in BOOLEAN /\ k.since \in Nat
  BY DEF Checks

\* verify reads the validity before it asks; a source of truth is not asked about.
LEMMA VerifyStep ==
    ASSUME Weighed, NEW m \in Memories, NEW q \in SUBSET Systems, verify(m, q)
    PROVE  Weighed'
<1> DEFINE level0 == m.authority = "L0"
           safe == level0 /\ ~is_low_confidence(m) /\ ~is_expired(m, now)
           k == [state |-> IF level0 THEN "recording" ELSE "asking", item |-> m,
                 expired |-> is_expired(m, now), asked |-> q, responses |-> <<>>,
                 overall |-> IF level0 THEN "Verified" ELSE Blank,
                 safe |-> safe, since |-> now]
<1>1. check' = k /\ UNCHANGED <<now, audit, versions>>
  BY DEF verify, NoCheck
<1>2. is_expired(m, now) \in BOOLEAN
  BY DEF is_expired
<1>3. safe \in BOOLEAN
  BY <1>2
<1>4. <<>> \in Seq(MatchResult) /\ now \in Nat
  BY DEF Weighed
<1>5. k \in Checks
  BY <1>2, <1>3, <1>4 DEF Checks, Overall
<1>6. k.safe => Safe(k)
  BY DEF Safe
<1>7. k.state \in {"asking", "recording"} /\ (k.expired <=> is_expired(k.item, k.since))
  BY <1>2
<1> HIDE DEF k
<1> QED
  BY <1>1, <1>5, <1>6, <1>7 DEF Weighed, Safe

\* One more answer, or the end of it.
LEMMA QueryStep ==
    ASSUME Weighed, NEW r \in MatchResult \cup {"error"}, Query(r)
    PROVE  Weighed'
<1>1. check \in Checks /\ check.state = "asking" /\ UNCHANGED <<now, audit, versions>>
  BY DEF Query, Weighed
<1>2. CASE r = "error"
  <2>1. check' = [check EXCEPT !.state = "failed"]
    BY <1>2 DEF Query
  <2>2. check' \in Checks /\ check'.state = "failed"
    BY <1>1, <2>1 DEF Checks
  <2> QED
    BY <1>1, <2>2 DEF Weighed
<1>3. CASE r # "error"
  <2>1. check' = [check EXCEPT !.responses = Append(@, r)] /\ r \in MatchResult
    BY <1>3 DEF Query
  <2>2. Append(check.responses, r) \in Seq(MatchResult)
    BY <1>1, <2>1, CheckFields
  <2>3. /\ check' \in Checks /\ check'.state = "asking" /\ check'.expired = check.expired
        /\ check'.item = check.item /\ check'.since = check.since
    BY <1>1, <2>1, <2>2 DEF Checks
  <2> QED
    BY <1>1, <2>3 DEF Weighed, is_expired
<1> QED
  BY <1>2, <1>3

\* The gate for production control.
LEMMA GateStep ==
    ASSUME Weighed, Gate
    PROVE  Weighed'
<1> DEFINE overall == aggregate_status(check.responses)
           safe == overall = "Verified" /\ ~is_low_confidence(check.item) /\ ~check.expired
<1>1. /\ check \in Checks /\ check.state = "asking" /\ UNCHANGED <<now, audit, versions>>
      /\ Len(check.responses) = Cardinality(check.asked)
      /\ check' = [check EXCEPT !.state = "recording", !.overall = overall, !.safe = safe]
  BY DEF Gate, Weighed
<1>2. overall \in Overall
  BY DEF aggregate_status, Overall
<1>3. safe \in BOOLEAN
  OBVIOUS
<1>4. /\ check' \in Checks /\ check'.state = "recording" /\ check'.safe = safe
      /\ check'.item = check.item /\ check'.since = check.since
      /\ check'.asked = check.asked /\ check'.responses = check.responses
  BY <1>1, <1>2, <1>3 DEF Checks
<1>5. ASSUME safe PROVE Safe(check')
  <2>1. check.responses \in Seq(MatchResult)
    BY <1>1, CheckFields
  <2>2. check.responses # <<>> /\ \A j \in DOMAIN check.responses : check.responses[j] = "Matched"
    BY <1>5, <2>1, VerifiedMatched
  <2>3. check.asked # {}
    <3>1. Len(check.responses) # 0
      BY <2>1, <2>2
    <3> QED
      BY <1>1, <3>1, FS_EmptySet
  <2>4. ~is_expired(check.item, check.since)
    BY <1>1, <1>5 DEF Weighed
  <2> QED
    BY <1>4, <1>5, <2>2, <2>3, <2>4 DEF Safe
<1> QED
  BY <1>1, <1>4, <1>5 DEF Weighed

\* The audit trail first, then the version history.
LEMMA RecordStep ==
    ASSUME Weighed, NEW ok \in BOOLEAN, record_result(ok)
    PROVE  Weighed'
<1> DEFINE entry == [overall |-> check.overall, safe |-> check.safe]
           next == IF ~ok THEN "failed" ELSE IF check.state = "recording" THEN "audited" ELSE "done"
<1>1. /\ check \in Checks /\ check.state \in {"recording", "audited"} /\ UNCHANGED now
      /\ check' = [check EXCEPT !.state = next]
      /\ audit' = IF check.state = "recording" /\ ok THEN audit \cup {entry} ELSE audit
      /\ versions' = IF check.state # "recording" /\ ok THEN versions \cup {entry} ELSE versions
  BY DEF record_result, Weighed
<1>2. /\ check' \in Checks /\ check'.state = next /\ check'.safe = check.safe
      /\ check'.overall = check.overall
      /\ check'.item = check.item /\ check'.since = check.since
      /\ check'.asked = check.asked /\ check'.responses = check.responses
  BY <1>1 DEF Checks
<1>3. check'.safe => Safe(check')
  BY <1>1, <1>2 DEF Weighed, Safe
<1>4. next # "asking" /\ (next = "audited" => entry \in audit')
  BY <1>1
<1>5. versions' \subseteq audit'
  BY <1>1 DEF Weighed
<1> QED
  BY <1>1, <1>2, <1>3, <1>4, <1>5 DEF Weighed

\* Every step of the verifier and of the decision manager.
LEMMA WeighedStep == Weighed /\ (DecisionNext \/ VerifyNext \/ UNCHANGED trail_vars) => Weighed'
<1> SUFFICES ASSUME Weighed, DecisionNext \/ VerifyNext \/ UNCHANGED trail_vars PROVE Weighed'
  OBVIOUS
<1>1. CASE DecisionNext \/ UNCHANGED trail_vars
  <2>1. UNCHANGED <<now, check, audit, versions>>
    BY <1>1 DEF DecisionNext, create, ReadAndCheck, set_recommendation, record_human_decision,
                record_action, record_outcome, withdraw, Update, trail_vars
  <2> QED
    BY <2>1 DEF Weighed, Safe
<1>2. CASE Tick
  <2>1. now' \in Nat /\ UNCHANGED <<check, audit, versions>>
    BY <1>2 DEF Tick, Weighed
  <2> QED
    BY <2>1 DEF Weighed, Safe
<1> QED
  BY <1>1, <1>2, VerifyStep, QueryStep, GateStep, RecordStep DEF VerifyNext

-----------------------------------------------------------------------------
(* Submissions. *)

\* What decide_status says, and of what.
LEMMA DecideStatus ==
    ASSUME NEW x
    PROVE  /\ decide_status(x) \in {"candidate", "active"}
           /\ decide_status(x) = "active" /\ Verdict(x) # "blocked" =>
                 Verdict(x) = "safe" /\ x.confidence >= 70 /\ ~is_high_scope(x.scope)
           /\ Verdict(x) = "suspicious" => decide_status(x) = "candidate"
<1>1. Verdict(x) \in {"safe", "blocked", "suspicious"}
  BY DEF Verdict, scan
<1> QED
  BY <1>1 DEF decide_status

\* The row and the event of one submission.
RowSound(s) ==
    /\ rows[s] # Nil /\ rows[s].status = "active" =>
          /\ Verdict(sub[s]) = "safe"
          /\ sub[s].confidence >= 70
          /\ ~is_high_scope(rows[s].scope)
    /\ proposed[s] # Nil =>
          /\ proposed[s].status = rows[s].status
          /\ proposed[s].importance = rows[s].importance
          /\ rows[s].status = "active" => rows[s].valid_from
          /\ proposed[s].suspicious => rows[s].status = "candidate"

\* A step of one submitter leaves the others where they were.
LEMMA OneSubmitter ==
    ASSUME Kept, NEW s \in Submitters, NEW to,
           to \in {"scanned", "scored", "refused", "failed"} \cup Written,
           stage' = [stage EXCEPT ![s] = to],
           DOMAIN rows' = Submitters, DOMAIN proposed' = Submitters,
           DOMAIN sub' = Submitters, DOMAIN dup' = Submitters,
           \A o \in Submitters \ {s} :
              /\ rows'[o] = rows[o] /\ proposed'[o] = proposed[o]
              /\ sub'[o] = sub[o] /\ dup'[o] = dup[o],
           Stored(s)', Passed(s)', RowSound(s)'
    PROVE  Kept'
<1>1. stage' \in [Submitters -> {"idle", "scanned", "scored", "refused", "failed"} \cup Written]
  BY DEF Kept
<1>2. ASSUME NEW o \in Submitters \ {s}
      PROVE  (Stored(o) /\ Passed(o) /\ RowSound(o))'
  <2>1. stage'[o] = stage[o]
    BY DEF Kept
  <2>2. Stored(o) /\ Passed(o) /\ RowSound(o)
    BY DEF Kept, IntakeSound, RowSound
  <2>3. Stored(o)'
    BY <2>1, <2>2 DEF Stored
  <2>4. Passed(o)'
    BY <2>1, <2>2 DEF Passed
  <2>5. RowSound(o)'
    BY <2>2 DEF RowSound
  <2> QED
    BY <2>3, <2>4, <2>5
<1>3. \A o \in Submitters : (Stored(o) /\ Passed(o) /\ RowSound(o))'
  BY <1>2
<1>4. IntakeSound'
  BY <1>3 DEF IntakeSound, RowSound
<1> QED
  BY <1>1, <1>3, <1>4 DEF Kept

\* Up to the insert nothing is written.
LEMMA ArriveStep ==
    ASSUME Kept, NEW s \in Submitters, NEW x \in Submissions, Arrive(s, x)
    PROVE  Kept'
<1> DEFINE to == IF Verdict(x) = "blocked" THEN "refused" ELSE "scanned"
<1>1. /\ stage[s] = "idle" /\ stage' = [stage EXCEPT ![s] = to]
      /\ sub' = [sub EXCEPT ![s] = x] /\ UNCHANGED <<rows, proposed, dup>>
  BY DEF Arrive
<1>2. rows[s] = Nil /\ proposed[s] = Nil /\ stage'[s] = to /\ sub'[s] = x
  BY <1>1 DEF Kept, Stored
<1>3. Stored(s)' /\ RowSound(s)'
  BY <1>1, <1>2 DEF Stored, RowSound, Written
<1>4. Passed(s)'
  BY <1>2 DEF Passed, Written
<1> QED
  BY <1>1, <1>3, <1>4, OneSubmitter DEF Kept

LEMMA ScoreStep ==
    ASSUME Kept, NEW s \in Submitters, Score(s)
    PROVE  Kept'
<1>1. /\ stage[s] = "scanned" /\ stage' = [stage EXCEPT ![s] = "scored"]
      /\ dup' = [dup EXCEPT ![s] = check_duplicate(sub[s], s)]
      /\ UNCHANGED <<rows, proposed, sub>>
  BY DEF Score, At
<1>2. rows[s] = Nil /\ proposed[s] = Nil /\ stage'[s] = "scored" /\ Verdict(sub[s]) # "blocked"
  BY <1>1 DEF Kept, Stored, Passed
<1>3. Stored(s)' /\ RowSound(s)'
  BY <1>1, <1>2 DEF Stored, RowSound, Written
<1>4. Passed(s)'
  BY <1>1, <1>2 DEF Passed
<1> QED
  BY <1>1, <1>3, <1>4, OneSubmitter DEF Kept

LEMMA InsertStep ==
    ASSUME Kept, NEW s \in Submitters, insert(s)
    PROVE  Kept'
<1> DEFINE row == [tenant |-> sub[s].tenant, text |-> sub[s].text, subject |-> sub[s].subject,
                   scope |-> sub[s].scope, status |-> "candidate", importance |-> Nil,
                   authority |-> source_to_authority_level(sub[s].source), valid_from |-> FALSE]
<1>1. /\ stage[s] = "scored" /\ stage' = [stage EXCEPT ![s] = "inserted"]
      /\ rows' = [rows EXCEPT ![s] = row]
      /\ UNCHANGED <<proposed, sub, dup>>
  BY DEF insert, At
<1>2. proposed[s] = Nil /\ stage'[s] = "inserted" /\ rows'[s] = row /\ Verdict(sub[s]) # "blocked"
  BY <1>1 DEF Kept, Stored, Passed
<1>3. DOMAIN row = RowFields /\ row.scope = sub[s].scope /\ row.status = "candidate"
  BY DEF RowFields
<1> HIDE DEF row
<1>4. Stored(s)' /\ RowSound(s)'
  BY <1>1, <1>2, <1>3 DEF Stored, RowSound, Written
<1>5. Passed(s)'
  BY <1>1, <1>2 DEF Passed
<1> QED
  BY <1>1, <1>4, <1>5, OneSubmitter DEF Kept, Written

LEMMA ImportanceStep ==
    ASSUME Kept, NEW s \in Submitters, SetImportance(s)
    PROVE  Kept'
<1> DEFINE imp == compute_importance(sub[s].source, dup[s])
<1>1. /\ stage[s] = "inserted" /\ stage' = [stage EXCEPT ![s] = "weighed"]
      /\ rows' = [rows EXCEPT ![s].importance = imp]
      /\ UNCHANGED <<proposed, sub, dup>>
  BY DEF SetImportance, At
<1>2. /\ proposed[s] = Nil /\ stage'[s] = "weighed" /\ rows'[s] = [rows[s] EXCEPT !.importance = imp]
      /\ Verdict(sub[s]) # "blocked" /\ rows[s].status = "candidate"
      /\ DOMAIN rows[s] = RowFields /\ rows[s].scope = sub[s].scope
  BY <1>1 DEF Kept, Stored, Passed, Written
<1>3. /\ DOMAIN rows'[s] = RowFields /\ rows'[s].scope = sub[s].scope
      /\ rows'[s].status = "candidate" /\ rows'[s].importance = imp
  BY <1>2 DEF RowFields
<1> HIDE DEF imp
<1>4. Stored(s)' /\ RowSound(s)'
  BY <1>1, <1>2, <1>3 DEF Stored, RowSound, Written, imp
<1>5. Passed(s)'
  BY <1>1, <1>2 DEF Passed
<1> QED
  BY <1>1, <1>4, <1>5, OneSubmitter DEF Kept, Written

LEMMA StatusStep ==
    ASSUME Kept, NEW s \in Submitters, SetStatus(s)
    PROVE  Kept'
<1> USE DEF Written
<1>1. stage[s] = "weighed" /\ UNCHANGED <<proposed, sub, dup>>
  BY DEF SetStatus
<1>2. /\ proposed[s] = Nil /\ Verdict(sub[s]) # "blocked" /\ rows[s].status = "candidate"
      /\ DOMAIN rows[s] = RowFields /\ rows[s].scope = sub[s].scope
      /\ rows[s].importance = compute_importance(sub[s].source, dup[s])
  BY <1>1 DEF Kept, Stored, Passed
<1>3. CASE decide_status(sub[s]) = "candidate"
  <2>1. stage' = [stage EXCEPT ![s] = "stored"] /\ rows' = rows
    BY <1>3 DEF SetStatus, At
  <2>2. stage'[s] = "stored"
    BY <2>1 DEF Kept
  <2>3. Stored(s)' /\ RowSound(s)'
    BY <1>1, <1>2, <1>3, <2>1, <2>2 DEF Stored, RowSound
  <2>4. Passed(s)'
    BY <1>1, <1>2, <2>2 DEF Passed
  <2> QED
    BY <1>1, <2>1, <2>3, <2>4, OneSubmitter DEF Kept
<1>4. CASE decide_status(sub[s]) # "candidate"
  <2>1. stage' = [stage EXCEPT ![s] = "promoted"] /\ rows' = [rows EXCEPT ![s].status = "active"]
    BY <1>4 DEF SetStatus, At
  <2>2. stage'[s] = "promoted" /\ rows'[s] = [rows[s] EXCEPT !.status = "active"]
    BY <2>1 DEF Kept
  <2>3. /\ DOMAIN rows'[s] = RowFields /\ rows'[s].scope = sub[s].scope
        /\ rows'[s].status = "active" /\ rows'[s].importance = rows[s].importance
    BY <1>2, <2>2 DEF RowFields
  <2>4. decide_status(sub[s]) = "active"
    BY <1>4, DecideStatus
  <2>5. Stored(s)'
    BY <1>1, <1>2, <2>2, <2>3, <2>4 DEF Stored
  <2>6. RowSound(s)'
    BY <1>1, <1>2, <2>3, <2>4, DecideStatus DEF RowSound
  <2>7. Passed(s)'
    BY <1>1, <1>2, <2>2 DEF Passed
  <2> QED
    BY <1>1, <2>1, <2>5, <2>6, <2>7, OneSubmitter DEF Kept
<1> QED
  BY <1>3, <1>4

LEMMA ValidFromStep ==
    ASSUME Kept, NEW s \in Submitters, SetValidFrom(s)
    PROVE  Kept'
<1> USE DEF Written
<1>1. /\ stage[s] = "promoted" /\ stage' = [stage EXCEPT ![s] = "stored"]
      /\ rows' = [rows EXCEPT ![s].valid_from = TRUE]
      /\ UNCHANGED <<proposed, sub, dup>>
  BY DEF SetValidFrom, At
<1>2. /\ proposed[s] = Nil /\ Verdict(sub[s]) # "blocked" /\ rows[s].status = decide_status(sub[s])
      /\ DOMAIN rows[s] = RowFields /\ rows[s].scope = sub[s].scope
      /\ rows[s].importance = compute_importance(sub[s].source, dup[s])
      /\ stage'[s] = "stored" /\ rows'[s] = [rows[s] EXCEPT !.valid_from = TRUE]
  BY <1>1 DEF Kept, Stored, Passed
<1>3. /\ DOMAIN rows'[s] = RowFields /\ rows'[s].scope = sub[s].scope
      /\ rows'[s].status = rows[s].status /\ rows'[s].importance = rows[s].importance
      /\ rows'[s].valid_from
  BY <1>2 DEF RowFields
<1>4. Stored(s)'
  BY <1>1, <1>2, <1>3 DEF Stored
<1>5. RowSound(s)'
  BY <1>1, <1>2, <1>3, DecideStatus DEF RowSound
<1>6. Passed(s)'
  BY <1>1, <1>2 DEF Passed
<1> QED
  BY <1>1, <1>4, <1>5, <1>6, OneSubmitter DEF Kept

LEMMA EnqueueStep ==
    ASSUME Kept, NEW s \in Submitters, Enqueue(s)
    PROVE  Kept'
<1> USE DEF Written
<1> DEFINE announced == WriteResult(sub[s], dup[s])
<1>1. /\ stage[s] = "stored" /\ stage' = [stage EXCEPT ![s] = "done"]
      /\ proposed' = [proposed EXCEPT ![s] = announced]
      /\ UNCHANGED <<rows, sub, dup>>
  BY DEF Enqueue, At
<1>2. /\ Verdict(sub[s]) # "blocked" /\ rows[s].status = decide_status(sub[s])
      /\ DOMAIN rows[s] = RowFields /\ rows[s].scope = sub[s].scope
      /\ rows[s].importance = compute_importance(sub[s].source, dup[s])
      /\ rows[s].status = "active" => rows[s].valid_from
      /\ stage'[s] = "done" /\ proposed'[s] = announced
  BY <1>1 DEF Kept, Stored, Passed
<1>3. /\ announced.status = rows[s].status /\ announced.importance = rows[s].importance
      /\ announced.suspicious => Verdict(sub[s]) = "suspicious"
  BY <1>2 DEF WriteResult
<1>4. Stored(s)'
  BY <1>1, <1>2 DEF Stored
<1> HIDE DEF announced
<1>5. RowSound(s)'
  BY <1>1, <1>2, <1>3, DecideStatus DEF RowSound
<1>6. Passed(s)'
  BY <1>1, <1>2 DEF Passed
<1> QED
  BY <1>1, <1>4, <1>5, <1>6, OneSubmitter DEF Kept

LEMMA FailStep ==
    ASSUME Kept, NEW s \in Submitters, Fail(s)
    PROVE  Kept'
<1>1. /\ stage[s] # "done" /\ stage' = [stage EXCEPT ![s] = "failed"]
      /\ UNCHANGED <<rows, proposed, sub, dup>>
  BY DEF Fail
<1>2. proposed[s] = Nil /\ stage'[s] = "failed"
  BY <1>1 DEF Kept, Stored
<1>3. Stored(s)' /\ Passed(s)'
  BY <1>1, <1>2 DEF Stored, Passed, Written
<1>4. RowSound(s)'
  BY <1>1 DEF Kept, IntakeSound, RowSound
<1> QED
  BY <1>1, <1>3, <1>4, OneSubmitter DEF Kept

\* Every step of a submitter keeps what was stored as it was judged.
LEMMA KeptStep == Kept /\ (IntakeNext \/ UNCHANGED intake_vars) => Kept'
<1> SUFFICES ASSUME Kept, IntakeNext \/ UNCHANGED intake_vars PROVE Kept'
  OBVIOUS
<1>1. CASE UNCHANGED intake_vars
  BY <1>1 DEF intake_vars, Kept, Stored, Passed, IntakeSound
<1> QED
  BY <1>1, ArriveStep, ScoreStep, InsertStep, ImportanceStep, StatusStep, ValidFromStep,
     EnqueueStep, FailStep DEF IntakeNext

-----------------------------------------------------------------------------
(* Lists of segments. *)

\* The sections of a context.
LEMMA SectionsNumbered ==
    DOMAIN Sections = 1..7 /\ DOMAIN NameLength = {Sections[i] : i \in 1..7}
  BY DEF Sections, NameLength

LEMMA SectionNames ==
    /\ "Identity" \in DOMAIN NameLength /\ "Hot Context" \in DOMAIN NameLength
    /\ "Canonical User" \in DOMAIN NameLength /\ "Shared Task" \in DOMAIN NameLength
    /\ "Agent Private Memory" \in DOMAIN NameLength
    /\ "Enterprise Memory" \in DOMAIN NameLength /\ "Business State" \in DOMAIN NameLength
<1>1. /\ Sections[1] = "Identity" /\ Sections[2] = "Hot Context"
      /\ Sections[3] = "Canonical User" /\ Sections[4] = "Shared Task"
      /\ Sections[5] = "Agent Private Memory" /\ Sections[6] = "Enterprise Memory"
      /\ Sections[7] = "Business State"
  BY DEF Sections
<1>2. \A i \in 1..7 : Sections[i] \in DOMAIN NameLength
  BY SectionsNumbered
<1>3. /\ 1 \in 1..7 /\ 2 \in 1..7 /\ 3 \in 1..7 /\ 4 \in 1..7 /\ 5 \in 1..7
      /\ 6 \in 1..7 /\ 7 \in 1..7
  OBVIOUS
<1> QED
  BY <1>1, <1>2, <1>3

\* A segment as it is made.
LEMMA SegmentMade ==
    ASSUME NEW text, NEW section \in DOMAIN NameLength, NEW priority \in Int,
           NEW authority \in Int, NEW confidence \in Int, NEW candidate,
           NEW field, NEW length \in Nat, NEW parts, 1 \in DOMAIN parts
    PROVE  Made(Segment(text, section, priority, authority, confidence, candidate,
                             field, length, parts))
  BY DEF Made, IsSegment, Segment, SegmentFields, Costed

LEMMA EmptyListed == Listed(<<>>)
<1>1. <<>> \in [1..0 -> {<<>>[i] : i \in 1..0}]
  OBVIOUS
<1> QED
  BY <1>1 DEF Listed

LEMMA OneListed ==
    ASSUME NEW g, Made(g)
    PROVE  Listed(<<g>>)
<1>1. <<g>> \in [1..1 -> {<<g>>[i] : i \in 1..1}] /\ \A i \in 1..1 : <<g>>[i] = g
  OBVIOUS
<1> QED
  BY <1>1 DEF Listed

\* A list is a sequence.
LEMMA ListedSeq ==
    ASSUME NEW s, Listed(s)
    PROVE  /\ s \in Seq({s[i] : i \in DOMAIN s})
           /\ DOMAIN s = 1..Len(s) /\ Len(s) \in Nat
           /\ \A i \in DOMAIN s : Made(s[i])
<1>1. PICK n \in Nat : s \in [1..n -> {s[i] : i \in 1..n}] /\ \A i \in 1..n : Made(s[i])
  BY DEF Listed
<1>2. DOMAIN s = 1..n
  BY <1>1
<1>3. s \in Seq({s[i] : i \in DOMAIN s})
  BY <1>1, <1>2
<1> QED
  BY <1>1, <1>2, <1>3

LEMMA JoinListed ==
    ASSUME NEW s, NEW t, Listed(s), Listed(t)
    PROVE  Listed(s \o t)
<1> DEFINE A == {s[i] : i \in DOMAIN s}
           B == {t[i] : i \in DOMAIN t}
           r == s \o t
<1>1. s \in Seq(A) /\ DOMAIN s = 1..Len(s) /\ Len(s) \in Nat
      /\ \A i \in DOMAIN s : Made(s[i])
  BY ListedSeq
<1>2. t \in Seq(B) /\ DOMAIN t = 1..Len(t) /\ Len(t) \in Nat
      /\ \A i \in DOMAIN t : Made(t[i])
  BY ListedSeq
<1> HIDE DEF A, B
<1>3. s \in Seq(A \cup B) /\ t \in Seq(A \cup B)
  BY <1>1, <1>2
<1>4. r \in Seq(A \cup B) /\ Len(r) = Len(s) + Len(t) /\ DOMAIN r = 1..Len(r) /\ Len(r) \in Nat
  BY <1>3
<1>5. \A i \in 1..Len(r) : r[i] = IF i <= Len(s) THEN s[i] ELSE t[i - Len(s)]
  BY <1>3, <1>4
<1> HIDE DEF r
<1>6. ASSUME NEW i \in 1..Len(r) PROVE Made(r[i])
  <2>1. CASE i <= Len(s)
    BY <1>1, <1>5, <2>1
  <2>2. CASE ~(i <= Len(s))
    <3>1. i - Len(s) \in 1..Len(t)
      BY <1>1, <1>2, <1>4, <2>2
    <3> QED
      BY <1>2, <1>5, <2>2, <3>1
  <2> QED
    BY <2>1, <2>2
<1>7. r \in [1..Len(r) -> A \cup B]
  BY <1>4
<1>8. r \in [1..Len(r) -> {r[i] : i \in 1..Len(r)}]
  BY <1>7
<1> QED
  BY <1>4, <1>6, <1>8 DEF Listed, r

\* Every text has a beginning.
LEMMA TextBegins ==
    /\ \A length : 1 \in DOMAIN PlainText(length)
    /\ \A x \in Items \cup HotTexts : 1 \in DOMAIN x.parts
<1>1. ASSUME NEW x \in Items \cup HotTexts PROVE 1 \in DOMAIN x.parts
  <2>1. x.parts \in Seq(TextPart) /\ x.parts # <<>>
    BY ItemsAssumption, ContextAssumption DEF Item, ItemText, TextPart
  <2> QED
    BY <2>1
<1> QED
  BY <1>1 DEF PlainText

\* The columns that count are numbers.
LEMMA ItemNumbers ==
    ASSUME NEW x \in Items
    PROVE  /\ x.authority \in Int /\ x.fresh \in Int /\ x.similarity \in Int
           /\ x.confidence \in Int /\ x.importance \in Int /\ x.bytes \in Nat
  BY ItemsAssumption DEF Item

\* memory_item_to_segment, for a list of items.
LEMMA ItemsListed ==
    ASSUME NEW items, NEW n \in Nat, DOMAIN items = 1..n, \A j \in 1..n : items[j] \in Items,
           NEW section \in DOMAIN NameLength, NEW priority \in Int
    PROVE  Listed(ItemSegments(items, section, priority))
<1> DEFINE r == ItemSegments(items, section, priority)
<1>1. DOMAIN r = 1..n /\ \A i \in 1..n : Made(r[i])
  <2>1. \A j \in 1..n : /\ items[j].authority \in Int /\ items[j].confidence \in Int
                        /\ items[j].bytes \in Nat
    BY ItemNumbers
  <2>2. \A j \in 1..n : 1 \in DOMAIN items[j].parts
    BY TextBegins
  <2> QED
    BY <2>1, <2>2, SegmentMade DEF ItemSegments
<1>2. r \in [1..n -> {r[i] : i \in 1..n}]
  BY <1>1 DEF ItemSegments
<1> HIDE DEF r
<1> QED
  BY <1>1, <1>2 DEF Listed, r

\* The other sources.
LEMMA SourcesListed ==
    /\ \A agent : Listed(IdentitySegments(agent))
    /\ \A t \in HotTexts : Listed(<<HotSegment(t)>>)
    /\ \A fields : \A authority \in Int : Listed(CanonicalSegments(fields, authority))
    /\ \A parts : Listed(TaskSegments(parts))
<1>1. \A agent : Listed(IdentitySegments(agent))
  <2>1. /\ Made(Segment("identity", "Identity", 100, 2, 100, FALSE, "identity", 24,
                     PlainText(24)))
        /\ Made(Segment("delegated", "Identity", 100, 2, 100, FALSE, "delegated_agent",
                     19, PlainText(19)))
    <3>1. 100 \in Int /\ 2 \in Int /\ 24 \in Nat /\ 19 \in Nat
      OBVIOUS
    <3> QED
      BY <3>1, TextBegins, SectionNames, SegmentMade, Zenon
  <2> QED
    BY <2>1, EmptyListed, OneListed, JoinListed DEF IdentitySegments
<1>2. \A t \in HotTexts : Listed(<<HotSegment(t)>>)
  <2> TAKE t \in HotTexts
  <2>1. Made(HotSegment(t))
    <3>1. 80 \in Int /\ 1 \in Int /\ 85 \in Int /\ t.bytes \in Nat
      BY ContextAssumption
    <3>2. 1 \in DOMAIN t.parts
      BY TextBegins
    <3> QED
      BY <3>1, <3>2, SectionNames, SegmentMade, Zenon DEF HotSegment
  <2> QED
    BY <2>1, OneListed
<1>3. ASSUME NEW fields, NEW authority \in Int PROVE Listed(CanonicalSegments(fields, authority))
  <2> DEFINE of(f) == IF f \notin fields THEN <<>>
                      ELSE <<Segment(f, "Canonical User", FieldPriority[f], authority,
                                     100, FALSE, f, 14, PlainText(14))>>
  <2>1. \A f \in {"role", "position", "language", "timezone", "preferences"} : Listed(of(f))
    <3> TAKE f \in {"role", "position", "language", "timezone", "preferences"}
    <3>1. FieldPriority[f] \in Int
      BY DEF FieldPriority
    <3>2. Made(Segment(f, "Canonical User", FieldPriority[f], authority, 100, FALSE, f,
                            14, PlainText(14)))
      <4>1. 100 \in Int /\ 14 \in Nat
        OBVIOUS
      <4> QED
        BY <3>1, <4>1, TextBegins, SectionNames, SegmentMade, Zenon
    <3> QED
      BY <3>2, EmptyListed, OneListed
  <2>2. CanonicalSegments(fields, authority)
          = of("role") \o of("position") \o of("language") \o of("timezone") \o of("preferences")
    BY DEF CanonicalSegments
  <2> HIDE DEF of
  <2>3. Listed(of("role") \o of("position"))
    BY <2>1, JoinListed
  <2>4. Listed(of("role") \o of("position") \o of("language"))
    BY <2>1, <2>3, JoinListed
  <2>5. Listed(of("role") \o of("position") \o of("language") \o of("timezone"))
    BY <2>1, <2>4, JoinListed
  <2> QED
    BY <2>1, <2>2, <2>5, JoinListed
<1>4. ASSUME NEW parts PROVE Listed(TaskSegments(parts))
  <2> DEFINE of(p, authority, confidence) ==
                IF p \notin parts THEN <<>>
                ELSE <<Segment(p, "Shared Task", TaskPriority[p], authority, confidence,
                               FALSE, p, 22, PlainText(22))>>
             goal == <<Segment("goal", "Shared Task", 88, 2, 100, FALSE, "task_goal", 18, PlainText(18))>>
  <2>1. /\ Listed(goal)
        /\ \A p \in {"owner", "findings", "decisions"} : \A a, c \in Int : Listed(of(p, a, c))
    <3>1. Made(Segment("goal", "Shared Task", 88, 2, 100, FALSE, "task_goal", 18, PlainText(18)))
      <4>1. 88 \in Int /\ 2 \in Int /\ 100 \in Int /\ 18 \in Nat
        OBVIOUS
      <4> QED
        BY <4>1, TextBegins, SectionNames, SegmentMade, Zenon
    <3>2. ASSUME NEW p \in {"owner", "findings", "decisions"}, NEW a \in Int, NEW c \in Int
          PROVE  Listed(of(p, a, c))
      <4>1. TaskPriority[p] \in Int
        BY DEF TaskPriority
      <4>2. Made(Segment(p, "Shared Task", TaskPriority[p], a, c, FALSE, p, 22, PlainText(22)))
        <5>1. 22 \in Nat
          OBVIOUS
        <5> QED
          BY <4>1, <5>1, TextBegins, SectionNames, SegmentMade, Zenon
      <4> QED
        BY <4>2, EmptyListed, OneListed
    <3> QED
      BY <3>1, <3>2, OneListed
  <2>2. TaskSegments(parts)
          = goal \o of("owner", 2, 100) \o of("findings", 1, 90) \o of("decisions", 1, 90)
    BY DEF TaskSegments
  <2> HIDE DEF of, goal
  <2>3. Listed(goal \o of("owner", 2, 100))
    BY <2>1, JoinListed
  <2>4. Listed(goal \o of("owner", 2, 100) \o of("findings", 1, 90))
    BY <2>1, <2>3, JoinListed
  <2> QED
    BY <2>1, <2>2, <2>4, JoinListed
<1> QED
  BY <1>1, <1>2, <1>3, <1>4

-----------------------------------------------------------------------------
(* The answers of a search. *)

LEMMA LesserOfTwo ==
    ASSUME NEW a \in Nat, NEW b \in Nat
    PROVE  Min({a, b}) \in Nat /\ Min({a, b}) = IF a <= b THEN a ELSE b
<1>1. \E x \in {a, b} : \A y \in {a, b} : x <= y
  OBVIOUS
<1> QED
  BY <1>1 DEF Min

\* The sequences of a finite set name each of its elements once.
LEMMA Enumerates ==
    ASSUME NEW S, IsFiniteSet(S), NEW s \in SetToSeqs(S)
    PROVE  /\ s \in Seq(S) /\ Len(s) = Cardinality(S) /\ Len(s) \in Nat
           /\ DOMAIN s = 1..Len(s) /\ s \in [1..Len(s) -> S]
           /\ \A i, j \in 1..Len(s) : i # j => s[i] # s[j]
           /\ \A x \in S : \E k \in 1..Len(s) : s[k] = x
<1> DEFINE n == Cardinality(S)
<1>1. n \in Nat
  BY FS_CardinalityType
<1>2. s \in [1..n -> S] /\ \A i, j \in 1..n : i # j => s[i] # s[j]
  BY DEF SetToSeqs
<1> HIDE DEF n
<1>3. s \in Seq(S) /\ Len(s) = n /\ DOMAIN s = 1..n
  BY <1>1, <1>2
<1>4. s \in Injection(1..n, S)
  BY <1>2 DEF Injection, IsInjective
<1>5. Cardinality(1..n) = n
  BY <1>1, FS_Interval
<1>6. s \in Surjection(1..n, S)
  BY <1>4, <1>5, FS_Injection DEF n
<1>7. \A x \in S : \E k \in 1..n : s[k] = x
  BY <1>6 DEF Surjection
<1> QED
  BY <1>1, <1>2, <1>3, <1>7 DEF n

LEMMA MatchingFinite ==
    ASSUME store \subseteq Items, NEW p
    PROVE  Matching(store, p) \subseteq Items /\ IsFiniteSet(Matching(store, p))
<1>1. Matching(store, p) \in SUBSET Items
  BY DEF Matching
<1> QED
  BY <1>1, ItemsAssumption, FS_Subset

\* hybrid_search returns a page of the rows that match, each with its score.
LEMMA PageFacts ==
    ASSUME store \subseteq Items, NEW p, p.offset \in Nat, p.limit \in Nat,
           NEW found_rows \in hybrid_search(store, p)
    PROVE  \E n \in Nat :
             /\ DOMAIN found_rows = 1..n
             /\ \A j \in 1..n : /\ found_rows[j].item \in Matching(store, p)
                                /\ found_rows[j].score = SqlScore(found_rows[j].item, p)
<1>1. PICK s \in Ordered(Matching(store, p), LAMBDA i : SqlRank(i, p)) :
         found_rows = [j \in DOMAIN Page(s, p) |->
             [item |-> Page(s, p)[j], score |-> SqlScore(Page(s, p)[j], p),
              by |-> IF p.embedding THEN "vector" ELSE "structured"]]
  BY DEF hybrid_search
<1>2. s \in SetToSeqs(Matching(store, p))
  BY <1>1 DEF Ordered
<1>3. s \in Seq(Matching(store, p)) /\ Len(s) \in Nat /\ DOMAIN s = 1..Len(s)
  BY <1>2, MatchingFinite, Enumerates
<1> DEFINE last == Min({p.offset + p.limit, Len(s)})
           n == IF last - p.offset >= 0 THEN last - p.offset ELSE 0
<1>4. last \in Nat /\ last <= Len(s)
  <2>1. p.offset + p.limit \in Nat
    OBVIOUS
  <2> QED
    BY <1>3, <2>1, LesserOfTwo
<1>5. Page(s, p) = SubSeq(s, p.offset + 1, last)
  BY DEF Page
<1> HIDE DEF last
<1>6. n \in Nat /\ DOMAIN Page(s, p) = 1..n
  <2>1. DOMAIN Page(s, p) = 1..(last - p.offset)
    BY <1>3, <1>4, <1>5
  <2> QED
    BY <1>4, <2>1
<1>7. ASSUME NEW j \in 1..n
       PROVE  Page(s, p)[j] = s[p.offset + j] /\ p.offset + j \in 1..Len(s)
  <2>1. n = last - p.offset /\ j \in Nat
    BY <1>4
  <2>2. p.offset + j \in 1..Len(s)
    BY <1>3, <1>4, <2>1
  <2> QED
    BY <1>3, <1>4, <1>5, <2>1, <2>2
<1>8. \A j \in 1..n : Page(s, p)[j] \in Matching(store, p)
  BY <1>3, <1>7
<1> HIDE DEF n
<1>9. DOMAIN found_rows = 1..n
  BY <1>1, <1>6
<1>10. \A j \in 1..n : /\ found_rows[j].item = Page(s, p)[j]
                      /\ found_rows[j].score = SqlScore(found_rows[j].item, p)
  BY <1>1, <1>6
<1> QED
  BY <1>6, <1>8, <1>9, <1>10

-----------------------------------------------------------------------------
(* Fetching. *)

\* A source gives a list, or nothing.
LEMMA OutcomeStep ==
    ASSUME ContextInv, NEW s \in Sources, NEW o, Outcome(s, o), Listed(o.segs)
    PROVE  ContextInv'
<1>1. /\ pc = "fetching" /\ got' = [got EXCEPT ![s] = o]
      /\ UNCHANGED <<pc, store, req, plan, ctx, pkg, found, changes>>
  BY DEF Outcome
<1>2. Gathered'
  BY <1>1 DEF ContextInv, Gathered
<1> QED
  BY <1>1, <1>2 DEF ContextInv, Offered

LEMMA OutcomesListed ==
    /\ Listed(Empty.segs) /\ Listed(Degraded.segs) /\ Listed(Pending.segs)
    /\ \A segs : Ok(segs).segs = segs
  BY EmptyListed DEF Empty, Degraded, Pending, Ok

LEMMA FetchStep ==
    ASSUME ContextInv,
           \/ fetch_hot \/ fetch_canonical \/ fetch_shared_task
           \/ fetch_agent_private \/ fetch_enterprise \/ fetch_business_state
           \/ \E s \in Sources : FetchFails(s)
    PROVE  ContextInv'
<1> USE DEF Sources
<1>1. CASE fetch_hot
  BY <1>1, OutcomesListed, SourcesListed, OutcomeStep, ContextAssumption DEF fetch_hot
<1>2. CASE fetch_canonical
  BY <1>2, OutcomesListed, SourcesListed, OutcomeStep DEF fetch_canonical
<1>3. CASE fetch_shared_task
  BY <1>3, OutcomesListed, SourcesListed, OutcomeStep DEF fetch_shared_task
<1>4. CASE fetch_agent_private
  <2> DEFINE own == {i \in store : i.tenant = Tenant /\ i.status = "active" /\ i.subject = req.agent}
  <2>1. PICK items \in SetToSeqs(own) :
           Outcome("agent", Ok(ItemSegments(items, "Agent Private Memory", 75)))
    BY <1>4 DEF fetch_agent_private
  <2>2. IsFiniteSet(own)
    BY ItemsAssumption, FS_Subset, own \in SUBSET Items DEF ContextInv
  <2>3. /\ DOMAIN items = 1..Len(items) /\ Len(items) \in Nat
        /\ \A j \in 1..Len(items) : items[j] \in Items
    <3>1. DOMAIN items = 1..Len(items) /\ Len(items) \in Nat /\ items \in [1..Len(items) -> own]
      BY <2>1, <2>2, Enumerates
    <3> QED
      BY <3>1 DEF ContextInv
  <2>4. Listed(ItemSegments(items, "Agent Private Memory", 75))
    <3>1. 75 \in Int
      OBVIOUS
    <3> QED
      BY <2>3, <3>1, SectionNames, ItemsListed, Zenon
  <2> QED
    BY <2>1, <2>4, OutcomesListed, OutcomeStep
<1>5. ASSUME NEW s \in Sources, NEW p, NEW section \in DOMAIN NameLength,
             NEW priority \in Int, p.offset \in Nat, p.limit \in Nat,
             Searched(s, p, section, priority)
      PROVE  ContextInv'
  <2>1. CASE Outcome(s, Degraded)
    BY <2>1, OutcomesListed, OutcomeStep
  <2>2. CASE \E r \in hybrid_search(store, p) :
           Outcome(s, Ok(ItemSegments([j \in DOMAIN r |-> r[j].item], section, priority)))
    <3>1. PICK r \in hybrid_search(store, p) :
             Outcome(s, Ok(ItemSegments([j \in DOMAIN r |-> r[j].item], section, priority)))
      BY <2>2
    <3> DEFINE items == [j \in DOMAIN r |-> r[j].item]
    <3>2. PICK n \in Nat : DOMAIN r = 1..n /\ \A j \in 1..n : r[j].item \in Matching(store, p)
      BY <1>5, PageFacts DEF ContextInv
    <3>3. DOMAIN items = 1..n /\ \A j \in 1..n : items[j] \in Items
      BY <3>2, MatchingFinite DEF ContextInv
    <3> HIDE DEF items
    <3>4. Listed(ItemSegments(items, section, priority))
      BY <3>3, ItemsListed
    <3> QED
      BY <3>1, <3>4, OutcomesListed, OutcomeStep DEF items
  <2> QED
    BY <1>5, <2>1, <2>2 DEF Searched
<1>6. CASE fetch_enterprise
  <2> DEFINE p == [SearchParams(Tenant) EXCEPT !.words = ~req.route.blank, !.subject = User]
  <2>1. p.offset \in Nat /\ p.limit \in Nat
    BY DEF SearchParams
  <2> HIDE DEF p
  <2> QED
    <3>1. 60 \in Int /\ "enterprise" \in Sources /\ "business" \in Sources
      OBVIOUS
    <3>2. Searched("enterprise", p, "Enterprise Memory", 60)
      BY <1>6 DEF fetch_enterprise, p
    <3> QED
      BY <1>5, <2>1, <3>1, <3>2, SectionNames, Zenon
<1>7. CASE fetch_business_state
  <2> DEFINE p == [SearchParams(Tenant) EXCEPT !.words = ~req.route.blank, !.limit = 10]
  <2>1. p.offset \in Nat /\ p.limit \in Nat
    BY DEF SearchParams
  <2> HIDE DEF p
  <2> QED
    <3>1. 55 \in Int /\ "enterprise" \in Sources /\ "business" \in Sources
      OBVIOUS
    <3>2. Searched("business", p, "Business State", 55)
      BY <1>7 DEF fetch_business_state, p
    <3> QED
      BY <1>5, <2>1, <3>1, <3>2, SectionNames, Zenon
<1>8. CASE \E s \in Sources : FetchFails(s)
  BY <1>8, OutcomesListed, OutcomeStep DEF FetchFails
<1> QED
  BY <1>1, <1>2, <1>3, <1>4, <1>6, <1>7, <1>8

-----------------------------------------------------------------------------
(* Assembling, packaging, vetting. *)

\* Two sources that disagree about a field are reported, whichever text is taken for
\* the winner (detect_conflicts).
LEMMA ConflictFound ==
    ASSUME NEW segs, Listed(segs), NEW i \in DOMAIN segs, NEW j \in DOMAIN segs,
           Disagree(segs[i], segs[j])
    PROVE  \E c \in detect_conflicts(segs) : c.field = segs[i].field
<1> DEFINE of(f) == {k \in DOMAIN segs : segs[k].field = f}
           winner(f) == CHOOSE a \in of(f) :
                           \A b \in of(f) : \/ segs[a].authority > segs[b].authority
                                            \/ /\ segs[a].authority = segs[b].authority
                                               /\ a <= b
           losers(f) == {b \in of(f) : segs[b].text # segs[winner(f)].text}
           sections(f) == {segs[k].section : k \in of(f)}
           disputed == {f \in {segs[k].field : k \in DOMAIN segs} \ {NoCap} :
                           Cardinality(sections(f)) >= 2 /\ losers(f) # {}}
           field == segs[i].field
<1>1. i \in of(field) /\ j \in of(field) /\ field # NoCap
  BY DEF Disagree
<1>2. losers(field) # {}
  <2>1. segs[i].text # segs[winner(field)].text \/ segs[j].text # segs[winner(field)].text
    BY DEF Disagree
  <2> QED
    BY <1>1, <2>1
<1>3. Cardinality(sections(field)) >= 2
  <2>1. IsFiniteSet(of(field))
    <3>1. of(field) \in SUBSET (1..Len(segs)) /\ Len(segs) \in Nat
      BY ListedSeq
    <3> QED
      BY <3>1, FS_Interval, FS_Subset
  <2>2. IsFiniteSet(sections(field))
    <3> DEFINE name == [k \in of(field) |-> segs[k].section]
    <3>1. name \in Surjection(of(field), sections(field))
      BY DEF Surjection
    <3> QED
      BY <2>1, <3>1, FS_Surjection
  <2>3. segs[i].section \in sections(field) /\ segs[j].section \in sections(field)
        /\ segs[i].section # segs[j].section
    BY <1>1 DEF Disagree
  <2> HIDE DEF sections
  <2>4. Cardinality(sections(field)) \in Nat
    BY <2>2, FS_CardinalityType
  <2>5. Cardinality(sections(field)) # 0
    BY <2>2, <2>3, FS_EmptySet
  <2>6. Cardinality(sections(field)) # 1
    BY <2>2, <2>3, FS_Singleton
  <2> QED
    BY <2>4, <2>5, <2>6
<1>4. field \in disputed
  BY <1>1, <1>2, <1>3
<1>5. detect_conflicts(segs)
        = {[field |-> f, winner |-> segs[winner(f)].text,
            values |-> {segs[k].text : k \in losers(f)}] : f \in disputed}
  BY DEF detect_conflicts
<1> HIDE DEF disputed, winner, losers
<1>6. [field |-> field, winner |-> segs[winner(field)].text,
       values |-> {segs[k].text : k \in losers(field)}] \in detect_conflicts(segs)
  BY <1>4, <1>5
<1> QED
  BY <1>6

\* Marking a segment keeps everything else of it.
LEMMA MarkedFacts ==
    ASSUME NEW segs, Listed(segs), NEW i \in DOMAIN segs
    PROVE  LET g == Marked(segs)[i]
           IN  /\ DOMAIN Marked(segs) = DOMAIN segs
               /\ IsSegment(g) /\ (IsLow(g) => g.marks > 0) /\ 1 \in g.kept
               /\ g.field = segs[i].field /\ g.section = segs[i].section
               /\ g.text = segs[i].text
<1>1. DOMAIN segs[i] = SegmentFields /\ Costed(segs[i]) /\ 1 \in segs[i].kept
  BY ListedSeq DEF Made, IsSegment
<1>2. DOMAIN Marked(segs) = DOMAIN segs
  BY DEF Marked
<1>3. CASE IsLow(segs[i])
  <2>1. Marked(segs)[i] = [segs[i] EXCEPT !.marks = @ + 1]
    BY <1>3 DEF Marked
  <2> QED
    BY <1>1, <1>2, <2>1 DEF IsSegment, SegmentFields, Costed
<1>4. CASE ~IsLow(segs[i])
  <2>1. Marked(segs)[i] = segs[i]
    BY <1>4 DEF Marked
  <2> QED
    BY <1>1, <1>2, <1>4, <2>1 DEF IsSegment
<1> QED
  BY <1>3, <1>4

\* What is left when segments or parts of them are left out.
LeftOf(part_of, text) ==
    /\ DOMAIN part_of \subseteq DOMAIN text
    /\ \A i \in DOMAIN part_of :
          /\ DOMAIN part_of[i] = DOMAIN text[i]
          /\ \A f \in SegmentFields \ {"kept", "intact"} : part_of[i][f] = text[i][f]
          /\ part_of[i].kept \subseteq text[i].kept

\* A part of a presentable text.
LEMMA PartPresentable ==
    ASSUME NEW text, NEW conflicts, Presentable(text, conflicts), NEW less, LeftOf(less, text)
    PROVE  Presentable(less, conflicts)
<1>1. ASSUME NEW i \in DOMAIN less
      PROVE  /\ i \in DOMAIN text /\ DOMAIN less[i] = DOMAIN text[i]
             /\ less[i].priority = text[i].priority /\ less[i].authority = text[i].authority
             /\ less[i].confidence = text[i].confidence /\ less[i].length = text[i].length
             /\ less[i].candidate = text[i].candidate
             /\ less[i].marks = text[i].marks /\ less[i].section = text[i].section
             /\ less[i].field = text[i].field /\ less[i].text = text[i].text
             /\ less[i].kept \subseteq text[i].kept
  BY DEF LeftOf, SegmentFields
<1>2. ASSUME NEW i \in DOMAIN less
      PROVE  IsSegment(less[i]) /\ (IsLow(less[i]) /\ 1 \in less[i].kept => less[i].marks > 0)
  <2>1. /\ IsSegment(text[i])
        /\ (IsLow(text[i]) /\ 1 \in text[i].kept => text[i].marks > 0)
    BY <1>1 DEF Presentable
  <2>2. IsSegment(less[i])
    BY <1>1, <2>1 DEF IsSegment, Costed
  <2>3. IsLow(less[i]) <=> IsLow(text[i])
    BY <1>1 DEF IsLow
  <2> QED
    BY <1>1, <2>1, <2>2, <2>3
<1>3. ASSUME NEW i \in DOMAIN less, NEW j \in DOMAIN less, Disagree(less[i], less[j])
      PROVE  \E c \in conflicts : c.field = less[i].field
  <2>1. Disagree(text[i], text[j])
    BY <1>1, <1>3 DEF Disagree
  <2> QED
    BY <1>1, <2>1 DEF Presentable
<1> QED
  BY <1>2, <1>3 DEF Presentable

\* Segments are left out whole when a context is assembled, and in parts when a package
\* is shrunk (shrink_text).
LEMMA FewerSegments ==
    ASSUME NEW text, NEW S \in SUBSET DOMAIN text
    PROVE  LeftOf(Restrict(text, S), text)
  BY DEF LeftOf, Restrict

LEMMA FewerParts ==
    ASSUME NEW text, \A i \in DOMAIN text : DOMAIN text[i] = SegmentFields, NEW budget
    PROVE  LeftOf(shrink_text(text, budget), text)
<1>1. PICK kept : shrink_text(text, budget)
          = [i \in {j \in DOMAIN text : {k \in text[j].kept : <<j, k>> \in kept} # {}} |->
               [text[i] EXCEPT !.kept = {k \in text[i].kept : <<i, k>> \in kept},
                               !.intact = /\ {k \in text[i].kept : <<i, k>> \in kept}
                                                = DOMAIN text[i].parts
                                          /\ \A k \in {k \in text[i].kept : <<i, k>> \in kept}
                                                         \ {1} : text[i].parts[k].apart]]
  BY DEF shrink_text
<1>2. PICK less : less = shrink_text(text, budget)
  OBVIOUS
<1>3. ASSUME NEW i \in DOMAIN less
      PROVE  /\ i \in DOMAIN text /\ DOMAIN less[i] = DOMAIN text[i]
             /\ \A f \in SegmentFields \ {"kept", "intact"} : less[i][f] = text[i][f]
             /\ less[i].kept \subseteq text[i].kept
  <2>1. i \in DOMAIN text
    BY <1>1, <1>2
  <2>2. \E whole \in BOOLEAN : less[i] = [text[i] EXCEPT
              !.kept = {k \in text[i].kept : <<i, k>> \in kept}, !.intact = whole]
    BY <1>1, <1>2
  <2> QED
    BY <2>1, <2>2 DEF SegmentFields
<1> QED
  BY <1>2, <1>3 DEF LeftOf

\* Whatever the budget leaves out, the text that is assembled is presentable.
LEMMA AssembledFacts ==
    ASSUME NEW segs, Listed(segs), NEW budget
    PROVE  LET c == Assembled(segs, budget)
           IN  Presentable(c.text, c.conflicts) /\ Begun(c.text) /\ IsFiniteSet(DOMAIN c.low)
<1> DEFINE c == Assembled(segs, budget)
           M == Marked(segs)
<1>1. Presentable(M, detect_conflicts(segs)) /\ Begun(M)
  <2>1. \A i \in DOMAIN M : IsSegment(M[i]) /\ (IsLow(M[i]) => M[i].marks > 0)
                            /\ 1 \in M[i].kept
    BY MarkedFacts DEF Marked
  <2>2. ASSUME NEW i \in DOMAIN M, NEW j \in DOMAIN M, Disagree(M[i], M[j])
        PROVE  \E d \in detect_conflicts(segs) : d.field = M[i].field
    <3>1. i \in DOMAIN segs /\ j \in DOMAIN segs
      BY DEF Marked
    <3>2. Disagree(segs[i], segs[j]) /\ M[i].field = segs[i].field
      BY <2>2, <3>1, MarkedFacts DEF Disagree
    <3> QED
      BY <3>1, <3>2, ConflictFound
  <2> HIDE DEF M
  <2> QED
    BY <2>1, <2>2 DEF Presentable, Begun
<1> DEFINE S == {i \in DOMAIN M : i \in Choose(M, budget).kept}
<1>2. c.text = Restrict(M, S) /\ c.conflicts = detect_conflicts(segs) /\ c.low = LowItems(segs)
  BY DEF Assembled, RestrictDomain
<1>3. Presentable(c.text, c.conflicts) /\ Begun(c.text)
  <2> HIDE DEF M, c, S
  <2>1. S \in SUBSET DOMAIN M
    BY DEF S
  <2>2. Presentable(Restrict(M, S), detect_conflicts(segs))
    BY <1>1, <2>1, FewerSegments, PartPresentable
  <2>3. Begun(Restrict(M, S))
    BY <1>1, <2>1 DEF Begun, Restrict
  <2> QED
    BY <1>2, <2>2, <2>3
<1>4. IsFiniteSet(DOMAIN LowItems(segs))
  <2>1. DOMAIN LowItems(segs) \in SUBSET (1..Len(segs)) /\ Len(segs) \in Nat
    BY ListedSeq DEF LowItems, RestrictValues, Restrict
  <2>2. IsFiniteSet(1..Len(segs))
    BY <2>1, FS_Interval
  <2> QED
    BY <2>1, <2>2, FS_Subset
<1> QED
  BY <1>2, <1>3, <1>4

\* All the segments, in the order of assembly.
LEMMA CollectedListed ==
    ASSUME ContextInv
    PROVE  Listed(Collected)
<1> DEFINE s1 == IdentitySegments(req.agent) \o got["hot"].segs
           s2 == s1 \o got["canonical"].segs
           s3 == s2 \o got["task"].segs
           s4 == s3 \o got["agent"].segs
           s5 == s4 \o got["enterprise"].segs
<1>1. \A s \in Sources : Listed(got[s].segs)
  BY DEF ContextInv, Gathered
<1>2. Listed(s1)
  BY <1>1, SourcesListed, JoinListed DEF Sources
<1>3. Collected = s5 \o got["business"].segs
  BY DEF Collected
<1> HIDE DEF s1
<1>4. Listed(s2)
  BY <1>1, <1>2, JoinListed DEF Sources
<1> HIDE DEF s2
<1>5. Listed(s3)
  BY <1>1, <1>4, JoinListed DEF Sources
<1> HIDE DEF s3
<1>6. Listed(s4)
  BY <1>1, <1>5, JoinListed DEF Sources
<1> HIDE DEF s4
<1>7. Listed(s5)
  BY <1>1, <1>6, JoinListed DEF Sources
<1> HIDE DEF s5
<1> QED
  BY <1>1, <1>3, <1>7, JoinListed DEF Sources

\* The fetches have joined.
LEMMA AssembleStep ==
    ASSUME ContextInv, Assemble
    PROVE  ContextInv'
<1>1. /\ ctx' = Assembled(Collected, resolve_budget(plan.tokens)) /\ pc' = "assembled"
      /\ UNCHANGED <<store, req, plan, got, pkg, found, changes>>
  BY DEF Assemble
<1>2. Listed(Collected)
  BY CollectedListed
<1>3. Presentable(ctx'.text, ctx'.conflicts) /\ Begun(ctx'.text) /\ IsFiniteSet(DOMAIN ctx'.low)
  BY <1>1, <1>2, AssembledFacts
<1>4. Gathered' /\ store' \subseteq Items
  BY <1>1 DEF ContextInv, Gathered
<1> QED
  BY <1>1, <1>3, <1>4 DEF ContextInv, Offered

\* ContextPackageBuilder::build leaves sections out, or none.
LEMMA PackageStep ==
    ASSUME ContextInv, NEW budget, NEW cites \in BOOLEAN, Package(budget, cites)
    PROVE  ContextInv'
<1>1. /\ pc = "assembled"
      /\ UNCHANGED <<store, req, plan, got, ctx, found, changes>>
  BY DEF Package
<1>2. Gathered' /\ store' \subseteq Items
  BY <1>1 DEF ContextInv, Gathered
<1>3. Presentable(ctx.text, ctx.conflicts) /\ Begun(ctx.text) /\ IsFiniteSet(DOMAIN ctx.low)
  BY <1>1 DEF ContextInv, Offered
<1>4. CASE ctx.text = <<>>
  <2>1. pc' = "refused"
    BY <1>4 DEF Package
  <2> QED
    BY <1>2, <2>1 DEF ContextInv, Offered
<1>5. CASE ctx.text # <<>>
  <2> DEFINE evidence == IF cites THEN Citable ELSE {}
             text == IF TextTokens(ctx.text) > budget THEN shrink_text(ctx.text, budget)
                     ELSE ctx.text
  <2>1. /\ pc' = "packaged"
        /\ pkg' = [text |-> text, budget |-> budget, highest |-> HighestAuthority(evidence),
                   conflicts |-> ctx.conflicts]
    BY <1>5 DEF Package, build
  <2>2. Presentable(text, ctx.conflicts) /\ (Begun(text) \/ TextTokens(ctx.text) > budget)
    <3>1. \A i \in DOMAIN ctx.text : DOMAIN ctx.text[i] = SegmentFields
      BY <1>3 DEF Presentable, IsSegment
    <3>2. Presentable(shrink_text(ctx.text, budget), ctx.conflicts)
      BY <1>3, <3>1, FewerParts, PartPresentable
    <3> QED
      BY <1>3, <3>2
  <2> HIDE DEF text
  <2>3. /\ DOMAIN pkg' = {"text", "budget", "highest", "conflicts"}
        /\ Presentable(pkg'.text, pkg'.conflicts)
        /\ Begun(pkg'.text) \/ TextTokens(ctx.text) > pkg'.budget
    BY <2>1, <2>2
  <2> QED
    BY <1>1, <1>2, <1>3, <2>1, <2>3 DEF ContextInv, Offered
<1> QED
  BY <1>4, <1>5

\* The scan lets nothing through that has a high sign in it, and sharing adds markers
\* only (scan, validate_for_sharing).
LEMMA VetStep ==
    ASSUME ContextInv, NEW strict \in BOOLEAN, Vet(strict)
    PROVE  ContextInv'
<1>1. pc = "packaged" /\ UNCHANGED <<store, req, plan, got, ctx, found, changes>>
  BY DEF Vet
<1>2. Gathered' /\ store' \subseteq Items
  BY <1>1 DEF ContextInv, Gathered
<1>3. /\ Presentable(ctx.text, ctx.conflicts) /\ Begun(ctx.text) /\ IsFiniteSet(DOMAIN ctx.low)
      /\ DOMAIN pkg = {"text", "budget", "highest", "conflicts"}
      /\ Presentable(pkg.text, pkg.conflicts)
      /\ Begun(pkg.text) \/ TextTokens(ctx.text) > pkg.budget
  BY <1>1 DEF ContextInv, Offered
<1>4. CASE ScanVerdict(pkg, strict) = "blocked"
  <2>1. pc' = "refused"
    BY <1>4 DEF Vet
  <2> QED
    BY <1>2, <2>1 DEF ContextInv, Offered
<1>5. CASE ScanVerdict(pkg, strict) # "blocked"
  <2> DEFINE more(i) == Cardinality({j \in DOMAIN ctx.low : ctx.low[j].text = pkg.text[i].text})
             again(i) == \/ ~pkg.text[i].intact
                         \/ \E j \in DOMAIN pkg.text : /\ j < i /\ pkg.text[j].intact
                                                       /\ pkg.text[j].text = pkg.text[i].text
             text == [i \in DOMAIN pkg.text |->
                        IF again(i) THEN pkg.text[i]
                        ELSE [pkg.text[i] EXCEPT !.marks = @ + more(i)]]
  <2>1. pc' = "vetted" /\ pkg' = [pkg EXCEPT !.text = text]
    BY <1>5 DEF Vet, validate_for_sharing
  <2>2. NoneHigh(pkg.text)
    <3>1. \A s \in SignsIn(pkg.text) : s[2] # "high"
      BY <1>5 DEF ScanVerdict, scan
    <3> QED
      BY <3>1 DEF NoneHigh
  <2>3. ASSUME NEW i \in DOMAIN pkg.text
        PROVE  /\ IsSegment(text[i]) /\ text[i].marks >= pkg.text[i].marks
               /\ (IsLow(text[i]) <=> IsLow(pkg.text[i]))
               /\ text[i].field = pkg.text[i].field /\ text[i].section = pkg.text[i].section
               /\ text[i].text = pkg.text[i].text /\ text[i].parts = pkg.text[i].parts
               /\ text[i].kept = pkg.text[i].kept
    <3>1. more(i) \in Nat
      <4>1. {j \in DOMAIN ctx.low : ctx.low[j].text = pkg.text[i].text} \in SUBSET DOMAIN ctx.low
        OBVIOUS
      <4> QED
        BY <1>3, <4>1, FS_Subset, FS_CardinalityType
    <3>2. /\ DOMAIN pkg.text[i] = SegmentFields /\ pkg.text[i].marks \in Nat
          /\ Costed(pkg.text[i])
      BY <1>3 DEF Presentable, IsSegment, Costed
    <3> HIDE DEF more
    <3>3. CASE again(i)
      <4>1. text[i] = pkg.text[i]
        BY <3>3
      <4> HIDE DEF text
      <4>2. text[i].marks >= pkg.text[i].marks
        BY <3>2, <4>1
      <4> QED
        BY <3>2, <4>1, <4>2 DEF IsSegment
    <3>4. CASE ~again(i)
      <4>1. text[i] = [pkg.text[i] EXCEPT !.marks = @ + more(i)]
        BY <3>4
      <4> HIDE DEF text
      <4>2. /\ DOMAIN text[i] = SegmentFields /\ text[i].marks = pkg.text[i].marks + more(i)
            /\ \A f \in SegmentFields \ {"marks"} : text[i][f] = pkg.text[i][f]
        BY <3>2, <4>1 DEF SegmentFields
      <4> QED
        BY <3>1, <3>2, <4>2 DEF IsSegment, IsLow, SegmentFields, Costed
    <3> QED
      BY <3>3, <3>4
  <2>4. DOMAIN text = DOMAIN pkg.text
    OBVIOUS
  <2> HIDE DEF text
  <2>5. Presentable(text, pkg.conflicts)
    <3>1. \A i \in DOMAIN text :
             IsSegment(text[i]) /\ (IsLow(text[i]) /\ 1 \in text[i].kept => text[i].marks > 0)
      BY <1>3, <2>3, <2>4 DEF Presentable, IsSegment, Costed
    <3>2. ASSUME NEW i \in DOMAIN text, NEW j \in DOMAIN text, Disagree(text[i], text[j])
          PROVE  \E c \in pkg.conflicts : c.field = text[i].field
      <4>1. Disagree(pkg.text[i], pkg.text[j])
        BY <2>3, <2>4, <3>2 DEF Disagree
      <4> QED
        BY <1>3, <2>3, <2>4, <4>1 DEF Presentable
    <3> QED
      BY <3>1, <3>2 DEF Presentable
  <2>6. NoneHigh(text) /\ (Begun(pkg.text) => Begun(text))
    <3>1. PartsIn(text) = PartsIn(pkg.text)
      BY <2>3, <2>4 DEF PartsIn
    <3>2. \A p \in PartsIn(text) : p[1] \in DOMAIN text
      BY DEF PartsIn
    <3>3. SignsIn(text) \subseteq SignsIn(pkg.text)
      BY <2>3, <2>4, <3>1, <3>2 DEF SignsIn
    <3> QED
      BY <2>2, <2>3, <2>4, <3>3 DEF NoneHigh, Begun
  <2>7. /\ DOMAIN pkg' = {"text", "budget", "highest", "conflicts"}
        /\ pkg'.text = text /\ pkg'.conflicts = pkg.conflicts /\ pkg'.budget = pkg.budget
    BY <1>3, <2>1
  <2>8. Begun(pkg'.text) \/ TextTokens(ctx'.text) > pkg'.budget
    BY <1>1, <1>3, <2>6, <2>7
  <2>9. NoneHigh(pkg'.text) /\ Presentable(pkg'.text, pkg'.conflicts)
    BY <2>5, <2>6, <2>7
  <2> QED
    BY <1>1, <1>2, <1>3, <2>1, <2>7, <2>8, <2>9 DEF ContextInv, Offered
<1> QED
  BY <1>4, <1>5

\* The policy is checked last.
LEMMA ShareStep ==
    ASSUME ContextInv, NEW t, Share(t)
    PROVE  ContextInv'
<1>1. /\ pc = "vetted" /\ UNCHANGED <<store, req, plan, got, ctx, pkg, changes>>
      /\ pc' = IF PolicyViolations(pkg, Tenant, t, 1) = {} THEN "shared" ELSE "refused"
      /\ found'.asked = t
  BY DEF Share, NoAnswer
<1>2. Gathered' /\ store' \subseteq Items
  BY <1>1 DEF ContextInv, Gathered
<1>3. pc' = "shared" => t = Tenant
  BY <1>1 DEF PolicyViolations
<1> QED
  BY <1>1, <1>2, <1>3 DEF ContextInv, Offered

\* The rest of a request.
LEMMA ContextStep == ContextInv /\ (ContextNext \/ UNCHANGED context_vars) => ContextInv'
<1> SUFFICES ASSUME ContextInv, ContextNext \/ UNCHANGED context_vars PROVE ContextInv'
  OBVIOUS
<1>1. CASE UNCHANGED context_vars
  BY <1>1 DEF context_vars, ContextInv, Gathered, Offered
<1>2. ASSUME NEW i \in Items, ChangeStore(i) PROVE ContextInv'
  <2>1. pc = "fetching" /\ UNCHANGED <<pc, got, ctx, pkg, found>> /\ store' \subseteq Items
    BY <1>2 DEF ChangeStore, ContextInv
  <2> QED
    BY <2>1 DEF ContextInv, Gathered, Offered
<1>3. ASSUME NEW r \in Requests, NEW a \in {NoCap, Agent}, Ask(r, a) PROVE ContextInv'
  <2>1. /\ pc' = "fetching" /\ UNCHANGED store
        /\ got' = [s \in Sources |-> FirstPoll(s, route(r), r, a)]
    BY <1>3 DEF Ask
  <2>2. \A s \in Sources : Listed(FirstPoll(s, route(r), r, a).segs)
    BY OutcomesListed DEF FirstPoll
  <2>3. Gathered'
    BY <2>1, <2>2 DEF Gathered
  <2> QED
    BY <2>1, <2>3 DEF ContextInv, Offered
<1>4. ASSUME \/ \E p \in Searches : SearchMemories(p)
             \/ \E f \in PreFilters : SearchVectors(f)
      PROVE  ContextInv'
  <2>1. pc' \in {"failed", "answered"} /\ UNCHANGED <<store, got>>
    BY <1>4 DEF SearchMemories, SearchVectors
  <2> QED
    BY <2>1 DEF ContextInv, Gathered, Offered
<1> QED
  BY <1>1, <1>2, <1>3, <1>4, FetchStep, AssembleStep, PackageStep, VetStep, ShareStep
     DEF ContextNext

-----------------------------------------------------------------------------
(* Ranking. *)

\* A set of naturals that is not empty has a least element.
LEMMA LeastNumber ==
    ASSUME NEW T \in SUBSET Nat, T # {}
    PROVE  \E m \in T : \A k \in T : m <= k
<1>1. PICK m \in T : \A k \in T : ~(<<k, m>> \in OpToRel(<, Nat))
  BY NatLessThanWellFounded, WFMin
<1>2. \A k \in T : ~(k < m)
  BY <1>1 DEF OpToRel
<1> QED
  BY <1>2

LEMMA SqlScoreNumber ==
    ASSUME NEW x \in Items, NEW p
    PROVE  SqlScore(x, p) \in Int
  BY ItemNumbers DEF SqlScore, NullScore, AuthorityScore

\* The weighted sum, as the server calls it: a half for the outcome, no flags.
LEMMA FinalScoreValue ==
    ASSUME NEW r, r.score \in Int, r.item \in Items
    PROVE  FinalScore(r, 50, 0)
             = r.score * 40 + (40 + 20 * r.item.authority) * 30 + r.item.fresh * 15 + 750
<1>1. outcome_score(50, r.item.confidence) = 50
  BY LesserOfTwo DEF outcome_score
<1>2. conflict_penalty(0) = 0
  BY LesserOfTwo DEF conflict_penalty
<1> DEFINE X == r.score * 40 + AuthorityScore(r.item) * 30 + r.item.fresh * 15 + 50 * 15
<1>3. FinalScore(r, 50, 0) = (X * (100 - 0)) \div 100
  BY <1>1, <1>2 DEF FinalScore
<1>4. X \in Int /\ X = r.score * 40 + (40 + 20 * r.item.authority) * 30 + r.item.fresh * 15 + 750
  BY ItemNumbers DEF AuthorityScore
<1> HIDE DEF X
<1>5. (X * (100 - 0)) \div 100 = X
  BY <1>4
<1> QED
  BY <1>3, <1>4, <1>5

\* What beats another row has the higher score.
LEMMA BeatsScores ==
    ASSUME NEW a, NEW b, a.score \in Int, a.item \in Items, b.score \in Int, b.item \in Items,
           Beats(a, b)
    PROVE  FinalScore(a, 50, 0) > FinalScore(b, 50, 0)
  BY FinalScoreValue, ItemNumbers DEF Beats

\* rerank takes rows of what it was given, the best first, and TopK at most.
LEMMA RerankFacts ==
    ASSUME NEW given, IsFiniteSet(DOMAIN given),
           \A k \in DOMAIN given : FinalScore(given[k], 50, 0) \in Int,
           NEW answer \in rerank(given)
    PROVE  \E n \in Nat :
             /\ n <= TopK /\ DOMAIN answer = 1..n /\ Len(answer) = n
             /\ \A i \in 1..n : \E k \in DOMAIN given : answer[i] = given[k]
             /\ \A i \in 1..n : \A j \in 1..(i - 1) :
                   FinalScore(answer[j], 50, 0) >= FinalScore(answer[i], 50, 0)
<1> DEFINE scores == [k \in DOMAIN given |-> FinalScore(given[k], 50, 0)]
           n == Min({TopK, Cardinality(DOMAIN given)})
<1>1. PICK order \in ByScore(scores) : answer = [j \in 1..n |-> given[order[j]]]
  BY DEF rerank
<1>2. /\ order \in SetToSeqs(DOMAIN given)
      /\ \A i, j \in DOMAIN order : i < j => scores[order[i]] > scores[order[j]]
                                              \/ scores[order[i]] = scores[order[j]]
  BY <1>1 DEF ByScore
<1>3. /\ Len(order) = Cardinality(DOMAIN given) /\ Len(order) \in Nat
      /\ DOMAIN order = 1..Len(order) /\ order \in [1..Len(order) -> DOMAIN given]
  BY <1>2, Enumerates
<1>4. n \in Nat /\ n <= TopK /\ n <= Len(order)
  BY <1>3, ItemsAssumption, LesserOfTwo
<1> HIDE DEF n
<1>5. \A j \in 1..n : order[j] \in DOMAIN given /\ answer[j] = given[order[j]]
  BY <1>1, <1>3, <1>4
<1>6. DOMAIN answer = 1..n /\ answer \in Seq({given[k] : k \in DOMAIN given})
  BY <1>1, <1>4, <1>5
<1>7. Len(answer) = n
  BY <1>4, <1>6
<1>8. ASSUME NEW i \in 1..n, NEW j \in 1..(i - 1)
      PROVE  FinalScore(answer[j], 50, 0) >= FinalScore(answer[i], 50, 0)
  <2>1. j \in 1..n /\ j < i /\ i \in DOMAIN order /\ j \in DOMAIN order
    BY <1>3, <1>4
  <2>2. scores[order[j]] > scores[order[i]] \/ scores[order[j]] = scores[order[i]]
    BY <1>2, <2>1
  <2>3. /\ scores[order[j]] = FinalScore(answer[j], 50, 0)
        /\ scores[order[i]] = FinalScore(answer[i], 50, 0)
        /\ scores[order[i]] \in Int /\ scores[order[j]] \in Int
    BY <1>5, <2>1
  <2> QED
    BY <2>2, <2>3
<1> QED
  BY <1>4, <1>5, <1>6, <1>7, <1>8

\* search_memories.
LEMMA MemoriesFound ==
    ASSUME store \subseteq Items, NEW p \in Searches, SearchMemories(p)
    PROVE  SearchSound'
<1>1. CASE hybrid_search(store, p) = {}
  BY <1>1 DEF SearchMemories, SearchSound
<1>2. CASE hybrid_search(store, p) # {}
  <2>1. PICK answer \in Search(store, p) :
           found' = [how |-> "hybrid", asked |-> p, rows |-> answer, local |-> <<>>]
    BY <1>2 DEF SearchMemories
  <2>2. PICK page \in hybrid_search(store, p) :
           answer \in rerank(permission_filter(page, AllowedScopes(p)))
    BY <2>1 DEF Search
  <2>3. p.offset \in Nat /\ p.limit \in Nat
    BY ContextAssumption DEF SearchQuery
  <2>4. PICK m \in Nat :
           /\ DOMAIN page = 1..m
           /\ \A j \in 1..m : /\ page[j].item \in Matching(store, p)
                              /\ page[j].score = SqlScore(page[j].item, p)
    BY <2>2, <2>3, PageFacts
  <2> DEFINE given == permission_filter(page, AllowedScopes(p))
  <2>5. /\ DOMAIN given \in SUBSET (1..m)
        /\ \A k \in DOMAIN given : /\ given[k] = page[k]
                                   /\ given[k].item.scope \in AllowedScopes(p)
                                   /\ given[k].item.privacy # "restricted"
    BY <2>4 DEF permission_filter, RestrictValues, Restrict
  <2> HIDE DEF given
  <2>6. ASSUME NEW k \in DOMAIN given
        PROVE  given[k].item \in Matching(store, p) /\ given[k].item \in Items
               /\ given[k].score \in Int
    BY <2>4, <2>5, MatchingFinite, SqlScoreNumber
  <2>7. \A k \in DOMAIN given : FinalScore(given[k], 50, 0) \in Int
    BY <2>6, FinalScoreValue, ItemNumbers
  <2>8. IsFiniteSet(DOMAIN given)
    <3>1. IsFiniteSet(1..m)
      BY FS_Interval
    <3> QED
      BY <2>5, <3>1, FS_Subset
  <2>9. PICK n \in Nat :
             /\ n <= TopK /\ DOMAIN answer = 1..n /\ Len(answer) = n
             /\ \A i \in 1..n : \E k \in DOMAIN given : answer[i] = given[k]
             /\ \A i \in 1..n : \A j \in 1..(i - 1) :
                   FinalScore(answer[j], 50, 0) >= FinalScore(answer[i], 50, 0)
    BY <2>2, <2>7, <2>8, RerankFacts DEF given
  <2>10. ASSUME NEW i \in DOMAIN answer
         PROVE  /\ answer[i].item.tenant = p.tenant
                /\ answer[i].item.privacy # "restricted"
                /\ answer[i].item.scope \in AllowedScopes(p)
                /\ answer[i].item.status = "active" /\ ~answer[i].item.expired
                /\ \A j \in 1..(i - 1) : ~Beats(answer[i], answer[j])
    <3>1. PICK k \in DOMAIN given : answer[i] = given[k]
      BY <2>9
    <3>2. /\ answer[i].item.tenant = p.tenant
          /\ answer[i].item.status = "active" /\ ~answer[i].item.expired
      BY <2>6, <3>1 DEF Matching
    <3>3. ASSUME NEW j \in 1..(i - 1), Beats(answer[i], answer[j]) PROVE FALSE
      <4>1. i \in 1..n /\ j \in 1..n
        BY <2>9
      <4>2. PICK l \in DOMAIN given : answer[j] = given[l]
        BY <2>9, <4>1
      <4>3. FinalScore(answer[i], 50, 0) > FinalScore(answer[j], 50, 0)
        BY <2>6, <3>1, <3>3, <4>2, BeatsScores
      <4>4. FinalScore(answer[j], 50, 0) >= FinalScore(answer[i], 50, 0)
        BY <2>9, <4>1
      <4>5. FinalScore(answer[i], 50, 0) \in Int /\ FinalScore(answer[j], 50, 0) \in Int
        BY <2>7, <3>1, <4>2
      <4> QED
        BY <4>3, <4>4, <4>5
    <3> QED
      BY <2>5, <3>1, <3>2, <3>3
  <2>11. found'.how = "hybrid" /\ found'.asked = p /\ found'.rows = answer
    BY <2>1
  <2> QED
    BY <2>9, <2>10, <2>11 DEF SearchSound
<1> QED
  BY <1>1, <1>2

LEMMA UpTo ==
    ASSUME NEW n \in Nat
    PROVE  IsFiniteSet(1..n) /\ Cardinality(1..n) = n
<1>1. IsFiniteSet(1..n) /\ Cardinality(1..n) = IF 1 > n THEN 0 ELSE n - 1 + 1
  BY FS_Interval
<1> QED
  BY <1>1

LEMMA NearnessNumber ==
    ASSUME NEW x \in Items
    PROVE  /\ Nearness(x) \in Int
           /\ x.embedded => Nearness(x) = x.similarity + 1 /\ Nearness(x) >= 1
           /\ ~x.embedded => Nearness(x) = 0
<1>1. x.similarity \in 0..100
  BY ItemsAssumption DEF Item
<1> QED
  BY <1>1 DEF Nearness

\* What is in order from each place to the next is in order.
LEMMA SortedThroughout ==
    ASSUME NEW s, NEW n \in Nat, \A j \in 1..n : s[j] \in Items,
           \A j \in 1..(n - 1) : Nearness(s[j]) >= Nearness(s[j + 1]),
           NEW i \in 1..n, NEW j \in 1..n, i <= j
    PROVE  Nearness(s[i]) >= Nearness(s[j])
<1> DEFINE T == {k \in 1..n : i <= k /\ Nearness(s[k]) > Nearness(s[i])}
<1>1. \A k \in 1..n : Nearness(s[k]) \in Int
  BY NearnessNumber
<1>2. ASSUME T # {} PROVE FALSE
  <2>1. T \in SUBSET Nat
    OBVIOUS
  <2>2. PICK m \in T : \A k \in T : m <= k
    <3> HIDE DEF T
    <3> QED
      BY <1>2, <2>1, LeastNumber
  <2>3. m \in 1..n /\ i <= m /\ Nearness(s[m]) > Nearness(s[i])
    OBVIOUS
  <2>4. m # i
    BY <1>1, <2>3
  <2>5. m - 1 \in 1..(n - 1) /\ m - 1 \in 1..n /\ i <= m - 1
    BY <2>3, <2>4
  <2>6. m - 1 \notin T
    BY <2>2, <2>3
  <2>7. ~(Nearness(s[m - 1]) > Nearness(s[i]))
    BY <2>5, <2>6
  <2>8. Nearness(s[m - 1]) >= Nearness(s[(m - 1) + 1])
    BY <2>5
  <2>9. (m - 1) + 1 = m
    BY <2>3
  <2> QED
    BY <1>1, <2>3, <2>5, <2>7, <2>8, <2>9
<1> QED
  BY <1>1, <1>2

\* The nearest first, wherever one looks.
Falling(s) ==
    \A i, j \in 1..Len(s) : i <= j => Nearness(s[i]) >= Nearness(s[j])

\* The first i of some rows are of S, all different, and none is farther than the i-th.
Leading(a, i, S) ==
    /\ \A j \in 1..i : a[j] \in S /\ Nearness(a[j]) >= Nearness(a[i])
    /\ \A j, k \in 1..i : j # k => a[j] # a[k]

\* They are no more than all of S.
LEMMA NoMore ==
    ASSUME NEW S, IsFiniteSet(S), NEW i \in Nat, NEW a, Leading(a, i, S)
    PROVE  i <= Cardinality(S)
<1> DEFINE f == [j \in 1..i |-> a[j]]
<1>1. f \in Injection(1..i, S)
  BY DEF Leading, Injection, IsInjective
<1> HIDE DEF f
<1>2. Cardinality(1..i) <= Cardinality(S)
  BY <1>1, FS_Injection
<1> QED
  BY <1>2, UpTo

\* Where S stands with the nearest first, the i-th is at least as near as theirs: those
\* nearer than b[i] would be i or more, and have only the i - 1 places before i in b.
LEMMA NoneAhead ==
    ASSUME NEW S \in SUBSET Items, NEW b \in SetToSeqs(S), Falling(b), NEW i \in 1..Len(b),
           NEW a, Leading(a, i, S)
    PROVE  ~(Nearness(a[i]) > Nearness(b[i]))
<1> SUFFICES ASSUME Nearness(a[i]) > Nearness(b[i]) PROVE FALSE
  OBVIOUS
<1> DEFINE n == Len(b)
           H == {x \in S : Nearness(x) > Nearness(b[i])}
           place(x) == CHOOSE k \in 1..n : b[k] = x
           f == [j \in 1..i |-> a[j]]
           g == [x \in H |-> place(x)]
<1>1. IsFiniteSet(S)
  BY ItemsAssumption, FS_Subset
<1>2. /\ n \in Nat /\ b \in [1..n -> S]
      /\ \A x \in S : \E k \in 1..n : b[k] = x
  BY <1>1, Enumerates
<1>3. \A x \in S : Nearness(x) \in Int
  BY NearnessNumber
<1>4. Falling(b) /\ i \in 1..n
  OBVIOUS
<1>5. IsFiniteSet(H)
  BY <1>1, FS_Subset, H \in SUBSET S
<1>6. ASSUME NEW j \in 1..i PROVE a[j] \in H
  <2>1. i \in 1..i
    BY <1>2, <1>4
  <2>2. a[j] \in S /\ a[i] \in S /\ b[i] \in S /\ Nearness(a[j]) >= Nearness(a[i])
    BY <1>2, <1>4, <2>1 DEF Leading
  <2> QED
    BY <1>3, <2>2
<1>7. f \in Injection(1..i, H)
  BY <1>6 DEF Injection, IsInjective, Leading
<1>8. Cardinality(1..i) <= Cardinality(H)
  <2> HIDE DEF f, H
  <2> QED
    BY <1>5, <1>7, FS_Injection
<1>9. \A x \in H : place(x) \in 1..n /\ b[place(x)] = x
  BY <1>2
<1>10. \A x \in H : place(x) \in 1..(i - 1)
  <2> SUFFICES ASSUME NEW x \in H PROVE place(x) \in 1..(i - 1)
    OBVIOUS
  <2>1. place(x) \in 1..n /\ b[place(x)] = x
    BY <1>9
  <2> HIDE DEF place
  <2>2. /\ Nearness(x) > Nearness(b[i])
        /\ Nearness(x) \in Int /\ Nearness(b[i]) \in Int
    BY <1>2, <1>3
  <2>3. ~(i <= place(x))
    BY <1>2, <1>4, <2>1, <2>2 DEF Falling
  <2> QED
    BY <1>2, <2>1, <2>3
<1>11. g \in Injection(H, 1..(i - 1))
  <2> HIDE DEF place, H
  <2> QED
    BY <1>9, <1>10 DEF Injection, IsInjective
<1>12. Cardinality(H) <= Cardinality(1..(i - 1))
  <2>1. IsFiniteSet(1..(i - 1))
    BY <1>2, UpTo
  <2> HIDE DEF g, H
  <2> QED
    BY <1>11, <2>1, FS_Injection
<1>13. Cardinality(1..i) = i /\ Cardinality(1..(i - 1)) = i - 1 /\ Cardinality(H) \in Nat
  <2>1. i \in Nat /\ i >= 1
    BY <1>2
  <2>2. i - 1 \in Nat
    BY <2>1
  <2> QED
    BY <1>5, <2>1, <2>2, UpTo, FS_CardinalityType
<1> HIDE DEF H
<1> QED
  BY <1>2, <1>8, <1>12, <1>13

\* rank_by_similarity, of items with an embedding, is the beginning of such an order.
LEMMA RankFacts ==
    ASSUME NEW S \in SUBSET Items, \A x \in S : x.embedded, NEW s \in SetToSeqs(S),
           NEW k \in Nat, NEW local \in rank_by_similarity(s, k)
    PROVE  /\ DOMAIN local = 1..Min({k, Len(s)})
           /\ \E b \in SetToSeqs(S) : Falling(b) /\ \A j \in DOMAIN local : local[j] = b[j]
<1> DEFINE n == Len(s)
           m == Min({k, n})
           scores == [j \in DOMAIN s |-> s[j].similarity]
<1>1. IsFiniteSet(S)
  BY ItemsAssumption, FS_Subset
<1>2. /\ n \in Nat /\ n = Cardinality(S) /\ DOMAIN s = 1..n /\ s \in [1..n -> S]
      /\ \A i, j \in 1..n : i # j => s[i] # s[j]
  BY <1>1, Enumerates
<1>3. PICK order \in ByScore(scores) : local = [j \in 1..m |-> s[order[j]]]
  BY DEF rank_by_similarity
<1>4. /\ order \in SetToSeqs(1..n)
      /\ \A i, j \in DOMAIN order : i < j => scores[order[i]] > scores[order[j]]
                                              \/ scores[order[i]] = scores[order[j]]
  BY <1>2, <1>3 DEF ByScore
<1> HIDE DEF n
<1>5. IsFiniteSet(1..n) /\ Cardinality(1..n) = n
  BY <1>2, UpTo
<1>6. /\ DOMAIN order = 1..n /\ order \in [1..n -> 1..n]
      /\ \A i, j \in 1..n : i # j => order[i] # order[j]
  <2>1. PICK D : D = 1..n
    OBVIOUS
  <2>2. order \in SetToSeqs(D) /\ IsFiniteSet(D) /\ Cardinality(D) = n
    BY <1>4, <1>5, <2>1
  <2>3. /\ Len(order) = n /\ DOMAIN order = 1..Len(order)
        /\ order \in [1..Len(order) -> D]
        /\ \A i, j \in 1..Len(order) : i # j => order[i] # order[j]
    BY <2>2, Enumerates
  <2> QED
    BY <2>1, <2>3
<1> DEFINE b == [j \in 1..n |-> s[order[j]]]
<1>7. b \in [1..n -> S] /\ \A i, j \in 1..n : i # j => b[i] # b[j]
  BY <1>2, <1>6
<1>8. b \in SetToSeqs(S)
  BY <1>2, <1>7 DEF SetToSeqs
<1>9. Len(b) = n
  BY <1>1, <1>2, <1>8, Enumerates
<1>10. \A j \in 1..n : /\ scores[order[j]] \in Int
                       /\ Nearness(b[j]) = scores[order[j]] + 1
  <2> TAKE j \in 1..n
  <2>1. b[j] \in Items /\ b[j].embedded /\ scores[order[j]] = b[j].similarity
    BY <1>2, <1>6, <1>7
  <2> HIDE DEF b, scores
  <2> QED
    BY <2>1, NearnessNumber, ItemNumbers
<1>11. Falling(b)
  <2> SUFFICES ASSUME NEW i \in 1..n, NEW j \in 1..n, i <= j
               PROVE  Nearness(b[i]) >= Nearness(b[j])
    BY <1>9 DEF Falling
  <2>1. CASE i = j
    BY <1>10, <2>1
  <2>2. CASE i < j
    <3>1. scores[order[i]] > scores[order[j]] \/ scores[order[i]] = scores[order[j]]
      BY <1>4, <1>6, <2>2
    <3> HIDE DEF scores, b
    <3> QED
      BY <1>10, <3>1
  <2> QED
    BY <2>1, <2>2
<1>12. m \in Nat /\ m <= n
  BY <1>2, LesserOfTwo
<1>13. DOMAIN local = 1..m /\ \A j \in 1..m : local[j] = b[j]
  BY <1>2, <1>3, <1>12
<1> HIDE DEF b
<1> QED
  BY <1>8, <1>11, <1>13 DEF n

\* The vector engine: its answer, and the ranking in memory.
LEMMA VectorsFound ==
    ASSUME store \subseteq Items, NEW f \in PreFilters, SearchVectors(f)
    PROVE  SearchSound'
<1>1. CASE pc' = "failed"
  BY <1>1 DEF SearchSound
<1>2. CASE /\ validate(f)
           /\ \E ranked \in VectorSearch(store, f), s \in SetToSeqs(Candidates(f)) :
                \E local \in rank_by_similarity(s, f.top_k) :
                   found' = [how |-> "vector", asked |-> f, rows |-> ranked, local |-> local]
  <2> DEFINE P == PreFiltered(store, f)
             E == Candidates(f)
  <2>1. PICK answer \in VectorSearch(store, f), s \in SetToSeqs(E) :
           \E local \in rank_by_similarity(s, f.top_k) :
              found' = [how |-> "vector", asked |-> f, rows |-> answer, local |-> local]
    BY <1>2
  <2>2. PICK local \in rank_by_similarity(s, f.top_k) :
           found' = [how |-> "vector", asked |-> f, rows |-> answer, local |-> local]
    BY <2>1
  <2>3. /\ f.top_k \in Nat /\ P \in SUBSET Items /\ UNCHANGED store
        /\ E \in SUBSET Items /\ \A x \in P : x \in E <=> x.embedded
        /\ \A x \in E : x.embedded
    <3>1. f.top_k \in 1..MaxTopK /\ MaxTopK \in Nat
      BY <1>2, ItemsAssumption DEF validate
    <3>2. P \in SUBSET Items
      BY DEF PreFiltered
    <3>3. UNCHANGED store
      BY DEF SearchVectors
    <3>4. E = {x \in P : x.embedded}
      BY DEF Candidates
    <3> QED
      BY <3>1, <3>2, <3>3, <3>4
  <2>4. PICK c \in Scanned(store, f) :
           \E a \in Ordered(c, Nearness) : answer = SubSeq(a, 1, Min({f.top_k, Len(a)}))
    BY <1>2 DEF VectorSearch
  <2>5. PICK a \in Ordered(c, Nearness) : answer = SubSeq(a, 1, Min({f.top_k, Len(a)}))
    BY <2>4
  <2>6. c \in SUBSET P
    BY DEF Scanned
  <2>7. /\ a \in SetToSeqs(c)
        /\ \A j \in 1..(Len(a) - 1) : Nearness(a[j]) >= Nearness(a[j + 1])
    BY <2>5 DEF Ordered
  <2>8. IsFiniteSet(c) /\ IsFiniteSet(E)
    BY <2>3, <2>6, ItemsAssumption, FS_Subset
  <2> HIDE DEF P, E
  <2>9. /\ a \in Seq(c) /\ Len(a) \in Nat
        /\ \A j \in 1..Len(a) : a[j] \in P /\ a[j] \in Items
        /\ \A i, j \in 1..Len(a) : i # j => a[i] # a[j]
    BY <2>3, <2>6, <2>7, <2>8, Enumerates
  <2>10. Falling(a)
    BY <2>7, <2>9, SortedThroughout DEF Falling
  <2> DEFINE m == Min({f.top_k, Len(a)})
  <2>11. m \in Nat /\ m <= Len(a) /\ m <= f.top_k
    BY <2>3, <2>9, LesserOfTwo
  <2>12. answer = SubSeq(a, 1, m)
    BY <2>5
  <2> HIDE DEF m
  <2>13. Len(answer) = m /\ DOMAIN answer = 1..m /\ \A j \in 1..m : answer[j] = a[j]
    BY <2>9, <2>11, <2>12
  <2>14. /\ DOMAIN local = 1..Min({f.top_k, Len(s)})
         /\ \E b \in SetToSeqs(E) : Falling(b) /\ \A j \in DOMAIN local : local[j] = b[j]
    BY <2>1, <2>2, <2>3, RankFacts
  <2>15. PICK b \in SetToSeqs(E) : Falling(b) /\ \A j \in DOMAIN local : local[j] = b[j]
    BY <2>14
  <2>16. Len(s) = Cardinality(E) /\ Len(b) = Cardinality(E) /\ b \in [1..Len(b) -> E]
         /\ Cardinality(E) \in Nat
    BY <2>1, <2>8, <2>15, Enumerates
  <2>17. ASSUME NEW i \in DOMAIN answer
         PROVE  /\ answer[i] \in PreFiltered(store, f)
                /\ \A j \in 1..(i - 1) : /\ answer[j] # answer[i]
                                         /\ Nearness(answer[j]) >= Nearness(answer[i])
    <3>1. i \in 1..Len(a) /\ i \in 1..m /\ \A j \in 1..(i - 1) : j \in 1..Len(a) /\ j \in 1..m
      BY <2>9, <2>11, <2>13
    <3>2. answer[i] = a[i] /\ \A j \in 1..(i - 1) : answer[j] = a[j]
      BY <2>13, <3>1
    <3> QED
      BY <2>9, <2>10, <3>1, <3>2 DEF Falling, P
  <2>18. ASSUME NEW i \in DOMAIN answer, answer[i].embedded
         PROVE  i \in DOMAIN local /\ local[i].similarity >= answer[i].similarity
    <3>1. /\ i \in 1..Len(a) /\ i \in 1..m /\ i \in Nat /\ i >= 1
          /\ \A j \in 1..i : j \in 1..Len(a) /\ j <= i
      BY <2>9, <2>11, <2>13
    <3>2. answer[i] = a[i]
      BY <2>13, <3>1
    <3>3. ASSUME NEW j \in 1..i PROVE a[j] \in E /\ Nearness(a[j]) >= Nearness(a[i])
      <4>1. Nearness(a[j]) >= Nearness(a[i])
        BY <2>10, <3>1 DEF Falling
      <4>2. Nearness(a[i]) >= 1 /\ Nearness(a[i]) \in Int /\ Nearness(a[j]) \in Int
        BY <2>9, <2>18, <3>1, <3>2, NearnessNumber
      <4>3. a[j].embedded
        <5>1. a[j].embedded \in BOOLEAN
          BY <2>9, <3>1, ItemsAssumption DEF Item
        <5>2. ~a[j].embedded => Nearness(a[j]) = 0
          BY <2>9, <3>1, NearnessNumber
        <5> QED
          BY <4>1, <4>2, <5>1, <5>2
      <4> QED
        BY <2>3, <2>9, <3>1, <4>1, <4>3
    <3>4. Leading(a, i, E)
      BY <2>9, <3>1, <3>3 DEF Leading
    <3>5. i <= Len(b) /\ i <= Len(s)
      BY <2>8, <2>16, <3>1, <3>4, NoMore
    <3>6. i \in DOMAIN local /\ local[i] = b[i]
      <4>1. i <= f.top_k /\ Len(s) \in Nat
        BY <2>3, <2>11, <2>16, <3>1
      <4>2. i <= Min({f.top_k, Len(s)}) /\ Min({f.top_k, Len(s)}) \in Nat
        BY <2>3, <3>5, <4>1, LesserOfTwo
      <4>3. PICK l \in Nat : l = Min({f.top_k, Len(s)})
        BY <4>2
      <4>4. DOMAIN local = 1..l
        BY <2>14, <4>3
      <4>5. i \in 1..l
        BY <3>1, <4>2, <4>3
      <4> QED
        BY <2>15, <4>4, <4>5
    <3>7. i \in 1..Len(b)
      BY <2>16, <3>1, <3>5
    <3>8. ~(Nearness(a[i]) > Nearness(b[i]))
      BY <2>3, <2>15, <3>4, <3>7, NoneAhead
    <3>9. b[i] \in Items /\ b[i].embedded /\ a[i] \in Items
      BY <2>3, <2>9, <2>16, <3>1, <3>7
    <3>10. /\ Nearness(a[i]) = a[i].similarity + 1 /\ a[i].similarity \in Int
           /\ Nearness(b[i]) = b[i].similarity + 1 /\ b[i].similarity \in Int
      BY <2>18, <3>2, <3>9, NearnessNumber, ItemNumbers
    <3> QED
      BY <3>2, <3>6, <3>8, <3>10
  <2>19. /\ found'.how = "vector" /\ found'.asked = f
         /\ found'.rows = answer /\ found'.local = local
    BY <2>2
  <2>20. Len(answer) <= f.top_k
    BY <2>3, <2>11, <2>13
  <2>21. \A i \in DOMAIN answer :
            /\ answer[i] \in PreFiltered(store', f)
            /\ \A j \in 1..(i - 1) : /\ answer[j] # answer[i]
                                     /\ Nearness(answer[j]) >= Nearness(answer[i])
            /\ answer[i].embedded =>
                  /\ i \in DOMAIN local
                  /\ local[i].similarity >= answer[i].similarity
    BY <2>3, <2>17, <2>18
  <2> QED
    BY <2>19, <2>20, <2>21 DEF SearchSound
<1> QED
  BY <1>1, <1>2 DEF SearchVectors

\* An answer is sound when it is given, and nothing follows it.
LEMMA SearchStep ==
    store \subseteq Items /\ SearchSound /\ (ContextNext \/ UNCHANGED context_vars)
        => SearchSound'
<1> SUFFICES ASSUME store \subseteq Items, SearchSound, ContextNext \/ UNCHANGED context_vars
             PROVE  SearchSound'
  OBVIOUS
<1>1. CASE UNCHANGED context_vars
  BY <1>1 DEF context_vars, SearchSound
<1>2. ASSUME \/ \E i \in Items : ChangeStore(i)
             \/ \E r \in Requests, a \in {NoCap, Agent} : Ask(r, a)
             \/ Assemble
             \/ \E b \in PackageBudgets, cites \in BOOLEAN : Package(b, cites)
             \/ \E strict \in BOOLEAN : Vet(strict)
             \/ \E t \in {Tenant, OtherTenant} : Share(t)
      PROVE  SearchSound'
  <2>1. pc' # "answered"
    BY <1>2 DEF ChangeStore, Ask, Assemble, Package, Vet, Share
  <2> QED
    BY <2>1 DEF SearchSound
<1>3. ASSUME \/ fetch_hot \/ fetch_canonical \/ fetch_shared_task
             \/ fetch_agent_private \/ fetch_enterprise \/ fetch_business_state
             \/ \E s \in Sources : FetchFails(s)
      PROVE  SearchSound'
  <2>1. pc' # "answered"
    BY <1>3 DEF fetch_hot, fetch_canonical, fetch_shared_task, fetch_agent_private,
                fetch_enterprise, fetch_business_state, Searched, FetchFails, Outcome
  <2> QED
    BY <2>1 DEF SearchSound
<1> QED
  BY <1>1, <1>2, <1>3, MemoriesFound, VectorsFound DEF ContextNext

-----------------------------------------------------------------------------
(* Facts. *)

\* The order of the sort keys is strict and total.
LEMMA AboveOrders ==
    ASSUME NEW a \in [1..6 -> Int], NEW b \in [1..6 -> Int]
    PROVE  /\ ~Above(a, a)
           /\ ~(Above(a, b) /\ Above(b, a))
           /\ Above(a, b) \/ Above(b, a) \/ a = b
<1>1. DOMAIN a = 1..6 /\ DOMAIN b = 1..6
  OBVIOUS
<1>2. ~Above(a, a)
  BY <1>1 DEF Above
<1>3. ASSUME Above(a, b), Above(b, a) PROVE FALSE
  <2>1. PICK i \in 1..6 : a[i] > b[i] /\ \A k \in 1..(i - 1) : a[k] = b[k]
    BY <1>1, <1>3 DEF Above
  <2>2. PICK j \in 1..6 : b[j] > a[j] /\ \A k \in 1..(j - 1) : b[k] = a[k]
    BY <1>1, <1>3 DEF Above
  <2>3. CASE i < j
    BY <2>1, <2>2, <2>3
  <2>4. CASE j < i
    BY <2>1, <2>2, <2>4
  <2>5. CASE i = j
    BY <2>1, <2>2, <2>5
  <2> QED
    BY <2>3, <2>4, <2>5
<1>4. ASSUME a # b PROVE Above(a, b) \/ Above(b, a)
  <2> DEFINE D == {i \in 1..6 : a[i] # b[i]}
  <2>1. D # {} /\ D \in SUBSET Nat
    BY <1>4
  <2>2. PICK m \in D : \A k \in D : m <= k
    BY <2>1, LeastNumber
  <2>3. m \in 1..6 /\ a[m] # b[m] /\ a[m] \in Int /\ b[m] \in Int
    OBVIOUS
  <2>4. \A k \in 1..(m - 1) : k \in 1..6 /\ ~(m <= k)
    BY <2>3
  <2>5. \A k \in 1..(m - 1) : a[k] = b[k]
    BY <2>2, <2>4
  <2>6. a[m] > b[m] \/ b[m] > a[m]
    BY <2>3
  <2> HIDE DEF D
  <2> QED
    BY <1>1, <2>3, <2>5, <2>6 DEF Above
<1> QED
  BY <1>2, <1>3, <1>4

LEMMA AboveTransitive ==
    ASSUME NEW a \in [1..6 -> Int], NEW b \in [1..6 -> Int], NEW c \in [1..6 -> Int],
           Above(a, b), Above(b, c)
    PROVE  Above(a, c)
<1>1. DOMAIN a = 1..6 /\ DOMAIN b = 1..6
  OBVIOUS
<1>2. PICK i \in 1..6 : a[i] > b[i] /\ \A k \in 1..(i - 1) : a[k] = b[k]
  BY <1>1 DEF Above
<1>3. PICK j \in 1..6 : b[j] > c[j] /\ \A k \in 1..(j - 1) : b[k] = c[k]
  BY <1>1 DEF Above
<1>4. CASE i <= j
  <2>1. a[i] > c[i] /\ \A k \in 1..(i - 1) : a[k] = c[k]
    BY <1>2, <1>3, <1>4
  <2> QED
    BY <1>1, <2>1 DEF Above
<1>5. CASE j < i
  <2>1. a[j] > c[j] /\ \A k \in 1..(j - 1) : a[k] = c[k]
    BY <1>2, <1>3, <1>5
  <2> QED
    BY <1>1, <2>1 DEF Above
<1> QED
  BY <1>4, <1>5

\* The keys of a fact are numbers.
LEMMA KeyNumbers ==
    ASSUME NEW f \in FactValue
    PROVE  Key(f) \in [1..6 -> Int] /\ Key(f)[1] = f.authority /\ Key(f)[2] = Bit(f.user_confirmed)
<1>1. f.authority \in Int /\ f.time \in Int /\ f.user_confirmed \in BOOLEAN
  BY DEF FactValue
<1>2. Bit(f.user_confirmed) \in Int /\ Bit(f.verified) \in Int
  BY DEF Bit
<1>3. scope_rank_business(f.scope) \in Int
  BY DEF scope_rank_business, FactValue
<1>4. source_rank(f.source) \in Int
  BY DEF source_rank
<1> QED
  BY <1>1, <1>2, <1>3, <1>4 DEF Key

\* Of any reports there is one that none is above and that comes before its equals: by
\* the number of reports above one, then by its place.
LEMMA WinnerExists ==
    ASSUME NEW values \in Seq(FactValue), values # <<>>
    PROVE  \E j \in DOMAIN values :
             /\ \A k \in DOMAIN values : ~Above(Key(values[k]), Key(values[j]))
             /\ \A k \in 1..(j - 1) : Above(Key(values[j]), Key(values[k]))
<1> DEFINE n == Len(values)
           K(j) == Key(values[j])
           Ahead(j) == {k \in 1..n : Above(K(k), K(j))}
           T == {Cardinality(Ahead(j)) : j \in 1..n}
<1>1. n \in Nat /\ DOMAIN values = 1..n /\ 1 \in 1..n
  OBVIOUS
<1>2. \A j \in 1..n : K(j) \in [1..6 -> Int]
  BY <1>1, KeyNumbers
<1> HIDE DEF n, K
<1>3. \A j \in 1..n : IsFiniteSet(Ahead(j)) /\ Cardinality(Ahead(j)) \in Nat
  <2> TAKE j \in 1..n
  <2>1. IsFiniteSet(1..n) /\ Ahead(j) \in SUBSET (1..n)
    BY <1>1, UpTo
  <2> HIDE DEF Ahead
  <2> QED
    BY <2>1, FS_Subset, FS_CardinalityType
<1> HIDE DEF Ahead
<1>4. T # {} /\ T \in SUBSET Nat
  BY <1>1, <1>3
<1>5. PICK t \in T : \A u \in T : t <= u
  <2> HIDE DEF T
  <2> QED
    BY <1>4, LeastNumber
<1>6. PICK b \in 1..n : Cardinality(Ahead(b)) = t
  OBVIOUS
<1>7. \A k \in 1..n : Cardinality(Ahead(b)) <= Cardinality(Ahead(k))
  BY <1>5, <1>6
<1> HIDE DEF T
<1>8. ASSUME NEW l \in 1..n, Above(K(l), K(b)) PROVE FALSE
  <2>1. Ahead(l) \in SUBSET Ahead(b)
    BY <1>2, <1>8, AboveTransitive DEF Ahead
  <2>2. l \in Ahead(b) /\ l \notin Ahead(l)
    BY <1>2, <1>8, AboveOrders DEF Ahead
  <2>3. /\ Cardinality(Ahead(l)) <= Cardinality(Ahead(b))
        /\ Cardinality(Ahead(b)) # Cardinality(Ahead(l))
    BY <1>3, <2>1, <2>2, FS_Subset
  <2>4. Cardinality(Ahead(b)) \in Nat /\ Cardinality(Ahead(l)) \in Nat
    BY <1>3
  <2> QED
    BY <1>7, <2>3, <2>4
<1> DEFINE M == {j \in 1..n : \A k \in 1..n : ~Above(K(k), K(j))}
<1>9. M # {} /\ M \in SUBSET Nat
  BY <1>1, <1>8
<1>10. PICK j \in M : \A k \in M : j <= k
  <2> HIDE DEF M
  <2> QED
    BY <1>9, LeastNumber
<1>11. j \in 1..n /\ \A k \in 1..n : ~Above(K(k), K(j))
  OBVIOUS
<1>12. ASSUME NEW k \in 1..(j - 1) PROVE Above(K(j), K(k))
  <2>1. k \in 1..n /\ ~(j <= k)
    BY <1>1, <1>11
  <2>2. k \notin M
    BY <1>10, <2>1
  <2>3. K(k) # K(j)
    BY <1>11, <2>1, <2>2
  <2> QED
    BY <1>2, <1>11, <2>1, <2>3, AboveOrders
<1> QED
  BY <1>1, <1>11, <1>12 DEF K

\* The winner is one of the reports, and none is above it.
LEMMA WinnerFacts ==
    ASSUME NEW values \in Seq(FactValue), values # <<>>
    PROVE  \E j \in DOMAIN values :
             /\ SortedFirst(values) = values[j]
             /\ \A k \in DOMAIN values : ~Above(Key(values[k]), Key(values[j]))
  BY WinnerExists DEF SortedFirst, Winner

\* Differ compares with the first; any two would do.
LEMMA DifferAny ==
    ASSUME NEW values, 1 \in DOMAIN values, NEW field
    PROVE  Differ(values, field)
             <=> \E i, j \in DOMAIN values : values[i][field] # values[j][field]
  BY DEF Differ

\* The same reports in two orders.
SameReports(a, b) ==
    /\ \A i \in DOMAIN a : \E j \in DOMAIN b : a[i] = b[j]
    /\ \A j \in DOMAIN b : \E i \in DOMAIN a : a[i] = b[j]

LEMMA ReversedReports ==
    ASSUME NEW values \in Seq(FactValue), values # <<>>
    PROVE  /\ Reverse(values) \in Seq(FactValue) /\ Reverse(values) # <<>>
           /\ SameReports(values, Reverse(values))
<1> DEFINE n == Len(values)
           r == Reverse(values)
<1>1. n \in Nat /\ n >= 1 /\ DOMAIN values = 1..n /\ \A i \in 1..n : values[i] \in FactValue
  OBVIOUS
<1>2. r = [i \in 1..n |-> values[(n - i) + 1]]
  BY DEF Reverse
<1> HIDE DEF n, r
<1>3. \A i \in 1..n : (n - i) + 1 \in 1..n /\ (n - ((n - i) + 1)) + 1 = i
  BY <1>1
<1>4. DOMAIN r = 1..n /\ \A i \in 1..n : r[i] = values[(n - i) + 1] /\ r[i] \in FactValue
  BY <1>1, <1>2, <1>3
<1>5. r \in Seq(FactValue) /\ r # <<>>
  <2>1. r \in [1..n -> FactValue]
    BY <1>2, <1>4
  <2>2. r \in Seq(FactValue)
    BY <1>1, <2>1
  <2>3. r # <<>>
    BY <1>1, <1>4
  <2> QED
    BY <2>2, <2>3
<1>6. \A i \in 1..n : values[i] = r[(n - i) + 1]
  BY <1>3, <1>4
<1> QED
  BY <1>1, <1>3, <1>4, <1>5, <1>6 DEF SameReports, r

\* The order of the reports decides between full ties only.
LEMMA OrderIrrelevant ==
    ASSUME NEW a \in Seq(FactValue), NEW b \in Seq(FactValue), a # <<>>, b # <<>>,
           SameReports(a, b)
    PROVE  /\ \A field : Differ(a, field) <=> Differ(b, field)
           /\ Key(SortedFirst(a)) = Key(SortedFirst(b))
           /\ SortedFirst(a).authority = SortedFirst(b).authority
<1>1. 1 \in DOMAIN a /\ 1 \in DOMAIN b
  OBVIOUS
<1>2. \A field : Differ(a, field) <=> Differ(b, field)
  <2> TAKE field
  <2>1. /\ Differ(a, field) <=> \E i, j \in DOMAIN a : a[i][field] # a[j][field]
        /\ Differ(b, field) <=> \E i, j \in DOMAIN b : b[i][field] # b[j][field]
    BY <1>1, DifferAny
  <2>2. ASSUME NEW i \in DOMAIN a, NEW j \in DOMAIN a, a[i][field] # a[j][field]
        PROVE  \E k, l \in DOMAIN b : b[k][field] # b[l][field]
    <3>1. PICK k \in DOMAIN b, l \in DOMAIN b : a[i] = b[k] /\ a[j] = b[l]
      BY DEF SameReports
    <3> QED
      BY <2>2, <3>1
  <2>3. ASSUME NEW k \in DOMAIN b, NEW l \in DOMAIN b, b[k][field] # b[l][field]
        PROVE  \E i, j \in DOMAIN a : a[i][field] # a[j][field]
    <3>1. PICK i \in DOMAIN a, j \in DOMAIN a : a[i] = b[k] /\ a[j] = b[l]
      BY DEF SameReports
    <3> QED
      BY <2>3, <3>1
  <2> QED
    BY <2>1, <2>2, <2>3
<1>3. PICK i \in DOMAIN a : /\ SortedFirst(a) = a[i]
                            /\ \A k \in DOMAIN a : ~Above(Key(a[k]), Key(a[i]))
  BY WinnerFacts
<1>4. PICK j \in DOMAIN b : /\ SortedFirst(b) = b[j]
                            /\ \A k \in DOMAIN b : ~Above(Key(b[k]), Key(b[j]))
  BY WinnerFacts
<1>5. a[i] \in FactValue /\ b[j] \in FactValue
  BY <1>3, <1>4
<1>6. ~Above(Key(b[j]), Key(a[i])) /\ ~Above(Key(a[i]), Key(b[j]))
  BY <1>3, <1>4 DEF SameReports
<1>7. Key(a[i]) = Key(b[j])
  BY <1>5, <1>6, KeyNumbers, AboveOrders
<1> QED
  BY <1>2, <1>3, <1>4, <1>5, <1>7, KeyNumbers

\* resolve, when there are reports.
LEMMA ResolveFields ==
    ASSUME NEW values, values # <<>>
    PROVE  LET v == resolve(values)
               w == SortedFirst(values)
           IN  IF Differ(values, "value")
               THEN /\ v.winner = w /\ v.conflict = TRUE /\ v.all = values
                    /\ v.flags = Flags(values, w)
               ELSE v.winner = values[1] /\ v.conflict = FALSE /\ v.flags = {}
  BY DEF resolve, Resolved

\* The winner is of the highest authority, and confirmed if one of those is.
LEMMA WinnerOnTop ==
    ASSUME NEW values \in Seq(FactValue), values # <<>>
    PROVE  LET all == {values[j] : j \in DOMAIN values}
               top == {f \in all : \A g \in all : g.authority <= f.authority}
               w == SortedFirst(values)
           IN  /\ w \in top
               /\ (\E f \in top : f.user_confirmed) => w.user_confirmed
<1> DEFINE all == {values[j] : j \in DOMAIN values}
           top == {f \in all : \A g \in all : g.authority <= f.authority}
           w == SortedFirst(values)
<1>1. PICK j \in DOMAIN values : /\ w = values[j]
                                 /\ \A k \in DOMAIN values : ~Above(Key(values[k]), Key(values[j]))
  BY WinnerFacts
<1>2. all \subseteq FactValue /\ w \in all /\ \A g \in all : ~Above(Key(g), Key(w))
  BY <1>1
<1> HIDE DEF all, w
<1>3. \A g \in all : /\ Key(g) \in [1..6 -> Int] /\ DOMAIN Key(g) = 1..6
                     /\ Key(g)[1] = g.authority /\ Key(g)[2] = Bit(g.user_confirmed)
                     /\ g.authority \in Int
  BY <1>2, KeyNumbers DEF FactValue
<1>4. ASSUME NEW g \in all PROVE g.authority <= w.authority
  <2>1. ~(Key(g)[1] > Key(w)[1])
    <3>1. 1 \in DOMAIN Key(g) /\ \A k \in 1..(1 - 1) : Key(g)[k] = Key(w)[k]
      BY <1>3
    <3>2. ~Above(Key(g), Key(w))
      BY <1>2
    <3> QED
      BY <3>1, <3>2 DEF Above
  <2>2. Key(g)[1] = g.authority /\ g.authority \in Int
    BY <1>3
  <2>3. Key(w)[1] = w.authority /\ w.authority \in Int
    BY <1>2, <1>3
  <2> QED
    BY <2>1, <2>2, <2>3
<1>5. w \in top
  BY <1>2, <1>4
<1>6. ASSUME NEW f \in top, f.user_confirmed, ~w.user_confirmed PROVE FALSE
  <2>1. f \in all /\ f.authority = w.authority
    BY <1>2, <1>3, <1>4, <1>6
  <2>2. Key(f)[1] = Key(w)[1] /\ Key(f)[2] = 1 /\ Key(w)[2] = 0
    BY <1>2, <1>3, <1>6, <2>1 DEF Bit
  <2>3. \A k \in 1..(2 - 1) : Key(f)[k] = Key(w)[k]
    BY <2>2
  <2>4. 2 \in DOMAIN Key(f) /\ Key(f)[2] > Key(w)[2]
    BY <1>3, <2>1, <2>2
  <2>5. Above(Key(f), Key(w))
    BY <2>3, <2>4 DEF Above
  <2> QED
    BY <1>2, <2>1, <2>5
<1> QED
  BY <1>5, <1>6 DEF all, w

\* A disagreement is what more than one value is.
LEMMA ConflictCounted ==
    ASSUME NEW values \in Seq(FactValue), values # <<>>
    PROVE  LET all == {values[j] : j \in DOMAIN values}
           IN  Differ(values, "value") <=> Cardinality({f.value : f \in all}) > 1
<1> DEFINE n == Len(values)
           V == {values[j].value : j \in 1..n}
           h == [j \in 1..n |-> values[j].value]
<1>1. n \in Nat /\ DOMAIN values = 1..n /\ 1 \in 1..n
  OBVIOUS
<1>2. {f.value : f \in {values[j] : j \in DOMAIN values}} = V
  BY <1>1
<1>3. IsFiniteSet(V)
  <2>1. h \in Surjection(1..n, V)
    BY DEF Surjection
  <2>2. IsFiniteSet(1..n)
    BY <1>1, UpTo
  <2> HIDE DEF h, V, n
  <2> QED
    BY <2>1, <2>2, FS_Surjection
<1>4. values[1].value \in V
  BY <1>1
<1>5. Differ(values, "value") <=> \E v \in V : v # values[1].value
  BY <1>1 DEF Differ
<1> HIDE DEF V
<1>6. (\E v \in V : v # values[1].value) <=> ~\E v : V = {v}
  <2>1. ASSUME NEW v, V = {v} PROVE \A u \in V : u = values[1].value
    BY <1>4, <2>1
  <2>2. ASSUME \A u \in V : u = values[1].value PROVE V = {values[1].value}
    BY <1>4, <2>2
  <2> QED
    BY <2>1, <2>2
<1>7. Cardinality(V) \in Nat /\ Cardinality(V) # 0
  BY <1>3, <1>4, FS_CardinalityType, FS_EmptySet
<1>8. Cardinality(V) = 1 <=> \E v : V = {v}
  BY <1>3, FS_Singleton
<1>9. Cardinality(V) > 1 <=> Cardinality(V) # 1
  BY <1>7
<1> QED
  BY <1>2, <1>5, <1>6, <1>8, <1>9

\* What resolve promises of any reports.
LEMMA ResolveSound ==
    ASSUME verdict = resolve(reports), reports \in Seq(FactValue), reports # <<>>
    PROVE  FactsWin
<1> DEFINE all == {reports[j] : j \in DOMAIN reports}
           top == {f \in all : \A g \in all : g.authority <= f.authority}
           w == SortedFirst(reports)
           back == Reverse(reports)
           again == resolve(back)
<1>1. back \in Seq(FactValue) /\ back # <<>> /\ SameReports(reports, back)
  BY ReversedReports
<1>2. /\ \A field : Differ(reports, field) <=> Differ(back, field)
      /\ Key(w) = Key(SortedFirst(back)) /\ w.authority = SortedFirst(back).authority
  BY <1>1, OrderIrrelevant
<1>3. w \in top /\ ((\E f \in top : f.user_confirmed) => w.user_confirmed)
  BY WinnerOnTop
<1>4. Differ(reports, "value") <=> Cardinality({f.value : f \in all}) > 1
  BY ConflictCounted
<1>5. 1 \in DOMAIN reports /\ 1 \in DOMAIN back
  BY <1>1
<1> HIDE DEF w, back
<1>6. CASE ~Differ(reports, "value")
  <2>1. verdict.winner = reports[1] /\ verdict.conflict = FALSE /\ verdict.flags = {}
    BY <1>6, ResolveFields
  <2>2. again.winner = back[1] /\ again.flags = {}
    BY <1>1, <1>2, <1>6, ResolveFields
  <2>3. \A f \in all : f.value = reports[1].value
    BY <1>6 DEF Differ
  <2>4. w.value = verdict.winner.value
    BY <1>3, <2>1, <2>3
  <2>5. again.winner \in all
    BY <1>1, <1>5, <2>2 DEF SameReports
  <2>6. again.winner.value = verdict.winner.value
    BY <2>1, <2>3, <2>5
  <2> HIDE DEF again
  <2> QED
    BY <1>3, <1>4, <1>6, <2>1, <2>2, <2>4, <2>6 DEF FactsWin, again, back
<1>7. CASE Differ(reports, "value")
  <2>1. /\ verdict.winner = w /\ verdict.conflict = TRUE /\ verdict.all = reports
        /\ verdict.flags = Flags(reports, w)
    BY <1>7, ResolveFields DEF w
  <2>2. again.winner = SortedFirst(back) /\ again.flags = Flags(back, SortedFirst(back))
    BY <1>1, <1>2, <1>7, ResolveFields
  <2>3. Flags(reports, w) = Flags(back, SortedFirst(back))
    BY <1>2 DEF Flags, ConflictSeverity
  <2>4. \E f \in all : f.value # w.value /\ f \in Range(verdict.all)
    <3>1. PICK i \in DOMAIN reports, j \in DOMAIN reports :
             reports[i].value # reports[j].value
      BY <1>5, <1>7, DifferAny
    <3>2. \A k \in DOMAIN reports : reports[k] \in all /\ reports[k] \in Range(verdict.all)
      BY <2>1 DEF Range
    <3> QED
      BY <3>1, <3>2
  <2> HIDE DEF again
  <2> QED
    BY <1>2, <1>3, <1>4, <1>7, <2>1, <2>2, <2>3, <2>4 DEF FactsWin, again, back
<1> QED
  BY <1>6, <1>7

-----------------------------------------------------------------------------
(* Profiles. *)

\* A finite set of numbers has a greatest: the one that fewest are above.
LEMMA GreatestNumber ==
    ASSUME NEW S \in SUBSET Nat, IsFiniteSet(S), S # {}
    PROVE  \E m \in S : \A x \in S : x <= m
<1> DEFINE Over(x) == {y \in S : y > x}
           T == {Cardinality(Over(x)) : x \in S}
<1>1. \A x \in S : IsFiniteSet(Over(x)) /\ Cardinality(Over(x)) \in Nat
  <2> TAKE x \in S
  <2>1. Over(x) \in SUBSET S
    OBVIOUS
  <2> HIDE DEF Over
  <2> QED
    BY <2>1, FS_Subset, FS_CardinalityType
<1>2. T # {} /\ T \in SUBSET Nat
  BY <1>1
<1>3. PICK t \in T : \A u \in T : t <= u
  <2> HIDE DEF T
  <2> QED
    BY <1>2, LeastNumber
<1>4. PICK m \in S : Cardinality(Over(m)) = t
  OBVIOUS
<1>5. ASSUME NEW x \in S, ~(x <= m) PROVE FALSE
  <2>1. Over(x) \in SUBSET Over(m) /\ x \in Over(m) /\ x \notin Over(x)
    <3>1. x \in Nat /\ m \in Nat /\ x > m /\ \A y \in S : y \in Nat
      BY <1>4, <1>5
    <3>2. \A y \in S : y > x => y > m
      BY <3>1
    <3>3. x \in Over(m) /\ x \notin Over(x)
      BY <3>1
    <3>4. \A y \in Over(x) : y \in Over(m)
      BY <3>2
    <3> QED
      BY <3>3, <3>4, Zenon
  <2>2. Cardinality(Over(m)) <= Cardinality(Over(x))
    BY <1>3, <1>4
  <2> HIDE DEF Over
  <2>3. /\ Cardinality(Over(x)) <= Cardinality(Over(m))
        /\ Cardinality(Over(m)) # Cardinality(Over(x))
    BY <1>1, <2>1, FS_Subset
  <2>4. Cardinality(Over(m)) \in Nat /\ Cardinality(Over(x)) \in Nat
    BY <1>1
  <2> QED
    BY <2>2, <2>3, <2>4
<1> QED
  BY <1>5

\* The first of a set of places.
LEMMA FirstPlace ==
    ASSUME NEW S \in SUBSET Nat, S # {}
    PROVE  Min(S) \in S /\ \A x \in S : Min(S) <= x
<1>1. \E m \in S : \A x \in S : m <= x
  BY LeastNumber
<1> QED
  BY <1>1 DEF Min

LEMMA ProfileNumbers ==
    ASSUME NEW p \in Profile
    PROVE  p.authority \in Int /\ p.version \in Nat
  BY DEF Profile

\* Who precedes comes first.
LEMMA PlaceOrders ==
    ASSUME NEW ps \in Seq(Profile), NEW i \in DOMAIN ps, NEW j \in DOMAIN ps, Precedes(ps, i, j)
    PROVE  Place(ps, i) < Place(ps, j)
<1> DEFINE n == Len(ps)
           B(k) == {l \in 1..n : Precedes(ps, l, k)}
<1>1. /\ n \in Nat /\ DOMAIN ps = 1..n /\ i \in 1..n /\ j \in 1..n
      /\ \A k \in 1..n : ps[k].authority \in Int
  BY ProfileNumbers
<1> HIDE DEF n
<1>2. \A k \in 1..n : IsFiniteSet(B(k)) /\ Cardinality(B(k)) \in Nat
  <2> TAKE k \in 1..n
  <2>1. IsFiniteSet(1..n) /\ B(k) \in SUBSET (1..n)
    BY <1>1, UpTo
  <2> HIDE DEF B
  <2> QED
    BY <2>1, FS_Subset, FS_CardinalityType
<1>3. B(i) \in SUBSET B(j)
  BY <1>1 DEF Precedes
<1>4. i \in B(j) /\ i \notin B(i)
  BY <1>1 DEF Precedes
<1>5. Place(ps, i) = Cardinality(B(i)) + 1 /\ Place(ps, j) = Cardinality(B(j)) + 1
  BY <1>1 DEF Place
<1> HIDE DEF B
<1>6. Cardinality(B(i)) <= Cardinality(B(j)) /\ Cardinality(B(j)) # Cardinality(B(i))
  BY <1>1, <1>2, <1>3, <1>4, FS_Subset
<1> QED
  BY <1>1, <1>2, <1>5, <1>6

\* The sort loses nobody and puts nobody before a higher authority.
LEMMA SortedProfiles ==
    ASSUME NEW ps \in Seq(Profile)
    PROVE  LET sorted == ByAuthority(ps)
           IN  /\ DOMAIN sorted = DOMAIN ps
               /\ \A n \in DOMAIN ps : \E j \in DOMAIN ps : sorted[n] = ps[j]
               /\ \A j \in DOMAIN ps : \E n \in DOMAIN ps : sorted[n] = ps[j]
               /\ \A m, n \in DOMAIN ps :
                     m <= n => sorted[n].authority <= sorted[m].authority
<1> DEFINE N == Len(ps)
           place == [j \in 1..N |-> Place(ps, j)]
           at(n) == CHOOSE j \in 1..N : Place(ps, j) = n
           sorted == ByAuthority(ps)
<1>1. N \in Nat /\ DOMAIN ps = 1..N /\ \A k \in 1..N : ps[k].authority \in Int
  BY ProfileNumbers
<1>2. sorted = [n \in 1..N |-> ps[at(n)]]
  BY <1>1 DEF ByAuthority
<1> HIDE DEF N, sorted
<1>3. \A i, j \in 1..N : i # j => Precedes(ps, i, j) \/ Precedes(ps, j, i)
  BY <1>1 DEF Precedes
<1>4. \A j \in 1..N : Place(ps, j) \in 1..N
  <2> TAKE j \in 1..N
  <2> DEFINE B == {i \in 1..N : Precedes(ps, i, j)}
             R == (1..N) \ {j}
  <2>1. Place(ps, j) = Cardinality(B) + 1
    BY <1>1 DEF Place
  <2>2. B \in SUBSET R
    BY <1>1 DEF Precedes
  <2>3. IsFiniteSet(1..N) /\ Cardinality(1..N) = N
    BY <1>1, UpTo
  <2>4. IsFiniteSet(R) /\ Cardinality(R) = N - 1
    BY <2>3, FS_RemoveElement
  <2> HIDE DEF B, R
  <2>5. Cardinality(B) \in Nat /\ Cardinality(B) <= N - 1
    BY <2>2, <2>4, FS_Subset, FS_CardinalityType
  <2> QED
    BY <1>1, <2>1, <2>5
<1>5. \A i, j \in 1..N : Precedes(ps, i, j) => Place(ps, i) < Place(ps, j)
  BY <1>1, PlaceOrders
<1>6. ASSUME NEW i \in 1..N, NEW j \in 1..N, i # j PROVE Place(ps, i) # Place(ps, j)
  <2>1. Place(ps, i) < Place(ps, j) \/ Place(ps, j) < Place(ps, i)
    BY <1>3, <1>5, <1>6
  <2>2. Place(ps, i) \in 1..N /\ Place(ps, j) \in 1..N
    BY <1>4
  <2> QED
    BY <1>1, <2>1, <2>2
<1>7. place \in Surjection(1..N, 1..N)
  <2>1. place \in Injection(1..N, 1..N)
    BY <1>4, <1>6 DEF Injection, IsInjective
  <2>2. IsFiniteSet(1..N)
    BY <1>1, UpTo
  <2> HIDE DEF place
  <2> QED
    BY <2>1, <2>2, FS_Injection
<1>8. \A n \in 1..N : \E j \in 1..N : Place(ps, j) = n
  BY <1>7 DEF Surjection
<1>9. \A n \in 1..N : at(n) \in 1..N /\ Place(ps, at(n)) = n
  BY <1>8
<1> HIDE DEF at
<1>10. \A j \in 1..N : at(Place(ps, j)) = j
  BY <1>4, <1>6, <1>9
<1>11. DOMAIN sorted = 1..N /\ \A n \in 1..N : sorted[n] = ps[at(n)]
  BY <1>2
<1>12. \A j \in 1..N : \E n \in 1..N : sorted[n] = ps[j]
  BY <1>4, <1>10, <1>11
<1>13. ASSUME NEW m \in 1..N, NEW n \in 1..N, m <= n
       PROVE  sorted[n].authority <= sorted[m].authority
  <2>1. at(m) \in 1..N /\ at(n) \in 1..N /\ Place(ps, at(m)) = m /\ Place(ps, at(n)) = n
    BY <1>9
  <2>2. ~Precedes(ps, at(n), at(m))
    BY <1>1, <1>5, <1>13, <2>1
  <2>3. ~(ps[at(n)].authority > ps[at(m)].authority)
    BY <2>2 DEF Precedes
  <2> QED
    BY <1>1, <1>11, <2>1, <2>3
<1> QED
  BY <1>1, <1>9, <1>11, <1>12, <1>13 DEF sorted

\* merge_profiles, when there is more than one.
LEMMA MergeFields ==
    ASSUME NEW ps, Len(ps) # 1
    PROVE  LET sorted == ByAuthority(ps)
               v == merge_profiles(ps)
           IN  /\ v.profile.role = resolve_opt_string(sorted).value
               /\ v.profile.preferences = merge_json_object(sorted).value
               /\ v.profile.consent = resolve_json(sorted).value
               /\ v.profile.links = union_arrays(sorted)
               /\ v.profile.version = Max({ps[j].version : j \in DOMAIN ps})
               /\ resolve_opt_string(sorted).conflict => "role" \in v.conflicts
  BY DEF merge_profiles

\* The version is the highest.
LEMMA HighestVersion ==
    ASSUME NEW ps \in Seq(Profile), NEW j \in DOMAIN ps
    PROVE  ps[j].version <= Max({ps[i].version : i \in DOMAIN ps})
<1> DEFINE n == Len(ps)
           V == {ps[i].version : i \in 1..n}
           h == [i \in 1..n |-> ps[i].version]
<1>1. n \in Nat /\ DOMAIN ps = 1..n
  OBVIOUS
<1>2. IsFiniteSet(V)
  <2>1. h \in Surjection(1..n, V)
    BY DEF Surjection
  <2>2. IsFiniteSet(1..n)
    BY <1>1, UpTo
  <2> HIDE DEF h, V, n
  <2> QED
    BY <2>1, <2>2, FS_Surjection
<1>3. V \in SUBSET Nat /\ ps[j].version \in V
  BY <1>1, ProfileNumbers
<1>4. V = {ps[i].version : i \in DOMAIN ps}
  BY <1>1
<1> HIDE DEF V
<1>5. \E m \in V : \A x \in V : x <= m
  BY <1>2, <1>3, GreatestNumber
<1>6. \A x \in V : x <= Max(V)
  BY <1>5 DEF Max
<1> QED
  BY <1>3, <1>4, <1>6

\* What merge_profiles promises of any profiles.
LEMMA MergeSound ==
    ASSUME verdict = merge_profiles(profiles), profiles \in Seq(Profile), profiles # <<>>
    PROVE  MergeKeepsAuthority
<1> DEFINE n == Len(profiles)
           all == Range(profiles)
           merged == verdict.profile
           said(p) == p.role # Missing
<1>1. /\ n \in Nat /\ n >= 1 /\ DOMAIN profiles = 1..n
      /\ all = {profiles[j] : j \in 1..n} /\ all \subseteq Profile
  BY DEF Range
<1>2. CASE n = 1
  <2>1. merged = profiles[1] /\ verdict.conflicts = {}
    BY <1>2 DEF merge_profiles
  <2>2. all = {profiles[1]}
    BY <1>1, <1>2
  <2>3. profiles[1].authority <= profiles[1].authority /\ profiles[1].version <= profiles[1].version
    BY <1>1, <2>2, ProfileNumbers
  <2> QED
    BY <2>1, <2>2, <2>3 DEF MergeKeepsAuthority
<1>3. CASE n # 1
  <2> DEFINE sorted == ByAuthority(profiles)
  <2>1. /\ DOMAIN sorted = 1..n
        /\ \A k \in 1..n : sorted[k] \in all
        /\ \A p \in all : \E k \in 1..n : sorted[k] = p
        /\ \A k, l \in 1..n : k <= l => sorted[l].authority <= sorted[k].authority
    <3>1. /\ DOMAIN sorted = DOMAIN profiles
          /\ \A k \in DOMAIN profiles : \E j \in DOMAIN profiles : sorted[k] = profiles[j]
          /\ \A j \in DOMAIN profiles : \E k \in DOMAIN profiles : sorted[k] = profiles[j]
          /\ \A k, l \in DOMAIN profiles :
                k <= l => sorted[l].authority <= sorted[k].authority
      BY SortedProfiles, Zenon
    <3> HIDE DEF n, all, sorted
    <3>2. \A k \in 1..n : sorted[k] \in all
      BY <1>1, <3>1
    <3>3. ASSUME NEW p \in all PROVE \E k \in 1..n : sorted[k] = p
      <4>1. PICK j \in 1..n : p = profiles[j]
        BY <1>1
      <4> QED
        BY <1>1, <3>1, <4>1
    <3> QED
      BY <1>1, <3>1, <3>2, <3>3
  <2>2. /\ merged.role = resolve_opt_string(sorted).value
        /\ merged.preferences = merge_json_object(sorted).value
        /\ merged.consent = resolve_json(sorted).value
        /\ merged.links = union_arrays(sorted)
        /\ merged.version = Max({profiles[j].version : j \in DOMAIN profiles})
        /\ resolve_opt_string(sorted).conflict => "role" \in verdict.conflicts
    BY <1>3, MergeFields
  <2> HIDE DEF n, all, merged, sorted
  <2>3. ASSUME NEW p0 \in all, said(p0)
        PROVE  \E p \in all : /\ p.role = merged.role
                              /\ \A q \in all : said(q) => q.authority <= p.authority
    <3> DEFINE G == {k \in 1..n : sorted[k].role # Missing}
               first == Min(G)
    <3>1. G \in SUBSET Nat /\ G # {}
      <4>1. PICK k \in 1..n : sorted[k] = p0
        BY <2>1
      <4>2. k \in G
        BY <2>3, <4>1
      <4> QED
        BY <1>1, <4>2
    <3>2. first \in G /\ \A k \in G : first <= k
      <4> HIDE DEF G
      <4> QED
        BY <3>1, FirstPlace
    <3>3. merged.role = sorted[first].role
      BY <2>1, <2>2, <3>1 DEF resolve_opt_string
    <3> HIDE DEF first
    <3>4. first \in 1..n /\ sorted[first] \in all
      BY <2>1, <3>2
    <3>5. ASSUME NEW q \in all, said(q) PROVE q.authority <= sorted[first].authority
      <4>1. PICK k \in 1..n : sorted[k] = q
        BY <2>1
      <4>2. first <= k
        BY <3>2, <3>5, <4>1
      <4> QED
        BY <2>1, <3>4, <4>1, <4>2
    <3> QED
      BY <3>3, <3>4, <3>5
  <2>4. \E p \in all : p.consent = merged.consent /\ \A q \in all : q.authority <= p.authority
    <3>1. merged.consent = sorted[1].consent /\ 1 \in 1..n
      BY <1>1, <2>2 DEF resolve_json
    <3>2. ASSUME NEW q \in all PROVE q.authority <= sorted[1].authority
      <4>1. PICK k \in 1..n : sorted[k] = q
        BY <2>1
      <4> QED
        <5>1. 1 <= k
          BY <1>1
        <5> QED
          BY <2>1, <3>1, <4>1, <5>1
    <3> QED
      BY <2>1, <3>1, <3>2
  <2>5. ASSUME \A p \in all : p.preferences.kind # "plain",
               NEW p \in all, p.preferences.kind = "object", NEW key \in DOMAIN p.preferences.map
        PROVE  \E q \in all : /\ q.authority >= p.authority
                              /\ q.preferences.kind = "object"
                              /\ key \in DOMAIN q.preferences.map
                              /\ q.preferences.map[key] = merged.preferences.map[key]
    <3> DEFINE objects == {j \in 1..n : sorted[j].preferences.kind = "object"}
               keys == UNION {DOMAIN sorted[j].preferences.map : j \in objects}
               G(k) == {j \in objects : k \in DOMAIN sorted[j].preferences.map}
               owner == Min(G(key))
    <3>1. PICK i \in 1..n : sorted[i] = p
      BY <2>1
    <3>2. i \in G(key) /\ key \in keys
      BY <2>5, <3>1
    <3>3. owner \in G(key) /\ \A k \in G(key) : owner <= k
      <4>1. G(key) \in SUBSET Nat /\ G(key) # {}
        BY <1>1, <3>2
      <4> HIDE DEF G
      <4> QED
        BY <4>1, FirstPlace
    <3>4. {j \in DOMAIN sorted : sorted[j].preferences.kind = "plain"} = {}
      BY <2>1, <2>5
    <3>5. merged.preferences
             = [kind |-> "object", map |-> [k \in keys |-> sorted[Min(G(k))].preferences.map[k]]]
      BY <2>1, <2>2, <3>4 DEF merge_json_object
    <3>6. merged.preferences.map[key] = sorted[owner].preferences.map[key]
      <4> HIDE DEF keys, G
      <4>1. merged.preferences.map = [k \in keys |-> sorted[Min(G(k))].preferences.map[k]]
        BY <3>5
      <4> QED
        BY <3>2, <4>1
    <3> HIDE DEF owner
    <3>7. owner \in 1..n /\ owner <= i /\ sorted[owner].preferences.kind = "object"
          /\ key \in DOMAIN sorted[owner].preferences.map
      BY <3>2, <3>3
    <3>8. sorted[owner] \in all /\ p.authority <= sorted[owner].authority
      BY <2>1, <3>1, <3>7
    <3>9. sorted[owner].authority >= p.authority
      BY <1>1, <3>8, ProfileNumbers
    <3> QED
      BY <3>6, <3>7, <3>8, <3>9
  <2>6. ASSUME NEW p \in all, NEW q \in all, said(p), said(q), p.role # q.role
        PROVE  "role" \in verdict.conflicts
    <3>1. PICK k \in 1..n, l \in 1..n : sorted[k] = p /\ sorted[l] = q
      BY <2>1
    <3>2. resolve_opt_string(sorted).conflict
      BY <2>1, <2>6, <3>1 DEF resolve_opt_string
    <3> QED
      BY <2>2, <3>2
  <2>7. ASSUME NEW p \in all PROVE p.links \subseteq merged.links /\ p.version <= merged.version
    <3>1. PICK k \in 1..n : sorted[k] = p
      BY <2>1
    <3>2. p.links \subseteq merged.links
      BY <2>1, <2>2, <3>1 DEF union_arrays
    <3>3. PICK j \in DOMAIN profiles : profiles[j] = p
      BY <1>1
    <3> QED
      BY <2>2, <3>2, <3>3, HighestVersion
  <2> QED
    BY <2>3, <2>4, <2>5, <2>6, <2>7 DEF MergeKeepsAuthority, all, merged
<1> QED
  BY <1>2, <1>3

\* A verdict is the one on what was reported, and nothing is reported after it.
Settled ==
    /\ reports \in Seq(FactValue) /\ profiles \in Seq(Profile)
    /\ verdict # Missing => verdict = IF profiles = <<>> THEN resolve(reports)
                                      ELSE merge_profiles(profiles)

LEMMA SettledStep == Settled /\ (FactNext \/ UNCHANGED fact_vars) => Settled'
<1> SUFFICES ASSUME Settled, FactNext \/ UNCHANGED fact_vars PROVE Settled'
  OBVIOUS
<1>1. CASE UNCHANGED fact_vars
  BY <1>1 DEF fact_vars, Settled
<1>2. ASSUME NEW f \in Facts, Report(f) PROVE Settled'
  <2>1. verdict' = Missing /\ reports' = Append(reports, f) /\ profiles' = profiles
        /\ f \in FactValue
    BY <1>2, FactsAssumption DEF Report
  <2> QED
    BY <2>1 DEF Settled
<1>3. ASSUME NEW p \in Profiles, ReportProfile(p) PROVE Settled'
  <2>1. verdict' = Missing /\ profiles' = Append(profiles, p) /\ reports' = reports
        /\ p \in Profile
    BY <1>3, FactsAssumption DEF ReportProfile
  <2> QED
    BY <2>1 DEF Settled
<1>4. CASE Resolve
  BY <1>4 DEF Resolve, Settled
<1>5. CASE MergeProfiles
  BY <1>5 DEF MergeProfiles, Settled
<1> QED
  BY <1>1, <1>2, <1>3, <1>4, <1>5 DEF FactNext

LEMMA SettledSound == Settled => FactsWin /\ MergeKeepsAuthority
<1> SUFFICES ASSUME Settled PROVE FactsWin /\ MergeKeepsAuthority
  OBVIOUS
<1>1. CASE verdict = Missing
  BY <1>1 DEF FactsWin, MergeKeepsAuthority
<1>2. CASE verdict # Missing /\ profiles = <<>>
  <2>1. FactsWin
    <3>1. CASE reports = <<>>
      BY <3>1 DEF FactsWin
    <3>2. CASE reports # <<>>
      BY <1>2, <3>2, ResolveSound DEF Settled
    <3> QED
      BY <3>1, <3>2
  <2> QED
    BY <1>2, <2>1 DEF MergeKeepsAuthority
<1>3. CASE verdict # Missing /\ profiles # <<>>
  <2>1. MergeKeepsAuthority
    BY <1>3, MergeSound DEF Settled
  <2> QED
    BY <1>3, <2>1 DEF FactsWin
<1> QED
  BY <1>1, <1>2, <1>3

-----------------------------------------------------------------------------
(* Walks along relations. *)

Edge(rels, a, b) == \E r \in rels : {r[1], r[2]} = {a, b}

\* Some walk of k relations leads from a to b.
Linked(rels, a, b, k) ==
    \E f \in [0..k -> Nat] : f[0] = a /\ f[k] = b /\ \A j \in 1..k : Edge(rels, f[j - 1], f[j])

LEMMA EdgeFacts ==
    ASSUME NEW rels, NEW a, NEW b
    PROVE  Edge(rels, a, b) <=> \E r \in rels : (r[1] = a /\ r[2] = b) \/ (r[1] = b /\ r[2] = a)
  BY DEF Edge

LEMMA LinkedNowhere ==
    ASSUME NEW rels, NEW a \in Nat, NEW b
    PROVE  Linked(rels, a, b, 0) <=> b = a
<1>1. ASSUME b = a PROVE Linked(rels, a, b, 0)
  <2>1. PICK f : f = [j \in 0..0 |-> a]
    OBVIOUS
  <2>2. f \in [0..0 -> Nat] /\ f[0] = a /\ f[0] = b /\ \A j \in 1..0 : Edge(rels, f[j - 1], f[j])
    BY <1>1, <2>1
  <2> QED
    BY <2>2 DEF Linked
<1> QED
  BY <1>1 DEF Linked

LEMMA LinkedOn ==
    ASSUME NEW rels, NEW a \in Nat, NEW k \in Nat, NEW b, NEW c \in Nat,
           Linked(rels, a, b, k), Edge(rels, b, c)
    PROVE  Linked(rels, a, c, k + 1)
<1>1. PICK f \in [0..k -> Nat] : f[0] = a /\ f[k] = b /\ \A j \in 1..k : Edge(rels, f[j - 1], f[j])
  BY DEF Linked
<1>2. PICK g : g = [j \in 0..(k + 1) |-> IF j <= k THEN f[j] ELSE c]
  OBVIOUS
<1>3. g \in [0..(k + 1) -> Nat] /\ g[0] = a /\ g[k + 1] = c /\ g[k] = b
  BY <1>1, <1>2
<1>4. ASSUME NEW j \in 1..(k + 1) PROVE Edge(rels, g[j - 1], g[j])
  <2>1. CASE j = k + 1
    BY <1>3, <2>1
  <2>2. CASE j # k + 1
    <3>1. j \in 1..k /\ j - 1 \in 0..k /\ j \in 0..k
      BY <2>2
    <3>2. g[j - 1] = f[j - 1] /\ g[j] = f[j]
      BY <1>2, <3>1
    <3> QED
      BY <1>1, <3>1, <3>2
  <2> QED
    BY <2>1, <2>2
<1> QED
  BY <1>3, <1>4 DEF Linked

LEMMA LinkedBefore ==
    ASSUME NEW rels, NEW a \in Nat, NEW k \in Nat, NEW c, Linked(rels, a, c, k + 1)
    PROVE  c \in Nat /\ \E b \in Nat : Linked(rels, a, b, k) /\ Edge(rels, b, c)
<1>1. PICK f \in [0..(k + 1) -> Nat] :
         f[0] = a /\ f[k + 1] = c /\ \A j \in 1..(k + 1) : Edge(rels, f[j - 1], f[j])
  BY DEF Linked
<1>2. PICK g : g = [j \in 0..k |-> f[j]]
  OBVIOUS
<1>3. g \in [0..k -> Nat] /\ g[0] = a /\ g[k] = f[k] /\ f[k] \in Nat /\ c \in Nat
  BY <1>1, <1>2
<1>4. ASSUME NEW j \in 1..k PROVE Edge(rels, g[j - 1], g[j])
  <2>1. j \in 1..(k + 1) /\ j - 1 \in 0..k /\ j \in 0..k
    OBVIOUS
  <2> QED
    BY <1>1, <1>2, <2>1
<1>5. Edge(rels, f[k], c)
  <2>1. k + 1 \in 1..(k + 1) /\ (k + 1) - 1 = k
    OBVIOUS
  <2> QED
    BY <1>1, <2>1
<1> QED
  BY <1>3, <1>4, <1>5 DEF Linked

LEMMA MoreLinked ==
    ASSUME NEW rels, NEW more, rels \subseteq more, NEW a, NEW b, NEW k, Linked(rels, a, b, k)
    PROVE  Linked(more, a, b, k)
  BY DEF Linked, Edge

\* A walk that is as long as there are entities can be cut short.
LEMMA LinkedShortly ==
    ASSUME NEW n \in Nat, NEW rels, \A r \in rels : r[1] \in 1..n /\ r[2] \in 1..n,
           NEW a \in 1..n, NEW b, NEW k \in Nat, Linked(rels, a, b, k)
    PROVE  \E m \in 0..(n - 1) : m <= k /\ Linked(rels, a, b, m)
<1>1. PICK m \in {x \in 0..k : Linked(rels, a, b, x)} :
         \A x \in {y \in 0..k : Linked(rels, a, b, y)} : m <= x
  <2>1. {x \in 0..k : Linked(rels, a, b, x)} \in SUBSET Nat /\ k \in {x \in 0..k : Linked(rels, a, b, x)}
    OBVIOUS
  <2> QED
    BY <2>1, LeastNumber
<1>2. PICK f \in [0..m -> Nat] : f[0] = a /\ f[m] = b /\ \A j \in 1..m : Edge(rels, f[j - 1], f[j])
  BY <1>1 DEF Linked
<1>3. ASSUME NEW j \in 0..m PROVE f[j] \in 1..n
  <2>1. CASE j = 0
    BY <1>2, <2>1
  <2>2. CASE j # 0
    <3>1. Edge(rels, f[j - 1], f[j])
      BY <1>1, <1>2, <2>2
    <3> QED
      BY <3>1, EdgeFacts
  <2> QED
    BY <2>1, <2>2
<1>4. ASSUME NEW i \in 0..m, NEW j \in 0..m, i < j, f[i] = f[j] PROVE FALSE
  <2>1. m \in Nat /\ m - (j - i) \in 0..k /\ m - (j - i) < m
    BY <1>1, <1>4
  <2>2. PICK d : d = m - (j - i)
    OBVIOUS
  <2>3. PICK g : g = [x \in 0..d |-> IF x <= i THEN f[x] ELSE f[x + (j - i)]]
    OBVIOUS
  <2>4. d \in Nat /\ i \in 0..d /\ d + (j - i) = m
    BY <1>4, <2>1, <2>2
  <2>5. ASSUME NEW x \in 0..d
        PROVE  /\ x \in 0..m /\ x + (j - i) \in 0..m
               /\ g[x] = IF x <= i THEN f[x] ELSE f[x + (j - i)]
    BY <1>4, <2>1, <2>3, <2>4
  <2>6. g \in [0..d -> Nat]
    BY <1>2, <2>3, <2>5
  <2>7. g[0] = a
    BY <1>2, <2>4, <2>5
  <2>8. g[d] = b
    <3>1. CASE d = i
      BY <1>2, <1>4, <2>4, <2>5, <3>1
    <3>2. CASE d # i
      <4>1. ~(d <= i) /\ d \in 0..d
        BY <2>4, <3>2
      <4>2. g[d] = f[d + (j - i)]
        BY <2>5, <4>1
      <4> QED
        BY <1>2, <2>4, <4>2
    <3> QED
      BY <3>1, <3>2
  <2>9. ASSUME NEW x \in 1..d PROVE Edge(rels, g[x - 1], g[x])
    <3>1. x \in 0..d /\ x - 1 \in 0..d /\ x \in Nat /\ d \in Nat
      BY <2>4
    <3>2. CASE x <= i
      <4>1. g[x] = f[x] /\ g[x - 1] = f[x - 1] /\ x \in 1..m
        BY <2>4, <2>5, <3>1, <3>2
      <4> QED
        BY <1>2, <4>1
    <3>3. CASE ~(x <= i)
      <4>1. g[x] = f[x + (j - i)] /\ x + (j - i) \in 1..m
        BY <1>4, <2>4, <2>5, <3>1, <3>3
      <4>2. g[x - 1] = f[(x + (j - i)) - 1]
        <5>1. CASE x - 1 = i
          <6>1. g[x - 1] = f[i] /\ (x + (j - i)) - 1 = j
            BY <1>4, <2>5, <3>1, <5>1
          <6> QED
            BY <1>4, <6>1
        <5>2. CASE x - 1 # i
          <6>1. g[x - 1] = f[(x - 1) + (j - i)] /\ (x - 1) + (j - i) = (x + (j - i)) - 1
            BY <1>4, <2>5, <3>1, <3>3, <5>2
          <6> QED
            BY <6>1
        <5> QED
          BY <5>1, <5>2
      <4> QED
        BY <1>2, <4>1, <4>2
    <3> QED
      BY <3>2, <3>3
  <2>10. Linked(rels, a, b, d)
    BY <2>6, <2>7, <2>8, <2>9 DEF Linked
  <2> QED
    BY <1>1, <2>1, <2>2, <2>10
<1>5. f \in Injection(0..m, 1..n)
  <2>1. \A i, j \in 0..m : f[i] = f[j] => i = j
    BY <1>1, <1>4
  <2>2. f \in [0..m -> 1..n]
    BY <1>2, <1>3
  <2> QED
    BY <2>1, <2>2 DEF Injection, IsInjective
<1>6. Cardinality(0..m) <= Cardinality(1..n)
  BY <1>5, FS_Injection, FS_Interval
<1>7. Cardinality(0..m) = m + 1 /\ Cardinality(1..n) = n
  BY <1>1, FS_Interval
<1> QED
  BY <1>1, <1>6, <1>7

\* What the property says of walks between entities is said of any walk.
LEMMA JoinedIsLinked ==
    ASSUME Len(entities) \in Nat, Ids = 1..Len(entities),
           NEW rels, \A r \in rels : r[1] \in Ids /\ r[2] \in Ids,
           NEW a \in Ids, NEW b, NEW k \in Nat
    PROVE  Joined(rels, a, b, k) <=> Linked(rels, a, b, k)
<1>1. ASSUME Joined(rels, a, b, k) PROVE Linked(rels, a, b, k)
  <2>1. PICK f \in [0..k -> Ids] :
           f[0] = a /\ f[k] = b /\ \A j \in 1..k : \E r \in rels : {r[1], r[2]} = {f[j - 1], f[j]}
    BY <1>1 DEF Joined
  <2>2. f \in [0..k -> Nat]
    BY <2>1
  <2> QED
    BY <2>1, <2>2 DEF Linked, Edge
<1>2. ASSUME Linked(rels, a, b, k) PROVE Joined(rels, a, b, k)
  <2>1. PICK f \in [0..k -> Nat] :
           f[0] = a /\ f[k] = b /\ \A j \in 1..k : Edge(rels, f[j - 1], f[j])
    BY <1>2 DEF Linked
  <2>2. ASSUME NEW j \in 0..k PROVE f[j] \in Ids
    <3>1. CASE j = 0
      BY <2>1, <3>1
    <3>2. CASE j # 0
      <4>1. Edge(rels, f[j - 1], f[j])
        BY <2>1, <3>2
      <4> QED
        BY <4>1, EdgeFacts
    <3> QED
      BY <3>1, <3>2
  <2>3. f \in [0..k -> Ids]
    BY <2>1, <2>2
  <2> QED
    BY <2>1, <2>3 DEF Joined, Edge
<1> QED
  BY <1>1, <1>2

-----------------------------------------------------------------------------
(* The search in the list. *)

\* What is found from the entities of S in the list.
Spread(adjacency, S) == UNION {adjacency[e] : e \in S \cap DOMAIN adjacency}

LEMMA SpreadFacts ==
    ASSUME NEW adjacency, NEW S, NEW x
    PROVE  x \in Spread(adjacency, S) <=> \E e \in S \cap DOMAIN adjacency : x \in adjacency[e]
  BY DEF Spread

\* g has what is seen, up to the n-th hop.
SeenTo(adjacency, start, n, g) ==
    g = [d \in 0..n |-> IF d = 0 THEN {start} ELSE g[d - 1] \cup Spread(adjacency, g[d - 1])]

LEMMA SeenExists ==
    ASSUME NEW adjacency, NEW start, NEW depth \in Nat
    PROVE  \E g : SeenTo(adjacency, start, depth, g)
<1> DEFINE bad == {n \in 0..depth : ~\E g : SeenTo(adjacency, start, n, g)}
<1>1. SUFFICES ASSUME bad # {} PROVE FALSE
  OBVIOUS
<1>2. PICK m \in bad : \A n \in bad : m <= n
  <2>1. bad \in SUBSET Nat
    OBVIOUS
  <2> HIDE DEF bad
  <2> QED
    BY <1>1, <2>1, LeastNumber
<1>3. CASE m = 0
  <2>1. PICK g : g = [d \in 0..0 |-> {start}]
    OBVIOUS
  <2>2. g = [d \in 0..0 |-> IF d = 0 THEN {start} ELSE g[d - 1] \cup Spread(adjacency, g[d - 1])]
    BY <2>1
  <2> QED
    BY <1>2, <1>3, <2>2 DEF SeenTo
<1>4. CASE m # 0
  <2>1. m \in 1..depth /\ m - 1 \in 0..depth /\ m - 1 \notin bad
    BY <1>2, <1>4
  <2>2. PICK g : SeenTo(adjacency, start, m - 1, g)
    BY <2>1
  <2>3. PICK h : h = [d \in 0..m |-> IF d < m THEN g[d]
                                     ELSE g[m - 1] \cup Spread(adjacency, g[m - 1])]
    OBVIOUS
  <2>4. \A d \in 0..(m - 1) :
           g[d] = IF d = 0 THEN {start} ELSE g[d - 1] \cup Spread(adjacency, g[d - 1])
    BY <2>2 DEF SeenTo
  <2>5. \A d \in 0..(m - 1) : h[d] = g[d]
    BY <2>1, <2>3
  <2>6. h[m] = g[m - 1] \cup Spread(adjacency, g[m - 1])
    BY <2>1, <2>3
  <2>7. ASSUME NEW d \in 0..m
        PROVE  h[d] = IF d = 0 THEN {start} ELSE h[d - 1] \cup Spread(adjacency, h[d - 1])
    <3>1. CASE d = m
      <4>1. h[d - 1] = g[m - 1]
        BY <2>1, <2>5, <3>1
      <4> QED
        BY <1>4, <2>6, <3>1, <4>1
    <3>2. CASE d # m
      <4>1. d \in 0..(m - 1) /\ (d # 0 => d - 1 \in 0..(m - 1))
        BY <2>1, <3>2
      <4> QED
        BY <2>4, <2>5, <4>1
    <3> QED
      BY <3>1, <3>2
  <2>8. h = [d \in 0..m |-> h[d]]
    BY <2>3
  <2>9. SeenTo(adjacency, start, m, h)
    BY <2>7, <2>8 DEF SeenTo
  <2> QED
    BY <1>2, <2>9
<1> QED
  BY <1>3, <1>4

\* g has what is seen within each number of hops: the start, and then what is next to
\* what was seen before.
Seeing(adjacency, start, depth, g) ==
    /\ g[0] = {start}
    /\ \A d \in 1..depth : g[d] = g[d - 1] \cup Spread(adjacency, g[d - 1])

LEMMA SeenFacts ==
    ASSUME NEW adjacency, NEW start, NEW depth \in Nat
    PROVE  Seeing(adjacency, start, depth, Seen(adjacency, start, depth))
<1>1. PICK g : g = CHOOSE f : SeenTo(adjacency, start, depth, f)
  OBVIOUS
<1>2. SeenTo(adjacency, start, depth, g)
  BY <1>1, SeenExists
<1>3. g = Seen(adjacency, start, depth)
  BY <1>1 DEF Seen, SeenTo, Spread
<1>4. \A d \in 0..depth :
         g[d] = IF d = 0 THEN {start} ELSE g[d - 1] \cup Spread(adjacency, g[d - 1])
  BY <1>2 DEF SeenTo
<1>5. ASSUME NEW d \in 1..depth PROVE g[d] = g[d - 1] \cup Spread(adjacency, g[d - 1])
  <2>1. d \in 0..depth /\ d # 0
    OBVIOUS
  <2> QED
    BY <1>4, <2>1
<1>6. g[0] = {start}
  <2>1. 0 \in 0..depth
    OBVIOUS
  <2> QED
    BY <1>4, <2>1
<1>7. Seeing(adjacency, start, depth, g)
  BY <1>5, <1>6 DEF Seeing
<1> QED
  BY <1>3, <1>7

\* What is seen within some hops is seen within more.
LEMMA SeenGrows ==
    ASSUME NEW adjacency, NEW start, NEW depth \in Nat, NEW g, Seeing(adjacency, start, depth, g),
           NEW c \in 0..depth, NEW d \in 0..depth, c <= d
    PROVE  g[c] \subseteq g[d]
<1> DEFINE bad == {n \in c..d : ~(g[c] \subseteq g[n])}
<1>1. SUFFICES ASSUME bad # {} PROVE FALSE
  BY DEF bad
<1>2. PICK m \in bad : \A n \in bad : m <= n
  <2>1. bad \in SUBSET Nat
    OBVIOUS
  <2> HIDE DEF bad
  <2> QED
    BY <1>1, <2>1, LeastNumber
<1>3. m # c
  BY <1>2
<1>4. m \in 1..depth /\ m - 1 \in c..d /\ m - 1 \notin bad
  BY <1>2, <1>3
<1>5. g[c] \subseteq g[m - 1]
  BY <1>4
<1>6. g[m] = g[m - 1] \cup Spread(adjacency, g[m - 1])
  BY <1>4 DEF Seeing
<1> QED
  BY <1>2, <1>5, <1>6

\* What is seen first after d hops is linked by d of the relations the list has.
LEMMA SeenIsLinked ==
    ASSUME NEW rels, NEW adjacency,
           \A e \in DOMAIN adjacency : \A x \in adjacency[e] : x \in Nat /\ Edge(rels, e, x),
           NEW start \in Nat, NEW depth \in Nat, NEW g, Seeing(adjacency, start, depth, g)
    PROVE  \A d \in 0..depth : \A x \in g[d] :
              x \in Nat /\ (d = 0 \/ x \notin g[d - 1] => Linked(rels, start, x, d))
<1> DEFINE Fine(d) == \A x \in g[d] :
              x \in Nat /\ (d = 0 \/ x \notin g[d - 1] => Linked(rels, start, x, d))
           bad == {d \in 0..depth : ~Fine(d)}
<1>1. SUFFICES ASSUME bad # {} PROVE FALSE
  OBVIOUS
<1>2. PICK m \in bad : \A n \in bad : m <= n
  <2>1. bad \in SUBSET Nat
    OBVIOUS
  <2> HIDE DEF bad
  <2> QED
    BY <1>1, <2>1, LeastNumber
<1>3. CASE m = 0
  <2>1. g[0] = {start}
    BY DEF Seeing
  <2>2. Fine(0)
    BY <2>1, LinkedNowhere
  <2> QED
    BY <1>2, <1>3, <2>2
<1>4. CASE m # 0
  <2>1. m \in 1..depth /\ m - 1 \in 0..depth /\ m - 1 \notin bad /\ (m - 1) + 1 = m
    BY <1>2, <1>4
  <2>2. Fine(m - 1)
    BY <2>1
  <2>3. g[m] = g[m - 1] \cup Spread(adjacency, g[m - 1])
    BY <2>1 DEF Seeing
  <2>4. ASSUME NEW x \in g[m]
        PROVE  x \in Nat /\ (x \notin g[m - 1] => Linked(rels, start, x, m))
    <3>1. CASE x \in g[m - 1]
      BY <2>2, <3>1
    <3>2. CASE x \notin g[m - 1]
      <4>1. PICK e \in g[m - 1] \cap DOMAIN adjacency : x \in adjacency[e]
        BY <2>3, <2>4, <3>2, SpreadFacts
      <4>2. x \in Nat /\ Edge(rels, e, x)
        BY <4>1
      <4>3. m - 1 # 0 => e \notin g[(m - 1) - 1]
        <5>1. SUFFICES ASSUME m - 1 # 0, e \in g[(m - 1) - 1] PROVE FALSE
          OBVIOUS
        <5>2. m - 1 \in 1..depth
          BY <2>1, <5>1
        <5>3. g[m - 1] = g[(m - 1) - 1] \cup Spread(adjacency, g[(m - 1) - 1])
          BY <5>2 DEF Seeing
        <5>4. x \in Spread(adjacency, g[(m - 1) - 1])
          BY <4>1, <5>1, SpreadFacts
        <5> QED
          BY <3>2, <5>3, <5>4
      <4>4. Linked(rels, start, e, m - 1)
        <5>1. e \in g[m - 1] /\ (m - 1 = 0 \/ e \notin g[(m - 1) - 1])
          BY <4>1, <4>3
        <5> QED
          BY <2>2, <5>1
      <4>5. Linked(rels, start, x, (m - 1) + 1)
        <5>1. m - 1 \in Nat
          BY <2>1
        <5> QED
          BY <4>2, <4>4, <5>1, LinkedOn
      <4> QED
        BY <2>1, <4>2, <4>5
    <3> QED
      BY <3>1, <3>2
  <2>5. Fine(m)
    BY <1>4, <2>4
  <2> QED
    BY <1>2, <2>5
<1> QED
  BY <1>3, <1>4

\* Whatever k relations lead to is seen within k hops, when the list has all of what the
\* entities less than that away are related to.
LEMMA LinkedIsSeen ==
    ASSUME NEW rels, NEW adjacency, NEW start \in Nat, NEW depth \in Nat, NEW g,
           Seeing(adjacency, start, depth, g),
           \A e \in Nat, k \in Nat : k < depth /\ Linked(rels, start, e, k) => e \in DOMAIN adjacency,
           \A e \in DOMAIN adjacency, x \in Nat : Edge(rels, e, x) => x \in adjacency[e]
    PROVE  \A k \in 0..depth : \A x : Linked(rels, start, x, k) => x \in g[k]
<1> DEFINE Fine(k) == \A x : Linked(rels, start, x, k) => x \in g[k]
           bad == {k \in 0..depth : ~Fine(k)}
<1>1. SUFFICES ASSUME bad # {} PROVE FALSE
  OBVIOUS
<1>2. PICK m \in bad : \A n \in bad : m <= n
  <2>1. bad \in SUBSET Nat
    OBVIOUS
  <2> HIDE DEF bad
  <2> QED
    BY <1>1, <2>1, LeastNumber
<1>3. CASE m = 0
  <2>1. g[0] = {start}
    BY DEF Seeing
  <2>2. Fine(0)
    BY <2>1, LinkedNowhere
  <2> QED
    BY <1>2, <1>3, <2>2
<1>4. CASE m # 0
  <2>1. m \in 1..depth /\ m - 1 \in 0..depth /\ m - 1 \notin bad /\ (m - 1) + 1 = m
        /\ m - 1 \in Nat /\ m - 1 < depth
    BY <1>2, <1>4
  <2>2. Fine(m - 1)
    BY <2>1
  <2>3. g[m] = g[m - 1] \cup Spread(adjacency, g[m - 1])
    BY <2>1 DEF Seeing
  <2>4. ASSUME NEW x, Linked(rels, start, x, m) PROVE x \in g[m]
    <3>1. Linked(rels, start, x, (m - 1) + 1)
      BY <2>1, <2>4
    <3>2. x \in Nat /\ \E e \in Nat : Linked(rels, start, e, m - 1) /\ Edge(rels, e, x)
      BY <2>1, <3>1, LinkedBefore
    <3>3. PICK e \in Nat : Linked(rels, start, e, m - 1) /\ Edge(rels, e, x)
      BY <3>2
    <3>4. e \in g[m - 1] /\ e \in DOMAIN adjacency
      BY <2>1, <2>2, <3>3
    <3>5. x \in adjacency[e]
      BY <3>2, <3>3, <3>4
    <3> QED
      BY <2>3, <3>4, <3>5, SpreadFacts
  <2> QED
    BY <1>2, <2>4
<1> QED
  BY <1>3, <1>4

\* The lesser of two naturals.
LEMMA LesserFacts ==
    ASSUME NEW a \in Nat, NEW b \in Nat
    PROVE  Min({a, b}) \in Nat /\ Min({a, b}) <= a /\ Min({a, b}) <= b /\ Min({a, b}) \in {a, b}
<1>1. \E x \in {a, b} : \A y \in {a, b} : x <= y
  OBVIOUS
<1>2. Min({a, b}) \in {a, b} /\ \A y \in {a, b} : Min({a, b}) <= y
  BY <1>1 DEF Min
<1> QED
  BY <1>2

\* The hop at which an entity is seen first.
Hop(g, depth, x) == CHOOSE d \in 0..depth : x \in g[d] /\ (d = 0 \/ x \notin g[d - 1])

LEMMA HopFacts ==
    ASSUME NEW adjacency, NEW start, NEW depth \in Nat, NEW g, Seeing(adjacency, start, depth, g),
           NEW k \in 0..depth, NEW x \in g[k]
    PROVE  /\ Hop(g, depth, x) \in 0..k /\ x \in g[Hop(g, depth, x)]
           /\ Hop(g, depth, x) = 0 \/ x \notin g[Hop(g, depth, x) - 1]
<1> DEFINE T == {d \in 0..depth : x \in g[d]}
<1>1. T \in SUBSET Nat /\ T # {}
  OBVIOUS
<1>2. PICK m \in T : \A d \in T : m <= d
  <2> HIDE DEF T
  <2> QED
    BY <1>1, LeastNumber
<1>3. m \in 0..depth /\ x \in g[m] /\ (m = 0 \/ x \notin g[m - 1])
  <2>1. m # 0 => m - 1 \in 0..depth /\ ~(m <= m - 1)
    BY <1>2
  <2> QED
    BY <1>2, <2>1
<1>4. PICK h : h = Hop(g, depth, x)
  OBVIOUS
<1>5. h \in 0..depth /\ x \in g[h] /\ (h = 0 \/ x \notin g[h - 1])
  BY <1>3, <1>4 DEF Hop
<1>6. h <= k
  <2>1. SUFFICES ASSUME k < h PROVE FALSE
    BY <1>5
  <2>2. h - 1 \in 0..depth /\ k <= h - 1 /\ h # 0
    BY <1>5, <2>1
  <2>3. g[k] \subseteq g[h - 1]
    BY <2>2, SeenGrows
  <2> QED
    BY <1>5, <2>2, <2>3
<1> QED
  BY <1>4, <1>5, <1>6

\* The levels: each entity that is seen, with the hop at which it is seen first.
Levels(g, depth) == {<<x, Hop(g, depth, x)>> : x \in g[depth]}

LevelsFit(g, depth, levels) ==
    /\ \A l \in levels : \E x : l = <<x, l[2]>> /\ l[1] = x
    /\ \A x, h : <<x, h>> \in levels =>
          h \in 0..depth /\ x \in g[h] /\ (h = 0 \/ x \notin g[h - 1])
    /\ \A k \in 0..depth : \A x \in g[k] : \E h \in 0..k : <<x, h>> \in levels
    /\ \A x, h, i : <<x, h>> \in levels /\ <<x, i>> \in levels => h = i

LEMMA LevelsFacts ==
    ASSUME NEW adjacency, NEW start, NEW depth \in Nat, NEW g, Seeing(adjacency, start, depth, g)
    PROVE  LevelsFit(g, depth, Levels(g, depth))
<1>1. PICK levels : levels = Levels(g, depth)
  OBVIOUS
<1>2. \A x, h : <<x, h>> \in levels <=> x \in g[depth] /\ h = Hop(g, depth, x)
  BY <1>1 DEF Levels
<1>3. \A l \in levels : \E x : l = <<x, l[2]>> /\ l[1] = x
  BY <1>1 DEF Levels
<1>4. ASSUME NEW x, NEW h, <<x, h>> \in levels
      PROVE  h \in 0..depth /\ x \in g[h] /\ (h = 0 \/ x \notin g[h - 1])
  <2>1. x \in g[depth] /\ h = Hop(g, depth, x) /\ depth \in 0..depth
    BY <1>2, <1>4
  <2> QED
    BY <2>1, HopFacts
<1>5. ASSUME NEW k \in 0..depth, NEW x \in g[k] PROVE \E h \in 0..k : <<x, h>> \in levels
  <2>1. x \in g[depth]
    <3>1. depth \in 0..depth /\ k <= depth
      OBVIOUS
    <3> QED
      BY <3>1, SeenGrows
  <2>2. Hop(g, depth, x) \in 0..k
    BY HopFacts
  <2>3. <<x, Hop(g, depth, x)>> \in levels
    BY <1>2, <2>1
  <2> QED
    BY <2>2, <2>3
<1>6. \A x, h, i : <<x, h>> \in levels /\ <<x, i>> \in levels => h = i
  BY <1>2
<1> QED
  BY <1>1, <1>3, <1>4, <1>5, <1>6 DEF LevelsFit

\* bfs_traverse gives each entity that is seen the hop at which it is seen first.
LEMMA TraverseFacts ==
    ASSUME NEW adjacency, NEW start, NEW max \in Nat, NEW depth \in Nat,
           depth = Min({max, Len(entities)})
    PROVE  /\ Seeing(adjacency, start, depth, Seen(adjacency, start, depth))
           /\ LevelsFit(Seen(adjacency, start, depth), depth, bfs_traverse(adjacency, start, max))
<1>1. PICK g : g = Seen(adjacency, start, depth)
  OBVIOUS
<1>2. Seeing(adjacency, start, depth, g)
  BY <1>1, SeenFacts
<1>3. bfs_traverse(adjacency, start, max) = Levels(g, depth)
  BY <1>1 DEF bfs_traverse, Levels, Hop
<1>4. LevelsFit(g, depth, Levels(g, depth))
  BY <1>2, LevelsFacts
<1> QED
  BY <1>1, <1>2, <1>3, <1>4

-----------------------------------------------------------------------------
(* The path back. *)

\* The paths of ps, each behind one of the entities it may continue.
Behind(adjacency, levels, hop, ps) ==
    UNION {{<<e>> \o p : e \in {x \in DOMAIN adjacency : /\ p[1] \in adjacency[x]
                                                          /\ <<x, hop>> \in levels}} : p \in ps}

LEMMA BehindFacts ==
    ASSUME NEW adjacency, NEW levels, NEW hop, NEW ps, NEW q \in Behind(adjacency, levels, hop, ps)
    PROVE  \E p \in ps, e \in DOMAIN adjacency :
              p[1] \in adjacency[e] /\ <<e, hop>> \in levels /\ q = <<e>> \o p
  BY DEF Behind

BackTo(adjacency, levels, to, depth, n, g) ==
    g = [d \in 0..n |-> IF d = 0 THEN {<<to>>} ELSE Behind(adjacency, levels, depth - d, g[d - 1])]

LEMMA BackExists ==
    ASSUME NEW adjacency, NEW levels, NEW to, NEW depth \in Nat
    PROVE  \E g : BackTo(adjacency, levels, to, depth, depth, g)
<1> DEFINE bad == {n \in 0..depth : ~\E g : BackTo(adjacency, levels, to, depth, n, g)}
<1>1. SUFFICES ASSUME bad # {} PROVE FALSE
  OBVIOUS
<1>2. PICK m \in bad : \A n \in bad : m <= n
  <2>1. bad \in SUBSET Nat
    OBVIOUS
  <2> HIDE DEF bad
  <2> QED
    BY <1>1, <2>1, LeastNumber
<1>3. CASE m = 0
  <2>1. PICK g : g = [d \in 0..0 |-> {<<to>>}]
    OBVIOUS
  <2>2. g = [d \in 0..0 |-> IF d = 0 THEN {<<to>>}
                            ELSE Behind(adjacency, levels, depth - d, g[d - 1])]
    BY <2>1
  <2> QED
    BY <1>2, <1>3, <2>2 DEF BackTo
<1>4. CASE m # 0
  <2>1. m \in 1..depth /\ m - 1 \in 0..depth /\ m - 1 \notin bad
    BY <1>2, <1>4
  <2>2. PICK g : BackTo(adjacency, levels, to, depth, m - 1, g)
    BY <2>1
  <2>3. PICK h : h = [d \in 0..m |-> IF d < m THEN g[d]
                                     ELSE Behind(adjacency, levels, depth - m, g[m - 1])]
    OBVIOUS
  <2>4. \A d \in 0..(m - 1) :
           g[d] = IF d = 0 THEN {<<to>>} ELSE Behind(adjacency, levels, depth - d, g[d - 1])
    BY <2>2 DEF BackTo
  <2>5. \A d \in 0..(m - 1) : h[d] = g[d]
    BY <2>1, <2>3
  <2>6. h[m] = Behind(adjacency, levels, depth - m, g[m - 1])
    BY <2>1, <2>3
  <2>7. ASSUME NEW d \in 0..m
        PROVE  h[d] = IF d = 0 THEN {<<to>>} ELSE Behind(adjacency, levels, depth - d, h[d - 1])
    <3>1. CASE d = m
      <4>1. h[d - 1] = g[m - 1]
        BY <2>1, <2>5, <3>1
      <4> QED
        BY <1>4, <2>6, <3>1, <4>1
    <3>2. CASE d # m
      <4>1. d \in 0..(m - 1) /\ (d # 0 => d - 1 \in 0..(m - 1))
        BY <2>1, <3>2
      <4> QED
        BY <2>4, <2>5, <4>1
    <3> QED
      BY <3>1, <3>2
  <2>8. h = [d \in 0..m |-> h[d]]
    BY <2>3
  <2>9. BackTo(adjacency, levels, to, depth, m, h)
    BY <2>7, <2>8 DEF BackTo
  <2> QED
    BY <1>2, <2>9
<1> QED
  BY <1>3, <1>4

LEMMA OneInFront ==
    ASSUME NEW S, NEW e \in S, NEW p \in Seq(S)
    PROVE  /\ <<e>> \o p \in Seq(S) /\ Len(<<e>> \o p) = Len(p) + 1
           /\ (<<e>> \o p)[1] = e /\ \A j \in 1..Len(p) : (<<e>> \o p)[j + 1] = p[j]
  OBVIOUS

\* A path of n hops ends at the goal, begins where its level says, and each of its
\* entities has the next one in the list.
PathFits(adjacency, levels, to, depth, n, q) ==
    /\ q \in Seq(Nat) /\ Len(q) = n + 1 /\ q[n + 1] = to
    /\ n = 0 \/ <<q[1], depth - n>> \in levels
    /\ \A j \in 2..(n + 1) : q[j - 1] \in DOMAIN adjacency /\ q[j] \in adjacency[q[j - 1]]

LEMMA PathFacts ==
    ASSUME NEW adjacency, DOMAIN adjacency \subseteq Nat, NEW levels, NEW to \in Nat, NEW depth \in Nat
    PROVE  \A q \in Paths(adjacency, levels, to, depth) :
              PathFits(adjacency, levels, to, depth, depth, q)
<1>1. PICK g : g = CHOOSE f : BackTo(adjacency, levels, to, depth, depth, f)
  OBVIOUS
<1>2. BackTo(adjacency, levels, to, depth, depth, g)
  BY <1>1, BackExists
<1>3. Paths(adjacency, levels, to, depth) = g[depth]
  BY <1>1 DEF Paths, BackTo, Behind
<1>4. \A d \in 0..depth :
         g[d] = IF d = 0 THEN {<<to>>} ELSE Behind(adjacency, levels, depth - d, g[d - 1])
  BY <1>2 DEF BackTo
<1> DEFINE Fine(n) == \A q \in g[n] : PathFits(adjacency, levels, to, depth, n, q)
           bad == {n \in 0..depth : ~Fine(n)}
<1>5. bad = {}
  <2>1. SUFFICES ASSUME bad # {} PROVE FALSE
    OBVIOUS
  <2>2. PICK m \in bad : \A n \in bad : m <= n
    <3>1. bad \in SUBSET Nat
      OBVIOUS
    <3> HIDE DEF bad
    <3> QED
      BY <2>1, <3>1, LeastNumber
  <2>3. CASE m = 0
    <3>1. g[0] = {<<to>>}
      BY <1>4
    <3>2. PathFits(adjacency, levels, to, depth, 0, <<to>>)
      BY DEF PathFits
    <3> QED
      BY <2>2, <2>3, <3>1, <3>2
  <2>4. CASE m # 0
    <3>1. m \in 1..depth /\ m - 1 \in 0..depth /\ m - 1 \notin bad /\ (m - 1) + 1 = m
      BY <2>2, <2>4
    <3>2. Fine(m - 1)
      BY <3>1
    <3>3. g[m] = Behind(adjacency, levels, depth - m, g[m - 1])
      BY <1>4, <2>4, <3>1
    <3>4. ASSUME NEW q \in g[m] PROVE PathFits(adjacency, levels, to, depth, m, q)
      <4>0. \E p \in g[m - 1], e \in DOMAIN adjacency :
               p[1] \in adjacency[e] /\ <<e, depth - m>> \in levels /\ q = <<e>> \o p
        <5>1. PICK hop : hop = depth - m
          OBVIOUS
        <5>2. PICK ps : ps = g[m - 1]
          OBVIOUS
        <5>3. q \in Behind(adjacency, levels, hop, ps)
          BY <3>3, <3>4, <5>1, <5>2
        <5>4. \E p \in ps, e \in DOMAIN adjacency :
                 p[1] \in adjacency[e] /\ <<e, hop>> \in levels /\ q = <<e>> \o p
          BY ONLY <5>3, BehindFacts
        <5> QED
          BY <5>1, <5>2, <5>4
      <4>1. PICK p \in g[m - 1], e \in DOMAIN adjacency :
               p[1] \in adjacency[e] /\ <<e, depth - m>> \in levels /\ q = <<e>> \o p
        BY <4>0
      <4>2. /\ p \in Seq(Nat) /\ Len(p) = m /\ p[m] = to
            /\ \A j \in 2..m : p[j - 1] \in DOMAIN adjacency /\ p[j] \in adjacency[p[j - 1]]
        BY <3>1, <3>2, <4>1 DEF PathFits
      <4>3. q \in Seq(Nat) /\ Len(q) = m + 1 /\ q[1] = e /\ \A j \in 1..m : q[j + 1] = p[j]
        BY <4>1, <4>2, OneInFront
      <4>4. q[m + 1] = to
        BY <3>1, <4>2, <4>3
      <4>5. ASSUME NEW j \in 2..(m + 1)
            PROVE  q[j - 1] \in DOMAIN adjacency /\ q[j] \in adjacency[q[j - 1]]
        <5>1. CASE j = 2
          <6>1. q[2] = p[1]
            BY <3>1, <4>3
          <6> QED
            BY <4>1, <4>3, <5>1, <6>1
        <5>2. CASE j # 2
          <6>1. j - 1 \in 2..m /\ j - 1 \in 1..m /\ (j - 1) - 1 \in 1..m
            BY <3>1, <5>2
          <6>2. q[(j - 1) + 1] = p[j - 1] /\ q[((j - 1) - 1) + 1] = p[(j - 1) - 1]
            BY <4>3, <6>1
          <6>3. (j - 1) + 1 = j /\ ((j - 1) - 1) + 1 = j - 1
            BY <6>1
          <6> QED
            BY <4>2, <6>1, <6>2, <6>3
        <5> QED
          BY <5>1, <5>2
      <4> QED
        BY <4>1, <4>3, <4>4, <4>5 DEF PathFits
    <3> QED
      BY <2>2, <3>4
  <2> QED
    BY <2>3, <2>4
<1> QED
  BY <1>3, <1>5

-----------------------------------------------------------------------------
(* Listings. *)

RowsTo(wanted, n, g) ==
    g = [j \in 0..n |->
            IF j = 0 THEN <<>> ELSE IF j \in wanted THEN <<j>> \o g[j - 1] ELSE g[j - 1]]

LEMMA RowsExist ==
    ASSUME NEW wanted, NEW depth \in Nat
    PROVE  \E g : RowsTo(wanted, depth, g)
<1> DEFINE bad == {n \in 0..depth : ~\E g : RowsTo(wanted, n, g)}
<1>1. SUFFICES ASSUME bad # {} PROVE FALSE
  OBVIOUS
<1>2. PICK m \in bad : \A n \in bad : m <= n
  <2>1. bad \in SUBSET Nat
    OBVIOUS
  <2> HIDE DEF bad
  <2> QED
    BY <1>1, <2>1, LeastNumber
<1>3. CASE m = 0
  <2>1. PICK g : g = [j \in 0..0 |-> <<>>]
    OBVIOUS
  <2>2. g = [j \in 0..0 |->
               IF j = 0 THEN <<>> ELSE IF j \in wanted THEN <<j>> \o g[j - 1] ELSE g[j - 1]]
    BY <2>1
  <2> QED
    BY <1>2, <1>3, <2>2 DEF RowsTo
<1>4. CASE m # 0
  <2>1. m \in 1..depth /\ m - 1 \in 0..depth /\ m - 1 \notin bad
    BY <1>2, <1>4
  <2>2. PICK g : RowsTo(wanted, m - 1, g)
    BY <2>1
  <2>3. PICK h : h = [j \in 0..m |-> IF j < m THEN g[j]
                                     ELSE IF m \in wanted THEN <<m>> \o g[m - 1] ELSE g[m - 1]]
    OBVIOUS
  <2>4. \A j \in 0..(m - 1) :
           g[j] = IF j = 0 THEN <<>> ELSE IF j \in wanted THEN <<j>> \o g[j - 1] ELSE g[j - 1]
    BY <2>2 DEF RowsTo
  <2>5. \A j \in 0..(m - 1) : h[j] = g[j]
    BY <2>1, <2>3
  <2>6. h[m] = IF m \in wanted THEN <<m>> \o g[m - 1] ELSE g[m - 1]
    BY <2>1, <2>3
  <2>7. ASSUME NEW j \in 0..m
        PROVE  h[j] = IF j = 0 THEN <<>>
                      ELSE IF j \in wanted THEN <<j>> \o h[j - 1] ELSE h[j - 1]
    <3>1. CASE j = m
      <4>1. h[j - 1] = g[m - 1]
        BY <2>1, <2>5, <3>1
      <4> QED
        BY <1>4, <2>6, <3>1, <4>1
    <3>2. CASE j # m
      <4>1. j \in 0..(m - 1) /\ (j # 0 => j - 1 \in 0..(m - 1))
        BY <2>1, <3>2
      <4> QED
        BY <2>4, <2>5, <4>1
    <3> QED
      BY <3>1, <3>2
  <2>8. h = [j \in 0..m |-> h[j]]
    BY <2>3
  <2>9. RowsTo(wanted, m, h)
    BY <2>7, <2>8 DEF RowsTo
  <2> QED
    BY <1>2, <2>9
<1> QED
  BY <1>3, <1>4

\* Rows of wanted entities among the first n, the newest first.
NewestFirst(wanted, n, q) ==
    /\ q \in Seq(Nat)
    /\ \A i \in 1..Len(q) : q[i] \in wanted /\ q[i] <= n
    /\ \A i, j \in 1..Len(q) : i < j => q[i] > q[j]

LEMMA NewestInFront ==
    ASSUME NEW wanted, NEW n \in Nat, n > 0, n \in wanted, NEW q, NewestFirst(wanted, n - 1, q)
    PROVE  NewestFirst(wanted, n, <<n>> \o q)
<1>1. q \in Seq(Nat)
  BY DEF NewestFirst
<1>2. PICK p : p = <<n>> \o q
  OBVIOUS
<1>3. p \in Seq(Nat) /\ Len(p) = Len(q) + 1 /\ p[1] = n
      /\ \A j \in 1..Len(q) : p[j + 1] = q[j]
  BY <1>1, <1>2, OneInFront
<1>4. ASSUME NEW i \in 1..Len(p), i # 1
      PROVE  i - 1 \in 1..Len(q) /\ p[i] = q[i - 1] /\ p[i] \in wanted /\ p[i] < n
  <2>1. i - 1 \in 1..Len(q) /\ (i - 1) + 1 = i
    BY <1>1, <1>3, <1>4
  <2>2. p[i] = q[i - 1]
    BY <1>3, <2>1
  <2>3. q[i - 1] \in wanted /\ q[i - 1] <= n - 1 /\ q[i - 1] \in Nat
    BY <1>1, <2>1 DEF NewestFirst
  <2> QED
    BY <2>1, <2>2, <2>3
<1>5. \A i \in 1..Len(p) : p[i] \in wanted /\ p[i] <= n
  BY <1>3, <1>4
<1>6. ASSUME NEW i \in 1..Len(p), NEW j \in 1..Len(p), i < j PROVE p[i] > p[j]
  <2>1. j # 1
    BY <1>6
  <2>2. CASE i = 1
    BY <1>3, <1>4, <2>1, <2>2
  <2>3. CASE i # 1
    <3>1. i - 1 \in 1..Len(q) /\ p[i] = q[i - 1] /\ j - 1 \in 1..Len(q) /\ p[j] = q[j - 1]
      BY <1>4, <2>1, <2>3
    <3>2. i - 1 < j - 1
      BY <1>6
    <3> QED
      BY <3>1, <3>2 DEF NewestFirst
  <2> QED
    BY <2>2, <2>3
<1> QED
  BY <1>2, <1>3, <1>5, <1>6 DEF NewestFirst

LEMMA NewestFacts ==
    ASSUME Len(entities) \in Nat, NEW wanted
    PROVE  NewestFirst(wanted, Len(entities), Newest(wanted))
<1>0. PICK depth \in Nat : depth = Len(entities)
  OBVIOUS
<1>1. PICK g : g = CHOOSE f : RowsTo(wanted, depth, f)
  OBVIOUS
<1>2. RowsTo(wanted, depth, g)
  BY <1>1, RowsExist
<1>3. Newest(wanted) = g[depth]
  BY <1>0, <1>1 DEF Newest, RowsTo
<1>4. \A j \in 0..depth :
         g[j] = IF j = 0 THEN <<>> ELSE IF j \in wanted THEN <<j>> \o g[j - 1] ELSE g[j - 1]
  BY <1>2 DEF RowsTo
<1> DEFINE bad == {n \in 0..depth : ~NewestFirst(wanted, n, g[n])}
<1>5. bad = {}
  <2>1. SUFFICES ASSUME bad # {} PROVE FALSE
    OBVIOUS
  <2>2. PICK m \in bad : \A n \in bad : m <= n
    <3>1. bad \in SUBSET Nat
      OBVIOUS
    <3> HIDE DEF bad
    <3> QED
      BY <2>1, <3>1, LeastNumber
  <2>3. CASE m = 0
    <3>1. g[0] = <<>>
      <4>1. 0 \in 0..depth
        OBVIOUS
      <4> QED
        BY <1>4, <4>1
    <3>2. NewestFirst(wanted, 0, <<>>)
      BY DEF NewestFirst
    <3> QED
      BY <2>2, <2>3, <3>1, <3>2
  <2>4. CASE m # 0
    <3>1. m \in 1..depth /\ m - 1 \in 0..depth /\ m - 1 \notin bad /\ m \in Nat /\ m > 0
      BY <2>2, <2>4
    <3>2. NewestFirst(wanted, m - 1, g[m - 1])
      BY <3>1
    <3>3. g[m] = IF m \in wanted THEN <<m>> \o g[m - 1] ELSE g[m - 1]
      BY <1>4, <2>4, <3>1
    <3>4. NewestFirst(wanted, m, g[m])
      <4>1. CASE m \in wanted
        BY <3>1, <3>2, <3>3, <4>1, NewestInFront
      <4>2. CASE m \notin wanted
        BY <3>1, <3>2, <3>3, <4>2 DEF NewestFirst
      <4> QED
        BY <4>1, <4>2
    <3> QED
      BY <2>2, <3>4
  <2> QED
    BY <2>3, <2>4
<1>6. NewestFirst(wanted, depth, g[depth])
  BY <1>5
<1> QED
  BY <1>0, <1>3, <1>6

LEMMA ByTypeFacts ==
    ASSUME Len(entities) \in Nat, NEW tenant, NEW type, NEW limit \in Nat
    PROVE  NewestFirst({e \in Ids : entities[e].tenant = tenant /\ entities[e].type = type},
                       Len(entities), list_by_type(tenant, type, limit))
<1>1. PICK wanted : wanted = {e \in Ids : entities[e].tenant = tenant /\ entities[e].type = type}
  OBVIOUS
<1>2. PICK q : q = Newest(wanted)
  OBVIOUS
<1>3. NewestFirst(wanted, Len(entities), q)
  BY <1>2, NewestFacts
<1>4. q \in Seq(Nat) /\ Len(q) \in Nat
  BY <1>3 DEF NewestFirst
<1>5. PICK n \in Nat : n = Min({limit, Len(q)}) /\ n <= Len(q)
  BY <1>4, LesserFacts
<1>6. list_by_type(tenant, type, limit) = SubSeq(q, 1, n)
  BY <1>1, <1>2, <1>5 DEF list_by_type
<1>7. PICK p : p = SubSeq(q, 1, n)
  OBVIOUS
<1>8. \A i \in 1..n : i \in 1..Len(q) /\ q[i] \in Nat
  BY <1>4, <1>5
<1>9. p \in Seq(Nat) /\ Len(p) = n
  <2>1. 1 \in Int /\ n \in Int /\ \A i \in 1..n : q[i] \in Nat
    BY <1>8
  <2>2. SubSeq(q, 1, n) \in Seq(Nat) /\ Len(SubSeq(q, 1, n)) = IF 1 <= n THEN n - 1 + 1 ELSE 0
    BY <2>1, SubSeqProperties
  <2> QED
    BY <1>7, <2>2
<1>10. \A i \in 1..n : p[i] = q[i]
  <2>1. \A i \in 1..(n - 1 + 1) : p[i] = q[1 + i - 1]
    BY <1>7, <1>8, SubSeqProperties
  <2> QED
    BY <2>1
<1>11. NewestFirst(wanted, Len(entities), p)
  BY <1>3, <1>8, <1>9, <1>10 DEF NewestFirst
<1> QED
  BY <1>1, <1>6, <1>7, <1>11

-----------------------------------------------------------------------------
(* The walk under way, and what it answers. *)

GraphRows ==
    /\ entities \in Seq(Entity) /\ Len(entities) <= Len(EntityRequests)
    /\ \A r \in relations : r[1] \in Ids /\ r[2] \in Ids

\* What was asked for.
HeadFits ==
    /\ DOMAIN walk = {"state", "start", "goal", "max_depth", "level", "frontier", "next",
                      "visited", "adjacency", "before"}
    /\ walk.state = "idle" \/
          /\ walk.start \in Ids /\ walk.before \subseteq relations /\ walk.max_depth \in Nat
          /\ walk.goal # None => walk.goal \in Ids /\ walk.max_depth = MaxHops

\* The list has, of an entity, what it was related to at the beginning, and nothing it
\* is not related to.
ListFits ==
    \A e \in DOMAIN walk.adjacency :
        /\ e \in Ids /\ walk.adjacency[e] \subseteq walk.visited
        /\ \A x \in walk.adjacency[e] : Edge(relations, e, x)
        /\ \A x : Edge(walk.before, e, x) => x \in walk.adjacency[e]

\* What was within reach in fewer hops than the level is in the list, and what was
\* within reach in as many is in the list or still in the frontier.
LevelFits ==
    \A k \in Nat : \A b : Linked(walk.before, walk.start, b, k) =>
        /\ k < walk.level => b \in DOMAIN walk.adjacency
        /\ k = walk.level => b \in DOMAIN walk.adjacency \cup walk.frontier

LoadFits ==
    walk.state = "loading" =>
        /\ walk.level \in Nat /\ walk.level <= walk.max_depth
        /\ walk.visited = DOMAIN walk.adjacency \cup walk.frontier \cup walk.next
        /\ walk.start \in walk.visited /\ walk.visited \subseteq Ids
        /\ walk.frontier = {} => walk.next = {}
        /\ ListFits /\ LevelFits

NodesTold ==
    /\ \A n \in reply.nodes : /\ n[2] \in Nat /\ n[2] <= walk.max_depth /\ n[2] <= Len(entities)
                              /\ Linked(relations, walk.start, n[1], n[2])
    /\ \A k \in Nat : \A b : k <= walk.max_depth /\ Linked(walk.before, walk.start, b, k) =>
          \E n \in reply.nodes : n[1] = b /\ n[2] <= k

PathTold ==
    IF reply.path = <<>> THEN \A k \in Nat : ~Linked(walk.before, walk.start, walk.goal, k)
    ELSE /\ Len(reply.path) \in Nat
         /\ reply.path[1] = walk.start /\ reply.path[Len(reply.path)] = walk.goal
         /\ \A j \in 2..Len(reply.path) : Edge(relations, reply.path[j - 1], reply.path[j])
         /\ \A k \in Nat : k < Len(reply.path) - 1 =>
               ~Linked(walk.before, walk.start, walk.goal, k)

RowsTold ==
    \A i, j \in DOMAIN reply.rows :
        /\ reply.rows[i] \in Ids
        /\ entities[reply.rows[i]].tenant = entities[reply.rows[j]].tenant
        /\ i < j => reply.rows[i] > reply.rows[j]

ReplyFits ==
    /\ reply.kind \in {"nodes", "path"} => walk.state # "idle"
    /\ reply.kind = "nodes" => NodesTold
    /\ reply.kind = "path" => walk.goal \in Ids /\ PathTold
    /\ reply.kind = "rows" => RowsTold

GraphInv == GraphRows /\ HeadFits /\ LoadFits /\ ReplyFits

\* Entities and relations are added while a walk is under way, or after it.
LEMMA GraphGrows ==
    ASSUME GraphInv, GraphRows', Len(entities) <= Len(entities)',
           \A e \in Ids : e \in Ids' /\ entities'[e].tenant = entities[e].tenant,
           relations \subseteq relations', walk' = walk, reply' = reply
    PROVE  GraphInv'
<1>1. HeadFits'
  BY DEF GraphInv, HeadFits
<1>2. \A a, b, k : Linked(relations, a, b, k) => Linked(relations', a, b, k)
  BY MoreLinked
<1>3. \A a, b : Edge(relations, a, b) => Edge(relations', a, b)
  BY DEF Edge
<1>4. LoadFits'
  BY <1>3 DEF GraphInv, LoadFits, ListFits, LevelFits
<1>5. Len(entities) \in Nat /\ Len(entities)' \in Nat
  BY DEF GraphInv, GraphRows
<1>6. NodesTold => NodesTold'
  <2> SUFFICES ASSUME NodesTold PROVE NodesTold'
    OBVIOUS
  <2>1. ASSUME NEW n \in reply.nodes
        PROVE  /\ n[2] \in Nat /\ n[2] <= walk.max_depth /\ n[2] <= Len(entities)'
               /\ Linked(relations', walk.start, n[1], n[2])
    BY <1>2, <1>5, <2>1 DEF NodesTold
  <2> QED
    BY <2>1 DEF NodesTold
<1>7. PathTold => PathTold'
  BY <1>3 DEF PathTold
<1>8. RowsTold => RowsTold'
  BY DEF RowsTold
<1>9. ReplyFits'
  BY <1>6, <1>7, <1>8 DEF GraphInv, ReplyFits
<1> QED
  BY <1>1, <1>4, <1>9 DEF GraphInv

LEMMA GraphWrites ==
    ASSUME GraphInv,
           \/ create_entity \/ (\E e \in Ids : update_attributes(e))
           \/ (\E r \in RelationRequests : create_relation(r)) \/ UNCHANGED graph_vars
    PROVE  GraphInv'
<1>0. entities \in Seq(Entity) /\ Len(entities) \in Nat /\ Ids = 1..Len(entities)
  BY DEF GraphInv, GraphRows, Ids
<1>1. CASE create_entity
  <2>1. Len(entities) + 1 \in 1..Len(EntityRequests) /\ EntityRequests[Len(entities) + 1] \in Entity
    BY <1>0, <1>1, RequestsAssumption DEF create_entity
  <2>2. entities' \in Seq(Entity) /\ Len(entities)' = Len(entities) + 1
        /\ \A e \in 1..Len(entities) : entities'[e] = entities[e]
    BY <1>0, <1>1, <2>1 DEF create_entity
  <2>3. Ids' = 1..(Len(entities) + 1)
    BY <2>2 DEF Ids
  <2>4. GraphRows'
    BY <1>0, <1>1, <2>1, <2>2, <2>3 DEF GraphInv, GraphRows, create_entity
  <2>5. \A e \in Ids : e \in Ids' /\ entities'[e].tenant = entities[e].tenant
    BY <1>0, <2>2, <2>3
  <2> QED
    BY <1>0, <1>1, <2>2, <2>4, <2>5, GraphGrows DEF create_entity
<1>2. ASSUME NEW e \in Ids, update_attributes(e) PROVE GraphInv'
  <2>1. PICK row : row = [entities[e] EXCEPT !.attributes = @ + 1]
    OBVIOUS
  <2>2. entities[e] \in Entity
    BY <1>0
  <2>3. row \in Entity /\ row.tenant = entities[e].tenant
    BY <2>1, <2>2 DEF Entity
  <2>4. entities' = [entities EXCEPT ![e] = row]
    BY <1>2, <2>1 DEF update_attributes
  <2>5. entities' \in Seq(Entity) /\ Len(entities)' = Len(entities) /\ Ids' = Ids
    BY <1>0, <2>3, <2>4 DEF Ids
  <2>6. \A x \in Ids : entities'[x].tenant = entities[x].tenant
    BY <1>0, <2>3, <2>4
  <2>7. GraphRows'
    BY <1>2, <2>5 DEF GraphInv, GraphRows, update_attributes
  <2> QED
    BY <1>0, <1>2, <2>5, <2>6, <2>7, GraphGrows DEF update_attributes
<1>3. ASSUME NEW r \in RelationRequests, create_relation(r) PROVE GraphInv'
  <2>1. Ids' = Ids
    BY <1>3 DEF create_relation, Ids
  <2>2. GraphRows'
    BY <1>3, <2>1 DEF GraphInv, GraphRows, create_relation
  <2> QED
    BY <1>0, <1>3, <2>1, <2>2, GraphGrows DEF create_relation
<1>4. CASE UNCHANGED graph_vars
  <2>1. Ids' = Ids
    BY <1>4 DEF graph_vars, Ids
  <2>2. GraphRows'
    BY <1>4, <2>1 DEF GraphInv, GraphRows, graph_vars
  <2> QED
    BY <1>0, <1>4, <2>1, <2>2, GraphGrows DEF graph_vars
<1> QED
  BY <1>1, <1>2, <1>3, <1>4

LEMMA LookupStep ==
    ASSUME GraphInv, NEW tenant, NEW type, NEW name, NEW limit \in 0..1,
           Lookup(tenant, type, name, limit)
    PROVE  GraphInv'
<1>0. entities \in Seq(Entity) /\ Len(entities) \in Nat /\ Ids = 1..Len(entities)
  BY DEF GraphInv, GraphRows, Ids
<1>1. entities' = entities /\ relations' = relations /\ walk' = walk /\ walk.state = "idle"
  BY DEF Lookup
<1>2. Ids' = Ids
  BY <1>1 DEF Ids
<1>3. GraphRows' /\ HeadFits'
  BY <1>1, <1>2 DEF GraphInv, GraphRows, HeadFits
<1>4. LoadFits'
  BY <1>1 DEF LoadFits
<1>5. ASSUME NEW wanted, \A e \in wanted : e \in Ids /\ entities[e].tenant = tenant,
             NEW q, NewestFirst(wanted, Len(entities), q),
             reply' = [NoReply EXCEPT !.kind = "rows", !.rows = q]
      PROVE  ReplyFits'
  <2>1. reply'.kind = "rows" /\ reply'.rows = q
    BY <1>5 DEF NoReply
  <2>2. /\ q \in Seq(Nat) /\ DOMAIN q = 1..Len(q)
        /\ \A i \in 1..Len(q) : q[i] \in wanted
        /\ \A i, j \in 1..Len(q) : i < j => q[i] > q[j]
    BY <1>5 DEF NewestFirst
  <2>3. RowsTold'
    BY <1>1, <1>2, <1>5, <2>1, <2>2 DEF RowsTold
  <2> QED
    BY <2>1, <2>3 DEF ReplyFits
<1>6. ASSUME reply' = [NoReply EXCEPT !.kind = "rows", !.rows = list_by_type(tenant, type, limit)]
      PROVE  ReplyFits'
  <2>1. NewestFirst({e \in Ids : entities[e].tenant = tenant /\ entities[e].type = type},
                    Len(entities), list_by_type(tenant, type, limit))
    BY <1>0, ByTypeFacts
  <2> QED
    BY <1>5, <1>6, <2>1
<1>7. ASSUME reply' = [NoReply EXCEPT !.kind = "rows", !.rows = search_entities(tenant, name)]
      PROVE  ReplyFits'
  <2>1. PICK wanted : wanted = {e \in Ids : entities[e].tenant = tenant /\ entities[e].name = name}
    OBVIOUS
  <2>2. search_entities(tenant, name) = Newest(wanted)
    BY <2>1 DEF search_entities
  <2>3. NewestFirst(wanted, Len(entities), Newest(wanted))
    BY <1>0, NewestFacts
  <2>4. \A e \in wanted : e \in Ids /\ entities[e].tenant = tenant
    BY <2>1
  <2> QED
    BY <1>5, <1>7, <2>2, <2>3, <2>4
<1>8. ASSUME NEW e \in Ids, NEW t,
             reply' = [NoReply EXCEPT !.kind = "relations",
                         !.nodes = get_relations(e) \cap get_relations_by_type(tenant, t)]
      PROVE  ReplyFits'
  <2>1. reply'.kind = "relations"
    BY <1>8 DEF NoReply
  <2> QED
    BY <2>1 DEF ReplyFits
<1>9. ReplyFits'
  BY <1>6, <1>7, <1>8 DEF Lookup
<1> QED
  BY <1>3, <1>4, <1>9 DEF GraphInv

LEMMA BeginStep ==
    ASSUME GraphInv, NEW start \in Ids, NEW goal, NEW max_depth \in Nat,
           goal # None => goal \in Ids /\ max_depth = MaxHops,
           BeginWalk(start, goal, max_depth)
    PROVE  GraphInv'
<1>0. entities \in Seq(Entity) /\ Len(entities) \in Nat /\ Ids = 1..Len(entities)
  BY DEF GraphInv, GraphRows, Ids
<1>1. Ids' = Ids /\ GraphRows'
  BY DEF GraphInv, GraphRows, BeginWalk, Ids
<1>2. walk' = [state |-> "loading", start |-> start, goal |-> goal, max_depth |-> max_depth,
               level |-> 0, frontier |-> {start}, next |-> {}, visited |-> {start},
               adjacency |-> <<>>, before |-> relations]
  BY DEF BeginWalk, Idle
<1>3. HeadFits'
  <2>1. relations' = relations
    BY DEF BeginWalk
  <2> QED
    BY <1>1, <1>2, <2>1 DEF HeadFits
<1>4. DOMAIN walk'.adjacency = {}
  BY <1>2
<1>5. ListFits'
  BY <1>4 DEF ListFits
<1>6. LevelFits'
  <2>1. ASSUME NEW k \in Nat, NEW b, Linked(relations, start, b, k), k <= 0
        PROVE  b = start
    <3>1. k = 0
      BY <2>1
    <3> QED
      BY <1>0, <2>1, <3>1, LinkedNowhere
  <2>2. walk'.before = relations /\ walk'.start = start /\ walk'.level = 0
        /\ walk'.frontier = {start}
    BY <1>2
  <2> QED
    BY <2>1, <2>2 DEF LevelFits
<1>7. LoadFits'
  BY <1>1, <1>2, <1>4, <1>5, <1>6 DEF LoadFits
<1>8. ReplyFits'
  BY DEF BeginWalk, NoReply, ReplyFits
<1> QED
  BY <1>1, <1>3, <1>7, <1>8 DEF GraphInv

LEMMA NeighborFacts ==
    ASSUME NEW e, NEW x
    PROVE  x \in fetch_neighbors(e) <=> Edge(relations, e, x)
  BY EdgeFacts DEF fetch_neighbors

\* One entity of the frontier is asked for, in a graph that has grown since the walk began.
LEMMA LoadStep ==
    ASSUME GraphInv, NEW e, Load(e)
    PROVE  GraphInv'
<1>0. /\ walk.state = "loading" /\ e \in walk.frontier /\ walk.level < walk.max_depth
      /\ entities' = entities /\ relations' = relations /\ reply' = reply
      /\ Ids' = Ids
  BY DEF Load, Ids
<1>1. /\ walk.start \in Ids /\ walk.before \subseteq relations /\ walk.max_depth \in Nat
      /\ walk.level \in Nat /\ walk.visited = DOMAIN walk.adjacency \cup walk.frontier \cup walk.next
      /\ walk.start \in walk.visited /\ walk.visited \subseteq Ids /\ ListFits /\ LevelFits
  BY <1>0 DEF GraphInv, HeadFits, LoadFits
<1>2. \A r \in relations : r[1] \in Ids /\ r[2] \in Ids
  BY DEF GraphInv, GraphRows
<1>3. PICK hits : hits = fetch_neighbors(e)
  OBVIOUS
<1>4. \A x : x \in hits <=> Edge(relations, e, x)
  BY <1>3, NeighborFacts
<1>5. PICK rest : rest = walk.frontier \ {e}
  OBVIOUS
<1>6. PICK more : more = walk.next \cup (hits \ walk.visited)
  OBVIOUS
<1>7. walk' = [walk EXCEPT
              !.adjacency = [x \in DOMAIN @ \cup {e} |-> IF x = e THEN hits ELSE @[x]],
              !.visited = @ \cup hits,
              !.level = IF rest = {} THEN @ + 1 ELSE @,
              !.frontier = IF rest = {} THEN more ELSE rest,
              !.next = IF rest = {} THEN {} ELSE more]
  BY <1>3, <1>5, <1>6 DEF Load
<1>8. DOMAIN walk = {"state", "start", "goal", "max_depth", "level", "frontier", "next",
                     "visited", "adjacency", "before"}
  BY DEF GraphInv, HeadFits
<1>9. PICK adj : adj = walk'.adjacency
  OBVIOUS
<1>10. /\ DOMAIN walk' = DOMAIN walk
       /\ walk'.state = "loading" /\ walk'.start = walk.start /\ walk'.goal = walk.goal
       /\ walk'.max_depth = walk.max_depth /\ walk'.before = walk.before
       /\ walk'.visited = walk.visited \cup hits
       /\ walk'.level = IF rest = {} THEN walk.level + 1 ELSE walk.level
       /\ walk'.frontier = IF rest = {} THEN more ELSE rest
       /\ walk'.next = IF rest = {} THEN {} ELSE more
  BY <1>0, <1>7, <1>8
<1>11. adj = [x \in DOMAIN walk.adjacency \cup {e} |-> IF x = e THEN hits ELSE walk.adjacency[x]]
  BY <1>7, <1>8, <1>9
<1>12. DOMAIN adj = DOMAIN walk.adjacency \cup {e} /\ adj[e] = hits
       /\ \A x \in DOMAIN walk.adjacency : x # e => adj[x] = walk.adjacency[x]
  BY <1>11
<1>13. hits \subseteq Ids /\ e \in Ids
  BY <1>0, <1>1, <1>2, <1>4, EdgeFacts
<1>14. ASSUME NEW y \in DOMAIN adj
       PROVE  /\ y \in Ids /\ adj[y] \subseteq walk.visited \cup hits
              /\ \A x \in adj[y] : Edge(relations, y, x)
              /\ \A x : Edge(walk.before, y, x) => x \in adj[y]
  <2>1. CASE y = e
    <3>1. \A x : Edge(walk.before, e, x) => Edge(relations, e, x)
      BY <1>1 DEF Edge
    <3> QED
      BY <1>4, <1>12, <1>13, <2>1, <3>1
  <2>2. CASE y # e
    BY <1>1, <1>12, <1>14, <2>2 DEF ListFits
  <2> QED
    BY <2>1, <2>2
<1>15. ListFits'
  BY <1>0, <1>9, <1>10, <1>14 DEF ListFits
<1>16. walk'.visited = DOMAIN adj \cup walk'.frontier \cup walk'.next
  <2>1. CASE rest = {}
    BY <1>1, <1>0, <1>5, <1>6, <1>10, <1>12, <2>1
  <2>2. CASE rest # {}
    BY <1>1, <1>0, <1>5, <1>6, <1>10, <1>12, <2>2
  <2> QED
    BY <2>1, <2>2
<1>17. ASSUME NEW k \in Nat, NEW b, Linked(walk.before, walk.start, b, k)
       PROVE  /\ k < walk'.level => b \in DOMAIN adj
              /\ k = walk'.level => b \in DOMAIN adj \cup walk'.frontier
  <2>1. /\ k < walk.level => b \in DOMAIN walk.adjacency
        /\ k = walk.level => b \in DOMAIN walk.adjacency \cup walk.frontier
    BY <1>1, <1>17 DEF LevelFits
  <2>2. CASE rest # {}
    BY <1>5, <1>10, <1>12, <2>1, <2>2
  <2>3. CASE rest = {}
    <3>1. walk'.level = walk.level + 1 /\ walk.frontier \subseteq {e}
      BY <1>5, <1>10, <2>3
    <3>2. k < walk.level + 1 => b \in DOMAIN adj
      BY <1>1, <1>12, <2>1, <3>1
    <3>3. k = walk.level + 1 => b \in DOMAIN adj \cup walk'.frontier
      <4> SUFFICES ASSUME k = walk.level + 1 PROVE b \in DOMAIN adj \cup walk'.frontier
        OBVIOUS
      <4>1. walk.start \in Nat
        BY <1>1 DEF GraphInv, GraphRows, Ids
      <4>2. \E a \in Nat : Linked(walk.before, walk.start, a, walk.level) /\ Edge(walk.before, a, b)
        BY <1>1, <1>17, <4>1, LinkedBefore
      <4>3. PICK a \in Nat : Linked(walk.before, walk.start, a, walk.level) /\ Edge(walk.before, a, b)
        BY <4>2
      <4>4. a \in DOMAIN walk.adjacency \cup walk.frontier
        BY <1>1, <4>3 DEF LevelFits
      <4>5. a \in DOMAIN adj
        BY <1>12, <3>1, <4>4
      <4>6. b \in walk'.visited
        BY <1>10, <1>14, <4>3, <4>5
      <4>7. walk'.next = {}
        BY <1>10, <2>3
      <4> QED
        BY <1>16, <4>6, <4>7
    <3> QED
      BY <3>1, <3>2, <3>3
  <2> QED
    BY <2>2, <2>3
<1>18. LevelFits'
  BY <1>9, <1>10, <1>17 DEF LevelFits
<1>19. walk'.level \in Nat /\ walk'.level <= walk'.max_depth
  BY <1>0, <1>1, <1>10
<1>20. LoadFits'
  <2>1. walk'.start \in walk'.visited /\ walk'.visited \subseteq Ids'
    BY <1>0, <1>1, <1>10, <1>13
  <2>2. walk'.frontier = {} => walk'.next = {}
    BY <1>10
  <2> QED
    BY <1>9, <1>15, <1>16, <1>18, <1>19, <2>1, <2>2 DEF LoadFits
<1>21. GraphRows' /\ HeadFits'
  BY <1>0, <1>8, <1>10 DEF GraphInv, GraphRows, HeadFits
<1>22. ReplyFits'
  BY <1>0, <1>10 DEF GraphInv, ReplyFits, NodesTold, PathTold, RowsTold
<1> QED
  BY <1>20, <1>21, <1>22 DEF GraphInv

\* When the list is loaded it has everything that was within reach in fewer hops than
\* were asked for.
LEMMA AllLoaded ==
    ASSUME GraphInv, walk.state = "loading", walk.frontier = {} \/ walk.level = walk.max_depth
    PROVE  \A k \in Nat : \A b : k < walk.max_depth /\ Linked(walk.before, walk.start, b, k) =>
              b \in DOMAIN walk.adjacency
<1>1. /\ walk.start \in Ids /\ walk.max_depth \in Nat /\ walk.level \in Nat
      /\ walk.visited = DOMAIN walk.adjacency \cup walk.frontier \cup walk.next
      /\ walk.start \in walk.visited /\ ListFits /\ LevelFits
      /\ walk.frontier = {} => walk.next = {}
  BY DEF GraphInv, HeadFits, LoadFits
<1>2. walk.start \in Nat
  BY <1>1 DEF GraphInv, GraphRows, Ids
<1>3. CASE walk.level = walk.max_depth
  BY <1>1, <1>3 DEF LevelFits
<1>4. CASE walk.frontier = {}
  <2> DEFINE Fine(k) == \A b : Linked(walk.before, walk.start, b, k) => b \in DOMAIN walk.adjacency
             bad == {k \in Nat : ~Fine(k)}
  <2>1. SUFFICES ASSUME bad # {} PROVE FALSE
    OBVIOUS
  <2>2. PICK m \in bad : \A n \in bad : m <= n
    <3>1. bad \in SUBSET Nat
      OBVIOUS
    <3> HIDE DEF bad
    <3> QED
      BY <2>1, <3>1, LeastNumber
  <2>3. walk.visited = DOMAIN walk.adjacency
    BY <1>1, <1>4
  <2>4. CASE m = 0
    <3>1. Fine(0)
      BY <1>1, <1>2, <2>3, LinkedNowhere
    <3> QED
      BY <2>2, <2>4, <3>1
  <2>5. CASE m # 0
    <3>1. m - 1 \in Nat /\ m - 1 \notin bad /\ (m - 1) + 1 = m
      BY <2>2, <2>5
    <3>2. Fine(m - 1)
      BY <3>1
    <3>3. ASSUME NEW b, Linked(walk.before, walk.start, b, m) PROVE b \in DOMAIN walk.adjacency
      <4>1. Linked(walk.before, walk.start, b, (m - 1) + 1)
        BY <3>1, <3>3
      <4>2. \E a \in Nat : Linked(walk.before, walk.start, a, m - 1) /\ Edge(walk.before, a, b)
        BY <1>2, <3>1, <4>1, LinkedBefore
      <4>3. PICK a \in Nat : Linked(walk.before, walk.start, a, m - 1) /\ Edge(walk.before, a, b)
        BY <4>2
      <4>4. a \in DOMAIN walk.adjacency
        BY <3>2, <4>3
      <4> QED
        BY <1>1, <2>3, <4>3, <4>4 DEF ListFits
    <3> QED
      BY <2>2, <3>3
  <2> QED
    BY <2>4, <2>5
<1> QED
  BY <1>3, <1>4

\* What the search of the list that was loaded sees, and at which hop.
Sighted(depth, levels) ==
    /\ \A l \in levels : \E x : l = <<x, l[2]>> /\ l[1] = x
    /\ \A x, h : <<x, h>> \in levels =>
          h \in 0..depth /\ Linked(relations, walk.start, x, h) /\ (h = 0 => x = walk.start)
    /\ \A k \in Nat : \A x :
          k <= walk.max_depth /\ Linked(walk.before, walk.start, x, k) =>
             \E h \in 0..depth : h <= k /\ <<x, h>> \in levels
    /\ \A x, h, i : <<x, h>> \in levels /\ <<x, i>> \in levels => h = i

LEMMA SearchFacts ==
    ASSUME GraphInv, walk.state = "loading", walk.frontier = {} \/ walk.level = walk.max_depth,
           NEW depth \in Nat, depth = Min({walk.max_depth, Len(entities)})
    PROVE  Sighted(depth, bfs_traverse(walk.adjacency, walk.start, walk.max_depth))
<1>0. PICK levels : levels = bfs_traverse(walk.adjacency, walk.start, walk.max_depth)
  OBVIOUS
<1>1. /\ walk.start \in Ids /\ walk.max_depth \in Nat /\ walk.before \subseteq relations /\ ListFits
  BY DEF GraphInv, HeadFits, LoadFits
<1>2. Len(entities) \in Nat /\ Ids = 1..Len(entities)
      /\ \A r \in relations : r[1] \in Ids /\ r[2] \in Ids
  BY DEF GraphInv, GraphRows, Ids
<1>3. depth <= walk.max_depth /\ depth \in {walk.max_depth, Len(entities)}
  BY <1>1, <1>2, LesserFacts
<1>4. PICK g : g = Seen(walk.adjacency, walk.start, depth)
  OBVIOUS
<1>5. PICK adj : adj = walk.adjacency
  OBVIOUS
<1>6. PICK start \in Nat : start = walk.start
  BY <1>1, <1>2
<1>7. Seeing(adj, start, depth, g) /\ LevelsFit(g, depth, levels)
  BY <1>0, <1>1, <1>4, <1>5, <1>6, TraverseFacts
<1>8. \A e \in DOMAIN adj : \A x \in adj[e] : x \in Nat /\ Edge(relations, e, x)
  BY <1>1, <1>2, <1>5, EdgeFacts DEF ListFits
<1>9. \A d \in 0..depth : \A x \in g[d] :
         x \in Nat /\ (d = 0 \/ x \notin g[d - 1] => Linked(relations, start, x, d))
  BY <1>7, <1>8, SeenIsLinked
<1>10. g[0] = {start}
  BY <1>7 DEF Seeing
<1>11. \A x, h : <<x, h>> \in levels =>
          h \in 0..depth /\ Linked(relations, start, x, h) /\ (h = 0 => x = start)
  BY <1>7, <1>9, <1>10 DEF LevelsFit
<1>12. \A k \in Nat : \A b : k < walk.max_depth /\ Linked(walk.before, start, b, k) => b \in DOMAIN adj
  BY <1>5, <1>6, AllLoaded
<1>13. \A k \in 0..depth : \A x : Linked(walk.before, start, x, k) => x \in g[k]
  <2>1. \A e \in Nat, k \in Nat : k < depth /\ Linked(walk.before, start, e, k) => e \in DOMAIN adj
    BY <1>1, <1>3, <1>12
  <2>2. \A e \in DOMAIN adj, x \in Nat : Edge(walk.before, e, x) => x \in adj[e]
    BY <1>1, <1>5 DEF ListFits
  <2> QED
    BY <1>7, <2>1, <2>2, LinkedIsSeen
<1>14. ASSUME NEW k \in Nat, NEW x, k <= walk.max_depth, Linked(walk.before, start, x, k)
       PROVE  \E h \in 0..depth : h <= k /\ <<x, h>> \in levels
  <2>1. \A r \in walk.before : r[1] \in 1..Len(entities) /\ r[2] \in 1..Len(entities)
    BY <1>1, <1>2
  <2>2. \E m \in 0..(Len(entities) - 1) : m <= k /\ Linked(walk.before, start, x, m)
    BY <1>1, <1>2, <1>6, <1>14, <2>1, LinkedShortly
  <2>3. PICK m \in 0..depth : m <= k /\ Linked(walk.before, start, x, m)
    BY <1>1, <1>2, <1>3, <1>14, <2>2
  <2>4. x \in g[m]
    BY <1>13, <2>3
  <2>5. PICK h \in 0..m : <<x, h>> \in levels
    BY <1>7, <2>3, <2>4 DEF LevelsFit
  <2> QED
    BY <1>14, <2>3, <2>5
<1>15. /\ \A l \in levels : \E x : l = <<x, l[2]>> /\ l[1] = x
       /\ \A x, h, i : <<x, h>> \in levels /\ <<x, i>> \in levels => h = i
  BY <1>7 DEF LevelsFit
<1>16. Sighted(depth, levels)
  BY <1>6, <1>11, <1>14, <1>15 DEF Sighted
<1> QED
  BY <1>0, <1>16

\* The search: entities at their distance, or a path.
LEMMA FinishStep ==
    ASSUME GraphInv, Finish
    PROVE  GraphInv'
<1>0. /\ walk.state = "loading"
      /\ walk.frontier = {} \/ walk.level = walk.max_depth
      /\ walk' = [walk EXCEPT !.state = "done"]
      /\ entities' = entities /\ relations' = relations /\ Ids' = Ids
  BY DEF Finish, Ids
<1>1. /\ walk.start \in Ids /\ walk.max_depth \in Nat /\ walk.before \subseteq relations
      /\ walk.goal # None => walk.goal \in Ids /\ walk.max_depth = MaxHops
      /\ ListFits
  BY <1>0 DEF GraphInv, HeadFits, LoadFits
<1>2. Len(entities) \in Nat /\ Ids = 1..Len(entities) /\ Len(entities) <= MaxHops
      /\ \A r \in relations : r[1] \in Ids /\ r[2] \in Ids
  BY HopsAssumption, RequestsAssumption DEF GraphInv, GraphRows, Ids
<1>3. DOMAIN walk = {"state", "start", "goal", "max_depth", "level", "frontier", "next",
                     "visited", "adjacency", "before"}
  BY DEF GraphInv, HeadFits
<1>4. /\ DOMAIN walk' = DOMAIN walk /\ walk'.state = "done" /\ walk'.start = walk.start
      /\ walk'.goal = walk.goal /\ walk'.max_depth = walk.max_depth /\ walk'.before = walk.before
  BY <1>0, <1>3
<1>5. GraphRows' /\ HeadFits' /\ LoadFits'
  BY <1>0, <1>3, <1>4 DEF GraphInv, GraphRows, HeadFits, LoadFits
<1>6. PICK depth \in Nat : depth = Min({walk.max_depth, Len(entities)}) /\ depth <= walk.max_depth
                          /\ depth <= Len(entities)
  BY <1>1, <1>2, LesserFacts
<1>7. PICK levels : levels = bfs_traverse(walk.adjacency, walk.start, walk.max_depth)
  OBVIOUS
<1>8. /\ \A l \in levels : \E x : l = <<x, l[2]>> /\ l[1] = x
      /\ \A x, h : <<x, h>> \in levels =>
            h \in 0..depth /\ Linked(relations, walk.start, x, h) /\ (h = 0 => x = walk.start)
      /\ \A k \in Nat : \A x :
            k <= walk.max_depth /\ Linked(walk.before, walk.start, x, k) =>
               \E h \in 0..depth : h <= k /\ <<x, h>> \in levels
      /\ \A x, h, i : <<x, h>> \in levels /\ <<x, i>> \in levels => h = i
  <2>1. Sighted(depth, levels)
    BY <1>0, <1>6, <1>7, SearchFacts
  <2> QED
    BY <2>1 DEF Sighted
<1>9. CASE walk.goal = None
  <2>1. reply'.kind = "nodes" /\ reply'.nodes = levels
    BY <1>7, <1>9 DEF Finish, NoReply
  <2>2. ASSUME NEW n \in levels
        PROVE  /\ n[2] \in Nat /\ n[2] <= walk.max_depth /\ n[2] <= Len(entities)
               /\ Linked(relations, walk.start, n[1], n[2])
    <3>1. PICK x : n = <<x, n[2]>> /\ n[1] = x
      BY <1>8
    <3>2. n[2] \in 0..depth /\ Linked(relations, walk.start, x, n[2])
      BY <1>8, <3>1
    <3> QED
      BY <1>1, <1>2, <1>6, <3>1, <3>2
  <2>3. ASSUME NEW k \in Nat, NEW b, k <= walk.max_depth, Linked(walk.before, walk.start, b, k)
        PROVE  \E n \in levels : n[1] = b /\ n[2] <= k
    <3>1. PICK h \in 0..depth : h <= k /\ <<b, h>> \in levels
      BY <1>8, <2>3
    <3>2. <<b, h>>[1] = b /\ <<b, h>>[2] = h
      OBVIOUS
    <3> QED
      BY <3>1, <3>2
  <2>4. NodesTold'
    BY <1>0, <1>4, <2>1, <2>2, <2>3 DEF NodesTold
  <2>5. ReplyFits'
    BY <1>4, <2>1, <2>4 DEF ReplyFits
  <2> QED
    BY <1>5, <2>5 DEF GraphInv
<1>10. CASE walk.goal # None
  <2>0. walk.goal \in Ids /\ walk.max_depth = MaxHops
    BY <1>1, <1>10
  <2>1. PICK p \in bfs_shortest_path(walk.adjacency, walk.start, walk.goal) :
           reply' = [NoReply EXCEPT !.kind = "path", !.path = p]
    BY <1>10 DEF Finish
  <2>2. reply'.kind = "path" /\ reply'.path = p
    BY <2>1 DEF NoReply
  <2>3. CASE \A l \in levels : l[1] # walk.goal
    <3>1. p = <<>>
      BY <1>7, <2>0, <2>1, <2>3 DEF bfs_shortest_path
    <3>2. ASSUME NEW k \in Nat, Linked(walk.before, walk.start, walk.goal, k) PROVE FALSE
      <4>1. walk.start \in 1..Len(entities)
            /\ \A r \in walk.before : r[1] \in 1..Len(entities) /\ r[2] \in 1..Len(entities)
        BY <1>1, <1>2
      <4>2. PICK m \in 0..(Len(entities) - 1) : m <= k /\ Linked(walk.before, walk.start, walk.goal, m)
        BY <1>2, <3>2, <4>1, LinkedShortly
      <4>3. m \in Nat /\ m <= walk.max_depth
        BY <1>2, <2>0, <4>2, HopsAssumption
      <4>4. PICK h \in 0..depth : <<walk.goal, h>> \in levels
        BY <1>8, <4>2, <4>3
      <4>5. <<walk.goal, h>>[1] = walk.goal
        OBVIOUS
      <4> QED
        BY <2>3, <4>4, <4>5
    <3>3. PathTold'
      BY <1>4, <2>2, <3>1, <3>2 DEF PathTold
    <3> QED
      BY <1>0, <1>4, <1>5, <2>0, <2>2, <3>3 DEF GraphInv, ReplyFits
  <2>4. CASE ~(\A l \in levels : l[1] # walk.goal)
    <3>1. PICK last : last = CHOOSE l \in levels : l[1] = walk.goal
      OBVIOUS
    <3>2. last \in levels /\ last[1] = walk.goal
      BY <2>4, <3>1
    <3>3. PICK d : d = last[2]
      OBVIOUS
    <3>4. <<walk.goal, d>> \in levels
      BY <1>8, <3>2, <3>3
    <3>5. d \in 0..depth /\ d \in Nat /\ (d = 0 => walk.goal = walk.start)
      BY <1>8, <3>4
    <3>6. p \in Paths(walk.adjacency, levels, walk.goal, d)
      BY <1>7, <2>0, <2>1, <2>4, <3>1, <3>3 DEF bfs_shortest_path
    <3>7. DOMAIN walk.adjacency \subseteq Nat /\ walk.goal \in Nat
      BY <1>1, <1>2, <2>0 DEF ListFits
    <3>8. PathFits(walk.adjacency, levels, walk.goal, d, d, p)
      BY <3>5, <3>6, <3>7, PathFacts
    <3>9. /\ p \in Seq(Nat) /\ Len(p) = d + 1 /\ p[d + 1] = walk.goal
          /\ d = 0 \/ <<p[1], d - d>> \in levels
          /\ \A j \in 2..(d + 1) : p[j - 1] \in DOMAIN walk.adjacency /\ p[j] \in walk.adjacency[p[j - 1]]
      BY <3>8 DEF PathFits
    <3>10. p[1] = walk.start
      <4>1. CASE d = 0
        BY <3>5, <3>9, <4>1
      <4>2. CASE d # 0
        <5>1. <<p[1], 0>> \in levels
          <6>1. d - d = 0
            BY <3>5
          <6> QED
            BY <3>9, <4>2, <6>1
        <5> QED
          BY <1>8, <5>1
      <4> QED
        BY <4>1, <4>2
    <3>11. \A j \in 2..Len(p) : Edge(relations, p[j - 1], p[j])
      BY <1>1, <3>9 DEF ListFits
    <3>12. ASSUME NEW k \in Nat, k < Len(p) - 1, Linked(walk.before, walk.start, walk.goal, k)
           PROVE  FALSE
      <4>1. k < d /\ k <= walk.max_depth
        BY <1>1, <1>6, <3>5, <3>9, <3>12
      <4>2. PICK h \in 0..depth : h <= k /\ <<walk.goal, h>> \in levels
        BY <1>8, <3>12, <4>1
      <4>3. h = d
        BY <1>8, <3>4, <4>2
      <4> QED
        BY <3>5, <4>1, <4>2, <4>3
    <3>13. p # <<>> /\ Len(p) \in Nat
      BY <3>5, <3>9
    <3>14. PathTold'
      BY <1>0, <1>4, <2>2, <3>9, <3>10, <3>11, <3>12, <3>13 DEF PathTold
    <3> QED
      BY <1>0, <1>4, <1>5, <2>0, <2>2, <3>14 DEF GraphInv, ReplyFits
  <2> QED
    BY <2>3, <2>4
<1> QED
  BY <1>9, <1>10

LEMMA GraphStep == GraphInv /\ (GraphNext \/ UNCHANGED graph_vars) => GraphInv'
<1> SUFFICES ASSUME GraphInv, GraphNext \/ UNCHANGED graph_vars PROVE GraphInv'
  OBVIOUS
<1>1. CASE create_entity \/ UNCHANGED graph_vars
  BY <1>1, GraphWrites
<1>2. CASE \E e \in Ids : update_attributes(e)
  BY <1>2, GraphWrites
<1>3. CASE \E r \in RelationRequests : create_relation(r)
  BY <1>3, GraphWrites
<1>4. CASE \E e \in Ids, n \in 0..1 :
              Lookup(entities[e].tenant, entities[e].type, entities[e].name, n)
  BY <1>4, LookupStep
<1>5. ASSUME NEW e \in Ids, NEW d \in Depths, traverse(e, d) PROVE GraphInv'
  BY <1>5, BeginStep, HopsAssumption DEF traverse
<1>6. ASSUME NEW e \in Ids, NEW f \in Ids, shortest_path(e, f) PROVE GraphInv'
  BY <1>6, BeginStep, HopsAssumption DEF shortest_path
<1>7. CASE \E e \in walk.frontier : Load(e)
  BY <1>7, LoadStep
<1>8. CASE Finish
  BY <1>8, FinishStep
<1> QED
  BY <1>1, <1>2, <1>3, <1>4, <1>5, <1>6, <1>7, <1>8 DEF GraphNext

LEMMA GraphSound == GraphInv => PathsReal
<1> SUFFICES ASSUME GraphInv PROVE PathsReal
  OBVIOUS
<1>1. Len(entities) \in Nat /\ Ids = 1..Len(entities)
      /\ \A r \in relations : r[1] \in Ids /\ r[2] \in Ids
  BY DEF GraphInv, GraphRows, Ids
<1>2. ASSUME reply.kind \in {"nodes", "path"}
      PROVE  /\ walk.start \in Ids /\ walk.before \subseteq relations /\ walk.max_depth \in Nat
             /\ \A b : \A d \in Nat : Within(walk.before, walk.start, b, d) =>
                   \E k \in Nat : k <= d /\ Linked(walk.before, walk.start, b, k)
             /\ \A b : \A d \in Nat : d <= Len(entities) /\ Linked(relations, walk.start, b, d) =>
                   Within(relations, walk.start, b, d)
  <2>1. walk.start \in Ids /\ walk.before \subseteq relations /\ walk.max_depth \in Nat
    BY <1>2 DEF GraphInv, HeadFits, ReplyFits
  <2>2. ASSUME NEW b, NEW d \in Nat, Within(walk.before, walk.start, b, d)
        PROVE  \E k \in Nat : k <= d /\ Linked(walk.before, walk.start, b, k)
    <3>1. Min({d, Len(entities)}) \in Nat /\ Min({d, Len(entities)}) <= d
      BY <1>1, LesserFacts
    <3>2. PICK k \in 0..Min({d, Len(entities)}) : Joined(walk.before, walk.start, b, k)
      BY <2>2 DEF Within
    <3>3. k \in Nat /\ k <= d
      BY <3>1, <3>2
    <3>4. Linked(walk.before, walk.start, b, k)
      BY <1>1, <2>1, <3>2, <3>3, JoinedIsLinked
    <3> QED
      BY <3>3, <3>4
  <2>3. ASSUME NEW b, NEW d \in Nat, d <= Len(entities), Linked(relations, walk.start, b, d)
        PROVE  Within(relations, walk.start, b, d)
    <3>1. Min({d, Len(entities)}) = d
      BY <1>1, <2>3, LesserFacts
    <3>2. Joined(relations, walk.start, b, d)
      BY <1>1, <2>1, <2>3, JoinedIsLinked
    <3>3. d \in 0..Min({d, Len(entities)})
      BY <3>1
    <3> QED
      BY <3>2, <3>3 DEF Within
  <2> QED
    BY <2>1, <2>2, <2>3
<1>3. ASSUME reply.kind = "nodes"
      PROVE  /\ \A n \in reply.nodes :
                   n[2] <= walk.max_depth /\ Within(relations, walk.start, n[1], n[2])
             /\ \A e \in Ids, d \in 0..walk.max_depth :
                   Within(walk.before, walk.start, e, d) =>
                       \E n \in reply.nodes : n[1] = e /\ n[2] <= d
  <2>1. NodesTold
    BY <1>3 DEF GraphInv, ReplyFits
  <2>2. ASSUME NEW n \in reply.nodes
        PROVE  n[2] <= walk.max_depth /\ Within(relations, walk.start, n[1], n[2])
    <3>1. /\ n[2] \in Nat /\ n[2] <= walk.max_depth /\ n[2] <= Len(entities)
          /\ Linked(relations, walk.start, n[1], n[2])
      BY <2>1 DEF NodesTold
    <3> QED
      BY <1>2, <1>3, <3>1
  <2>3. ASSUME NEW e \in Ids, NEW d \in 0..walk.max_depth, Within(walk.before, walk.start, e, d)
        PROVE  \E n \in reply.nodes : n[1] = e /\ n[2] <= d
    <3>1. d \in Nat /\ walk.max_depth \in Nat /\ d <= walk.max_depth
      BY <1>2, <1>3
    <3>2. PICK k \in Nat : k <= d /\ Linked(walk.before, walk.start, e, k)
      BY <1>2, <1>3, <2>3, <3>1
    <3>3. PICK n \in reply.nodes : n[1] = e /\ n[2] <= k
      BY <2>1, <3>1, <3>2 DEF NodesTold
    <3>4. n[2] \in Nat
      BY <2>1 DEF NodesTold
    <3> QED
      BY <3>1, <3>2, <3>3, <3>4
  <2> QED
    BY <2>2, <2>3
<1>4. ASSUME reply.kind = "path"
      PROVE  IF reply.path = <<>>
             THEN ~Within(walk.before, walk.start, walk.goal, MaxHops)
             ELSE /\ reply.path[1] = walk.start /\ Last(reply.path) = walk.goal
                  /\ \A j \in 2..Len(reply.path) : \E r \in relations :
                        {r[1], r[2]} = {reply.path[j - 1], reply.path[j]}
                  /\ \A d \in 0..(Len(reply.path) - 2) :
                        ~Within(walk.before, walk.start, walk.goal, d)
  <2>1. PathTold
    BY <1>4 DEF GraphInv, ReplyFits
  <2>2. CASE reply.path = <<>>
    <3>1. \A k \in Nat : ~Linked(walk.before, walk.start, walk.goal, k)
      BY <2>1, <2>2 DEF PathTold
    <3>2. ~Within(walk.before, walk.start, walk.goal, MaxHops)
      BY <1>2, <1>4, <3>1, HopsAssumption
    <3> QED
      BY <2>2, <3>2
  <2>3. CASE reply.path # <<>>
    <3>1. /\ Len(reply.path) \in Nat
          /\ reply.path[1] = walk.start /\ reply.path[Len(reply.path)] = walk.goal
          /\ \A j \in 2..Len(reply.path) : Edge(relations, reply.path[j - 1], reply.path[j])
          /\ \A k \in Nat : k < Len(reply.path) - 1 =>
                ~Linked(walk.before, walk.start, walk.goal, k)
      BY <2>1, <2>3 DEF PathTold
    <3>2. ASSUME NEW d \in 0..(Len(reply.path) - 2), Within(walk.before, walk.start, walk.goal, d)
          PROVE  FALSE
      <4>1. d \in Nat
        OBVIOUS
      <4>2. PICK k \in Nat : k <= d /\ Linked(walk.before, walk.start, walk.goal, k)
        BY <1>2, <1>4, <3>2, <4>1
      <4>3. k < Len(reply.path) - 1
        BY <3>1, <4>1, <4>2
      <4> QED
        BY <3>1, <4>2, <4>3
    <3>3. \A j \in 2..Len(reply.path) : \E r \in relations :
                        {r[1], r[2]} = {reply.path[j - 1], reply.path[j]}
      BY <3>1 DEF Edge
    <3> QED
      BY <2>3, <3>1, <3>2, <3>3 DEF Last
  <2> QED
    BY <2>2, <2>3
<1>5. ASSUME reply.kind = "rows"
      PROVE  \A i, j \in DOMAIN reply.rows :
                /\ entities[reply.rows[i]].tenant = entities[reply.rows[j]].tenant
                /\ i < j => reply.rows[i] > reply.rows[j]
  BY <1>5 DEF GraphInv, ReplyFits, RowsTold
<1> QED
  BY <1>3, <1>4, <1>5 DEF PathsReal

-----------------------------------------------------------------------------
(* Sums and averages. *)

\* g has the sums of the beginnings of s, up to the n-th.
SumTo(s, n, g) == g = [k \in 0..n |-> IF k = 0 THEN 0 ELSE g[k - 1] + s[k]]

LEMMA SumExists ==
    ASSUME NEW s, NEW last \in Nat
    PROVE  \E g : SumTo(s, last, g)
<1> DEFINE bad == {n \in 0..last : ~\E g : SumTo(s, n, g)}
<1>1. SUFFICES ASSUME bad # {} PROVE FALSE
  OBVIOUS
<1>2. PICK m \in bad : \A n \in bad : m <= n
  <2>1. bad \in SUBSET Nat
    OBVIOUS
  <2> HIDE DEF bad
  <2> QED
    BY <1>1, <2>1, LeastNumber
<1>3. CASE m = 0
  <2>1. PICK g : g = [k \in 0..0 |-> 0]
    OBVIOUS
  <2>2. g = [k \in 0..0 |-> IF k = 0 THEN 0 ELSE g[k - 1] + s[k]]
    BY <2>1
  <2> QED
    BY <1>2, <1>3, <2>2 DEF SumTo
<1>4. CASE m # 0
  <2>1. m \in 1..last /\ m - 1 \in 0..last /\ m - 1 \notin bad
    BY <1>2, <1>4
  <2>2. PICK g : SumTo(s, m - 1, g)
    BY <2>1
  <2>3. PICK h : h = [k \in 0..m |-> IF k < m THEN g[k] ELSE g[m - 1] + s[m]]
    OBVIOUS
  <2>4. \A k \in 0..(m - 1) : g[k] = IF k = 0 THEN 0 ELSE g[k - 1] + s[k]
    BY <2>2 DEF SumTo
  <2>5. \A k \in 0..(m - 1) : h[k] = g[k]
    BY <2>1, <2>3
  <2>6. h[m] = g[m - 1] + s[m]
    BY <2>1, <2>3
  <2>7. ASSUME NEW k \in 0..m
        PROVE  h[k] = IF k = 0 THEN 0 ELSE h[k - 1] + s[k]
    <3>1. CASE k = m
      <4>1. h[k - 1] = g[m - 1]
        BY <2>1, <2>5, <3>1
      <4> QED
        BY <1>4, <2>6, <3>1, <4>1
    <3>2. CASE k # m
      <4>1. k \in 0..(m - 1) /\ (k # 0 => k - 1 \in 0..(m - 1))
        BY <2>1, <3>2
      <4> QED
        BY <2>4, <2>5, <4>1
    <3> QED
      BY <3>1, <3>2
  <2>8. h = [k \in 0..m |-> h[k]]
    BY <2>3
  <2>9. SumTo(s, m, h)
    BY <2>7, <2>8 DEF SumTo
  <2> QED
    BY <1>2, <2>9
<1> QED
  BY <1>3, <1>4

\* The sums of the beginnings: nothing, and then one more each time.
Summing(s, n, g) == g[0] = 0 /\ \A k \in 1..n : g[k] = g[k - 1] + s[k]

LEMMA SumFacts ==
    ASSUME NEW s, Len(s) \in Nat
    PROVE  \E g : /\ Summing(s, Len(s), g) /\ Total(s) = g[Len(s)]
                  /\ Mean(s) = g[Len(s)] \div Len(s)
<1>0. PICK last \in Nat : last = Len(s)
  OBVIOUS
<1>1. PICK g : g = CHOOSE f : SumTo(s, last, f)
  OBVIOUS
<1>2. SumTo(s, last, g)
  BY <1>1, SumExists
<1>3. Total(s) = g[Len(s)] /\ Mean(s) = g[Len(s)] \div Len(s)
  BY <1>0, <1>1 DEF Total, Mean, SumTo
<1>4. \A k \in 0..last : g[k] = IF k = 0 THEN 0 ELSE g[k - 1] + s[k]
  BY <1>2 DEF SumTo
<1>5. g[0] = 0
  <2>1. 0 \in 0..last
    OBVIOUS
  <2> QED
    BY <1>4, <2>1
<1>6. ASSUME NEW k \in 1..last PROVE g[k] = g[k - 1] + s[k]
  <2>1. k \in 0..last /\ k # 0
    OBVIOUS
  <2> QED
    BY <1>4, <2>1
<1> QED
  BY <1>0, <1>3, <1>5, <1>6 DEF Summing

\* From the i-th on, a times the one is never more than b times the other.
Below(i, n, a, w, b, x) == \A k \in i..n : w[k] \in Int /\ x[k] \in Int /\ a * w[k] <= b * x[k]

\* Sums compare as their terms do.
LEMMA SumsCompare ==
    ASSUME NEW n \in Nat, NEW a \in Int, NEW b \in Int, NEW w, NEW x, NEW gw, NEW gx,
           Summing(w, n, gw), Summing(x, n, gx), Below(1, n, a, w, b, x)
    PROVE  Below(0, n, a, gw, b, gx)
<1> DEFINE Fine(k) == gw[k] \in Int /\ gx[k] \in Int /\ a * gw[k] <= b * gx[k]
           bad == {k \in 0..n : ~Fine(k)}
<1>1. SUFFICES ASSUME bad # {} PROVE FALSE
  BY DEF Below
<1>2. PICK m \in bad : \A k \in bad : m <= k
  <2>1. bad \in SUBSET Nat
    OBVIOUS
  <2> HIDE DEF bad
  <2> QED
    BY <1>1, <2>1, LeastNumber
<1>3. CASE m = 0
  <2>1. gw[0] = 0 /\ gx[0] = 0
    BY DEF Summing
  <2>2. Fine(0)
    BY <2>1
  <2> QED
    BY <1>2, <1>3, <2>2
<1>4. CASE m # 0
  <2>1. m \in 1..n /\ m - 1 \in 0..n /\ m - 1 \notin bad
    BY <1>2, <1>4
  <2>2. Fine(m - 1)
    BY <2>1
  <2>3. gw[m] = gw[m - 1] + w[m] /\ gx[m] = gx[m - 1] + x[m]
    BY <2>1 DEF Summing
  <2>4. w[m] \in Int /\ x[m] \in Int /\ a * w[m] <= b * x[m]
    BY <2>1 DEF Below
  <2>5. a * (gw[m - 1] + w[m]) = a * gw[m - 1] + a * w[m]
        /\ b * (gx[m - 1] + x[m]) = b * gx[m - 1] + b * x[m]
    BY <2>2, <2>4
  <2>6. /\ a * gw[m - 1] \in Int /\ a * w[m] \in Int /\ b * gx[m - 1] \in Int /\ b * x[m] \in Int
    BY <2>2, <2>4
  <2>7. a * gw[m] <= b * gx[m]
    BY <2>2, <2>3, <2>4, <2>5, <2>6
  <2> QED
    BY <1>2, <2>2, <2>3, <2>4, <2>7
<1> QED
  BY <1>3, <1>4

\* A quotient is between what the dividend is between.
LEMMA QuotientBounds ==
    ASSUME NEW x \in Int, NEW w \in Nat \ {0}
    PROVE  /\ x \div w \in Int
           /\ \A c \in Int : c * w <= x => c <= x \div w
           /\ \A c \in Int : x <= c * w => x \div w <= c
<1>1. PICK q : q = x \div w
  OBVIOUS
<1>2. PICK r : r = x % w
  OBVIOUS
<1>3. q \in Int /\ r \in 0..(w - 1) /\ x = w * q + r
  BY <1>1, <1>2
<1>4. ASSUME NEW c \in Int, c * w <= x PROVE c <= q
  <2>1. SUFFICES ASSUME q <= c - 1 PROVE FALSE
    BY <1>3
  <2>2. w * q <= w * (c - 1)
    BY <1>3, <2>1
  <2>3. w * (c - 1) = c * w - w
    OBVIOUS
  <2>4. c * w \in Int /\ w * q \in Int
    BY <1>3
  <2> QED
    BY <1>3, <1>4, <2>2, <2>3, <2>4
<1>5. ASSUME NEW c \in Int, x <= c * w PROVE q <= c
  <2>1. SUFFICES ASSUME c + 1 <= q PROVE FALSE
    BY <1>3
  <2>2. w * (c + 1) <= w * q
    BY <1>3, <2>1
  <2>3. w * (c + 1) = c * w + w
    OBVIOUS
  <2>4. c * w \in Int /\ w * q \in Int
    BY <1>3
  <2> QED
    BY <1>3, <1>5, <2>2, <2>3, <2>4
<1> QED
  BY <1>1, <1>3, <1>4, <1>5

\* An average is between what every number is between.
LEMMA AverageBounds ==
    ASSUME NEW s, Len(s) \in Nat \ {0}, \A k \in 1..Len(s) : s[k] \in Int
    PROVE  /\ Average(s) \in Int /\ Mean(s) = Average(s)
           /\ \A c \in Int : (\A k \in 1..Len(s) : c <= s[k]) => c <= Average(s)
           /\ \A c \in Int : (\A k \in 1..Len(s) : s[k] <= c) => Average(s) <= c
<1>1. PICK n \in Nat \ {0} : n = Len(s)
  OBVIOUS
<1>2. PICK g : /\ Summing(s, n, g) /\ Total(s) = g[n]
               /\ Mean(s) = g[n] \div n
  BY <1>1, SumFacts
<1>3. Average(s) = g[n] \div n /\ Mean(s) = Average(s)
  BY <1>1, <1>2 DEF Average
<1>4. PICK ones : ones = [k \in 1..n |-> 1]
  OBVIOUS
<1>5. PICK count : count = [k \in 0..n |-> k]
  OBVIOUS
<1>6. Summing(ones, n, count)
  BY <1>4, <1>5 DEF Summing
<1>7. \A k \in 1..n : ones[k] = 1 /\ ones[k] \in Int /\ s[k] \in Int
  BY <1>1, <1>4
<1>8. n \in 0..n /\ count[n] = n
  BY <1>5
<1>9. g[n] \in Int
  <2>1. Below(1, n, 0, ones, 0, s)
    BY <1>7 DEF Below
  <2>2. Below(0, n, 0, count, 0, g)
    BY <1>2, <1>6, <2>1, SumsCompare
  <2> QED
    BY <1>8, <2>2 DEF Below
<1>10. ASSUME NEW c \in Int, \A k \in 1..n : c <= s[k] PROVE c <= Average(s)
  <2>1. Below(1, n, c, ones, 1, s)
    BY <1>7, <1>10 DEF Below
  <2>2. Below(0, n, c, count, 1, g)
    BY <1>2, <1>6, <2>1, SumsCompare
  <2>3. c * n <= g[n]
    BY <1>8, <1>9, <2>2 DEF Below
  <2> QED
    BY <1>3, <1>9, <2>3, QuotientBounds
<1>11. ASSUME NEW c \in Int, \A k \in 1..n : s[k] <= c PROVE Average(s) <= c
  <2>1. Below(1, n, 1, s, c, ones)
    BY <1>7, <1>11 DEF Below
  <2>2. Below(0, n, 1, g, c, count)
    BY <1>2, <1>6, <2>1, SumsCompare
  <2>3. g[n] <= c * n
    BY <1>8, <1>9, <2>2 DEF Below
  <2> QED
    BY <1>3, <1>9, <2>3, QuotientBounds
<1>12. Average(s) \in Int
  BY <1>3, <1>9, QuotientBounds
<1> QED
  BY <1>1, <1>3, <1>10, <1>11, <1>12

-----------------------------------------------------------------------------
(* Clusters without near duplicates. *)

\* One more of the cluster, or not.
Taking(es, k, n, q) == IF ClusterKey(es[n]) = k THEN Append(q, es[n]) ELSE q

\* g has the members of the cluster among the first n.
TakenTo(es, key, n, g) ==
    g = [k \in 0..n |-> IF k = 0 THEN <<>> ELSE Taking(es, key, k, g[k - 1])]

LEMMA TakenExists ==
    ASSUME NEW es, NEW key, NEW last \in Nat
    PROVE  \E g : TakenTo(es, key, last, g)
<1> DEFINE bad == {n \in 0..last : ~\E g : TakenTo(es, key, n, g)}
<1>1. SUFFICES ASSUME bad # {} PROVE FALSE
  OBVIOUS
<1>2. PICK m \in bad : \A n \in bad : m <= n
  <2>1. bad \in SUBSET Nat
    OBVIOUS
  <2> HIDE DEF bad
  <2> QED
    BY <1>1, <2>1, LeastNumber
<1>3. CASE m = 0
  <2>1. PICK g : g = [k \in 0..0 |-> <<>>]
    OBVIOUS
  <2>2. g = [k \in 0..0 |-> IF k = 0 THEN <<>> ELSE Taking(es, key, k, g[k - 1])]
    BY <2>1
  <2> QED
    BY <1>2, <1>3, <2>2 DEF TakenTo
<1>4. CASE m # 0
  <2>1. m \in 1..last /\ m - 1 \in 0..last /\ m - 1 \notin bad
    BY <1>2, <1>4
  <2>2. PICK g : TakenTo(es, key, m - 1, g)
    BY <2>1
  <2>3. PICK h : h = [k \in 0..m |-> IF k < m THEN g[k] ELSE Taking(es, key, m, g[m - 1])]
    OBVIOUS
  <2>4. \A k \in 0..(m - 1) : g[k] = IF k = 0 THEN <<>> ELSE Taking(es, key, k, g[k - 1])
    BY <2>2 DEF TakenTo
  <2>5. \A k \in 0..(m - 1) : h[k] = g[k]
    BY <2>1, <2>3
  <2>6. h[m] = Taking(es, key, m, g[m - 1])
    BY <2>1, <2>3
  <2>7. ASSUME NEW k \in 0..m
        PROVE  h[k] = IF k = 0 THEN <<>> ELSE Taking(es, key, k, h[k - 1])
    <3>1. CASE k = m
      <4>1. h[k - 1] = g[m - 1]
        BY <2>1, <2>5, <3>1
      <4> QED
        BY <1>4, <2>6, <3>1, <4>1
    <3>2. CASE k # m
      <4>1. k \in 0..(m - 1) /\ (k # 0 => k - 1 \in 0..(m - 1))
        BY <2>1, <3>2
      <4> QED
        BY <2>4, <2>5, <4>1
    <3> QED
      BY <3>1, <3>2
  <2>8. h = [k \in 0..m |-> h[k]]
    BY <2>3
  <2>9. TakenTo(es, key, m, h)
    BY <2>7, <2>8 DEF TakenTo
  <2> QED
    BY <1>2, <2>9
<1> QED
  BY <1>3, <1>4

\* The episodes with this key among the first n.
ClusterFits(S, es, key, n, q) ==
    /\ q \in Seq(S)
    /\ \A j \in 1..Len(q) : \E i \in 1..n : q[j] = es[i] /\ ClusterKey(es[i]) = key
    /\ \A i \in 1..n : ClusterKey(es[i]) = key => \E j \in 1..Len(q) : q[j] = es[i]

LEMMA Appended ==
    ASSUME NEW S, NEW q \in Seq(S), NEW e \in S
    PROVE  /\ Append(q, e) \in Seq(S) /\ Len(Append(q, e)) = Len(q) + 1 /\ Len(q) \in Nat
           /\ Append(q, e)[Len(q) + 1] = e /\ \A j \in 1..Len(q) : Append(q, e)[j] = q[j]
  OBVIOUS

LEMMA TakingFits ==
    ASSUME NEW S, NEW es \in Seq(S), NEW key, NEW n \in 1..Len(es), NEW q,
           ClusterFits(S, es, key, n - 1, q)
    PROVE  ClusterFits(S, es, key, n, Taking(es, key, n, q))
<1>0. q \in Seq(S) /\ es[n] \in S /\ n \in Nat /\ n >= 1
  BY DEF ClusterFits
<1>1. \A i \in 1..(n - 1) : i \in 1..n
  BY <1>0
<1>2. \A i \in 1..n : i = n \/ i \in 1..(n - 1)
  BY <1>0
<1>3. CASE ClusterKey(es[n]) = key
  <2>1. PICK p : p = Append(q, es[n])
    OBVIOUS
  <2>2. /\ p \in Seq(S) /\ Len(p) = Len(q) + 1 /\ Len(q) \in Nat /\ p[Len(q) + 1] = es[n]
        /\ \A j \in 1..Len(q) : p[j] = q[j]
    BY <1>0, <2>1, Appended
  <2>3. ASSUME NEW j \in 1..Len(p) PROVE \E i \in 1..n : p[j] = es[i] /\ ClusterKey(es[i]) = key
    <3>1. CASE j = Len(p)
      BY <1>0, <1>3, <2>2, <3>1
    <3>2. CASE j # Len(p)
      <4>1. j \in 1..Len(q)
        BY <2>2, <3>2
      <4> QED
        BY <1>1, <2>2, <4>1 DEF ClusterFits
    <3> QED
      BY <3>1, <3>2
  <2>4. ASSUME NEW i \in 1..n, ClusterKey(es[i]) = key PROVE \E j \in 1..Len(p) : p[j] = es[i]
    <3>1. CASE i = n
      <4>1. Len(p) \in 1..Len(p) /\ p[Len(p)] = es[n]
        BY <2>2
      <4> QED
        BY <3>1, <4>1
    <3>2. CASE i # n
      <4>1. PICK j \in 1..Len(q) : q[j] = es[i]
        BY <1>2, <2>4, <3>2 DEF ClusterFits
      <4>2. j \in 1..Len(p)
        BY <2>2, <4>1
      <4> QED
        BY <2>2, <4>1, <4>2
    <3> QED
      BY <3>1, <3>2
  <2>5. ClusterFits(S, es, key, n, p)
    BY <2>2, <2>3, <2>4 DEF ClusterFits
  <2> QED
    BY <1>3, <2>1, <2>5 DEF Taking
<1>4. CASE ClusterKey(es[n]) # key
  <2>1. ClusterFits(S, es, key, n, q)
    BY <1>1, <1>2, <1>4 DEF ClusterFits
  <2> QED
    BY <1>4, <2>1 DEF Taking
<1> QED
  BY <1>3, <1>4

LEMMA ClusterFacts ==
    ASSUME NEW S, NEW es \in Seq(S), NEW key
    PROVE  ClusterFits(S, es, key, Len(es), Cluster(es, key))
<1>0. PICK last \in Nat : last = Len(es)
  OBVIOUS
<1>1. PICK g : g = CHOOSE f : TakenTo(es, key, last, f)
  OBVIOUS
<1>2. TakenTo(es, key, last, g)
  BY <1>1, TakenExists
<1>3. Cluster(es, key) = g[last]
  BY <1>0, <1>1 DEF Cluster, TakenTo, Taking
<1>4. \A k \in 0..last : g[k] = IF k = 0 THEN <<>> ELSE Taking(es, key, k, g[k - 1])
  BY <1>2 DEF TakenTo
<1> DEFINE bad == {k \in 0..last : ~ClusterFits(S, es, key, k, g[k])}
<1>5. bad = {}
  <2>1. SUFFICES ASSUME bad # {} PROVE FALSE
    OBVIOUS
  <2>2. PICK m \in bad : \A n \in bad : m <= n
    <3>1. bad \in SUBSET Nat
      OBVIOUS
    <3> HIDE DEF bad
    <3> QED
      BY <2>1, <3>1, LeastNumber
  <2>3. CASE m = 0
    <3>1. g[0] = <<>>
      <4>1. 0 \in 0..last
        OBVIOUS
      <4> QED
        BY <1>4, <4>1
    <3>2. ClusterFits(S, es, key, 0, <<>>)
      BY DEF ClusterFits
    <3> QED
      BY <2>2, <2>3, <3>1, <3>2
  <2>4. CASE m # 0
    <3>1. m \in 1..last /\ m - 1 \in 0..last /\ m - 1 \notin bad
      BY <2>2, <2>4
    <3>2. ClusterFits(S, es, key, m - 1, g[m - 1])
      BY <3>1
    <3>3. g[m] = Taking(es, key, m, g[m - 1])
      BY <1>4, <2>4, <3>1
    <3>4. ClusterFits(S, es, key, m, g[m])
      BY <1>0, <3>1, <3>2, <3>3, TakingFits
    <3> QED
      BY <2>2, <3>4
  <2> QED
    BY <2>3, <2>4
<1>6. ClusterFits(S, es, key, last, g[last])
  BY <1>5
<1> QED
  BY <1>0, <1>3, <1>6

\* The next episode is kept, unless it is a near duplicate of one that is.
Keeping(c, n, q) ==
    IF \E j \in DOMAIN q : NearDuplicate(q[j], c[n]) THEN q ELSE Append(q, c[n])

\* g has what is kept of the first n.
KeptTo(c, n, g) ==
    g = [k \in 0..n |-> IF k = 0 THEN <<>> ELSE Keeping(c, k, g[k - 1])]

LEMMA KeptExists ==
    ASSUME NEW c, NEW last \in Nat
    PROVE  \E g : KeptTo(c, last, g)
<1> DEFINE bad == {n \in 0..last : ~\E g : KeptTo(c, n, g)}
<1>1. SUFFICES ASSUME bad # {} PROVE FALSE
  OBVIOUS
<1>2. PICK m \in bad : \A n \in bad : m <= n
  <2>1. bad \in SUBSET Nat
    OBVIOUS
  <2> HIDE DEF bad
  <2> QED
    BY <1>1, <2>1, LeastNumber
<1>3. CASE m = 0
  <2>1. PICK g : g = [k \in 0..0 |-> <<>>]
    OBVIOUS
  <2>2. g = [k \in 0..0 |-> IF k = 0 THEN <<>> ELSE Keeping(c, k, g[k - 1])]
    BY <2>1
  <2> QED
    BY <1>2, <1>3, <2>2 DEF KeptTo
<1>4. CASE m # 0
  <2>1. m \in 1..last /\ m - 1 \in 0..last /\ m - 1 \notin bad
    BY <1>2, <1>4
  <2>2. PICK g : KeptTo(c, m - 1, g)
    BY <2>1
  <2>3. PICK h : h = [k \in 0..m |-> IF k < m THEN g[k] ELSE Keeping(c, m, g[m - 1])]
    OBVIOUS
  <2>4. \A k \in 0..(m - 1) : g[k] = IF k = 0 THEN <<>> ELSE Keeping(c, k, g[k - 1])
    BY <2>2 DEF KeptTo
  <2>5. \A k \in 0..(m - 1) : h[k] = g[k]
    BY <2>1, <2>3
  <2>6. h[m] = Keeping(c, m, g[m - 1])
    BY <2>1, <2>3
  <2>7. ASSUME NEW k \in 0..m
        PROVE  h[k] = IF k = 0 THEN <<>> ELSE Keeping(c, k, h[k - 1])
    <3>1. CASE k = m
      <4>1. h[k - 1] = g[m - 1]
        BY <2>1, <2>5, <3>1
      <4> QED
        BY <1>4, <2>6, <3>1, <4>1
    <3>2. CASE k # m
      <4>1. k \in 0..(m - 1) /\ (k # 0 => k - 1 \in 0..(m - 1))
        BY <2>1, <3>2
      <4> QED
        BY <2>4, <2>5, <4>1
    <3> QED
      BY <3>1, <3>2
  <2>8. h = [k \in 0..m |-> h[k]]
    BY <2>3
  <2>9. KeptTo(c, m, h)
    BY <2>7, <2>8 DEF KeptTo
  <2> QED
    BY <1>2, <2>9
<1> QED
  BY <1>3, <1>4

\* What is kept of the first n: no near duplicates, and one for each that is not.
KeptFits(S, c, n, q) ==
    /\ q \in Seq(S)
    /\ \A j \in 1..Len(q) : \E i \in 1..n : q[j] = c[i]
    /\ \A i, j \in 1..Len(q) : i # j => ~NearDuplicate(q[i], q[j])
    /\ \A i \in 1..n : \E j \in 1..Len(q) : q[j] = c[i] \/ NearDuplicate(q[j], c[i])

LEMMA NearEachOther ==
    ASSUME NEW a, NEW b PROVE NearDuplicate(a, b) <=> NearDuplicate(b, a)
<1>1. a.words \cup b.words = b.words \cup a.words /\ a.words \cap b.words = b.words \cap a.words
  OBVIOUS
<1> QED
  BY <1>1 DEF NearDuplicate

LEMMA KeepingFits ==
    ASSUME NEW S, NEW c \in Seq(S), NEW n \in 1..Len(c), NEW q, KeptFits(S, c, n - 1, q)
    PROVE  KeptFits(S, c, n, Keeping(c, n, q))
<1>0. q \in Seq(S) /\ DOMAIN q = 1..Len(q) /\ c[n] \in S /\ n \in Nat /\ n >= 1
  BY DEF KeptFits
<1>1. \A i \in 1..(n - 1) : i \in 1..n
  BY <1>0
<1>2. \A i \in 1..n : i = n \/ i \in 1..(n - 1)
  BY <1>0
<1>3. CASE \E j \in DOMAIN q : NearDuplicate(q[j], c[n])
  <2>1. KeptFits(S, c, n, q)
    BY <1>0, <1>1, <1>2, <1>3 DEF KeptFits
  <2> QED
    BY <1>3, <2>1 DEF Keeping
<1>4. CASE ~\E j \in DOMAIN q : NearDuplicate(q[j], c[n])
  <2>1. PICK p : p = Append(q, c[n])
    OBVIOUS
  <2>2. /\ p \in Seq(S) /\ Len(p) = Len(q) + 1 /\ Len(q) \in Nat /\ p[Len(p)] = c[n]
        /\ \A j \in 1..Len(q) : p[j] = q[j] /\ j \in 1..Len(p)
    BY <1>0, <2>1, Appended
  <2>3. \A j \in 1..Len(p) : j = Len(p) \/ j \in 1..Len(q)
    BY <2>2
  <2>4. ASSUME NEW j \in 1..Len(p) PROVE \E i \in 1..n : p[j] = c[i]
    <3>1. CASE j = Len(p)
      <4>1. n \in 1..n
        BY <1>0
      <4> QED
        BY <2>2, <3>1, <4>1
    <3>2. CASE j # Len(p)
      <4>1. j \in 1..Len(q)
        BY <2>3, <3>2
      <4>2. PICK i \in 1..(n - 1) : q[j] = c[i]
        BY <4>1 DEF KeptFits
      <4> QED
        BY <1>1, <2>2, <4>1, <4>2
    <3> QED
      BY <3>1, <3>2
  <2>5. ASSUME NEW i \in 1..Len(p), NEW j \in 1..Len(p), i # j PROVE ~NearDuplicate(p[i], p[j])
    <3>1. CASE i = Len(p)
      <4>1. j \in 1..Len(q)
        BY <2>3, <2>5, <3>1
      <4> QED
        BY <1>0, <1>4, <2>2, <3>1, <4>1, NearEachOther
    <3>2. CASE j = Len(p)
      <4>1. i \in 1..Len(q)
        BY <2>3, <2>5, <3>2
      <4> QED
        BY <1>0, <1>4, <2>2, <3>2, <4>1
    <3>3. CASE i # Len(p) /\ j # Len(p)
      BY <2>2, <2>3, <2>5, <3>3 DEF KeptFits
    <3> QED
      BY <3>1, <3>2, <3>3
  <2>6. ASSUME NEW i \in 1..n
        PROVE  \E j \in 1..Len(p) : p[j] = c[i] \/ NearDuplicate(p[j], c[i])
    <3>1. CASE i = n
      <4>1. Len(p) \in 1..Len(p)
        BY <2>2
      <4> QED
        BY <2>2, <3>1, <4>1
    <3>2. CASE i # n
      <4>1. PICK j \in 1..Len(q) : q[j] = c[i] \/ NearDuplicate(q[j], c[i])
        BY <1>2, <3>2 DEF KeptFits
      <4> QED
        BY <2>2, <4>1
    <3> QED
      BY <3>1, <3>2
  <2>7. KeptFits(S, c, n, p)
    BY <2>2, <2>4, <2>5, <2>6 DEF KeptFits
  <2> QED
    BY <1>4, <2>1, <2>7 DEF Keeping
<1> QED
  BY <1>3, <1>4

LEMMA DeduplicateFacts ==
    ASSUME NEW S, NEW c \in Seq(S)
    PROVE  KeptFits(S, c, Len(c), deduplicate(c))
<1>0. PICK last \in Nat : last = Len(c)
  OBVIOUS
<1>1. PICK g : g = CHOOSE f : KeptTo(c, last, f)
  OBVIOUS
<1>2. KeptTo(c, last, g)
  BY <1>1, KeptExists
<1>3. deduplicate(c) = g[last]
  BY <1>0, <1>1 DEF deduplicate, KeptTo, Keeping
<1>4. \A k \in 0..last : g[k] = IF k = 0 THEN <<>> ELSE Keeping(c, k, g[k - 1])
  BY <1>2 DEF KeptTo
<1> DEFINE bad == {k \in 0..last : ~KeptFits(S, c, k, g[k])}
<1>5. bad = {}
  <2>1. SUFFICES ASSUME bad # {} PROVE FALSE
    OBVIOUS
  <2>2. PICK m \in bad : \A n \in bad : m <= n
    <3>1. bad \in SUBSET Nat
      OBVIOUS
    <3> HIDE DEF bad
    <3> QED
      BY <2>1, <3>1, LeastNumber
  <2>3. CASE m = 0
    <3>1. g[0] = <<>>
      <4>1. 0 \in 0..last
        OBVIOUS
      <4> QED
        BY <1>4, <4>1
    <3>2. KeptFits(S, c, 0, <<>>)
      BY DEF KeptFits
    <3> QED
      BY <2>2, <2>3, <3>1, <3>2
  <2>4. CASE m # 0
    <3>1. m \in 1..last /\ m - 1 \in 0..last /\ m - 1 \notin bad
      BY <2>2, <2>4
    <3>2. KeptFits(S, c, m - 1, g[m - 1])
      BY <3>1
    <3>3. g[m] = Keeping(c, m, g[m - 1])
      BY <1>4, <2>4, <3>1
    <3>4. KeptFits(S, c, m, g[m])
      BY <1>0, <3>1, <3>2, <3>3, KeepingFits
    <3> QED
      BY <2>2, <3>4
  <2> QED
    BY <2>3, <2>4
<1>6. KeptFits(S, c, last, g[last])
  BY <1>5
<1> QED
  BY <1>0, <1>3, <1>6

\* Episode, as it is observed.
Observed == [outcome : Outcomes, words : SUBSET STRING, entities : SUBSET STRING,
             tenant : STRING, day : Nat]

\* Shares of shares.
LEMMA WeightedShares ==
    ASSUME NEW a \in Int, NEW b \in Int, NEW d \in Int, a <= 50, b <= 100, d <= 100
    PROVE  (a * 70 + b * 15 + d * 15) \div 100 < 70
  OBVIOUS

\* Only successes make an experience that can be used again.
LEMMA EvaluateFacts ==
    ASSUME NEW c \in Seq(Observed), Len(c) >= 1, NEW today \in Nat, NEW o \in Outcomes,
           \A j \in 1..Len(c) : c[j].day <= today /\ c[j].outcome = o
    PROVE  /\ evaluate(c, today).sources = c
           /\ evaluate(c, today).confidence >= 70 => o = "success"
<1>1. Len(c) \in Nat \ {0} /\ DOMAIN c = 1..Len(c) /\ \A j \in 1..Len(c) : c[j] \in Observed
  OBVIOUS
<1>2. PICK rates : rates = [j \in DOMAIN c |-> success_rate(c[j].outcome)]
  OBVIOUS
<1>3. PICK ages : ages = [j \in DOMAIN c |-> 100 \div (1 + today - c[j].day)]
  OBVIOUS
<1>4. \A j \in 1..Len(c) : rates[j] \in Int /\ (o # "success" => rates[j] <= 50)
  BY <1>1, <1>2 DEF success_rate, Outcomes
<1>5. ASSUME NEW j \in 1..Len(c) PROVE ages[j] \in Int /\ ages[j] <= 100
  <2>1. c[j].day \in Nat /\ c[j].day <= today
    BY <1>1 DEF Observed
  <2>2. PICK w \in Nat \ {0} : w = 1 + today - c[j].day
    BY <2>1
  <2>3. 100 <= 100 * w
    BY <2>2
  <2>4. 100 \div w \in Int /\ 100 \div w <= 100
    BY <2>2, <2>3, QuotientBounds
  <2> QED
    BY <1>1, <1>3, <2>2, <2>4
<1>6. Len(rates) = Len(c) /\ Len(ages) = Len(c)
  BY <1>1, <1>2, <1>3
<1>7. Mean(rates) \in Int /\ (o # "success" => Mean(rates) <= 50)
  <2>1. /\ Average(rates) \in Int /\ Mean(rates) = Average(rates)
        /\ (\A k \in 1..Len(rates) : rates[k] <= 50) => Average(rates) <= 50
    BY <1>1, <1>4, <1>6, AverageBounds
  <2> QED
    BY <1>4, <1>6, <2>1
<1>8. Mean(ages) \in Int /\ Mean(ages) <= 100
  <2>1. /\ Average(ages) \in Int /\ Mean(ages) = Average(ages)
        /\ (\A k \in 1..Len(ages) : ages[k] <= 100) => Average(ages) <= 100
    BY <1>1, <1>5, <1>6, AverageBounds
  <2> QED
    BY <1>5, <1>6, <2>1
<1>9. PICK often \in Int : often = Min({10 * Len(c), 100}) /\ often <= 100
  BY <1>1, LesserFacts
<1>10. /\ evaluate(c, today).sources = c
       /\ evaluate(c, today).confidence
             = (Mean(rates) * 70 + Mean(ages) * 15 + often * 15) \div 100
  BY <1>2, <1>3, <1>9 DEF evaluate, Experience
<1>11. o # "success" => (Mean(rates) * 70 + Mean(ages) * 15 + often * 15) \div 100 < 70
  BY <1>7, <1>8, <1>9, WeightedShares
<1>12. (Mean(rates) * 70 + Mean(ages) * 15 + often * 15) \div 100 \in Int
  BY <1>7, <1>8, <1>9
<1> QED
  BY <1>10, <1>11, <1>12

-----------------------------------------------------------------------------
(* The reports. *)

LessonFits(x) ==
    is_reusable(x) =>
        /\ Cardinality(DOMAIN x.sources) >= 3
        /\ \A i, j \in DOMAIN x.sources :
              /\ x.sources[i].outcome = "success"
              /\ x.sources[i].entities = x.sources[j].entities
              /\ i # j => ~NearDuplicate(x.sources[i], x.sources[j])

\* The experience that an episode has gone into.
Answers(x, e) ==
    \E j \in DOMAIN x.sources :
        /\ ClusterKey(x.sources[j]) = ClusterKey(e)
        /\ x.sources[j] = e \/ NearDuplicate(x.sources[j], e)

\* What was observed before the day of the last run is in an experience.
ReflectionInv ==
    /\ day \in Nat /\ next_run \in Nat /\ Interval <= next_run /\ next_run <= day + Interval
    /\ episodes \in Seq(Observed)
    /\ \A i \in 1..Len(episodes) :
          /\ episodes[i].day <= day
          /\ \/ episodes[i].day + Interval >= next_run
             \/ \E x \in experiences : Answers(x, episodes[i])
    /\ \A x \in experiences : LessonFits(x)
    /\ \A p \in patterns : p.verified => p.pattern.conditions # {}

\* What is made of a cluster.
LEMMA DistilledFits ==
    ASSUME NEW es \in Seq(Observed), NEW today \in Nat, \A i \in 1..Len(es) : es[i].day <= today,
           NEW key, NEW c, c = deduplicate(Cluster(es, key))
    PROVE  /\ LessonFits(evaluate(c, today))
           /\ \A i \in 1..Len(es) : ClusterKey(es[i]) = key => Answers(evaluate(c, today), es[i])
<1>1. PICK b : b = Cluster(es, key)
  OBVIOUS
<1>2. ClusterFits(Observed, es, key, Len(es), b)
  BY <1>1, ClusterFacts
<1>3. b \in Seq(Observed)
  BY <1>2 DEF ClusterFits
<1>4. KeptFits(Observed, b, Len(b), c)
  BY <1>1, <1>3, DeduplicateFacts
<1>5. c \in Seq(Observed) /\ DOMAIN c = 1..Len(c) /\ Len(c) \in Nat
  BY <1>4 DEF KeptFits
<1>6. ASSUME NEW j \in 1..Len(c)
      PROVE  c[j] \in Observed /\ ClusterKey(c[j]) = key /\ c[j].day <= today
  <2>1. PICK i \in 1..Len(b) : c[j] = b[i]
    BY <1>4 DEF KeptFits
  <2>2. PICK k \in 1..Len(es) : b[i] = es[k] /\ ClusterKey(es[k]) = key
    BY <1>2 DEF ClusterFits
  <2> QED
    BY <1>5, <2>1, <2>2
<1>7. \A i, j \in 1..Len(c) : c[i].entities = c[j].entities /\ c[i].outcome = c[j].outcome
  BY <1>6 DEF ClusterKey
<1>8. PICK x : x = evaluate(c, today)
  OBVIOUS
<1>9. x.sources = c
  BY <1>8 DEF evaluate, Experience
<1>10. ASSUME is_reusable(x) PROVE LessonFits(x)
  <2>1. Len(c) >= 3 /\ x.confidence >= 70
    BY <1>9, <1>10 DEF is_reusable
  <2>2. 1 \in 1..Len(c) /\ Len(c) >= 1
    BY <1>5, <2>1
  <2>3. c[1].outcome \in Outcomes
    BY <1>6, <2>2 DEF Observed
  <2>4. \A j \in 1..Len(c) : c[j].day <= today /\ c[j].outcome = c[1].outcome
    BY <1>6, <1>7, <2>2
  <2>5. c[1].outcome = "success"
    <3>1. PICK o \in Outcomes : o = c[1].outcome
      BY <2>3
    <3>2. \A j \in 1..Len(c) : c[j].day <= today /\ c[j].outcome = o
      BY <2>4, <3>1
    <3>3. evaluate(c, today).confidence >= 70 => o = "success"
      BY <1>5, <2>2, <3>2, EvaluateFacts
    <3> QED
      BY <1>8, <2>1, <3>1, <3>3
  <2>6. Cardinality(1..Len(c)) = Len(c)
    <3>1. Len(c) \in Nat /\ ~(1 > Len(c))
      BY <1>5, <2>1
    <3>2. 1 \in Int /\ Len(c) \in Int
      BY <3>1
    <3>3. Cardinality(1..Len(c)) = IF 1 > Len(c) THEN 0 ELSE Len(c) - 1 + 1
      BY <3>2, FS_Interval
    <3> QED
      BY <3>1, <3>3
  <2>7. \A i, j \in 1..Len(c) : i # j => ~NearDuplicate(c[i], c[j])
    BY <1>4 DEF KeptFits
  <2> QED
    BY <1>5, <1>7, <1>9, <2>1, <2>4, <2>5, <2>6, <2>7 DEF LessonFits
<1>11. ASSUME NEW i \in 1..Len(es), ClusterKey(es[i]) = key PROVE Answers(x, es[i])
  <2>1. PICK j \in 1..Len(b) : b[j] = es[i]
    BY <1>2, <1>11 DEF ClusterFits
  <2>2. PICK k \in 1..Len(c) : c[k] = b[j] \/ NearDuplicate(c[k], b[j])
    BY <1>4 DEF KeptFits
  <2> QED
    BY <1>5, <1>6, <1>9, <1>11, <2>1, <2>2 DEF Answers
<1> QED
  BY <1>8, <1>10, <1>11 DEF LessonFits

LEMMA ObservedDays ==
    ASSUME NEW es \in Seq(Observed)
    PROVE  DOMAIN es = 1..Len(es) /\ \A i \in 1..Len(es) : es[i].day \in Nat
<1>1. DOMAIN es = 1..Len(es) /\ \A i \in 1..Len(es) : es[i] \in Observed
  OBVIOUS
<1> QED
  BY <1>1 DEF Observed

LEMMA ReflectionStep == ReflectionInv /\ (ReflectionNext \/ UNCHANGED reflection_vars) => ReflectionInv'
<1> SUFFICES ASSUME ReflectionInv, ReflectionNext \/ UNCHANGED reflection_vars PROVE ReflectionInv'
  OBVIOUS
<1>0. Interval \in Nat /\ day \in Nat /\ next_run \in Nat /\ episodes \in Seq(Observed)
      /\ Len(episodes) \in Nat
  BY EpisodesAssumption DEF ReflectionInv
<1>1. ASSUME NEW k \in EpisodeKinds, Observe(k) PROVE ReflectionInv'
  <2>1. PICK e : e = [outcome |-> k.outcome, words |-> k.words, entities |-> k.entities,
                      tenant |-> k.tenant, day |-> day]
    OBVIOUS
  <2>2. e \in Observed /\ e.day = day
    BY <1>0, <2>1, EpisodesAssumption DEF EpisodeKind, Observed
  <2>3. episodes' = Append(episodes, e)
    BY <1>1, <2>1 DEF Observe
  <2>4. /\ episodes' \in Seq(Observed) /\ Len(episodes)' = Len(episodes) + 1
        /\ episodes'[Len(episodes) + 1] = e /\ \A j \in 1..Len(episodes) : episodes'[j] = episodes[j]
    BY <1>0, <2>2, <2>3
  <2>5. day' = day /\ next_run' = next_run /\ experiences' = experiences /\ patterns' = patterns
    BY <1>1 DEF Observe
  <2>6. ASSUME NEW i \in 1..Len(episodes)'
        PROVE  /\ episodes'[i].day <= day
               /\ \/ episodes'[i].day + Interval >= next_run
                  \/ \E x \in experiences : Answers(x, episodes'[i])
    <3>1. CASE i = Len(episodes) + 1
      BY <1>0, <2>2, <2>4, <3>1 DEF ReflectionInv
    <3>2. CASE i # Len(episodes) + 1
      <4>1. i \in 1..Len(episodes)
        BY <1>0, <2>4, <3>2
      <4> QED
        BY <2>4, <4>1 DEF ReflectionInv
    <3> QED
      BY <3>1, <3>2
  <2> QED
    BY <2>4, <2>5, <2>6 DEF ReflectionInv
<1>2. CASE NextDay
  <2>1. \A i \in 1..Len(episodes) : episodes[i].day \in Nat
    BY <1>0, ObservedDays
  <2>2. /\ day' = day + 1 /\ next_run' = next_run /\ episodes' = episodes
        /\ experiences' = experiences /\ patterns' = patterns
    BY <1>2 DEF NextDay
  <2>3. \A i \in 1..Len(episodes) : episodes[i].day <= day + 1
    BY <1>0, <2>1 DEF ReflectionInv
  <2>4. day + 1 \in Nat /\ next_run <= day + 1 + Interval
    BY <1>0 DEF ReflectionInv
  <2> QED
    BY <2>2, <2>3, <2>4 DEF ReflectionInv
<1>3. CASE RunReflection
  <2>1. /\ experiences' = {evaluate(deduplicate(c), day) : c \in cluster_episodes(episodes)}
        /\ next_run' = day + Interval /\ day' = day /\ episodes' = episodes /\ patterns' = patterns
    BY <1>3 DEF RunReflection
  <2>2. \A i \in 1..Len(episodes) : episodes[i].day <= day
    BY DEF ReflectionInv
  <2>3. ASSUME NEW x \in experiences' PROVE LessonFits(x)
    <3>1. PICK key : x = evaluate(deduplicate(Cluster(episodes, key)), day)
      BY <2>1 DEF cluster_episodes
    <3> QED
      BY <1>0, <2>2, <3>1, DistilledFits
  <2>4. ASSUME NEW i \in 1..Len(episodes) PROVE \E x \in experiences' : Answers(x, episodes[i])
    <3>1. PICK key : key = ClusterKey(episodes[i])
      OBVIOUS
    <3>2. DOMAIN episodes = 1..Len(episodes)
      BY <1>0
    <3>3. evaluate(deduplicate(Cluster(episodes, key)), day) \in experiences'
      BY <2>1, <3>1, <3>2 DEF cluster_episodes
    <3>4. Answers(evaluate(deduplicate(Cluster(episodes, key)), day), episodes[i])
      BY <1>0, <2>2, <3>1, DistilledFits
    <3> QED
      BY <3>3, <3>4
  <2>5. day + Interval \in Nat /\ Interval <= day + Interval
    BY <1>0
  <2> QED
    BY <1>0, <2>1, <2>2, <2>3, <2>4, <2>5 DEF ReflectionInv
<1>4. CASE RunConsolidation
  <2>1. day' = day /\ next_run' = next_run /\ episodes' = episodes /\ experiences' = experiences
    BY <1>4 DEF RunConsolidation
  <2>2. \A p \in patterns' : p.verified => p.pattern.conditions # {}
    BY <1>4 DEF RunConsolidation, Consolidated, verify_pattern
  <2> QED
    BY <2>1, <2>2 DEF ReflectionInv
<1>5. ASSUME NEW s, Publish(s) PROVE ReflectionInv'
  BY <1>5 DEF Publish, ReflectionInv
<1>6. CASE UNCHANGED reflection_vars
  BY <1>6 DEF reflection_vars, ReflectionInv
<1> QED
  BY <1>1, <1>2, <1>3, <1>4, <1>5, <1>6 DEF ReflectionNext

LEMMA LessonsSound == ReflectionInv => LessonsGrounded
<1> SUFFICES ASSUME ReflectionInv PROVE LessonsGrounded
  OBVIOUS
<1>0. episodes \in Seq(Observed)
  BY DEF ReflectionInv
<1>1. DOMAIN episodes = 1..Len(episodes) /\ \A i \in 1..Len(episodes) : episodes[i].day \in Nat
  BY <1>0, ObservedDays
<1>2. \A x \in experiences : LessonFits(x)
  BY DEF ReflectionInv
<1>3. ASSUME next_run = day + Interval, NEW i \in DOMAIN episodes
      PROVE  episodes[i].day = day \/ \E x \in experiences : Answers(x, episodes[i])
  BY <1>1, <1>3, EpisodesAssumption DEF ReflectionInv
<1>4. \A p \in patterns : p.verified => p.pattern.conditions # {}
  BY DEF ReflectionInv
<1> QED
  BY <1>2, <1>3, <1>4 DEF LessonsGrounded, LessonFits, Answers

-----------------------------------------------------------------------------
(* Simulations. *)

\* SimulationResult with its SimulationMetrics; the shares are between none and all.
SimulationResults ==
    [refs : SUBSET DOMAIN TwinMemories, accuracy : 0..100, coverage : 0..100,
     consistency : 0..100, deviation : 0..100, success : BOOLEAN,
     outputs : SUBSET DOMAIN TwinMemories, recorded : BOOLEAN]

\* One of the memories is not above the accuracy, and one is not below it.
Between(S, accuracy) ==
    \E m, n \in S : /\ TwinMemories[m].confidence <= accuracy
                    /\ accuracy <= TwinMemories[n].confidence

\* A run that succeeds has found everything it asked for.
Backed(r) == r.success => r.refs \subseteq injected /\ Between(r.refs, r.accuracy)

\* Until a run is recorded, the runs before it are those it was compared with.
Compared(r) == ~r.recorded => r.deviation = 100 - compute_consistency(r.accuracy, r.coverage)

\* The counters never count more passes than runs, and a verdict has its reason.
Counted(o) ==
    /\ o.total \in Nat /\ o.passed \in Nat /\ o.passed <= o.total
    /\ o.verified => o.confidence \in 70..100

TwinInv ==
    /\ injected \subseteq DOMAIN TwinMemories
    /\ history \in Seq(SimulationResults)
    /\ result # All \/ captured # {} =>
          result \in SimulationResults /\ Backed(result) /\ Compared(result)
    /\ captured # {} => result.success
    /\ \A c \in captured : c.level = "L2" => c.confidence = result.accuracy
    /\ Counted(outcome)

LEMMA SetListed ==
    ASSUME NEW S, IsFiniteSet(S), S # {}
    PROVE  /\ Cardinality(S) \in Nat \ {0}
           /\ SetToSeq(S) \in [1..Cardinality(S) -> S]
<1>1. Cardinality(S) \in Nat /\ ExistsBijection(1..Cardinality(S), S)
  BY FS_CardinalityType
<1>2. Cardinality(S) # 0
  BY FS_EmptySet
<1>3. PICK f \in [1..Cardinality(S) -> S] : IsInjective(f)
  BY <1>1 DEF ExistsBijection, Bijection, Injection
<1>4. SetToSeq(S) \in [1..Cardinality(S) -> S]
  BY <1>3 DEF SetToSeq
<1> QED
  BY <1>1, <1>2, <1>4

\* Some number of a set is the least, and some is the greatest.
LEMMA Extremes ==
    ASSUME NEW S, S # {}, NEW f, \A m \in S : f[m] \in 0..100
    PROVE  \E m, n \in S : \A k \in S : f[m] <= f[k] /\ f[k] <= f[n]
<1>1. PICK m \in S : \A k \in S : f[m] <= f[k]
  <2>1. PICK T : T = {f[k] : k \in S}
    OBVIOUS
  <2>2. T \in SUBSET Nat /\ T # {}
    BY <2>1
  <2>3. PICK t \in T : \A k \in T : t <= k
    BY <2>2, LeastNumber
  <2> QED
    BY <2>1, <2>3
<1>2. PICK n \in S : \A k \in S : f[k] <= f[n]
  <2>1. PICK T : T = {100 - f[k] : k \in S}
    OBVIOUS
  <2>2. T \in SUBSET Nat /\ T # {}
    BY <2>1
  <2>3. PICK t \in T : \A k \in T : t <= k
    BY <2>2, LeastNumber
  <2>4. PICK n \in S : t = 100 - f[n]
    BY <2>1, <2>3
  <2>5. \A k \in S : 100 - f[n] <= 100 - f[k]
    BY <2>1, <2>3, <2>4
  <2>6. ASSUME NEW k \in S PROVE f[k] <= f[n]
    <3>1. f[k] \in Int /\ f[n] \in Int /\ 100 - f[n] <= 100 - f[k]
      BY <2>5
    <3> QED
      BY <3>1
  <2> QED
    BY <2>6
<1> QED
  BY <1>1, <1>2

\* The accuracy is a weighted average of the confidences.
LEMMA AccuracyBounds ==
    ASSUME NEW S \in SUBSET DOMAIN TwinMemories, S # {}
    PROVE  Accuracy(S) \in 0..100 /\ Between(S, Accuracy(S))
<1>1. IsFiniteSet(S)
  BY TwinAssumption, FS_Subset
<1>2. PICK n \in Nat \ {0} : n = Cardinality(S)
  BY <1>1, SetListed
<1>3. PICK ms : ms = SetToSeq(S)
  OBVIOUS
<1>4. ms \in [1..n -> S]
  BY <1>1, <1>2, <1>3, SetListed
<1>5. PICK conf : conf = [m \in DOMAIN TwinMemories |-> TwinMemories[m].confidence]
  OBVIOUS
<1>6. \A m \in S : conf[m] \in 0..100 /\ conf[m] = TwinMemories[m].confidence
                   /\ TwinMemories[m].authority + 1 \in Nat \ {0}
  BY <1>5, TwinAssumption DEF InjectedMemory
<1>7. PICK low, high \in S : \A k \in S : conf[low] <= conf[k] /\ conf[k] <= conf[high]
  BY <1>6, Extremes
<1>8. PICK w : w = [j \in DOMAIN ms |-> TwinMemories[ms[j]].authority + 1]
  OBVIOUS
<1>9. PICK x : x = [j \in DOMAIN ms |-> TwinMemories[ms[j]].confidence
                                          * (TwinMemories[ms[j]].authority + 1)]
  OBVIOUS
<1>10. Accuracy(S) = Total(x) \div Total(w)
  BY <1>3, <1>8, <1>9 DEF Accuracy
<1>11. Len(w) = n /\ Len(x) = n
  BY <1>4, <1>8, <1>9
<1>12. PICK gw : Summing(w, n, gw) /\ Total(w) = gw[n]
  BY <1>11, SumFacts
<1>13. PICK gx : Summing(x, n, gx) /\ Total(x) = gx[n]
  BY <1>11, SumFacts
<1>14. PICK lo, hi \in 0..100 : lo = conf[low] /\ hi = conf[high]
  BY <1>6
<1>15. ASSUME NEW k \in 1..n
       PROVE  /\ w[k] \in Int /\ x[k] \in Int /\ 1 * 1 <= 1 * w[k]
              /\ lo * w[k] <= 1 * x[k] /\ 1 * x[k] <= hi * w[k]
  <2>1. ms[k] \in S /\ k \in DOMAIN ms
    BY <1>4
  <2>2. PICK weight \in Nat \ {0} : weight = w[k]
    BY <1>6, <1>8, <2>1
  <2>3. PICK c \in 0..100 : c = conf[ms[k]]
    BY <1>6, <2>1
  <2>4. x[k] = c * weight
    BY <1>6, <1>8, <1>9, <2>1, <2>2, <2>3
  <2>5. lo <= c /\ c <= hi
    BY <1>7, <1>14, <2>1, <2>3
  <2>6. lo * weight <= c * weight /\ c * weight <= hi * weight
    BY <2>5
  <2> QED
    BY <2>2, <2>4, <2>6
<1>16. PICK ones : ones = [k \in 1..n |-> 1]
  OBVIOUS
<1>17. PICK count : count = [k \in 0..n |-> k]
  OBVIOUS
<1>18. Summing(ones, n, count)
  BY <1>16, <1>17 DEF Summing
<1>19. Below(1, n, 1, ones, 1, w) /\ Below(1, n, lo, w, 1, x) /\ Below(1, n, 1, x, hi, w)
  BY <1>15, <1>16 DEF Below
<1>20. Below(0, n, 1, count, 1, gw) /\ Below(0, n, lo, gw, 1, gx) /\ Below(0, n, 1, gx, hi, gw)
  BY <1>12, <1>13, <1>18, <1>19, SumsCompare
<1>21. n \in 0..n /\ count[n] = n
  BY <1>17
<1>22. gw[n] \in Nat \ {0} /\ gx[n] \in Int /\ lo * gw[n] <= gx[n] /\ gx[n] <= hi * gw[n]
  BY <1>20, <1>21 DEF Below
<1>23. PICK q \in Int : q = Accuracy(S) /\ lo <= q /\ q <= hi
  BY <1>10, <1>12, <1>13, <1>22, QuotientBounds
<1>24. q \in 0..100
  BY <1>23
<1>25. TwinMemories[low].confidence <= q /\ q <= TwinMemories[high].confidence
  BY <1>6, <1>14, <1>23
<1> QED
  BY <1>23, <1>24, <1>25 DEF Between

\* A share of a whole, and only the whole is all of it.
LEMMA CoverageBounds ==
    ASSUME NEW refs \in SUBSET DOMAIN TwinMemories, refs # {}, NEW hits \in SUBSET refs
    PROVE  /\ (100 * Cardinality(hits)) \div Cardinality(refs) \in 0..100
           /\ (100 * Cardinality(hits)) \div Cardinality(refs) >= 100 => hits = refs
<1>1. IsFiniteSet(refs)
  BY TwinAssumption, FS_Subset
<1>2. PICK all \in Nat \ {0} : all = Cardinality(refs)
  BY <1>1, SetListed
<1>3. IsFiniteSet(hits) /\ Cardinality(hits) <= all /\ (all = Cardinality(hits) => refs = hits)
  BY <1>1, <1>2, FS_Subset
<1>4. PICK some \in Nat : some = Cardinality(hits)
  BY <1>3, FS_CardinalityType
<1>5. 0 * all <= 100 * some /\ 100 * some <= 100 * all /\ 100 * some \in Int
  BY <1>3, <1>4
<1>6. PICK q \in Int : q = (100 * some) \div all /\ 0 <= q /\ q <= 100
  BY <1>5, QuotientBounds
<1>7. ASSUME q >= 100, hits # refs PROVE FALSE
  <2>1. some <= all - 1
    BY <1>3, <1>4, <1>7
  <2>2. q >= 100
    BY <1>7
  <2>3. 100 * some = all * q + ((100 * some) % all) /\ (100 * some) % all \in 0..(all - 1)
    BY <1>6
  <2>4. all * 100 <= all * q
    BY <2>2
  <2>5. all * q \in Int
    BY <2>2
  <2> QED
    BY <2>1, <2>3, <2>4, <2>5
<1>8. q = (100 * Cardinality(hits)) \div Cardinality(refs)
  BY <1>2, <1>4, <1>6
<1>9. q \in 0..100
  BY <1>6
<1> QED
  BY <1>7, <1>8, <1>9

LEMMA DistanceBounds ==
    ASSUME NEW a \in 0..100, NEW b \in 0..100
    PROVE  Abs(a - b) \in 0..100
BY DEF Abs

LEMMA ShareRange ==
    ASSUME NEW x
    PROVE  x \in 0..100 <=> x \in Int /\ 0 <= x /\ x <= 100
  OBVIOUS

\* Every number is a share.
Shares(s) == \A k \in 1..Len(s) : s[k] \in Int /\ 0 <= s[k] /\ s[k] <= 100

\* The averages over the runs recorded.
LEMMA HistoryFacts ==
    ASSUME history \in Seq(SimulationResults)
    PROVE  /\ Len(history) \in Nat /\ DOMAIN history = 1..Len(history)
           /\ Len(Accuracies) = Len(history) /\ Len(Coverages) = Len(history)
           /\ \A j \in 1..Len(history) :
                 Accuracies[j] = history[j].accuracy /\ Coverages[j] = history[j].coverage
           /\ Shares(Accuracies) /\ Shares(Coverages)
           /\ history # <<>> => Len(history) # 0
<1>1. /\ Len(history) \in Nat /\ DOMAIN history = 1..Len(history)
      /\ \A j \in 1..Len(history) : history[j] \in SimulationResults
      /\ history # <<>> => Len(history) # 0
  OBVIOUS
<1>2. ASSUME NEW j \in 1..Len(history)
      PROVE  /\ history[j].accuracy \in Int /\ 0 <= history[j].accuracy
             /\ history[j].accuracy <= 100
             /\ history[j].coverage \in Int /\ 0 <= history[j].coverage
             /\ history[j].coverage <= 100
  <2>1. history[j].accuracy \in 0..100 /\ history[j].coverage \in 0..100
    BY <1>1 DEF SimulationResults
  <2> QED
    BY <2>1, ShareRange, Zenon
<1>3. /\ Len(Accuracies) = Len(history) /\ Len(Coverages) = Len(history)
      /\ \A j \in 1..Len(history) :
            Accuracies[j] = history[j].accuracy /\ Coverages[j] = history[j].coverage
  BY <1>1 DEF Accuracies, Coverages
<1>4. Shares(Accuracies) /\ Shares(Coverages)
  BY <1>2, <1>3 DEF Shares
<1> QED
  BY <1>1, <1>2, <1>3, <1>4

\* An average of shares is one, and it is their value when they are all the same.
LEMMA AverageShare ==
    ASSUME NEW s, Len(s) \in Nat \ {0}, Shares(s), NEW a \in 0..100
    PROVE  /\ Average(s) \in 0..100
           /\ (\A k \in 1..Len(s) : s[k] = a) => Average(s) = a
<1>1. \A k \in 1..Len(s) : s[k] \in Int /\ 0 <= s[k] /\ s[k] <= 100
  BY DEF Shares
<1>2. Average(s) \in Int /\ 0 <= Average(s) /\ Average(s) <= 100
  <2>1. \A k \in 1..Len(s) : s[k] \in Int
    BY <1>1
  <2>2. /\ Average(s) \in Int
        /\ (\A k \in 1..Len(s) : 0 <= s[k]) => 0 <= Average(s)
        /\ (\A k \in 1..Len(s) : s[k] <= 100) => Average(s) <= 100
    BY <2>1, AverageBounds
  <2> QED
    BY <1>1, <2>2
<1>3. ASSUME \A k \in 1..Len(s) : s[k] = a PROVE Average(s) = a
  <2>1. \A k \in 1..Len(s) : s[k] \in Int /\ a <= s[k] /\ s[k] <= a
    BY <1>3
  <2>2. /\ (\A k \in 1..Len(s) : a <= s[k]) => a <= Average(s)
        /\ (\A k \in 1..Len(s) : s[k] <= a) => Average(s) <= a
    BY <2>1, AverageBounds
  <2>3. a <= Average(s) /\ Average(s) <= a
    BY <2>1, <2>2
  <2> QED
    BY <1>2, <2>3
<1>4. Average(s) \in 0..100
  BY <1>2, ShareRange, Zenon
<1> QED
  BY <1>3, <1>4, Zenon

LEMMA ConsistencyBounds ==
    ASSUME history \in Seq(SimulationResults), NEW a \in 0..100, NEW c \in 0..100
    PROVE  /\ compute_consistency(a, c) \in 0..100
           /\ (\A j \in DOMAIN history : history[j].accuracy = a /\ history[j].coverage = c) =>
                 compute_consistency(a, c) = 100
<1>1. CASE history = <<>>
  BY <1>1 DEF compute_consistency
<1>2. CASE history # <<>>
  <2>1. Len(history) \in Nat \ {0} /\ DOMAIN history = 1..Len(history)
    BY <1>2, HistoryFacts
  <2>2. \A j \in 1..Len(history) :
           Accuracies[j] = history[j].accuracy /\ Coverages[j] = history[j].coverage
    BY HistoryFacts
  <2>3. Len(Accuracies) = Len(history) /\ Len(Coverages) = Len(history)
    BY HistoryFacts
  <2>13. Shares(Accuracies) /\ Shares(Coverages)
    BY HistoryFacts
  <2>4. /\ Average(Accuracies) \in 0..100
        /\ (\A k \in 1..Len(history) : Accuracies[k] = a) => Average(Accuracies) = a
    BY <2>1, <2>3, <2>13, AverageShare
  <2>5. /\ Average(Coverages) \in 0..100
        /\ (\A k \in 1..Len(history) : Coverages[k] = c) => Average(Coverages) = c
    BY <2>1, <2>3, <2>13, AverageShare
  <2>6. PICK A, C \in 0..100 : A = Average(Accuracies) /\ C = Average(Coverages)
    BY <2>4, <2>5
  <2>9. PICK d, e \in 0..100 : d = Abs(a - A) /\ e = Abs(c - C)
    BY DistanceBounds
  <2>10. compute_consistency(a, c) = 100 - (d + e) \div 2
    BY <1>2, <2>6, <2>9 DEF compute_consistency
  <2>11. 100 - (d + e) \div 2 \in 0..100
    OBVIOUS
  <2>12. ASSUME \A j \in DOMAIN history : history[j].accuracy = a /\ history[j].coverage = c
         PROVE  compute_consistency(a, c) = 100
    <3>1. \A j \in 1..Len(history) : Accuracies[j] = a /\ Coverages[j] = c
      BY <2>1, <2>2, <2>12
    <3>2. A = a /\ C = c
      BY <2>4, <2>5, <2>6, <3>1
    <3>3. d = 0 /\ e = 0
      BY <2>9, <3>2 DEF Abs
    <3>4. (0 + 0) \div 2 = 0
      OBVIOUS
    <3> QED
      BY <2>10, <3>3, <3>4
  <2> QED
    BY <2>10, <2>11, <2>12
<1> QED
  BY <1>1, <1>2

LEMMA RunFits ==
    ASSUME TwinInv, NEW refs \in SUBSET DOMAIN TwinMemories, run_simulation(refs)
    PROVE  result' \in SimulationResults /\ Backed(result)' /\ Compared(result)'
<1>1. PICK hits : hits = refs \cap injected
  OBVIOUS
<1>2. hits # {} /\ refs # {} /\ hits \in SUBSET refs /\ hits \in SUBSET DOMAIN TwinMemories
  BY <1>1 DEF run_simulation
<1>3. PICK a \in 0..100 : a = Accuracy(hits) /\ Between(hits, a)
  BY <1>2, AccuracyBounds
<1>4. PICK c \in 0..100 : /\ c = (100 * Cardinality(hits)) \div Cardinality(refs)
                          /\ c >= 100 => hits = refs
  BY <1>2, CoverageBounds
<1>5. PICK s \in 0..100 : s = compute_consistency(a, c)
  <2>1. history \in Seq(SimulationResults)
    BY DEF TwinInv
  <2> QED
    BY <2>1, ConsistencyBounds
<1>6. result' = [refs |-> refs, accuracy |-> a, coverage |-> c, consistency |-> s,
                 deviation |-> 100 - s, success |-> Success(c, a), outputs |-> hits,
                 recorded |-> FALSE]
  <2>1. result' = SimulationResult(refs, hits, Accuracy(hits),
                      (100 * Cardinality(hits)) \div Cardinality(refs),
                      compute_consistency(Accuracy(hits),
                          (100 * Cardinality(hits)) \div Cardinality(refs)))
    <3>1. result' = SimulationResult(refs, refs \cap injected, Accuracy(refs \cap injected),
                        (100 * Cardinality(refs \cap injected)) \div Cardinality(refs),
                        compute_consistency(Accuracy(refs \cap injected),
                            (100 * Cardinality(refs \cap injected)) \div Cardinality(refs)))
      BY DEF run_simulation
    <3> QED
      BY <1>1, <3>1, Zenon
  <2>2. result' = SimulationResult(refs, hits, a, c, s)
    <3>1. Accuracy(hits) = a
      BY <1>3, Zenon
    <3>2. (100 * Cardinality(hits)) \div Cardinality(refs) = c
      BY <1>4, Zenon
    <3>3. compute_consistency(a, c) = s
      BY <1>5, Zenon
    <3> QED
      BY <2>1, <3>1, <3>2, <3>3, Zenon
  <2> QED
    BY <2>2 DEF SimulationResult
<1>7. Success(c, a) \in BOOLEAN /\ (Success(c, a) => hits = refs) /\ 100 - s \in 0..100
  <2>1. Success(c, a) <=> c >= 100 /\ a > 0
    BY DEF Success
  <2>2. Success(c, a) \in BOOLEAN
    BY DEF Success
  <2>3. 100 - s \in 0..100
    OBVIOUS
  <2>4. Success(c, a) => hits = refs
    <3>1. c >= 100 => hits = refs
      BY <1>4, Zenon
    <3> QED
      BY <2>1, <3>1, Zenon
  <2> QED
    BY <2>2, <2>3, <2>4, Zenon
<1>8. result' \in SimulationResults
  BY <1>2, <1>6, <1>7 DEF SimulationResults
<1>9. injected' = injected /\ history' = history
  BY DEF run_simulation
<1>10. Backed(result)'
  BY <1>1, <1>3, <1>6, <1>7, <1>9 DEF Backed, Between
<1>11. Compared(result)'
  BY <1>5, <1>6, <1>9 DEF Compared, compute_consistency, Accuracies, Coverages
<1> QED
  BY <1>8, <1>10, <1>11

LEMMA TwinStep == TwinInv /\ (TwinNext \/ UNCHANGED twin_vars) => TwinInv'
<1> SUFFICES ASSUME TwinInv, TwinNext \/ UNCHANGED twin_vars PROVE TwinInv'
  OBVIOUS
<1>1. ASSUME NEW ms \in SUBSET DOMAIN TwinMemories, inject_experience_to_simulation(ms)
      PROVE  TwinInv'
  <2>1. /\ injected' = injected \cup ms /\ history' = history /\ result' = result
        /\ captured' = captured /\ outcome' = outcome
    BY <1>1 DEF inject_experience_to_simulation
  <2>2. Backed(result) => Backed(result)'
    BY <2>1 DEF Backed
  <2>3. Compared(result) => Compared(result)'
    BY <2>1 DEF Compared, compute_consistency, Accuracies, Coverages
  <2> QED
    BY <2>1, <2>2, <2>3 DEF TwinInv
<1>2. ASSUME NEW refs \in SUBSET DOMAIN TwinMemories, run_simulation(refs) PROVE TwinInv'
  <2>1. result' \in SimulationResults /\ Backed(result)' /\ Compared(result)'
    BY <1>2, RunFits
  <2>2. /\ injected' = injected /\ history' = history /\ captured' = {}
        /\ outcome' = [NoOutcome EXCEPT !.passed = outcome.passed, !.total = outcome.total]
    BY <1>2 DEF run_simulation
  <2>3. Counted(outcome')
    BY <2>2 DEF TwinInv, Counted, NoOutcome
  <2> QED
    BY <2>1, <2>2, <2>3 DEF TwinInv
<1>3. ASSUME NEW c, capture_simulation_result(c) PROVE TwinInv'
  <2>1. /\ injected' = injected /\ history' = history /\ result' = result /\ outcome' = outcome
        /\ result # All /\ result.success
    BY <1>3 DEF capture_simulation_result
  <2>2. \A x \in captured' : x.level = "L2" => x.confidence = result.accuracy
    BY <1>3 DEF capture_simulation_result, Captured
  <2>3. Backed(result) => Backed(result)'
    BY <2>1 DEF Backed
  <2>4. Compared(result) => Compared(result)'
    BY <2>1 DEF Compared, compute_consistency, Accuracies, Coverages
  <2> QED
    BY <2>1, <2>2, <2>3, <2>4 DEF TwinInv
<1>4. CASE validate_against_historical
  <2>1. /\ injected' = injected /\ history' = history /\ result' = result
        /\ captured' = captured /\ result # All
    BY <1>4 DEF validate_against_historical
  <2>2. Backed(result) => Backed(result)'
    BY <2>1 DEF Backed
  <2>3. Compared(result) => Compared(result)'
    BY <2>1 DEF Compared, compute_consistency, Accuracies, Coverages
  <2>4. PICK s, a \in 0..100 : s = result.consistency /\ a = result.accuracy
    BY <2>1 DEF TwinInv, SimulationResults
  <2>5. PICK q : q = (s * 60 + a * 40) \div 100
    OBVIOUS
  <2>6. q \in Int /\ q <= 100
    BY <2>5
  <2>7. outcome' = [verified |-> q >= 70, confidence |-> q,
                    delta |-> build_historical_comparison(result),
                    passed |-> IF q >= 70 THEN outcome.passed + 1 ELSE outcome.passed,
                    total |-> outcome.total + 1]
    BY <1>4, <2>4, <2>5 DEF validate_against_historical
  <2>8. Counted(outcome')
    <3>1. outcome.total \in Nat /\ outcome.passed \in Nat /\ outcome.passed <= outcome.total
      BY DEF TwinInv, Counted
    <3>4. outcome.total + 1 \in Nat /\ outcome.passed <= outcome.total + 1
      BY <3>1
    <3>2. CASE q >= 70
      BY <2>6, <2>7, <3>1, <3>2 DEF Counted
    <3>3. CASE ~(q >= 70)
      <4>1. /\ ~outcome'.verified /\ outcome'.passed = outcome.passed
            /\ outcome'.total = outcome.total + 1
        BY <2>7, <3>3
      <4> QED
        BY <3>1, <3>4, <4>1 DEF Counted
    <3> QED
      BY <3>2, <3>3
  <2> QED
    BY <2>1, <2>2, <2>3, <2>8 DEF TwinInv
<1>5. CASE record_simulation_result
  <2>1. /\ injected' = injected /\ captured' = captured /\ outcome' = outcome
        /\ result # All /\ history' = Append(history, result)
        /\ result' = [result EXCEPT !.recorded = TRUE]
    BY <1>5 DEF record_simulation_result
  <2>2. history \in Seq(SimulationResults) /\ result \in SimulationResults /\ Backed(result)
    BY <2>1 DEF TwinInv
  <2>3. history' \in Seq(SimulationResults)
    BY <2>1, <2>2
  <2>4. /\ result' \in SimulationResults /\ result'.recorded
        /\ result'.refs = result.refs /\ result'.accuracy = result.accuracy
        /\ result'.success = result.success
    BY <2>1, <2>2 DEF SimulationResults
  <2>5. Backed(result)' /\ Compared(result)'
    BY <2>1, <2>2, <2>4 DEF Backed, Between, Compared
  <2> QED
    BY <2>1, <2>3, <2>4, <2>5 DEF TwinInv
<1>6. CASE UNCHANGED twin_vars
  <2>1. /\ injected' = injected /\ history' = history /\ result' = result
        /\ captured' = captured /\ outcome' = outcome
    BY <1>6 DEF twin_vars
  <2>2. Backed(result) => Backed(result)'
    BY <2>1 DEF Backed
  <2>3. Compared(result) => Compared(result)'
    BY <2>1 DEF Compared, compute_consistency, Accuracies, Coverages
  <2> QED
    BY <2>1, <2>2, <2>3 DEF TwinInv
<1> QED
  BY <1>1, <1>2, <1>3, <1>4, <1>5, <1>6 DEF TwinNext

LEMMA BusinessScore ==
    ASSUME TwinInv
    PROVE  business_value_score(memory_quality_score(90, 80, 100, 0, 10)) \in 0..100
<1>1. PICK quality \in 0..100 : quality = memory_quality_score(90, 80, 100, 0, 10)
  BY DEF memory_quality_score
<1>2. PICK total, passed \in Nat : total = outcome.total /\ passed = outcome.passed /\ passed <= total
  BY DEF TwinInv, Counted
<1>3. PICK rate \in 0..100 : rate = verification_pass_rate
  <2>1. CASE total = 0
    BY <1>2, <2>1 DEF verification_pass_rate
  <2>2. CASE total # 0
    <3>1. 100 * passed \in Int /\ 0 * total <= 100 * passed /\ 100 * passed <= 100 * total
      BY <1>2
    <3>2. PICK q \in Int : q = (100 * passed) \div total /\ 0 <= q /\ q <= 100
      BY <2>2, <3>1, QuotientBounds
    <3>3. q = verification_pass_rate
      BY <1>2, <2>2, <3>2 DEF verification_pass_rate
    <3>4. q \in 0..100
      BY <3>2
    <3> QED
      BY <3>3, <3>4
  <2> QED
    BY <2>1, <2>2
<1>4. Len(history) \in Nat
  BY DEF TwinInv
<1>5. PICK often \in 0..100 : often = Min({Len(history), 100})
  <2>1. PICK o \in Nat : o = Min({Len(history), 100}) /\ o <= 100
    BY <1>4, LesserFacts
  <2>2. o \in Int /\ 0 <= o /\ o <= 100
    BY <2>1
  <2>3. o \in 0..100
    BY <2>2, ShareRange, Zenon
  <2> QED
    BY <2>1, <2>3, Zenon
<1>6. business_value_score(quality) = (rate * 50 + quality * 30 + often * 20) \div 100
  BY <1>3, <1>5 DEF business_value_score
<1>7. (rate * 50 + quality * 30 + often * 20) \div 100 \in 0..100
  OBVIOUS
<1> QED
  BY <1>1, <1>6, <1>7

\* Some number is not above the average, and some is not below it.
LEMMA AroundAverage ==
    ASSUME NEW s, Len(s) \in Nat \ {0}, \A k \in 1..Len(s) : s[k] \in Int
    PROVE  /\ Average(s) \in Int
           /\ \E k \in 1..Len(s) : s[k] <= Average(s)
           /\ \E k \in 1..Len(s) : Average(s) <= s[k]
<1>1. PICK q \in Int : q = Average(s)
  BY AverageBounds
<1>2. ASSUME ~\E k \in 1..Len(s) : s[k] <= q PROVE FALSE
  <2>1. \A k \in 1..Len(s) : q + 1 <= s[k]
    BY <1>2
  <2>2. q + 1 \in Int /\ ((\A k \in 1..Len(s) : q + 1 <= s[k]) => q + 1 <= Average(s))
    BY AverageBounds
  <2> QED
    BY <1>1, <2>1, <2>2
<1>3. ASSUME ~\E k \in 1..Len(s) : q <= s[k] PROVE FALSE
  <2>1. \A k \in 1..Len(s) : s[k] <= q - 1
    BY <1>3
  <2>2. q - 1 \in Int /\ ((\A k \in 1..Len(s) : s[k] <= q - 1) => Average(s) <= q - 1)
    BY AverageBounds
  <2> QED
    BY <1>1, <2>1, <2>2
<1> QED
  BY <1>1, <1>2, <1>3

LEMMA TrendFacts ==
    ASSUME NEW s \in Seq(Int), compute_trend(s) = "increasing"
    PROVE  \E i, j \in 1..Len(s) : i < j /\ s[i] < s[j]
<1>1. PICK n \in Nat : n = Len(s) /\ n >= 2
  BY DEF compute_trend
<1>2. PICK mid \in Nat : mid = Len(s) \div 2 /\ 1 <= mid /\ mid < n
  BY <1>1
<1>3. PICK early : early = SubSeq(s, 1, mid)
  OBVIOUS
<1>4. PICK late : late = SubSeq(s, mid + 1, Len(s))
  OBVIOUS
<1>5. /\ Len(early) \in Nat \ {0} /\ Len(early) = mid
      /\ \A k \in 1..Len(early) : early[k] = s[k] /\ s[k] \in Int /\ early[k] \in Int
  BY <1>1, <1>2, <1>3
<1>6. /\ Len(late) \in Nat \ {0} /\ Len(late) = n - mid
      /\ \A k \in 1..Len(late) : /\ late[k] = s[mid + k] /\ s[mid + k] \in Int
                                 /\ late[k] \in Int
  <2>1. Len(late) = n - mid /\ n - mid \in Nat \ {0}
    <3>1. late = SubSeq(s, mid + 1, n)
      BY <1>1, <1>4
    <3>2. mid + 1 \in Int /\ n \in Int /\ \A k \in (mid + 1)..n : s[k] \in Int
      BY <1>1, <1>2
    <3>3. Len(SubSeq(s, mid + 1, n)) = IF mid + 1 <= n THEN n - (mid + 1) + 1 ELSE 0
      BY <3>2, SubSeqProperties
    <3>4. mid + 1 <= n /\ n - (mid + 1) + 1 = n - mid /\ n - mid \in Nat \ {0}
      BY <1>1, <1>2
    <3> QED
      BY <3>1, <3>3, <3>4
  <2>2. ASSUME NEW k \in 1..(n - mid) PROVE late[k] = s[mid + k] /\ s[mid + k] \in Int
    <3>1. mid + k \in 1..n /\ mid + 1 + k - 1 = mid + k
      BY <1>1, <1>2
    <3>2. s[mid + k] \in Int
      BY <1>1, <3>1
    <3>3. late[k] = s[mid + 1 + k - 1]
      BY <1>1, <1>2, <1>4
    <3> QED
      BY <3>1, <3>2, <3>3
  <2> QED
    BY <2>1, <2>2
<1>7. PICK first \in Int : /\ first = Average(early)
                           /\ \E k \in 1..Len(early) : early[k] <= first
  BY <1>5, AroundAverage
<1>8. PICK second \in Int : /\ second = Average(late)
                            /\ \E k \in 1..Len(late) : second <= late[k]
  BY <1>6, AroundAverage
<1>9. first < second
  <2>1. CASE first > 0
    <3>1. 100 * (second - first) > 5 * first
      BY <1>1, <1>2, <1>3, <1>4, <1>7, <1>8, <2>1 DEF compute_trend
    <3> QED
      BY <2>1, <3>1
  <2>2. CASE ~(first > 0)
    <3>1. second > 0
      BY <1>1, <1>2, <1>3, <1>4, <1>7, <1>8, <2>2 DEF compute_trend
    <3> QED
      BY <2>2, <3>1
  <2> QED
    BY <2>1, <2>2
<1>10. PICK i \in 1..mid : early[i] = s[i] /\ s[i] \in Int /\ early[i] <= first
  BY <1>5, <1>7
<1>11. PICK k \in 1..(n - mid) : late[k] = s[mid + k] /\ s[mid + k] \in Int /\ second <= late[k]
  BY <1>6, <1>8
<1>12. PICK j \in 1..n : j = mid + k
  BY <1>2
<1>13. i \in 1..n /\ i < j
  BY <1>2, <1>12
<1>14. s[i] < s[j]
  BY <1>9, <1>10, <1>11, <1>12
<1> QED
  BY <1>1, <1>13, <1>14

LEMMA TwinIsSound == TwinInv => TwinSound
<1> SUFFICES ASSUME TwinInv PROVE TwinSound
  OBVIOUS
<1>1. ASSUME captured # {}
      PROVE  /\ result.refs \subseteq injected
             /\ \A c \in captured : c.level = "L2" =>
                   \E m, n \in result.refs :
                      /\ TwinMemories[m].confidence <= c.confidence
                      /\ c.confidence <= TwinMemories[n].confidence
  BY <1>1 DEF TwinInv, Backed, Between
<1>2. history \in Seq(SimulationResults)
  BY DEF TwinInv
<1>3. ASSUME result # All
      PROVE  /\ result.accuracy \in 0..100 /\ result.coverage \in 0..100
             /\ result.consistency \in 0..100
             /\ (\A j \in DOMAIN history : /\ history[j].accuracy = result.accuracy
                                           /\ history[j].coverage = result.coverage)
                /\ ~result.recorded => result.deviation = 0
  <2>1. result \in SimulationResults /\ Compared(result)
    BY <1>3 DEF TwinInv
  <2>2. PICK a, c \in 0..100 : a = result.accuracy /\ c = result.coverage
    BY <2>1 DEF SimulationResults
  <2>3. result.consistency \in 0..100
    BY <2>1 DEF SimulationResults
  <2>4. ASSUME \A j \in DOMAIN history : history[j].accuracy = a /\ history[j].coverage = c,
               ~result.recorded
        PROVE  result.deviation = 0
    <3>1. compute_consistency(a, c) = 100
      BY <1>2, <2>4, ConsistencyBounds
    <3> QED
      BY <2>1, <2>2, <2>4, <3>1 DEF Compared
  <2> QED
    BY <2>2, <2>3, <2>4
<1>4. outcome.verified => outcome.confidence \in 70..100
  BY DEF TwinInv, Counted
<1>5. ASSUME compute_trend(Accuracies) = "increasing"
      PROVE  \E i, j \in DOMAIN history : i < j /\ history[i].accuracy < history[j].accuracy
  <2>1. /\ Len(Accuracies) = Len(history) /\ DOMAIN history = 1..Len(history)
        /\ \A j \in 1..Len(history) : Accuracies[j] = history[j].accuracy
    BY <1>2, HistoryFacts
  <2>2. Accuracies \in Seq(Int)
    <3>1. Len(history) \in Nat /\ \A j \in 1..Len(history) : Accuracies[j] \in Int
      BY <1>2, <2>1, HistoryFacts DEF Shares
    <3>2. Accuracies = [j \in 1..Len(history) |-> Accuracies[j]]
      BY <2>1 DEF Accuracies
    <3> QED
      BY <3>1, <3>2
  <2> QED
    BY <1>5, <2>1, <2>2, TrendFacts
<1> QED
  BY <1>1, <1>3, <1>4, <1>5, BusinessScore DEF TwinSound

-----------------------------------------------------------------------------
(* Sums over finite sets. *)

\* Of some sets of elements of a finite set one is the smallest: no part of it is
\* among them.
LEMMA SmallestSet ==
    ASSUME NEW S, IsFiniteSet(S), NEW B \in SUBSET SUBSET S, B # {}
    PROVE  \E s \in B : \A t \in SUBSET s : t # s => t \notin B
<1> DEFINE T == {Cardinality(s) : s \in B}
<1>1. \A s \in B : IsFiniteSet(s) /\ Cardinality(s) \in Nat
  BY FS_Subset, FS_CardinalityType
<1>2. T \in SUBSET Nat /\ T # {}
  BY <1>1
<1>3. PICK m \in T : \A k \in T : m <= k
  <2> HIDE DEF T
  <2> QED
    BY <1>2, LeastNumber
<1>4. PICK s \in B : Cardinality(s) = m
  OBVIOUS
<1>5. ASSUME NEW t \in SUBSET s, t # s, t \in B PROVE FALSE
  <2>1. Cardinality(s) <= Cardinality(t)
    BY <1>3, <1>4, <1>5
  <2>2. Cardinality(t) <= Cardinality(s) /\ Cardinality(t) # Cardinality(s)
    BY <1>1, <1>5, FS_Subset
  <2>3. Cardinality(t) \in Nat /\ Cardinality(s) \in Nat
    BY <1>1, <1>5
  <2> QED
    BY <2>1, <2>2, <2>3
<1> QED
  BY <1>4, <1>5

\* The element a sum takes first, the sums over the sets in D, and over those of at
\* most n elements.
One(s) == CHOOSE x \in s : TRUE

SumOn(f, D, g) ==
    g = [s \in D |-> IF s = {} THEN 0 ELSE f[One(s)] + g[s \ {One(s)}]]

UpToSize(S, n) == {s \in SUBSET S : Cardinality(s) <= n}

LEMMA OneRemoved ==
    ASSUME NEW S, IsFiniteSet(S), S # {}
    PROVE  /\ One(S) \in S /\ S \ {One(S)} \in SUBSET S /\ S \ {One(S)} # S
           /\ IsFiniteSet(S \ {One(S)}) /\ Cardinality(S) \in Nat
           /\ Cardinality(S \ {One(S)}) = Cardinality(S) - 1
<1>1. One(S) \in S
  BY DEF One
<1>2. S \ {One(S)} \in SUBSET S /\ S \ {One(S)} # S
  BY <1>1
<1> QED
  BY <1>1, <1>2, FS_RemoveElement, FS_CardinalityType

LEMMA SumOnExists ==
    ASSUME NEW f, NEW S, IsFiniteSet(S)
    PROVE  \E g : SumOn(f, SUBSET S, g)
<1> DEFINE bad == {n \in Nat : ~\E g : SumOn(f, UpToSize(S, n), g)}
<1>1. \A s \in SUBSET S : IsFiniteSet(s) /\ Cardinality(s) \in Nat
  BY FS_Subset, FS_CardinalityType
<1>2. ASSUME bad # {} PROVE FALSE
  <2>1. PICK m \in bad : \A n \in bad : m <= n
    <3>1. bad \in SUBSET Nat
      OBVIOUS
    <3> HIDE DEF bad
    <3> QED
      BY <1>2, <3>1, LeastNumber
  <2>2. CASE m = 0
    <3>1. PICK g : g = [s \in UpToSize(S, m) |-> 0]
      OBVIOUS
    <3>2. \A s \in UpToSize(S, m) : s = {}
      <4> TAKE s \in UpToSize(S, m)
      <4>1. Cardinality(s) = 0 /\ IsFiniteSet(s)
        BY <1>1, <2>2 DEF UpToSize
      <4> QED
        BY <4>1, FS_EmptySet
    <3>3. SumOn(f, UpToSize(S, m), g)
      BY <3>1, <3>2 DEF SumOn
    <3> QED
      BY <2>1, <3>3
  <2>3. CASE m # 0
    <3>1. m \in Nat /\ m - 1 \in Nat /\ m - 1 \notin bad
      BY <2>1, <2>3
    <3>2. PICK g : SumOn(f, UpToSize(S, m - 1), g)
      BY <3>1
    <3> DEFINE D == UpToSize(S, m - 1)
               E == UpToSize(S, m)
    <3>3. \A s \in D : g[s] = IF s = {} THEN 0 ELSE f[One(s)] + g[s \ {One(s)}]
      BY <3>2 DEF SumOn
    <3>4. PICK h : h = [s \in E |-> IF s \in D THEN g[s] ELSE f[One(s)] + g[s \ {One(s)}]]
      OBVIOUS
    <3>5. {} \in D /\ \A s \in D : s \in E
      <4>1. {} \in D
        BY <3>1, FS_EmptySet DEF UpToSize
      <4>2. \A s \in SUBSET S : Cardinality(s) <= m - 1 => Cardinality(s) <= m
        BY <1>1, <3>1
      <4> QED
        BY <4>1, <4>2 DEF UpToSize
    <3>6. ASSUME NEW s \in E, s # {} PROVE s \ {One(s)} \in D /\ s \ {One(s)} \in E
      <4>1. s \in SUBSET S /\ Cardinality(s) <= m /\ IsFiniteSet(s)
        BY <1>1 DEF UpToSize
      <4>2. /\ s \ {One(s)} \in SUBSET s /\ Cardinality(s) \in Nat
            /\ Cardinality(s \ {One(s)}) = Cardinality(s) - 1
        BY <3>6, <4>1, OneRemoved
      <4>3. Cardinality(s \ {One(s)}) <= m - 1
        BY <3>1, <4>1, <4>2
      <4> QED
        BY <3>5, <4>1, <4>2, <4>3 DEF UpToSize
    <3> HIDE DEF D, E
    <3>7. ASSUME NEW s \in E
          PROVE  h[s] = IF s = {} THEN 0 ELSE f[One(s)] + h[s \ {One(s)}]
      <4>1. CASE s = {}
        BY <3>3, <3>4, <3>5, <4>1
      <4>2. CASE s # {}
        <5>1. h[s \ {One(s)}] = g[s \ {One(s)}]
          BY <3>4, <3>6, <4>2
        <5>2. h[s] = f[One(s)] + g[s \ {One(s)}]
          BY <3>3, <3>4, <4>2
        <5> QED
          BY <4>2, <5>1, <5>2
      <4> QED
        BY <4>1, <4>2
    <3>8. SumOn(f, E, h)
      <4>1. h = [s \in E |-> h[s]]
        BY <3>4
      <4> QED
        BY <3>7, <4>1 DEF SumOn
    <3> QED
      BY <2>1, <3>8 DEF E
  <2> QED
    BY <2>2, <2>3
<1>3. UpToSize(S, Cardinality(S)) = SUBSET S
  BY FS_Subset DEF UpToSize
<1>4. Cardinality(S) \in Nat /\ Cardinality(S) \notin bad
  BY <1>1, <1>2
<1> QED
  BY <1>3, <1>4

\* The sums over the parts of two sets agree where both are given.
LEMMA SumsAgree ==
    ASSUME NEW f, NEW S, IsFiniteSet(S), NEW T \in SUBSET S, NEW g, NEW h,
           SumOn(f, SUBSET S, g), SumOn(f, SUBSET T, h)
    PROVE  g[T] = h[T]
<1> DEFINE B == {s \in SUBSET T : g[s] # h[s]}
<1>1. IsFiniteSet(T)
  BY FS_Subset
<1>2. ASSUME B # {} PROVE FALSE
  <2>1. PICK s \in B : \A u \in SUBSET s : u # s => u \notin B
    <3>1. B \in SUBSET SUBSET T
      OBVIOUS
    <3> HIDE DEF B
    <3> QED
      BY <1>1, <1>2, <3>1, SmallestSet
  <2>2. /\ g[s] = IF s = {} THEN 0 ELSE f[One(s)] + g[s \ {One(s)}]
        /\ h[s] = IF s = {} THEN 0 ELSE f[One(s)] + h[s \ {One(s)}]
    BY <2>1 DEF SumOn
  <2>3. s # {}
    BY <2>1, <2>2
  <2>4. IsFiniteSet(s)
    BY <1>1, <2>1, FS_Subset
  <2>5. s \ {One(s)} \in SUBSET s /\ s \ {One(s)} # s
    BY <2>3, <2>4, OneRemoved
  <2>6. g[s \ {One(s)}] = h[s \ {One(s)}]
    BY <2>1, <2>5
  <2> QED
    BY <2>1, <2>2, <2>3, <2>6
<1>3. T \in SUBSET T
  OBVIOUS
<1> QED
  BY <1>2, <1>3

LEMMA SumIsOn ==
    ASSUME NEW f, NEW S, IsFiniteSet(S)
    PROVE  \E g : SumOn(f, SUBSET S, g) /\ SumOver(f, S) = g[S]
<1> DEFINE g == CHOOSE g : SumOn(f, SUBSET S, g)
<1>1. SumOver(f, S) = g[S]
  BY DEF SumOver, MapThenSumSet, MapThenFoldSet, SumOn, One
<1>2. SumOn(f, SUBSET S, g)
  BY SumOnExists
<1> QED
  BY <1>1, <1>2

\* A sum is that of all elements but one, and the value of that one.
LEMMA SumStep ==
    ASSUME NEW f, NEW S, IsFiniteSet(S)
    PROVE  SumOver(f, S) = IF S = {} THEN 0 ELSE f[One(S)] + SumOver(f, S \ {One(S)})
<1>1. PICK g : SumOn(f, SUBSET S, g) /\ SumOver(f, S) = g[S]
  BY SumIsOn
<1>2. g[S] = IF S = {} THEN 0 ELSE f[One(S)] + g[S \ {One(S)}]
  BY <1>1 DEF SumOn
<1>3. ASSUME S # {} PROVE g[S \ {One(S)}] = SumOver(f, S \ {One(S)})
  <2> DEFINE T == S \ {One(S)}
  <2>1. T \in SUBSET S /\ IsFiniteSet(T)
    BY <1>3, OneRemoved
  <2> HIDE DEF T
  <2>2. PICK h : SumOn(f, SUBSET T, h) /\ SumOver(f, T) = h[T]
    BY <2>1, SumIsOn
  <2>3. g[T] = h[T]
    BY <1>1, <2>1, <2>2, SumsAgree
  <2> QED
    BY <2>2, <2>3 DEF T
<1> QED
  BY <1>1, <1>2, <1>3

LEMMA SumNumber ==
    ASSUME NEW f, NEW S, IsFiniteSet(S), \A x \in S : f[x] \in Int
    PROVE  SumOver(f, S) \in Int
<1> DEFINE B == {s \in SUBSET S : SumOver(f, s) \notin Int}
<1>1. ASSUME B # {} PROVE FALSE
  <2>1. PICK s \in B : \A u \in SUBSET s : u # s => u \notin B
    <3>1. B \in SUBSET SUBSET S
      OBVIOUS
    <3> HIDE DEF B
    <3> QED
      BY <1>1, <3>1, SmallestSet
  <2>2. IsFiniteSet(s) /\ s \in SUBSET S
    BY <2>1, FS_Subset
  <2>3. SumOver(f, s) = IF s = {} THEN 0 ELSE f[One(s)] + SumOver(f, s \ {One(s)})
    BY <2>2, SumStep
  <2>4. s # {}
    BY <2>1, <2>3
  <2>5. One(s) \in s /\ s \ {One(s)} \in SUBSET s /\ s \ {One(s)} # s
    BY <2>2, <2>4, OneRemoved
  <2>6. SumOver(f, s \ {One(s)}) \in Int /\ f[One(s)] \in Int
    BY <2>1, <2>2, <2>5
  <2> QED
    BY <2>1, <2>3, <2>4, <2>6
<1> QED
  BY <1>1

\* Whichever element is taken out.
LEMMA SumWithout ==
    ASSUME NEW f, NEW S, IsFiniteSet(S), \A x \in S : f[x] \in Int, NEW e \in S
    PROVE  SumOver(f, S) = f[e] + SumOver(f, S \ {e})
<1> DEFINE B == {s \in SUBSET S : \E x \in s : SumOver(f, s) # f[x] + SumOver(f, s \ {x})}
<1>1. ASSUME B # {} PROVE FALSE
  <2>1. PICK s \in B : \A u \in SUBSET s : u # s => u \notin B
    <3>1. B \in SUBSET SUBSET S
      OBVIOUS
    <3> HIDE DEF B
    <3> QED
      BY <1>1, <3>1, SmallestSet
  <2>2. PICK x \in s : SumOver(f, s) # f[x] + SumOver(f, s \ {x})
    BY <2>1
  <2> DEFINE c == One(s)
  <2>3. IsFiniteSet(s) /\ s \in SUBSET S /\ s # {}
    BY <2>1, <2>2, FS_Subset
  <2>4. c \in s
    BY <2>3, OneRemoved
  <2>5. SumOver(f, s) = f[c] + SumOver(f, s \ {c})
    BY <2>3, SumStep
  <2> HIDE DEF c
  <2>6. c # x
    BY <2>2, <2>5
  <2>7. s \ {c} \in SUBSET s /\ s \ {x} \in SUBSET s /\ s \ {c} # s /\ s \ {x} # s
    BY <2>2, <2>4
  <2>8. s \ {c} \notin B /\ s \ {x} \notin B
    BY <2>1, <2>7
  <2>9. x \in s \ {c} /\ c \in s \ {x} /\ s \ {c} \in SUBSET S /\ s \ {x} \in SUBSET S
    BY <2>2, <2>3, <2>4, <2>6
  <2>10. SumOver(f, s \ {c}) = f[x] + SumOver(f, (s \ {c}) \ {x})
    BY <2>8, <2>9
  <2>11. SumOver(f, s \ {x}) = f[c] + SumOver(f, (s \ {x}) \ {c})
    BY <2>8, <2>9
  <2>12. (s \ {x}) \ {c} = (s \ {c}) \ {x}
    OBVIOUS
  <2>13. f[x] \in Int /\ f[c] \in Int /\ SumOver(f, (s \ {c}) \ {x}) \in Int
    <3>1. (s \ {c}) \ {x} \in SUBSET S
      BY <2>3
    <3>2. IsFiniteSet((s \ {c}) \ {x}) /\ \A y \in (s \ {c}) \ {x} : f[y] \in Int
      BY <3>1, FS_Subset
    <3>3. SumOver(f, (s \ {c}) \ {x}) \in Int
      BY <3>2, SumNumber
    <3> QED
      BY <2>2, <2>3, <2>4, <3>3
  <2>14. PICK w : w = SumOver(f, (s \ {c}) \ {x})
    OBVIOUS
  <2>15. SumOver(f, s \ {c}) = f[x] + w /\ SumOver(f, s \ {x}) = f[c] + w /\ w \in Int
    BY <2>10, <2>11, <2>12, <2>13, <2>14
  <2>16. f[c] + (f[x] + w) = f[x] + (f[c] + w)
    BY <2>13, <2>15
  <2> HIDE DEF B
  <2> QED
    BY <2>2, <2>5, <2>15, <2>16, Zenon
<1>2. S \in SUBSET S
  OBVIOUS
<1> QED
  BY <1>1, <1>2

LEMMA SumWith ==
    ASSUME NEW f, NEW S, IsFiniteSet(S), NEW e, e \notin S, \A x \in S \cup {e} : f[x] \in Int
    PROVE  SumOver(f, S \cup {e}) = SumOver(f, S) + f[e]
<1>1. IsFiniteSet(S \cup {e})
  BY FS_AddElement
<1>2. (S \cup {e}) \ {e} = S
  OBVIOUS
<1>3. SumOver(f, S \cup {e}) = f[e] + SumOver(f, S)
  BY <1>1, <1>2, SumWithout
<1>4. SumOver(f, S) \in Int /\ f[e] \in Int
  BY SumNumber
<1> QED
  BY <1>3, <1>4

\* Lesser values, lesser sum.
LEMMA SumLesser ==
    ASSUME NEW f, NEW g, NEW S, IsFiniteSet(S),
           \A x \in S : f[x] \in Int /\ g[x] \in Int /\ f[x] <= g[x]
    PROVE  SumOver(f, S) <= SumOver(g, S)
<1> DEFINE B == {s \in SUBSET S : ~(SumOver(f, s) <= SumOver(g, s))}
<1>1. ASSUME B # {} PROVE FALSE
  <2>1. PICK s \in B : \A u \in SUBSET s : u # s => u \notin B
    <3>1. B \in SUBSET SUBSET S
      OBVIOUS
    <3> HIDE DEF B
    <3> QED
      BY <1>1, <3>1, SmallestSet
  <2>2. IsFiniteSet(s) /\ s \in SUBSET S
    BY <2>1, FS_Subset
  <2>3. /\ SumOver(f, s) = IF s = {} THEN 0 ELSE f[One(s)] + SumOver(f, s \ {One(s)})
        /\ SumOver(g, s) = IF s = {} THEN 0 ELSE g[One(s)] + SumOver(g, s \ {One(s)})
    BY <2>2, SumStep
  <2>4. s # {}
    BY <2>1, <2>3
  <2>5. One(s) \in s /\ s \ {One(s)} \in SUBSET s /\ s \ {One(s)} # s /\ IsFiniteSet(s \ {One(s)})
    BY <2>2, <2>4, OneRemoved
  <2>6. SumOver(f, s \ {One(s)}) \in Int /\ SumOver(g, s \ {One(s)}) \in Int
    BY <2>2, <2>5, SumNumber
  <2>7. f[One(s)] \in Int /\ g[One(s)] \in Int /\ f[One(s)] <= g[One(s)]
    BY <2>2, <2>5
  <2>8. SumOver(f, s \ {One(s)}) <= SumOver(g, s \ {One(s)})
    BY <2>1, <2>2, <2>5
  <2>9. SumOver(f, s) <= SumOver(g, s)
    BY <2>3, <2>4, <2>6, <2>7, <2>8
  <2> QED
    BY <2>1, <2>9
<1> QED
  BY <1>1

-----------------------------------------------------------------------------
(* Choosing what fits. *)

\* A list of segments, as the choice sees it.
Lined(segs) ==
    /\ Len(segs) \in Nat /\ DOMAIN segs = 1..Len(segs)
    /\ \A i \in DOMAIN segs : Costed(segs[i])

LEMMA NamesKnown ==
    /\ IsFiniteSet(DOMAIN NameLength)
    /\ \A s \in DOMAIN NameLength : NameLength[s] \in Nat
<1>1. DOMAIN NameLength = {Sections[i] : i \in 1..7}
  BY SectionsNumbered
<1>2. IsFiniteSet(DOMAIN NameLength)
  <2>1. PICK f : f = [i \in 1..7 |-> Sections[i]]
    OBVIOUS
  <2>2. f \in Surjection(1..7, DOMAIN NameLength)
    BY <1>1, <2>1 DEF Surjection
  <2>3. IsFiniteSet(1..7)
    <3>1. 1 \in Int /\ 7 \in Int
      OBVIOUS
    <3> QED
      BY <3>1, FS_Interval, Zenon
  <2> QED
    BY <2>2, <2>3, FS_Surjection
<1>3. \A s \in DOMAIN NameLength : NameLength[s] \in Nat
  <2> TAKE s \in DOMAIN NameLength
  <2>1. NameLength[s] = CASE s = "Identity" -> 8 [] s \in {"Hot Context", "Shared Task"} -> 11
                          [] s \in {"Canonical User", "Business State"} -> 14
                          [] s = "Enterprise Memory" -> 17 [] OTHER -> 20
    BY DEF NameLength
  <2>2. NameLength[s] \in {8, 11, 14, 17, 20}
    BY <2>1, Zenon
  <2> QED
    BY <2>2
<1> QED
  BY <1>1, <1>2, <1>3

\* Costs are numbers.
LEMMA CostNumbers ==
    ASSUME NEW segs, Lined(segs)
    PROVE  /\ \A i \in DOMAIN segs : /\ TextCosts(segs)[i] = Bytes(segs[i]) + 1
                                     /\ Bytes(segs[i]) \in Nat
                                     /\ TextCosts(segs)[i] \in Nat
                                     /\ segs[i].section \in DOMAIN NameLength
           /\ \A s \in DOMAIN NameLength : HeaderCosts[s] = NameLength[s] + 6
                                           /\ HeaderCosts[s] \in Nat
           /\ IsFiniteSet(DOMAIN segs)
<1>1. \A i \in DOMAIN segs : segs[i].length \in Nat /\ segs[i].marks \in Nat
                             /\ segs[i].section \in DOMAIN NameLength
  BY DEF Lined, Costed
<1>2. \A i \in DOMAIN segs : Bytes(segs[i]) \in Nat
  BY <1>1 DEF Bytes, MarkerBytes
<1>3. \A i \in DOMAIN segs : TextCosts(segs)[i] = Bytes(segs[i]) + 1
  BY DEF TextCosts
<1>4. \A s \in DOMAIN NameLength : HeaderCosts[s] = NameLength[s] + 6
  BY DEF HeaderCosts
<1>5. IsFiniteSet(DOMAIN segs)
  BY FS_Interval DEF Lined
<1> QED
  BY <1>1, <1>2, <1>3, <1>4, <1>5, NamesKnown

\* Segments are in one order.
LEMMA InOneOrder ==
    ASSUME NEW segs, Lined(segs)
    PROVE  /\ \A i, j \in DOMAIN segs : i # j => Before(segs, i, j) \/ Before(segs, j, i)
           /\ \A i, j \in DOMAIN segs : ~(Before(segs, i, j) /\ Before(segs, j, i))
           /\ \A i, j, k \in DOMAIN segs :
                 Before(segs, i, j) /\ Before(segs, j, k) => Before(segs, i, k)
<1>1. \A i \in DOMAIN segs : /\ segs[i].priority \in Int /\ segs[i].authority \in Int
                             /\ segs[i].confidence \in Int /\ i \in Int
  BY DEF Lined, Costed
<1> QED
  BY <1>1 DEF Before

\* Of any of them one is the foremost: the one that fewest are before.
LEMMA ForemostFacts ==
    ASSUME NEW segs, Lined(segs), NEW S \in SUBSET DOMAIN segs, S # {}
    PROVE  /\ Foremost(segs, S) \in S
           /\ \A j \in S \ {Foremost(segs, S)} : Before(segs, Foremost(segs, S), j)
<1> DEFINE Ahead(j) == {k \in S : Before(segs, k, j)}
           T == {Cardinality(Ahead(j)) : j \in S}
<1>1. \A j \in S : IsFiniteSet(Ahead(j)) /\ Cardinality(Ahead(j)) \in Nat
  <2> TAKE j \in S
  <2>1. Ahead(j) \in SUBSET DOMAIN segs
    OBVIOUS
  <2> HIDE DEF Ahead
  <2> QED
    BY <2>1, CostNumbers, FS_Subset, FS_CardinalityType
<1> HIDE DEF Ahead
<1>2. T # {} /\ T \in SUBSET Nat
  BY <1>1
<1>3. PICK t \in T : \A u \in T : t <= u
  <2> HIDE DEF T
  <2> QED
    BY <1>2, LeastNumber
<1>4. PICK b \in S : Cardinality(Ahead(b)) = t
  OBVIOUS
<1>5. \A k \in S : Cardinality(Ahead(b)) <= Cardinality(Ahead(k))
  BY <1>3, <1>4
<1> HIDE DEF T
<1>6. ASSUME NEW l \in S, Before(segs, l, b) PROVE FALSE
  <2>1. Ahead(l) \in SUBSET Ahead(b)
    BY <1>6, InOneOrder DEF Ahead
  <2>2. l \in Ahead(b) /\ l \notin Ahead(l)
    BY <1>6, InOneOrder DEF Ahead
  <2>3. /\ Cardinality(Ahead(l)) <= Cardinality(Ahead(b))
        /\ Cardinality(Ahead(b)) # Cardinality(Ahead(l))
    BY <1>1, <2>1, <2>2, FS_Subset
  <2>4. Cardinality(Ahead(b)) \in Nat /\ Cardinality(Ahead(l)) \in Nat
    BY <1>1
  <2> QED
    BY <1>5, <2>3, <2>4
<1>7. \A j \in S \ {b} : Before(segs, b, j)
  BY <1>6, InOneOrder
<1> QED
  BY <1>7 DEF Foremost

\* What is taken up when a segment is tried, with it and without.
SectionsIn(segs, kept) == {segs[i].section : i \in kept}

AheadOf(segs, kept, j) == {i \in kept : Before(segs, i, j)}

Room(segs, kept, j) ==
    SumOver(TextCosts(segs), AheadOf(segs, kept, j))
    + SumOver(HeaderCosts, SectionsIn(segs, AheadOf(segs, kept, j) \cup {j}))

\* When n segments were tried: they are the foremost; what is kept fits; what is not
\* kept would not have fitted.
Greedy(segs, budget, c, n) ==
    /\ DOMAIN c = {"left", "kept", "bytes", "sections", "compressed"}
    /\ c.left \in SUBSET DOMAIN segs /\ Cardinality(c.left) = Len(segs) - n
    /\ c.kept \in SUBSET (DOMAIN segs \ c.left)
    /\ \A i \in DOMAIN segs \ c.left : \A j \in c.left : Before(segs, i, j)
    /\ c.sections = SectionsIn(segs, c.kept)
    /\ c.bytes = SumOver(TextCosts(segs), c.kept) + SumOver(HeaderCosts, c.sections)
    /\ c.bytes <= budget * CharsPerToken
    /\ c.compressed \in BOOLEAN
    /\ c.compressed <=> c.kept # DOMAIN segs \ c.left
    /\ \A j \in (DOMAIN segs \ c.left) \ c.kept :
          Room(segs, c.kept, j) + Bytes(segs[j]) + 1 > budget * CharsPerToken

LEMMA KeptSums ==
    ASSUME NEW segs, Lined(segs), NEW kept \in SUBSET DOMAIN segs
    PROVE  /\ IsFiniteSet(kept) /\ IsFiniteSet(SectionsIn(segs, kept))
           /\ SectionsIn(segs, kept) \in SUBSET DOMAIN NameLength
           /\ SumOver(TextCosts(segs), kept) \in Int
           /\ SumOver(HeaderCosts, SectionsIn(segs, kept)) \in Int
<1> DEFINE sections == SectionsIn(segs, kept)
<1>1. IsFiniteSet(kept) /\ \A i \in kept : TextCosts(segs)[i] \in Int
  BY CostNumbers, FS_Subset
<1>2. sections \in SUBSET DOMAIN NameLength
  BY CostNumbers DEF SectionsIn
<1> HIDE DEF sections
<1>3. IsFiniteSet(sections) /\ \A s \in sections : HeaderCosts[s] \in Int
  BY <1>2, NamesKnown, CostNumbers, FS_Subset
<1>4. SumOver(TextCosts(segs), kept) \in Int /\ SumOver(HeaderCosts, sections) \in Int
  BY <1>1, <1>3, SumNumber
<1> QED
  BY <1>1, <1>2, <1>3, <1>4 DEF sections

LEMMA NoneTriedGreedy ==
    ASSUME NEW segs, Lined(segs), NEW budget \in Nat
    PROVE  Greedy(segs, budget, NoneTried(segs), 0)
<1> DEFINE c == NoneTried(segs)
<1>1. /\ DOMAIN c = {"left", "kept", "bytes", "sections", "compressed"}
      /\ c.left = DOMAIN segs /\ c.kept = {} /\ c.bytes = 0 /\ c.sections = {}
      /\ c.compressed = FALSE
  BY DEF NoneTried
<1>2. SumOver(TextCosts(segs), {}) = 0 /\ SumOver(HeaderCosts, {}) = 0
  BY SumStep, FS_EmptySet
<1>3. Cardinality(DOMAIN segs) = Len(segs)
  BY FS_Interval DEF Lined
<1>4. Len(segs) = Len(segs) - 0 /\ 0 <= budget * CharsPerToken
  BY DEF Lined, CharsPerToken
<1> HIDE DEF c
<1>5. c.sections = SectionsIn(segs, c.kept)
  BY <1>1 DEF SectionsIn
<1>6. /\ c.bytes = SumOver(TextCosts(segs), c.kept) + SumOver(HeaderCosts, c.sections)
      /\ c.bytes <= budget * CharsPerToken
  BY <1>1, <1>2, <1>4
<1>7. DOMAIN segs \ c.left = {}
  BY <1>1
<1>8. Cardinality(c.left) = Len(segs) - 0
  BY <1>1, <1>3, <1>4
<1>9. Greedy(segs, budget, c, 0)
  BY <1>1, <1>5, <1>6, <1>7, <1>8 DEF Greedy
<1> QED
  BY <1>9 DEF c

\* The next segment, which is after all that were tried.
LEMMA TryGreedy ==
    ASSUME NEW segs, Lined(segs), NEW budget \in Nat, NEW n \in Nat, n < Len(segs), NEW c,
           Greedy(segs, budget, c, n)
    PROVE  Greedy(segs, budget, Try(segs, budget, c), n + 1)
<1> DEFINE i == Foremost(segs, c.left)
           d == Try(segs, budget, c)
           cost == Cost(segs[i], c)
<1>1. /\ DOMAIN c = {"left", "kept", "bytes", "sections", "compressed"}
      /\ c.left \in SUBSET DOMAIN segs /\ Cardinality(c.left) = Len(segs) - n
      /\ c.kept \in SUBSET (DOMAIN segs \ c.left)
      /\ \A k \in DOMAIN segs \ c.left : \A j \in c.left : Before(segs, k, j)
      /\ c.sections = SectionsIn(segs, c.kept)
      /\ c.bytes = SumOver(TextCosts(segs), c.kept) + SumOver(HeaderCosts, c.sections)
      /\ c.bytes <= budget * CharsPerToken
      /\ c.compressed \in BOOLEAN
      /\ c.compressed <=> c.kept # DOMAIN segs \ c.left
  BY DEF Greedy
<1>2. \A j \in (DOMAIN segs \ c.left) \ c.kept :
          Room(segs, c.kept, j) + Bytes(segs[j]) + 1 > budget * CharsPerToken
  BY DEF Greedy
<1>3. c.left # {} /\ IsFiniteSet(c.left)
  <2>1. Cardinality(c.left) = Len(segs) - n
    BY <1>1
  <2>2. Len(segs) \in Nat
    BY DEF Lined
  <2>3. Len(segs) - n # 0
    BY <2>2
  <2>4. Cardinality(c.left) # 0
    BY <2>1, <2>3
  <2> QED
    BY <1>1, <2>4, CostNumbers, FS_Subset, FS_EmptySet
<1>4. i \in c.left /\ \A j \in c.left \ {i} : Before(segs, i, j)
  BY <1>1, <1>3, ForemostFacts
<1>5. d = IF c.bytes + cost > budget * CharsPerToken
          THEN [c EXCEPT !.left = @ \ {i}, !.compressed = TRUE]
          ELSE [c EXCEPT !.left = @ \ {i}, !.kept = @ \cup {i}, !.bytes = @ + cost,
                         !.sections = @ \cup {segs[i].section}]
  BY DEF Try
<1>6. cost = Bytes(segs[i]) + 1
             + (IF segs[i].section \in c.sections THEN 0 ELSE HeaderCosts[segs[i].section])
  BY DEF Cost
<1> HIDE DEF i, d, cost
<1>7. i \in DOMAIN segs /\ i \notin c.kept
  BY <1>1, <1>4
<1>8. /\ Bytes(segs[i]) \in Nat /\ TextCosts(segs)[i] = Bytes(segs[i]) + 1
      /\ segs[i].section \in DOMAIN NameLength /\ HeaderCosts[segs[i].section] \in Nat
  BY <1>7, CostNumbers
<1>9. cost \in Int
  BY <1>6, <1>8
<1>10. /\ IsFiniteSet(c.kept) /\ IsFiniteSet(c.sections)
       /\ c.sections \in SUBSET DOMAIN NameLength
       /\ SumOver(TextCosts(segs), c.kept) \in Int /\ SumOver(HeaderCosts, c.sections) \in Int
  BY <1>1, KeptSums
<1>11. /\ c.left \ {i} \in SUBSET DOMAIN segs
       /\ Cardinality(c.left \ {i}) = Len(segs) - (n + 1)
  <2>1. Cardinality(c.left \ {i}) = Cardinality(c.left) - 1
    BY <1>3, <1>4, FS_RemoveElement
  <2>2. (Len(segs) - n) - 1 = Len(segs) - (n + 1)
    BY DEF Lined
  <2> QED
    BY <1>1, <2>1, <2>2
<1>12. DOMAIN segs \ (c.left \ {i}) = (DOMAIN segs \ c.left) \cup {i}
  BY <1>1, <1>4
<1>13. \A k \in DOMAIN segs \ (c.left \ {i}) : \A j \in c.left \ {i} : Before(segs, k, j)
  BY <1>1, <1>4, <1>12
\* All that is kept is before i, and the headers with that of i cost what they should.
<1>14. AheadOf(segs, c.kept, i) = c.kept
  BY <1>1, <1>4 DEF AheadOf
<1>15. SectionsIn(segs, c.kept \cup {i}) = c.sections \cup {segs[i].section}
  BY <1>1 DEF SectionsIn
<1>16. SumOver(HeaderCosts, c.sections \cup {segs[i].section})
          = SumOver(HeaderCosts, c.sections)
            + (IF segs[i].section \in c.sections THEN 0 ELSE HeaderCosts[segs[i].section])
  <2>1. CASE segs[i].section \in c.sections
    <3>1. c.sections \cup {segs[i].section} = c.sections
      BY <2>1
    <3>2. SumOver(HeaderCosts, c.sections) = SumOver(HeaderCosts, c.sections) + 0
      BY <1>10
    <3> QED
      BY <2>1, <3>1, <3>2, Zenon
  <2>2. CASE segs[i].section \notin c.sections
    <3>1. \A s \in c.sections \cup {segs[i].section} : HeaderCosts[s] \in Int
      BY <1>8, <1>10, CostNumbers
    <3> QED
      BY <1>10, <2>2, <3>1, SumWith
  <2> QED
    BY <2>1, <2>2
\* In numbers: the texts, the headers, this text and its header.
<1>17. /\ \A x : x = SumOver(TextCosts(segs), c.kept)
                     + SumOver(HeaderCosts, c.sections \cup {segs[i].section})
              => x + Bytes(segs[i]) + 1 = c.bytes + cost
       /\ c.bytes + cost = (SumOver(TextCosts(segs), c.kept) + TextCosts(segs)[i])
                           + SumOver(HeaderCosts, c.sections \cup {segs[i].section})
  <2>1. PICK t \in Int : t = SumOver(TextCosts(segs), c.kept)
    BY <1>10
  <2>2. PICK h \in Int : h = SumOver(HeaderCosts, c.sections)
    BY <1>10
  <2>3. PICK e \in Int :
           e = IF segs[i].section \in c.sections THEN 0 ELSE HeaderCosts[segs[i].section]
    BY <1>8
  <2>4. PICK b \in Int : b = Bytes(segs[i])
    BY <1>8
  <2>5. c.bytes = t + h
    BY <1>1, <2>1, <2>2
  <2>6. cost = b + 1 + e
    BY <1>6, <2>3, <2>4
  <2>7. SumOver(HeaderCosts, c.sections \cup {segs[i].section}) = h + e
    BY <1>16, <2>2, <2>3
  <2>8. TextCosts(segs)[i] = b + 1
    BY <1>8, <2>4
  <2>9. (t + (h + e)) + b + 1 = (t + h) + (b + 1 + e)
    OBVIOUS
  <2>10. (t + h) + (b + 1 + e) = (t + (b + 1)) + (h + e)
    OBVIOUS
  <2> QED
    BY <2>1, <2>4, <2>5, <2>6, <2>7, <2>8, <2>9, <2>10, Zenon
<1>18. CASE c.bytes + cost > budget * CharsPerToken
  <2>1. /\ DOMAIN d = {"left", "kept", "bytes", "sections", "compressed"}
        /\ d.left = c.left \ {i} /\ d.compressed = TRUE /\ d.kept = c.kept
        /\ d.bytes = c.bytes /\ d.sections = c.sections
    BY <1>1, <1>5, <1>18
  <2>2. Room(segs, c.kept, i)
          = SumOver(TextCosts(segs), c.kept)
            + SumOver(HeaderCosts, c.sections \cup {segs[i].section})
    BY <1>14, <1>15 DEF Room
  <2>3. Room(segs, c.kept, i) + Bytes(segs[i]) + 1 = c.bytes + cost
    BY <1>17, <2>2
  <2>4. ASSUME NEW j \in (DOMAIN segs \ d.left) \ d.kept
        PROVE  Room(segs, d.kept, j) + Bytes(segs[j]) + 1 > budget * CharsPerToken
    <3>1. CASE j = i
      BY <1>18, <2>1, <2>3, <3>1
    <3>2. CASE j # i
      BY <1>2, <1>12, <2>1, <2>4, <3>2
    <3> QED
      BY <3>1, <3>2
  <2>5. d.kept # DOMAIN segs \ d.left
    BY <1>4, <1>7, <1>12, <2>1
  <2>6. d.kept \in SUBSET (DOMAIN segs \ d.left)
    BY <1>1, <1>12, <2>1
  <2>7. Greedy(segs, budget, d, n + 1)
    BY <1>1, <1>11, <1>13, <2>1, <2>4, <2>5, <2>6 DEF Greedy
  <2> QED
    BY <2>7 DEF d
<1>19. CASE ~(c.bytes + cost > budget * CharsPerToken)
  <2>1. /\ DOMAIN d = {"left", "kept", "bytes", "sections", "compressed"}
        /\ d.left = c.left \ {i} /\ d.compressed = c.compressed
        /\ d.kept = c.kept \cup {i}
        /\ d.bytes = c.bytes + cost /\ d.sections = c.sections \cup {segs[i].section}
    BY <1>1, <1>5, <1>19
  <2>2. SumOver(TextCosts(segs), c.kept \cup {i})
          = SumOver(TextCosts(segs), c.kept) + TextCosts(segs)[i]
    <3>1. \A k \in c.kept \cup {i} : TextCosts(segs)[k] \in Int
      BY <1>1, <1>7, CostNumbers
    <3> QED
      BY <1>7, <1>10, <3>1, SumWith
  <2>3. d.bytes = SumOver(TextCosts(segs), d.kept) + SumOver(HeaderCosts, d.sections)
    BY <1>17, <2>1, <2>2
  <2>4. d.bytes <= budget * CharsPerToken
    <3>1. c.bytes \in Int /\ budget * CharsPerToken \in Int
      BY <1>1, <1>10 DEF CharsPerToken
    <3> QED
      BY <1>9, <1>19, <2>1, <3>1
  <2>5. ASSUME NEW j \in (DOMAIN segs \ d.left) \ d.kept
        PROVE  Room(segs, d.kept, j) + Bytes(segs[j]) + 1 > budget * CharsPerToken
    <3>1. j \in (DOMAIN segs \ c.left) \ c.kept
      BY <1>12, <2>1
    <3>2. ~Before(segs, i, j)
      BY <1>1, <1>4, <1>7, <3>1, InOneOrder
    <3>3. AheadOf(segs, d.kept, j) = AheadOf(segs, c.kept, j)
      BY <2>1, <3>2 DEF AheadOf
    <3>4. Room(segs, d.kept, j) = Room(segs, c.kept, j)
      BY <3>3 DEF Room
    <3> QED
      BY <1>2, <3>1, <3>4
  <2>6. d.compressed <=> d.kept # DOMAIN segs \ d.left
    BY <1>1, <1>4, <1>7, <1>12, <2>1
  <2>7. d.kept \in SUBSET (DOMAIN segs \ d.left)
    BY <1>1, <1>12, <2>1
  <2>8. d.sections = SectionsIn(segs, d.kept)
    BY <1>15, <2>1
  <2>9. Greedy(segs, budget, d, n + 1)
    BY <1>1, <1>11, <1>13, <2>1, <2>3, <2>4, <2>5, <2>6, <2>7, <2>8 DEF Greedy
  <2> QED
    BY <2>9 DEF d
<1> QED
  BY <1>18, <1>19

\* The choice, step by step.
ChoosingTo(segs, budget, n, g) ==
    g = [k \in 0..n |-> IF k = 0 THEN NoneTried(segs) ELSE Try(segs, budget, g[k - 1])]

LEMMA ChoosingExists ==
    ASSUME NEW segs, NEW budget, NEW last \in Nat
    PROVE  \E g : ChoosingTo(segs, budget, last, g)
<1> DEFINE bad == {n \in 0..last : ~\E g : ChoosingTo(segs, budget, n, g)}
<1>1. SUFFICES ASSUME bad # {} PROVE FALSE
  OBVIOUS
<1>2. PICK m \in bad : \A n \in bad : m <= n
  <2>1. bad \in SUBSET Nat
    OBVIOUS
  <2> HIDE DEF bad
  <2> QED
    BY <1>1, <2>1, LeastNumber
<1>3. CASE m = 0
  <2>1. PICK g : g = [k \in 0..0 |-> NoneTried(segs)]
    OBVIOUS
  <2>2. g = [k \in 0..0 |-> IF k = 0 THEN NoneTried(segs) ELSE Try(segs, budget, g[k - 1])]
    BY <2>1
  <2> QED
    BY <1>2, <1>3, <2>2 DEF ChoosingTo
<1>4. CASE m # 0
  <2>1. m \in 1..last /\ m - 1 \in 0..last /\ m - 1 \notin bad
    BY <1>2, <1>4
  <2>2. PICK g : ChoosingTo(segs, budget, m - 1, g)
    BY <2>1
  <2>3. PICK h : h = [k \in 0..m |-> IF k < m THEN g[k] ELSE Try(segs, budget, g[m - 1])]
    OBVIOUS
  <2>4. \A k \in 0..(m - 1) : g[k] = IF k = 0 THEN NoneTried(segs) ELSE Try(segs, budget, g[k - 1])
    BY <2>2 DEF ChoosingTo
  <2>5. \A k \in 0..(m - 1) : h[k] = g[k]
    BY <2>1, <2>3
  <2>6. h[m] = Try(segs, budget, g[m - 1])
    BY <2>1, <2>3
  <2>7. ASSUME NEW k \in 0..m
        PROVE  h[k] = IF k = 0 THEN NoneTried(segs) ELSE Try(segs, budget, h[k - 1])
    <3>1. CASE k = m
      <4>1. h[k - 1] = g[m - 1]
        BY <2>1, <2>5, <3>1
      <4> QED
        BY <1>4, <2>6, <3>1, <4>1
    <3>2. CASE k # m
      <4>1. k \in 0..(m - 1) /\ (k # 0 => k - 1 \in 0..(m - 1))
        BY <2>1, <3>2
      <4> QED
        BY <2>4, <2>5, <4>1
    <3> QED
      BY <3>1, <3>2
  <2>8. h = [k \in 0..m |-> h[k]]
    BY <2>3
  <2>9. ChoosingTo(segs, budget, m, h)
    BY <2>7, <2>8 DEF ChoosingTo
  <2> QED
    BY <1>2, <2>9
<1> QED
  BY <1>3, <1>4

LEMMA ChosenFacts ==
    ASSUME NEW segs, Lined(segs), NEW budget \in Nat
    PROVE  Greedy(segs, budget, Choose(segs, budget), Len(segs))
<1>1. Len(segs) \in Nat
  BY DEF Lined
<1> DEFINE g == CHOOSE g : ChoosingTo(segs, budget, Len(segs), g)
<1>2. Choose(segs, budget) = g[Len(segs)]
  BY DEF Choose, ChoosingTo
<1>3. ChoosingTo(segs, budget, Len(segs), g)
  BY <1>1, ChoosingExists
<1> HIDE DEF g
<1>4. \A k \in 0..Len(segs) :
         g[k] = IF k = 0 THEN NoneTried(segs) ELSE Try(segs, budget, g[k - 1])
  BY <1>3 DEF ChoosingTo
<1> DEFINE bad == {n \in 0..Len(segs) : ~Greedy(segs, budget, g[n], n)}
<1>5. ASSUME bad # {} PROVE FALSE
  <2>1. PICK m \in bad : \A n \in bad : m <= n
    <3>1. bad \in SUBSET Nat
      BY <1>1
    <3> HIDE DEF bad
    <3> QED
      BY <1>5, <3>1, LeastNumber
  <2>2. m \in 0..Len(segs) /\ ~Greedy(segs, budget, g[m], m)
    BY <2>1
  <2>3. CASE m = 0
    BY <1>4, <2>2, <2>3, NoneTriedGreedy
  <2>4. CASE m # 0
    <3>1. m - 1 \in Nat /\ m - 1 \in 0..Len(segs) /\ m - 1 < Len(segs) /\ (m - 1) + 1 = m
      BY <1>1, <2>2, <2>4
    <3>2. Greedy(segs, budget, g[m - 1], m - 1)
      BY <2>1, <3>1
    <3>3. Greedy(segs, budget, Try(segs, budget, g[m - 1]), m)
      BY <3>1, <3>2, TryGreedy
    <3> QED
      BY <1>4, <2>2, <2>4, <3>3
  <2> QED
    BY <2>3, <2>4
<1>6. Len(segs) \in 0..Len(segs)
  BY <1>1
<1> QED
  BY <1>2, <1>5, <1>6

\* Marking adds to the length of a segment and to nothing the order rests on.
LEMMA MarkedLined ==
    ASSUME NEW segs, Listed(segs)
    PROVE  Lined(Marked(segs))
<1>1. DOMAIN segs = 1..Len(segs) /\ Len(segs) \in Nat
  BY ListedSeq
<1> DEFINE M == Marked(segs)
<1>2. DOMAIN M = 1..Len(segs) /\ \A i \in DOMAIN M : Costed(M[i])
  <2>1. DOMAIN M = DOMAIN segs
    BY DEF Marked
  <2>2. \A i \in DOMAIN segs : Costed(M[i])
    BY MarkedFacts DEF IsSegment
  <2> QED
    BY <1>1, <2>1, <2>2
<1>3. M = [i \in 1..Len(segs) |-> M[i]]
  BY <1>1 DEF Marked
<1> HIDE DEF M
<1>4. M \in [1..Len(segs) -> {M[i] : i \in 1..Len(segs)}]
  BY <1>3
<1>5. M \in Seq({M[i] : i \in 1..Len(segs)})
  BY <1>1, <1>4
<1>6. Len(M) = Len(segs)
  BY <1>1, <1>2, <1>5
<1>7. Lined(M)
  BY <1>1, <1>2, <1>6 DEF Lined
<1> QED
  BY <1>7 DEF M

\* The text of what was chosen is no longer than what the choice took for it.
LEMMA TextFits ==
    ASSUME NEW segs, Lined(segs), NEW kept \in SUBSET DOMAIN segs, NEW limit \in Nat,
           SumOver(TextCosts(segs), kept) + SumOver(HeaderCosts, SectionsIn(segs, kept))
              <= limit * CharsPerToken
    PROVE  TextLength(Restrict(segs, kept), "bytes") \div CharsPerToken <= limit
<1> DEFINE text == Restrict(segs, kept)
           lengths == [i \in DOMAIN text |->
                          (IF "bytes" = "bytes" THEN Bytes(text[i]) ELSE Chars(text[i])) + 1]
           headers == [s \in DOMAIN NameLength |-> NameLength[s] + 5]
<1>1. DOMAIN text = kept /\ \A i \in kept : text[i] = segs[i]
  BY DEF Restrict
<1>2. SectionsOf(text) = SectionsIn(segs, kept)
  BY <1>1 DEF SectionsOf, SectionsIn
<1>3. TextLength(text, "bytes")
        = IF text = <<>> THEN 0
          ELSE SumOver(lengths, DOMAIN text) + SumOver(headers, SectionsOf(text)) - 1
  BY DEF TextLength
<1>4. \A i \in kept : lengths[i] = Bytes(segs[i]) + 1
  BY <1>1
<1>5. \A s \in DOMAIN NameLength : headers[s] = NameLength[s] + 5
  OBVIOUS
<1> HIDE DEF text, lengths, headers
<1>6. /\ IsFiniteSet(kept) /\ IsFiniteSet(SectionsIn(segs, kept))
      /\ SectionsIn(segs, kept) \in SUBSET DOMAIN NameLength
      /\ SumOver(TextCosts(segs), kept) \in Int
      /\ SumOver(HeaderCosts, SectionsIn(segs, kept)) \in Int
  BY KeptSums
<1>7. SumOver(lengths, kept) \in Int /\ SumOver(lengths, kept) <= SumOver(TextCosts(segs), kept)
  <2>1. \A i \in kept : /\ lengths[i] \in Int /\ TextCosts(segs)[i] \in Int
                        /\ lengths[i] <= TextCosts(segs)[i]
    BY <1>4, CostNumbers
  <2> QED
    BY <1>6, <2>1, SumLesser, SumNumber
<1>8. /\ SumOver(headers, SectionsIn(segs, kept)) \in Int
      /\ SumOver(headers, SectionsIn(segs, kept)) <= SumOver(HeaderCosts, SectionsIn(segs, kept))
  <2>1. \A s \in DOMAIN NameLength : NameLength[s] \in Nat /\ HeaderCosts[s] = NameLength[s] + 6
    BY NamesKnown, CostNumbers
  <2>2. \A s \in SectionsIn(segs, kept) : /\ headers[s] \in Int /\ HeaderCosts[s] \in Int
                                          /\ headers[s] <= HeaderCosts[s]
    BY <1>5, <1>6, <2>1
  <2> QED
    BY <1>6, <2>2, SumLesser, SumNumber
<1>9. PICK t \in Int, h \in Int, a \in Int, b \in Int :
         /\ t = SumOver(lengths, kept) /\ h = SumOver(headers, SectionsIn(segs, kept))
         /\ a = SumOver(TextCosts(segs), kept)
         /\ b = SumOver(HeaderCosts, SectionsIn(segs, kept))
  BY <1>6, <1>7, <1>8
<1>10. t <= a /\ h <= b /\ a + b <= limit * 4
  BY <1>7, <1>8, <1>9 DEF CharsPerToken
<1>11. TextLength(text, "bytes") = IF text = <<>> THEN 0 ELSE t + h - 1
  BY <1>1, <1>2, <1>3, <1>9
<1>12. PICK x \in Int : x = TextLength(text, "bytes") /\ (x = 0 \/ x = t + h - 1)
  BY <1>11
<1>13. x \div 4 <= limit
  BY <1>10, <1>12
<1> QED
  BY <1>12, <1>13 DEF text, CharsPerToken

\* What the context that is assembled keeps to.
LEMMA AssembledWithin ==
    ASSUME NEW segs, Listed(segs), NEW budget \in Nat
    PROVE  LET M == Marked(segs)
               c == Assembled(segs, budget)
           IN  /\ c.token_count <= budget
               /\ c.compressed <=> DOMAIN c.text # DOMAIN M
               /\ \A j \in DOMAIN M \ DOMAIN c.text :
                     Room(M, DOMAIN c.text, j) + Bytes(M[j]) + 1 > CharsPerToken * budget
<1> DEFINE M == Marked(segs)
           c == Assembled(segs, budget)
           d == Choose(M, budget)
<1>1. Lined(M)
  BY MarkedLined
<1>2. Greedy(M, budget, d, Len(M))
  BY <1>1, ChosenFacts
<1>3. /\ c.text = Restrict(M, {i \in DOMAIN M : i \in d.kept}) /\ c.compressed = d.compressed
      /\ c.token_count = TextLength(c.text, "bytes") \div CharsPerToken
  BY DEF Assembled, RestrictDomain
<1> HIDE DEF M, c, d
<1>4. d.left = {}
  <2>1. Cardinality(d.left) = Len(M) - Len(M) /\ d.left \in SUBSET DOMAIN M
    BY <1>2 DEF Greedy
  <2>2. Cardinality(d.left) = 0
    BY <1>1, <2>1 DEF Lined
  <2> QED
    BY <1>1, <2>1, <2>2, CostNumbers, FS_Subset, FS_EmptySet
<1>5. d.kept \in SUBSET DOMAIN M /\ DOMAIN M \ d.left = DOMAIN M
  BY <1>2, <1>4 DEF Greedy
<1>6. c.text = Restrict(M, d.kept)
  <2>1. {i \in DOMAIN M : i \in d.kept} = d.kept
    BY <1>5
  <2> QED
    BY <1>3, <2>1
<1>7. DOMAIN c.text = d.kept
  BY <1>6 DEF Restrict
<1>8. c.token_count <= budget
  <2>1. /\ d.bytes = SumOver(TextCosts(M), d.kept) + SumOver(HeaderCosts, d.sections)
        /\ d.bytes <= budget * CharsPerToken /\ d.sections = SectionsIn(M, d.kept)
    BY <1>2 DEF Greedy
  <2>2. TextLength(Restrict(M, d.kept), "bytes") \div CharsPerToken <= budget
    BY <1>1, <1>5, <2>1, TextFits
  <2> QED
    BY <1>3, <1>6, <2>2
<1>9. c.compressed <=> d.kept # DOMAIN M
  BY <1>2, <1>3, <1>5 DEF Greedy
<1>10. \A j \in DOMAIN M \ d.kept :
          Room(M, d.kept, j) + Bytes(M[j]) + 1 > CharsPerToken * budget
  <2>1. \A j \in DOMAIN M \ d.kept :
           Room(M, d.kept, j) + Bytes(M[j]) + 1 > budget * CharsPerToken
    BY <1>2, <1>5 DEF Greedy
  <2>2. budget * CharsPerToken = CharsPerToken * budget
    BY DEF CharsPerToken
  <2> QED
    BY <2>1, <2>2
<1> QED
  BY <1>7, <1>8, <1>9, <1>10 DEF M, c

-----------------------------------------------------------------------------
(* Routing. *)

LEMMA IntentFacts ==
    /\ DOMAIN Intents = 1..6 /\ Intent = {Intents[i] : i \in 1..6}
    /\ {"chat", "cross_agent_task", "decision_support", "deep_research", "business_query",
        "personal_task"} \subseteq Intent
    /\ \A x \in Intent : Rank(x) \in 1..6
<1>1. DOMAIN Intents = 1..6 /\ Intent = {Intents[i] : i \in 1..6}
  BY DEF Intents, Intent
<1>2. /\ Intents[1] = "chat" /\ Intents[2] = "personal_task" /\ Intents[3] = "business_query"
      /\ Intents[4] = "cross_agent_task" /\ Intents[5] = "decision_support"
      /\ Intents[6] = "deep_research"
  BY DEF Intents
<1>3. 1 \in 1..6 /\ 2 \in 1..6 /\ 3 \in 1..6 /\ 4 \in 1..6 /\ 5 \in 1..6 /\ 6 \in 1..6
  OBVIOUS
<1>4. \A x \in Intent : Rank(x) \in 1..6
  BY <1>1 DEF Rank
<1> QED
  BY <1>1, <1>2, <1>3, <1>4

\* The words of a query have an intent.
LEMMA WordsMeanSomething ==
    ASSUME NEW query \in Queries
    PROVE  detect_intent(query) \in Intent
<1>1. DOMAIN Keywords = 1..4
  BY DEF Keywords
<1>2. CASE query = {}
  BY <1>2, IntentFacts DEF detect_intent
<1>3. CASE query # {}
  <2> DEFINE T == {i \in 1..4 : Keywords[i] \in query}
  <2>1. T # {} /\ T \in SUBSET Nat
    BY <1>1, <1>3 DEF Queries
  <2>2. PICK m \in T : \A k \in T : m <= k
    <3> HIDE DEF T
    <3> QED
      BY <2>1, LeastNumber
  <2>3. m \in 1..4 /\ Keywords[m] \in query /\ \A j \in 1..(m - 1) : Keywords[j] \notin query
    <3>1. m \in 1..4 /\ Keywords[m] \in query
      BY <2>2
    <3>2. ASSUME NEW j \in 1..(m - 1), Keywords[j] \in query PROVE FALSE
      <4>1. j \in 1..4 /\ ~(m <= j)
        BY <3>1
      <4> QED
        BY <2>2, <3>2, <4>1
    <3> QED
      BY <3>1, <3>2
  <2> DEFINE first == CHOOSE i \in DOMAIN Keywords :
                         /\ Keywords[i] \in query
                         /\ \A j \in 1..(i - 1) : Keywords[j] \notin query
  <2>4. first \in 1..4
    BY <1>1, <2>3
  <2>5. detect_intent(query) = Meaning[Keywords[first]]
    BY <1>3 DEF detect_intent
  <2> HIDE DEF first
  <2>6. Keywords[first] \in {"decision", "research", "business", "personal"}
    BY <2>4 DEF Keywords
  <2>7. Meaning[Keywords[first]] \in {"decision_support", "deep_research", "business_query",
                                      "personal_task"}
    BY <2>6 DEF Meaning
  <2> QED
    BY <2>5, <2>7, IntentFacts
<1> QED
  BY <1>2, <1>3

LEMMA PlannedTokens ==
    ASSUME NEW r \in Requests
    PROVE  route(r).tokens \in Nat
<1>1. /\ r.query \in Queries /\ r.intent \in Intent \cup {NoCap}
      /\ r.max_tokens \in Nat \cup {NoCap}
  BY ContextAssumption
<1> DEFINE intent == IF r.intent # NoCap THEN r.intent
                     ELSE IF r.task # NoCap THEN "cross_agent_task" ELSE detect_intent(r.query)
<1>2. intent \in Intent
  BY <1>1, WordsMeanSomething, IntentFacts
<1>3. route(r).tokens = Capped(tokens_for(intent), r.max_tokens)
  BY DEF route
<1> HIDE DEF intent
<1>4. PICK k \in 1..6 : k = Rank(intent)
  BY <1>2, IntentFacts
<1>5. tokens_for(intent) \in Nat
  <2>1. /\ BaseTokens \div 2 \in Nat /\ BaseTokens \in Nat /\ (BaseTokens * 3) \div 2 \in Nat
        /\ BaseTokens * 2 \in Nat
    BY RouterAssumption
  <2>2. PICK t : t = <<BaseTokens \div 2, BaseTokens, BaseTokens, (BaseTokens * 3) \div 2,
                       BaseTokens * 2, BaseTokens * 2>>
    OBVIOUS
  <2>3. /\ t[1] = BaseTokens \div 2 /\ t[2] = BaseTokens /\ t[3] = BaseTokens
        /\ t[4] = (BaseTokens * 3) \div 2 /\ t[5] = BaseTokens * 2 /\ t[6] = BaseTokens * 2
    BY <2>2
  <2>4. k \in {1, 2, 3, 4, 5, 6}
    BY <1>4
  <2>5. t[k] \in Nat
    BY <2>1, <2>3, <2>4
  <2> QED
    BY <1>4, <2>2, <2>5 DEF tokens_for
<1> QED
  BY <1>1, <1>3, <1>5 DEF Capped

\* A plan allows a number of tokens until the context is assembled.
Planned == pc = "fetching" => plan.tokens \in Nat

LEMMA BudgetStep ==
    ContextInv /\ Planned /\ BudgetKept /\ (ContextNext \/ UNCHANGED context_vars)
        => Planned' /\ BudgetKept'
<1> SUFFICES ASSUME ContextInv, Planned, BudgetKept, ContextNext \/ UNCHANGED context_vars
             PROVE  Planned' /\ BudgetKept'
  OBVIOUS
<1>1. CASE UNCHANGED context_vars
  <2>1. UNCHANGED <<pc, plan, req, got, ctx>>
    BY <1>1 DEF context_vars
  <2>2. Collected' = Collected
    BY <2>1 DEF Collected
  <2> QED
    BY <2>1, <2>2 DEF Planned, BudgetKept
<1>2. ASSUME pc' \notin {"fetching", "assembled"} PROVE Planned' /\ BudgetKept'
  BY <1>2 DEF Planned, BudgetKept
<1>3. ASSUME pc = "fetching", pc' = "fetching", plan' = plan PROVE Planned' /\ BudgetKept'
  BY <1>3 DEF Planned, BudgetKept
<1>4. ASSUME NEW s \in Sources, NEW o, Outcome(s, o) PROVE Planned' /\ BudgetKept'
  BY <1>3, <1>4 DEF Outcome
<1>5. CASE \E i \in Items : ChangeStore(i)
  BY <1>3, <1>5 DEF ChangeStore
<1>6. ASSUME NEW r \in Requests, NEW a \in {NoCap, Agent}, Ask(r, a) PROVE Planned' /\ BudgetKept'
  <2>1. pc' = "fetching" /\ plan' = route(r)
    BY <1>6 DEF Ask
  <2> QED
    BY <2>1, PlannedTokens DEF Planned, BudgetKept
<1>7. CASE \/ fetch_hot \/ fetch_canonical \/ fetch_shared_task
           \/ fetch_agent_private \/ fetch_enterprise \/ fetch_business_state
           \/ \E s \in Sources : FetchFails(s)
  <2>1. {"hot", "canonical", "task", "agent", "enterprise", "business"} \subseteq Sources
    BY DEF Sources
  <2> QED
    BY <1>4, <1>7, <2>1
       DEF fetch_hot, fetch_canonical, fetch_shared_task, fetch_agent_private, fetch_enterprise,
           fetch_business_state, FetchFails, Searched
<1>8. CASE Assemble
  <2>1. /\ pc = "fetching" /\ pc' = "assembled" /\ UNCHANGED <<req, plan, got>>
        /\ ctx' = Assembled(Collected, resolve_budget(plan.tokens))
    BY <1>8 DEF Assemble
  <2>2. PICK segs : segs = Collected /\ segs = Collected'
    BY <2>1 DEF Collected
  <2>3. PICK budget : budget = resolve_budget(plan.tokens) /\ budget = resolve_budget(plan'.tokens)
    BY <2>1
  <2>4. budget \in Nat
    BY <2>1, <2>3, RouterAssumption DEF Planned, resolve_budget
  <2>5. Listed(segs)
    BY <2>2, CollectedListed
  <2>6. ctx' = Assembled(segs, budget)
    BY <2>1, <2>2, <2>3
  <2>7. /\ ctx'.token_count <= budget
        /\ ctx'.compressed <=> DOMAIN ctx'.text # DOMAIN Marked(segs)
        /\ \A j \in DOMAIN Marked(segs) \ DOMAIN ctx'.text :
              Room(Marked(segs), DOMAIN ctx'.text, j) + Bytes(Marked(segs)[j]) + 1
                 > CharsPerToken * budget
    BY <2>4, <2>5, <2>6, AssembledWithin
  <2>8. BudgetKept'
    BY <2>2, <2>3, <2>7 DEF BudgetKept, Room, AheadOf, SectionsIn
  <2> QED
    BY <2>1, <2>8 DEF Planned
<1>9. CASE \/ \E b \in PackageBudgets, cites \in BOOLEAN : Package(b, cites)
           \/ \E strict \in BOOLEAN : Vet(strict)
           \/ \E t \in {Tenant, OtherTenant} : Share(t)
           \/ \E p \in Searches : SearchMemories(p)
           \/ \E f \in PreFilters : SearchVectors(f)
  <2>1. pc' \in {"refused", "packaged", "vetted", "shared", "failed", "answered"}
    BY <1>9 DEF Package, Vet, Share, SearchMemories, SearchVectors
  <2> QED
    BY <1>2, <2>1
<1> QED
  BY <1>1, <1>5, <1>6, <1>7, <1>8, <1>9 DEF ContextNext

-----------------------------------------------------------------------------
(* The theorems. *)

LEMMA RecordInit == Init => RecordInv
<1> SUFFICES ASSUME Init PROVE RecordInv
  OBVIOUS
<1>1. Filled
  BY BlankAssumption DEF Init, TrailInit, Filled, Found, StagesInOrder, Stages
<1>2. Weighed
  <2>1. check = NoCheck /\ now = 0 /\ audit = {} /\ versions = {}
    BY DEF Init, TrailInit
  <2>2. NoCheck \in Checks
    BY DEF NoCheck, Checks, Overall
  <2>3. NoCheck.state = "idle"
    BY DEF NoCheck
  <2> QED
    BY <2>1, <2>2, <2>3 DEF Weighed
<1>3. Kept
  BY DEF Init, IntakeInit, Kept, Stored, Passed, IntakeSound, Written
<1> QED
  BY <1>1, <1>2, <1>3 DEF RecordInv

LEMMA RecordStepInv == RecordInv /\ [Next]_<<part, knowledge_vars, context_vars>> => RecordInv'
  BY OnePart, FilledStep, WeighedStep, KeptStep DEF RecordInv

LEMMA RecordInvariance == Spec => []RecordInv
  BY RecordInit, RecordStepInv, PTL DEF Spec

\* However callers and submitters interleave between a check and a write, and whatever
\* fails: no stage of a decision is skipped, no memory is called safe that was not
\* verified, and what a submission left behind is what was decided about it
\* (DecisionManager, SourceOfTruthVerifier, WritePipeline).
THEOREM RecordsAreKept == Spec => []RecordsKept
<1>1. RecordInv => RecordsKept
  BY DEF RecordInv, RecordsKept, Filled, Weighed, Kept, SafeWasVerified, Safe
<1> QED
  BY <1>1, RecordInvariance, PTL

LEMMA ContextInitInv == Init => ContextInv /\ SearchSound
<1> SUFFICES ASSUME Init PROVE ContextInv /\ SearchSound
  OBVIOUS
<1>1. pc = "idle" /\ store \in Stores /\ got = [s \in Sources |-> Pending]
  BY DEF Init, ContextInit
<1>2. Gathered
  BY <1>1, OutcomesListed DEF Gathered
<1> QED
  BY <1>1, <1>2, ContextAssumption DEF ContextInv, Offered, SearchSound

LEMMA ContextStepInv ==
    ContextInv /\ SearchSound /\ [Next]_<<part, knowledge_vars, context_vars>>
        => ContextInv' /\ SearchSound'
  BY OnePart, ContextStep, SearchStep DEF ContextInv

LEMMA ContextInvariance == Spec => []ContextInv /\ []SearchSound
  BY ContextInitInv, ContextStepInv, PTL DEF Spec

\* Whatever the sources answered, in whatever order, and however the store changed
\* meanwhile: what another agent is handed is of its own tenant, free of what the guard
\* blocks, marked where an unverified text begins and flagged where two sources disagree;
\* and only a package that was shrunk has a text in it without its beginning
\* (assemble_within_budget, shrink_text, PoisonGuard, the sharing policy).
THEOREM SharedIsVetted == Spec => []SharedVetted
<1>1. ContextInv => SharedVetted
  BY DEF ContextInv, Offered, Presentable, Begun, NoneHigh, Disagree, SharedVetted
<1> QED
  BY <1>1, ContextInvariance, PTL

\* For any store and any page: a search shows only live rows of the tenant and of the
\* scopes allowed, none restricted and none before one that beats it. Whatever rows the
\* index finds, a vector search repeats none, has the nearer first and is never nearer at a
\* place than the ranking in memory of all the rows that pass the filter (hybrid_search,
\* permission_filter, rerank, build, rank_by_similarity).
THEOREM SearchesAreSound == Spec => []SearchSound
  BY ContextInvariance, PTL

LEMMA BudgetInvariance == Spec => []BudgetKept
<1>1. Init => Planned /\ BudgetKept
  BY DEF Init, ContextInit, Planned, BudgetKept
<1>2. ContextInv /\ Planned /\ BudgetKept /\ [Next]_<<part, knowledge_vars, context_vars>>
        => Planned' /\ BudgetKept'
  BY OnePart, BudgetStep
<1> QED
  BY <1>1, <1>2, ContextInvariance, PTL DEF Spec

\* For any budget and any answers of the sources: the text takes no more tokens than the
\* plan allows; what is left out would not have fitted beside the more important segments
\* that are in; and compressed is said if and only if something was left out
\* (assemble_within_budget).
THEOREM BudgetsAreKept == Spec => []BudgetKept
  BY BudgetInvariance, PTL

LEMMA SettledInvariance == Spec => []Settled
<1>1. Init => Settled
  BY DEF Init, FactInit, Settled
<1>2. Settled /\ [Next]_<<part, knowledge_vars, context_vars>> => Settled'
  BY OnePart, SettledStep
<1> QED
  BY <1>1, <1>2, PTL DEF Spec

\* However many sources report and in whatever order: the value of a fact is one of the
\* highest authority, a user's confirmation decides among those, a disagreement is said
\* with all its values, and the order of the reports matters between full ties only
\* (ConflictResolver::resolve).
THEOREM FactsAreWon == Spec => []FactsWin
  BY SettledInvariance, SettledSound, PTL

\* However many profiles are merged: no source overrides one of higher authority, nothing
\* anybody gave is lost, and a disagreement about the role is said (merge_profiles).
THEOREM MergesKeepAuthority == Spec => []MergeKeepsAuthority
  BY SettledInvariance, SettledSound, PTL

LEMMA GraphInvariance == Spec => []GraphInv
<1>1. Init => GraphInv
  <2> SUFFICES ASSUME Init PROVE GraphInv
    OBVIOUS
  <2>1. entities = <<>> /\ relations = {} /\ walk = Idle /\ reply = NoReply
    BY DEF Init, GraphInit
  <2>2. entities \in Seq(Entity) /\ Len(entities) = 0
    BY <2>1
  <2>3. Len(EntityRequests) \in Nat
    BY RequestsAssumption
  <2> QED
    BY <2>1, <2>2, <2>3 DEF GraphInv, GraphRows, HeadFits, LoadFits, ReplyFits, Idle, NoReply
<1>2. GraphInv /\ [Next]_<<part, knowledge_vars, context_vars>> => GraphInv'
  BY OnePart, GraphStep
<1> QED
  BY <1>1, <1>2, PTL DEF Spec

\* However large the graph, and however entities and relations are added between the
\* queries of a walk: what was within reach at the beginning is reported, no farther than
\* it was; what is reported is within reach; a path is made of relations and is no longer
\* than a shortest one was; no path means there was none (traverse, shortest_path).
THEOREM PathsAreReal == Spec => []PathsReal
  BY GraphInvariance, GraphSound, PTL

LEMMA LearnedInvariance == Spec => []ReflectionInv /\ []TwinInv
<1>1. Init => ReflectionInv /\ TwinInv
  <2> SUFFICES ASSUME Init PROVE ReflectionInv /\ TwinInv
    OBVIOUS
  <2>1. ReflectionInv
    <3>1. /\ day = 0 /\ next_run = Interval /\ episodes = <<>> /\ experiences = {}
          /\ patterns = {}
      BY DEF Init, ReflectionInit
    <3> QED
      BY <3>1, EpisodesAssumption DEF ReflectionInv
  <2>2. TwinInv
    <3>1. injected = {} /\ history = <<>> /\ result = All /\ captured = {} /\ outcome = NoOutcome
      BY DEF Init, TwinInit
    <3> QED
      BY <3>1 DEF TwinInv, Counted, NoOutcome
  <2> QED
    BY <2>1, <2>2
<1>2. ReflectionInv /\ [Next]_<<part, knowledge_vars, context_vars>> => ReflectionInv'
  BY OnePart, ReflectionStep
<1>3. TwinInv /\ [Next]_<<part, knowledge_vars, context_vars>> => TwinInv'
  BY OnePart, TwinStep
<1> QED
  BY <1>1, <1>2, <1>3, PTL DEF Spec

\* However many episodes are observed, whenever the jobs run: a reusable experience rests
\* on three successes or more about the same entities, no two of them near duplicates,
\* and no episode is lost in a run (cluster_episodes, deduplicate, evaluate).
THEOREM LessonsAreGrounded == Spec => []LessonsGrounded
  BY LearnedInvariance, LessonsSound, PTL

\* However many simulations are run, captured, validated and recorded, in whatever order:
\* a captured memory comes from a full run with a confidence among those of its memories,
\* and every score is a share (run_simulation, capture_simulation_result).
THEOREM TwinsAreSound == Spec => []TwinSound
  BY LearnedInvariance, TwinIsSound, PTL

\* What is concluded rests on what was told, for any number of sources, profiles,
\* episodes and simulations (ConflictResolver, ReflectionJob, DigitalTwinBridge).
THEOREM ConclusionsAreGrounded == Spec => []ConclusionsGrounded
<1>1. FactsWin /\ MergeKeepsAuthority /\ LessonsGrounded /\ TwinSound => ConclusionsGrounded
  BY DEF ConclusionsGrounded
<1> QED
  BY <1>1, FactsAreWon, MergesKeepAuthority, LessonsAreGrounded, TwinsAreSound, PTL
================================================================================
