---------------------------- MODULE FactResolution ----------------------------
(***************************************************************************)
(* Several sources speak about the same thing: conflict_resolver.rs picks  *)
(* the value of a fact, canonical_user.rs merges the profiles of a user.   *)
(* Both are pure; the sources report in any order. authority is the rank   *)
(* of the level: 3 is L0, 0 is L3.                                         *)
(***************************************************************************)
EXTENDS Naturals, Sequences, FiniteSets, FiniteSetsExt, SequencesExt

CONSTANTS
    Facts,      \* the FactValues that may be reported
    Profiles,   \* the CanonicalUserProfiles that may be reported
    MaxReports, \* bound on the reports of one field or user
    Missing     \* None, or JSON null

\* FactValue; time orders the timestamps.
FactValue == [value : STRING, authority : 0..3, source : STRING,
              scope : {"enterprise", "factory", "process", "team", "task", "agent", "personal"},
              time : Nat, verified : BOOLEAN, user_confirmed : BOOLEAN]

\* CanonicalUserProfile: the role stands for the optional strings, preferences for
\* the objects, consent for the other JSON field, links for the arrays.
Profile == [authority : 0..3, role : STRING \cup {Missing},
            preferences : [kind : {"null", "object", "plain"}, map : {p.preferences.map : p \in Profiles}],
            consent : STRING, links : SUBSET STRING, version : Nat]

ASSUME FactsAssumption == Facts \subseteq FactValue /\ Profiles \subseteq Profile

VARIABLES
    reports,    \* FactValues in the order they came
    profiles,   \* profiles in the order they came
    verdict     \* ResolvedFact or MergedUserProfile; Missing before

fact_vars == <<reports, profiles, verdict>>

FactInit == reports = <<>> /\ profiles = <<>> /\ verdict = Missing

-----------------------------------------------------------------------------
(* Conflict resolution *)

scope_rank_business(scope) ==
    CASE scope = "enterprise" -> 6 [] scope = "factory" -> 5 [] scope = "process" -> 4
      [] scope = "team" -> 3 [] scope = "task" -> 2 [] scope = "agent" -> 1
      [] scope = "personal" -> 0

source_rank(source) ==
    CASE source = "user_explicit" -> 5 [] source = "agent_explicit" -> 4
      [] source = "domain_explicit" -> 3 [] source = "global_explicit" -> 2
      [] source = "repeated_inference" -> 1 [] OTHER -> 0

Bit(b) == IF b THEN 1 ELSE 0

\* The keys of the sort, most important first.
Key(f) == <<f.authority, Bit(f.user_confirmed), Bit(f.verified),
            scope_rank_business(f.scope), f.time, source_rank(f.source)>>

\* Mutant: recency is compared before the authority.
KeyByTime(f) == <<f.time, f.authority, Bit(f.user_confirmed), Bit(f.verified),
                  scope_rank_business(f.scope), source_rank(f.source)>>

Above(a, b) ==
    \E j \in DOMAIN a : a[j] > b[j] /\ \A k \in 1..(j - 1) : a[k] = b[k]

\* The first of a stable sort: nothing is above it, and of equals it came first.
Winner(values, K(_)) ==
    values[CHOOSE j \in DOMAIN values :
             /\ \A k \in DOMAIN values : ~Above(K(values[k]), K(values[j]))
             /\ \A k \in 1..(j - 1) : Above(K(values[j]), K(values[k]))]

FirstByKey(values) == Winner(values, KeyByTime)
SortedFirst(values) == Winner(values, Key)

Differ(values, field) == \E j \in DOMAIN values : values[j][field] # values[1][field]

\* The severity and the flags: of a mismatch of levels, medium; of equals, high at
\* the two upper levels.
ConflictSeverity(values, winner) ==
    IF Differ(values, "authority") THEN "medium"
    ELSE IF winner.authority >= 2 THEN "high" ELSE "low"

Flags(values, winner) ==
    LET levels == Differ(values, "authority")
        scopes == Differ(values, "scope")
    IN  (IF levels THEN {"authority_mismatch"} ELSE {})
        \cup (IF scopes THEN {"scope_mismatch"} ELSE {})
        \cup (IF ~levels /\ ~scopes /\ Differ(values, "time")
              THEN {"recency_tiebreaker"} ELSE {})
        \cup (IF ConflictSeverity(values, winner) = "high" THEN {"needs_review"} ELSE {})

Resolved(winner, conflict, flags, severity, all) ==
    [winner |-> winner, conflict |-> conflict, flags |-> flags, severity |-> severity,
     all |-> all]

\* resolve. When all agree the first report stands, whatever its authority.
resolve(values) ==
    LET winner == SortedFirst(values)
    IN  IF values = <<>> THEN Resolved(Missing, FALSE, {}, "none", values)
        ELSE IF ~Differ(values, "value")
             THEN Resolved(values[1], FALSE, {}, "none", values)
        ELSE Resolved(winner, TRUE, Flags(values, winner), ConflictSeverity(values, winner), values)

-----------------------------------------------------------------------------
(* Profiles *)

\* Highest authority first; the sort is stable, so the place of a profile is the number
\* of those that precede it.
Precedes(ps, i, j) ==
    \/ ps[i].authority > ps[j].authority
    \/ ps[i].authority = ps[j].authority /\ i < j

Place(ps, j) == Cardinality({i \in DOMAIN ps : Precedes(ps, i, j)}) + 1

ByAuthority(ps) == [n \in DOMAIN ps |-> ps[CHOOSE j \in DOMAIN ps : Place(ps, j) = n]]

\* resolve_opt_string: the first that has a value; a conflict when two differ.
resolve_opt_string(sorted) ==
    LET given == {j \in DOMAIN sorted : sorted[j].role # Missing}
    IN  [value |-> IF given = {} THEN Missing ELSE sorted[Min(given)].role,
         conflict |-> \E i, j \in given : sorted[i].role # sorted[j].role]

\* resolve_json: the value of the first, null included.
resolve_json(sorted) ==
    [value |-> sorted[1].consent,
     conflict |-> \E j \in DOMAIN sorted : sorted[j].consent # sorted[1].consent]

\* merge_json_object over keys: from the lowest authority up, so that the highest
\* is written last. A value that is neither object nor null is returned at once:
\* those above it are not looked at and no conflict is recorded.
merge_json_object(sorted) ==
    LET plain == {j \in DOMAIN sorted : sorted[j].preferences.kind = "plain"}
        objects == {j \in DOMAIN sorted : sorted[j].preferences.kind = "object"}
        keys == UNION {DOMAIN sorted[j].preferences.map : j \in objects}
        owner(k) == sorted[Min({j \in objects : k \in DOMAIN sorted[j].preferences.map})]
    IN  IF plain # {}
        THEN [value |-> sorted[Max(plain)].preferences, conflict |-> FALSE]
        ELSE [value |-> [kind |-> "object",
                         map |-> [k \in keys |-> owner(k).preferences.map[k]]],
              conflict |-> \E j \in DOMAIN sorted :
                              sorted[j].preferences # sorted[1].preferences]

union_arrays(sorted) == UNION {sorted[j].links : j \in DOMAIN sorted}

\* merge_profiles_impl.
merge_profiles(ps) ==
    LET sorted == ByAuthority(ps)
        role == resolve_opt_string(sorted)
        prefs == merge_json_object(sorted)
        consent == resolve_json(sorted)
    IN  IF Len(ps) = 1
        THEN [profile |-> ps[1], conflicts |-> {}]
        ELSE [profile |-> [authority |-> sorted[1].authority, role |-> role.value,
                           preferences |-> prefs.value, consent |-> consent.value,
                           links |-> union_arrays(sorted),
                           version |-> Max({ps[j].version : j \in DOMAIN ps})],
              conflicts |-> {f \in {"role", "preferences", "consent"} :
                                \/ f = "role" /\ role.conflict
                                \/ f = "preferences" /\ prefs.conflict
                                \/ f = "consent" /\ consent.conflict}]

-----------------------------------------------------------------------------

\* A source reports a value, or a profile.
Report(f) ==
    /\ verdict = Missing /\ profiles = <<>>
    /\ Len(reports) < MaxReports
    /\ reports' = Append(reports, f)
    /\ UNCHANGED <<profiles, verdict>>

ReportProfile(p) ==
    /\ verdict = Missing /\ reports = <<>>
    /\ Len(profiles) < MaxReports
    /\ profiles' = Append(profiles, p)
    /\ UNCHANGED <<reports, verdict>>

Resolve ==
    /\ verdict = Missing /\ profiles = <<>>
    /\ verdict' = resolve(reports)
    /\ UNCHANGED <<reports, profiles>>

MergeProfiles ==
    /\ verdict = Missing /\ profiles # <<>>
    /\ verdict' = merge_profiles(profiles)
    /\ UNCHANGED <<reports, profiles>>

FactNext ==
    \/ \E f \in Facts : Report(f)
    \/ \E p \in Profiles : ReportProfile(p)
    \/ Resolve
    \/ MergeProfiles

-----------------------------------------------------------------------------

\* resolve: the value that wins has the highest authority there is, a user's
\* confirmation beats none at that level, the order of the reports matters only
\* between full ties, and a disagreement is always said, with all its values.
FactsWin ==
    verdict # Missing /\ profiles = <<>> /\ reports # <<>> =>
        LET all == {reports[j] : j \in DOMAIN reports}
            top == {f \in all : \A g \in all : g.authority <= f.authority}
            again == resolve(Reverse(reports))
        IN  /\ verdict.conflict <=> Cardinality({f.value : f \in all}) > 1
            /\ \E f \in top : f.value = verdict.winner.value
            /\ verdict.conflict =>
                  /\ verdict.winner \in top
                  /\ (\E f \in top : f.user_confirmed) => verdict.winner.user_confirmed
                  /\ \E f \in all : f.value # verdict.winner.value /\ f \in Range(verdict.all)
            /\ again.winner.value # verdict.winner.value =>
                  Key(again.winner) = Key(verdict.winner)
            /\ again.flags = verdict.flags

\* merge_profiles: a field that anybody gave is given; no source of lower authority
\* overrides one of higher authority in the role, the consent or a key of an
\* object; and where two sources of the role or the consent differ, it is said.
MergeKeepsAuthority ==
    profiles # <<>> /\ verdict # Missing =>
        LET said(p) == p.role # Missing
            all == Range(profiles)
            objects == \A p \in all : p.preferences.kind # "plain"
            merged == verdict.profile
        IN  /\ (\E p \in all : said(p)) =>
                  \E p \in all : /\ p.role = merged.role
                                 /\ \A q \in all : said(q) => q.authority <= p.authority
            /\ \E p \in all : /\ p.consent = merged.consent
                              /\ \A q \in all : q.authority <= p.authority
            /\ objects => \A p \in all : p.preferences.kind = "object" =>
                  \A k \in DOMAIN p.preferences.map :
                     \E q \in all : /\ q.authority >= p.authority
                                    /\ q.preferences.kind = "object"
                                    /\ k \in DOMAIN q.preferences.map
                                    /\ q.preferences.map[k] = merged.preferences.map[k]
            /\ (\E p, q \in all : said(p) /\ said(q) /\ p.role # q.role) =>
                  "role" \in verdict.conflicts
            /\ \A p \in all : p.links \subseteq merged.links /\ p.version <= merged.version
================================================================================
