---------------------------- MODULE MCKnowledgePath ----------------------------
(* KnowledgePath for TLC. *)
EXTENDS KnowledgePath

Ent(tenant, type, name) == [tenant |-> tenant, type |-> type, name |-> name, attributes |-> 0]
MCEntityRequests == <<Ent("t1", "line", "press"), Ent("t1", "batch", "press"),
                      Ent("t2", "line", "press"), Ent("t1", "line", "saw")>>
MCRelationRequests == {<<1, 2, "contains">>, <<3, 2, "caused_by">>, <<3, 4, "part_of">>,
                       <<4, 1, "part_of">>, <<2, 2, "depends_on">>}

Fact(v, a, source, scope, t, ver, conf) ==
    [value |-> v, authority |-> a, source |-> source, scope |-> scope, time |-> t,
     verified |-> ver, user_confirmed |-> conf]
MCFacts == {
    Fact("x", 3, "iam", "enterprise", 1, FALSE, FALSE),
    Fact("y", 3, "user_explicit", "enterprise", 1, FALSE, FALSE),
    Fact("y", 2, "hr", "team", 2, TRUE, FALSE),
    Fact("x", 2, "user_explicit", "personal", 1, FALSE, TRUE),
    Fact("z", 0, "single_inference", "team", 3, FALSE, FALSE),
    Fact("x", 0, "repeated_inference", "team", 3, FALSE, FALSE),
    Fact("y", 0, "repeated_inference", "team", 3, FALSE, FALSE)}

Prof(a, role, prefs, consent, links, version) ==
    [authority |-> a, role |-> role, preferences |-> prefs, consent |-> consent,
     links |-> links, version |-> version]
Obj(f) == [kind |-> "object", map |-> f]
Plain == [kind |-> "plain", map |-> <<>>]
Null == [kind |-> "null", map |-> <<>>]
MCProfiles == {
    Prof(3, Missing, Obj("tz" :> "utc"), "all", {"hr-1"}, 1),
    Prof(3, "operator", Null, "none", {}, 2),
    Prof(2, "manager", Obj("tz" :> "cet" @@ "lang" :> "de"), "none", {"sso-1"}, 3),
    Prof(1, "operator", Plain, "all", {}, 1),
    Prof(0, "planner", Obj("lang" :> "en"), "all", {"sso-1"}, 1)}

Epi(o, w, e, t) == [outcome |-> o, words |-> w, entities |-> e, tenant |-> t]
MCEpisodeKinds == {
    Epi("success", {"a"}, {"line"}, "t1"), Epi("success", {"b"}, {"line"}, "t2"),
    Epi("success", {"c"}, {"line"}, "t1"), Epi("partial", {"a", "b"}, {"line"}, "t1"),
    Epi("abandoned", {}, {}, "t1")}

MCTwinMemories == [m1 |-> [authority |-> 3, confidence |-> 90],
                   m2 |-> [authority |-> 0, confidence |-> 40],
                   m3 |-> [authority |-> 1, confidence |-> 0]]
Cap(o, m, l, f) == [outputs |-> o, metrics |-> m, logs |-> l, filter |-> f]
MCCaptureConfigs == {Cap(TRUE, TRUE, TRUE, All), Cap(TRUE, FALSE, FALSE, {"m1"})}

Mem(a, c, v) == [authority |-> a, confidence |-> c, valid_to |-> v]
MCMemories == {Mem("L0", 90, Blank), Mem("L1", 90, 0), Mem("L2", 90, 2), Mem("L2", 50, Blank)}

Sb(text, subject, source, scope, confidence, signs) ==
    [tenant |-> "t1", text |-> text, subject |-> subject, source |-> source, scope |-> scope,
     confidence |-> confidence, signs |-> signs]
MCSubmissions == {
    Sb("x", Nil, "user_explicit", "personal", 90, {}),
    Sb("x", Nil, "agent_inferred", "task", 70, {}),
    Sb("y", "p1", "hr", "team", 90, {}),
    Sb("z", "p1", "business_event", "personal", 69, {}),
    Sb("z", Nil, "tool_result", "personal", 90, {<<"prompt_injection", "medium">>}),
    Sb("w", Nil, "tool_result", "personal", 90, {<<"sensitive_data", "high">>})}

\* Of the context: five memory items, routes of every intent. The texts of three items and
\* the longer of the cached ones have a line "## ..." of their own.
Cut(length, head, rest, apart) ==
    <<[head |-> "", length |-> length, apart |-> FALSE, signs |-> {}],
      [head |-> head, length |-> rest, apart |-> apart, signs |-> {}]>>
MCHotTexts == {[bytes |-> 10, parts |-> PlainText(10)],
               [bytes |-> 60, parts |-> Cut(30, "Notes", 28, TRUE)]}

Row(id, tenant, scope, privacy, subject, authority, confidence, fresh, similarity, bytes, signs) ==
    [id |-> id, tenant |-> tenant, status |-> "active", scope |-> scope,
     privacy |-> privacy, subject |-> subject, authority |-> authority,
     confidence |-> confidence, importance |-> 50, fresh |-> fresh,
     similarity |-> similarity, embedded |-> TRUE, begun |-> TRUE, expired |-> FALSE,
     bytes |-> bytes,
     parts |-> <<[head |-> "", length |-> bytes, apart |-> FALSE, signs |-> signs]>>]

MCItems == {
    Row("m1", "t1", "enterprise", "internal", "u1", 3, 90, 100, 80, 30, {}),
    [Row("m2", "t1", "personal", "restricted", "u1", 0, 50, 50, 90, 19, {})
        EXCEPT !.parts = [Cut(6, "Identity", 12, FALSE)
                            EXCEPT ![2].signs = {<<"prompt_injection", "medium">>}]],
    [Row("m3", "t1", "team", "internal", "g1", 1, 90, 100, 80, 20, {<<"sensitive_data", "high">>})
        EXCEPT !.expired = TRUE],
    [Row("m4", "t1", "team", "internal", "u1", 1, 60, 100, 60, 25, {})
        EXCEPT !.embedded = FALSE, !.begun = FALSE, !.parts = Cut(8, "Notes", 15, TRUE)],
    Row("m5", "t2", "enterprise", "internal", "u1", 3, 90, 100, 90, 30, {})}

MCStores == {MCItems, {i \in MCItems : i.id # "m1"}}

Req(query, blank, intent, task, tokens) ==
    [query |-> query, blank |-> blank, intent |-> intent, task |-> task,
     max_latency |-> NoCap, max_tokens |-> tokens]

MCRequests == {
    Req({}, TRUE, NoCap, NoCap, NoCap),
    Req({"personal"}, FALSE, NoCap, NoCap, 0),
    Req({"business"}, FALSE, NoCap, NoCap, NoCap),
    Req({}, TRUE, "deep_research", NoCap, 9),
    Req({}, TRUE, "deep_research", TRUE, 30),
    Req({"decision", "research"}, FALSE, NoCap, NoCap, NoCap)}

MCUserProfiles == {{"role", "preferences"}}
MCTasks == {{"owner", "findings"}}

MCSearches ==
    {[SearchParams("t1") EXCEPT !.words = w, !.scopes = s, !.embedding = e, !.limit = l,
                                !.offset = o] :
        w \in BOOLEAN, s \in {{}, {"team", "personal"}}, e \in BOOLEAN, l \in {1, 3}, o \in {0, 1}}

MCPreFilters ==
    {PreFilter(t, {"enterprise", "team", "personal"}, Unset, w, k) :
        t \in {"t1", ""}, w \in {Unset, "valid", "ever"}, k \in {0, 1, 3}}
================================================================================
