---------------------------- MODULE MCPlatformPath ----------------------------
(* PlatformPath for TLC. *)
EXTENDS PlatformPath

MCThresholds == [max_table_bytes |-> 5, max_index_bytes |-> 3, max_row_count |-> 4,
                 max_vector_storage_bytes |-> 12, max_tenant_bytes |-> 4, max_tenant_row_count |-> Unset]

MCMeasures == [total_bytes : {5, 6}, index_bytes : {3, 4}, row_count : {0, 3, 4, 5}]

Rec(id, uuid, good, scope, state, s, f) ==
    [id |-> id, uuid |-> uuid, good |-> good, scope |-> scope, lifecycle |-> state,
     successes |-> s, failures |-> f]

Stable == Rec("g1", TRUE, TRUE, "local", "stable", 2, 1)
Revoked == Rec("g2", TRUE, TRUE, "network", "revoked", 0, 0)
Named == Rec("g3", FALSE, TRUE, "project", "deprecated", 1, 0)
Capsule == Rec("c1", TRUE, TRUE, "tenant", "candidate", 0, 0)
Broken == Rec("g4", TRUE, FALSE, "team", "quarantined", 0, 0)
Receipt == Rec("u1", TRUE, TRUE, "local", "stable", 0, 0)

Source(layout, g, c, u) == [layout |-> layout, records |-> [gene |-> g, capsule |-> c, usage_receipt |-> u]]

MCSources == {Source("documents", {Stable, Revoked}, {Capsule}, {Receipt}),
              Source("documents", {Stable, Named}, {Stable, Capsule}, {}),
              Source("documents", {Stable, Broken}, {Capsule}, {}),
              Source("columns", {Stable}, {}, {})}

MCPresent == {{}, {[kind |-> "gene", id |-> "x", key |-> 0, scope |-> "team",
                    status |-> "foreign", confidence |-> 50]}}

GeneDef(t, c, q, s) == [tags |-> t, confidence |-> c, quality |-> q, use_count |-> 0,
                        success_count |-> 0, steps |-> s, checks |-> 1]

MCGeneDefs == {GeneDef({"a", "b"}, 980, 0, 1), GeneDef({"b"}, 720, 900, 0), GeneDef({}, 310, 500, 1)}

QueryFor(m, l, t, w) == [min_confidence |-> m, limit |-> l, required_tags |-> t, words |-> w]

MCQueries == {QueryFor(500, 1, <<>>, {"b"}), QueryFor(200, 1, <<"b">>, {"a"}), QueryFor(0, 2, <<"b", "b">>, {})}

Header(k, v) == [kind |-> k, value |-> v]
Text(v) == Header("text", v)
Gone == Header("absent", "")

Headers(o, u, p, a, t, tr, auth) ==
    [tenant |-> o, user |-> u, purpose |-> p, agent |-> a, task |-> t, trace |-> tr, authorization |-> auth]

MCHeaderMaps ==
    {Headers(Text("o1"), Header("padded", "u1"), Text("read"), Header("blank", ""), Text("word"), Gone, Text("t1")),
     Headers(Header("padded", "o1"), Text("u2"), Text("read"), Text("a"), Header("padded", "id"), Header("garbled", ""), Text("u2")),
     Headers(Text("o2"), Text("u2"), Text("read"), Gone, Gone, Header("padded", "tr"), Header("padded", "u2")),
     Headers(Text("o1"), Gone, Header("blank", ""), Gone, Gone, Gone, Text("u2")),
     Headers(Text("o1"), Text("u2"), Text("read"), Gone, Gone, Gone, Gone),
     Headers(Text("o1"), Text("u2"), Text("read"), Gone, Gone, Gone, Text("u1"))}

MCUserOf == [t1 |-> "u1", u2 |-> "u2"]

MCScopeOrder == <<"personal", "team">>
MCRolePermissions == [enterprise |-> {"read"}, editor |-> {"read", "promote"}]

MCResults == <<"r1", "r2">>

\* Characters of one and of three bytes, around the limits of one and two tokens.
MCAgentTexts == UNION {[1..n -> {1, 3}] : n \in 0..4} \cup {<<3, 1, 3, 3, 3>>}

MCBudgets == {[daily |-> 3, monthly |-> 3, spike |-> 1, growth |-> 1]}

\* Every short text, and longer ones of digits.
MCTexts ==
    UNION {[1..n -> {"1", "5", "X", "card", "host", "@", "newline", "addr", "passport"}] : n \in 0..4}
    \cup UNION {[1..n -> {"1", "5", "X", "card"}] : n \in 5..6}

MCPayloads == SUBSET {<<"a">>, <<"email">>, <<"a", "token">>, <<"a", "b">>, <<"token", "a">>}

MCContents == {[sentences |-> 1, tokens |-> 1], [sentences |-> 2, tokens |-> 3]}

\* The actors of the parts are the same model values, of which one part moves at a time.
Symmetry == Permutations(Callers)
==================================================================================
