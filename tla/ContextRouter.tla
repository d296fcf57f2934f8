----------------------------- MODULE ContextRouter -----------------------------
(***************************************************************************)
(* context_router.rs: from a request to the sources that are asked, the    *)
(* time they have and the tokens the answer may take.                      *)
(***************************************************************************)
EXTENDS Naturals, Sequences

CONSTANTS
    BaseTokens, \* default_token_budget of the router and of the assembler
    NoCap       \* the request sets no limit, names no intent, no task

ASSUME RouterAssumption == BaseTokens \in Nat \ {0}

\* RequestIntent, from the fewest sources to the most.
Intents == <<"chat", "personal_task", "business_query", "cross_agent_task",
             "decision_support", "deep_research">>

Intent == {Intents[i] : i \in DOMAIN Intents}

\* The groups of keywords a query may hold as whole words, in the order in which
\* they are looked for, and the intent of each.
Keywords == <<"decision", "research", "business", "personal">>

Meaning == [decision |-> "decision_support", research |-> "deep_research",
            business |-> "business_query", personal |-> "personal_task"]

\* A query is what of it the router sees: the groups with a keyword in it. A
\* keyword inside a longer word is not one.
Queries == SUBSET {Keywords[i] : i \in DOMAIN Keywords}

detect_intent(query) ==
    IF query = {} THEN "chat"
    ELSE LET first == CHOOSE i \in DOMAIN Keywords :
                        /\ Keywords[i] \in query
                        /\ \A j \in 1..(i - 1) : Keywords[j] \notin query
         IN  Meaning[Keywords[first]]

Rank(intent) == CHOOSE i \in DOMAIN Intents : Intents[i] = intent

\* The switches of RoutingPlan, each with the least intent that turns it on.
TurnedOnBy == [hot_context |-> "chat", canonical_user |-> "personal_task",
               structured_search |-> "business_query",
               shared_task |-> "cross_agent_task",
               vector_search |-> "decision_support",
               sot_verification |-> "decision_support",
               graph_search |-> "deep_research"]

plan_for_intent(intent) ==
    {s \in DOMAIN TurnedOnBy : Rank(TurnedOnBy[s]) <= Rank(intent)}

latency_for(intent) == <<60, 120, 200, 200, 500, 800>>[Rank(intent)]

tokens_for(intent) ==
    <<BaseTokens \div 2, BaseTokens, BaseTokens, (BaseTokens * 3) \div 2,
      BaseTokens * 2, BaseTokens * 2>>[Rank(intent)]

RouteRequest == [query : Queries, intent : Intent \cup {NoCap}, task : {TRUE, NoCap},
                 max_latency : Nat \cup {NoCap}, max_tokens : Nat \cup {NoCap}]

Capped(n, cap) == IF cap # NoCap /\ cap < n THEN cap ELSE n

\* An intent that is named wins over a task, and a task over the words.
route(req) ==
    LET intent == IF req.intent # NoCap THEN req.intent
                  ELSE IF req.task # NoCap THEN "cross_agent_task"
                  ELSE detect_intent(req.query)
    IN  [intent |-> intent, asks |-> plan_for_intent(intent),
         latency |-> Capped(latency_for(intent), req.max_latency),
         tokens |-> Capped(tokens_for(intent), req.max_tokens)]
================================================================================
