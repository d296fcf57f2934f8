------------------------------ MODULE EntityGraph ------------------------------
(***************************************************************************)
(* entity.rs: entities, the relations between them, and the two walks over *)
(* the graph. A walk first loads an adjacency list, one query for each     *)
(* entity of the frontier, while others add relations; then it searches    *)
(* the list in memory. Relations are followed in both directions, whatever *)
(* their type, validity or tenant.                                         *)
(***************************************************************************)
EXTENDS Naturals, Sequences, FiniteSets, FiniteSetsExt, SequencesExt

CONSTANTS
    EntityRequests,     \* create requests, in the order they may arrive
    RelationRequests,   \* create requests: <<from, to, relation_type>>
    MaxHops,            \* stands for u32::MAX, more than the entities there are
    Depths,             \* max_depth of the traversals asked for
    MaxUpdated,         \* bound: the entities whose attributes are replaced, once
    None

EntityType == {"product", "bom", "material", "supplier", "process", "equipment", "line",
               "batch", "quality_event", "maintenance_event"}

RelationType == {"contains", "produced_by", "supplied_by", "maintained_by", "located_at",
                 "part_of", "caused_by", "resolved_by", "depends_on"}

\* Entity and CreateEntityRequest; the attributes count their replacements.
Entity == [tenant : STRING, type : EntityType, name : STRING, attributes : Nat]

\* EntityRelation and CreateRelationRequest.
Relation == (DOMAIN EntityRequests) \X (DOMAIN EntityRequests) \X RelationType

ASSUME RequestsAssumption == EntityRequests \in Seq(Entity) /\ RelationRequests \subseteq Relation
ASSUME HopsAssumption ==
    MaxHops \in Nat /\ MaxHops >= Len(EntityRequests) /\ Depths \subseteq Nat

VARIABLES
    entities,   \* rows of entity, oldest first; the index is the entity_id
    relations,  \* rows of entity_relation
    walk,       \* the walk under way
    reply       \* the last answer

graph_vars == <<entities, relations, walk, reply>>

Ids == DOMAIN entities

Idle == [state |-> "idle", start |-> 0, goal |-> None, max_depth |-> 0, level |-> 0,
         frontier |-> {}, next |-> {}, visited |-> {}, adjacency |-> <<>>, before |-> {}]
NoReply == [kind |-> "none", rows |-> <<>>, nodes |-> {}, path |-> <<>>]

GraphInit ==
    /\ entities = <<>>
    /\ relations = {}
    /\ walk = Idle
    /\ reply = NoReply

-----------------------------------------------------------------------------
(* Rows *)

create_entity ==
    /\ Len(entities) < Len(EntityRequests)
    /\ entities' = Append(entities, EntityRequests[Len(entities) + 1])
    /\ UNCHANGED <<relations, walk, reply>>

\* No row, no update: NotFound.
update_attributes(e) ==
    /\ e \in Ids /\ e <= MaxUpdated /\ entities[e].attributes = 0
    /\ entities' = [entities EXCEPT ![e].attributes = @ + 1]
    /\ UNCHANGED <<relations, walk, reply>>

\* Both ends are foreign keys.
create_relation(r) ==
    /\ r[1] \in Ids /\ r[2] \in Ids
    /\ r \notin relations
    /\ relations' = relations \cup {r}
    /\ UNCHANGED <<entities, walk, reply>>

\* Newest first.
Newest(wanted) ==
    LET rows[j \in 0..Len(entities)] ==
            IF j = 0 THEN <<>> ELSE IF j \in wanted THEN <<j>> \o rows[j - 1] ELSE rows[j - 1]
    IN  rows[Len(entities)]

list_by_type(tenant, type, limit) ==
    LET rows == Newest({e \in Ids : entities[e].tenant = tenant /\ entities[e].type = type})
    IN  SubSeq(rows, 1, Min({limit, Len(rows)}))

search_entities(tenant, name) ==
    Newest({e \in Ids : entities[e].tenant = tenant /\ entities[e].name = name})

get_relations(e) == {r \in relations : e \in {r[1], r[2]}}

\* The tenant is that of the entity the relation starts from.
get_relations_by_type(tenant, type) ==
    {r \in relations : entities[r[1]].tenant = tenant /\ r[3] = type}

Lookup(tenant, type, name, limit) ==
    /\ walk.state = "idle"
    /\ \/ reply' = [NoReply EXCEPT !.kind = "rows", !.rows = list_by_type(tenant, type, limit)]
       \/ reply' = [NoReply EXCEPT !.kind = "rows", !.rows = search_entities(tenant, name)]
       \/ \E e \in Ids, t \in {r[3] : r \in relations} :
             reply' = [NoReply EXCEPT !.kind = "relations",
                         !.nodes = get_relations(e) \cap get_relations_by_type(tenant, t)]
    /\ UNCHANGED <<entities, relations, walk>>

-----------------------------------------------------------------------------
(* Walks *)

\* Mutant: a relation is followed in its own direction only.
OutNeighbors(e) == {r[2] : r \in {x \in relations : x[1] = e}}

fetch_neighbors(e) ==
    {r[2] : r \in {x \in relations : x[1] = e}} \cup {r[1] : r \in {x \in relations : x[2] = e}}

\* The head of traverse and of shortest_path.
BeginWalk(start, goal, max_depth) ==
    /\ walk.state = "idle"
    /\ walk' = [Idle EXCEPT !.state = "loading", !.start = start, !.goal = goal,
                            !.max_depth = max_depth, !.frontier = {start},
                            !.visited = {start}, !.before = relations]
    /\ reply' = NoReply
    /\ UNCHANGED <<entities, relations>>

\* build_adjacency: one entity of the frontier; the last one ends the level.
Load(e) ==
    LET found == fetch_neighbors(e)
        rest == walk.frontier \ {e}
        next == walk.next \cup (found \ walk.visited)
    IN  /\ walk.state = "loading"
        /\ e \in walk.frontier
        /\ walk.level < walk.max_depth
        /\ walk' = [walk EXCEPT
              !.adjacency = [x \in DOMAIN @ \cup {e} |-> IF x = e THEN found ELSE @[x]],
              !.visited = @ \cup found,
              !.level = IF rest = {} THEN @ + 1 ELSE @,
              !.frontier = IF rest = {} THEN next ELSE rest,
              !.next = IF rest = {} THEN {} ELSE next]
        /\ UNCHANGED <<entities, relations, reply>>

\* What is seen within d hops in the list; a missing entry has no neighbours.
Seen(adjacency, start, depth) ==
    LET seen[d \in 0..depth] ==
            IF d = 0 THEN {start}
            ELSE seen[d - 1] \cup UNION {adjacency[e] : e \in seen[d - 1] \cap DOMAIN adjacency}
    IN  seen

bfs_traverse(adjacency, start, max_depth) ==
    LET depth == Min({max_depth, Len(entities)})
        seen == Seen(adjacency, start, depth)
    IN  {<<n, CHOOSE d \in 0..depth : n \in seen[d] /\ (d = 0 \/ n \notin seen[d - 1])>> :
            n \in seen[depth]}

\* reconstruct_path: the parent of an entity is one of the level before it; which
\* one depends on the order in which the rows came.
Paths(adjacency, levels, to, depth) ==
    LET back[d \in 0..depth] ==
            IF d = 0 THEN {<<to>>}
            ELSE UNION {{<<e>> \o p : e \in {x \in DOMAIN adjacency :
                            /\ p[1] \in adjacency[x]
                            /\ <<x, depth - d>> \in levels}} : p \in back[d - 1]}
    IN  back[depth]

\* The paths bfs_shortest_path may return; none when to is not reached.
bfs_shortest_path(adjacency, from, to) ==
    LET levels == bfs_traverse(adjacency, from, MaxHops)
    IN  IF \A l \in levels : l[1] # to THEN {<<>>}
        ELSE Paths(adjacency, levels, to, (CHOOSE l \in levels : l[1] = to)[2])

\* The list is loaded: the search in memory.
Finish ==
    /\ walk.state = "loading"
    /\ walk.frontier = {} \/ walk.level = walk.max_depth
    /\ IF walk.goal = None
       THEN reply' = [NoReply EXCEPT !.kind = "nodes",
                        !.nodes = bfs_traverse(walk.adjacency, walk.start, walk.max_depth)]
       ELSE \E p \in bfs_shortest_path(walk.adjacency, walk.start, walk.goal) :
              reply' = [NoReply EXCEPT !.kind = "path", !.path = p]
    /\ walk' = [walk EXCEPT !.state = "done"]
    /\ UNCHANGED <<entities, relations>>

traverse(start, max_depth) == BeginWalk(start, None, max_depth)
shortest_path(from, to) == BeginWalk(from, to, MaxHops)

GraphNext ==
    \/ create_entity
    \/ \E e \in Ids : update_attributes(e)
    \/ \E r \in RelationRequests : create_relation(r)
    \/ \E e \in Ids, n \in 0..1 :
          Lookup(entities[e].tenant, entities[e].type, entities[e].name, n)
    \/ \E e \in Ids, d \in Depths : traverse(e, d)
    \/ \E e, f \in Ids : shortest_path(e, f)
    \/ \E e \in walk.frontier : Load(e)
    \/ Finish

-----------------------------------------------------------------------------

\* There is a walk of k relations between two entities.
Joined(rels, a, b, k) ==
    \E f \in [0..k -> Ids] :
        /\ f[0] = a /\ f[k] = b
        /\ \A j \in 1..k : \E r \in rels : {r[1], r[2]} = {f[j - 1], f[j]}

Within(rels, a, b, d) == \E k \in 0..Min({d, Len(entities)}) : Joined(rels, a, b, k)

\* traverse and shortest_path, with relations being added between the queries: an
\* entity that was within reach at the beginning is reported, no farther than it
\* then was; what is reported is within reach, at the reported distance or nearer;
\* a path is made of relations and is no longer than a shortest one was at the
\* beginning; no path means there was none. A listing has the tenant's rows only.
PathsReal ==
    /\ reply.kind = "nodes" =>
          /\ \A n \in reply.nodes :
                n[2] <= walk.max_depth /\ Within(relations, walk.start, n[1], n[2])
          /\ \A e \in Ids, d \in 0..walk.max_depth :
                Within(walk.before, walk.start, e, d) =>
                    \E n \in reply.nodes : n[1] = e /\ n[2] <= d
    /\ reply.kind = "path" =>
          IF reply.path = <<>>
          THEN ~Within(walk.before, walk.start, walk.goal, MaxHops)
          ELSE /\ reply.path[1] = walk.start /\ Last(reply.path) = walk.goal
               /\ \A j \in 2..Len(reply.path) : \E r \in relations :
                     {r[1], r[2]} = {reply.path[j - 1], reply.path[j]}
               /\ \A d \in 0..(Len(reply.path) - 2) :
                     ~Within(walk.before, walk.start, walk.goal, d)
    /\ reply.kind = "rows" =>
          \A i, j \in DOMAIN reply.rows :
              /\ entities[reply.rows[i]].tenant = entities[reply.rows[j]].tenant
              /\ i < j => reply.rows[i] > reply.rows[j]
================================================================================
