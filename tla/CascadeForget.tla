---------------------------- MODULE CascadeForget ----------------------------
(***************************************************************************)
(* ForgetManager::cascade_forget: a depth-limited walk over derived_from   *)
(* with an explicit stack and a visited set, soft-deleting as it goes,     *)
(* while other requests revoke or remove memories of the same graph.       *)
(***************************************************************************)
EXTENDS Naturals, Sequences, FiniteSets, SequencesExt

CONSTANTS
    Ids,          \* memories
    Root,         \* the memory the cascade starts from
    MaxDepth,     \* MAX_CASCADE_DEPTH
    MaxDerivations,  \* bound on the derivations recorded
    Interference     \* may other requests revoke, remove or hold memories?

ASSUME CascadeAssumption ==
    /\ IsFiniteSet(Ids) /\ Root \in Ids
    /\ MaxDepth \in Nat \ {0}
    /\ MaxDerivations \in Nat
    /\ Interference \in BOOLEAN

\* The derived_from relations considered, cycles and self-references included:
\* sets of <<i, j>>, j was derived from i.
Graphs == {g \in SUBSET (Ids \X Ids) : Cardinality(g) <= MaxDerivations}

VARIABLES
    derived,    \* the relation of this behaviour
    present,    \* rows of memory_item
    revoked,    \* rows with status 'revoked'
    held,       \* rows under legal hold
    stack,      \* <<memory, depth>> pairs still to visit, top last
    visited,
    at,         \* the pair being processed, and its children once they are read
    children,
    count,      \* memories soft-deleted
    result,     \* "running", "ok", "held" or "error"
    before,     \* the memories revoked when the cascade began (history)
    alone       \* no other request interfered so far (history)

vars == <<derived, present, revoked, held, stack, visited, at, children, count,
          result, before, alone>>

None == <<Root, MaxDepth>>

TypeOK ==
    /\ derived \in Graphs
    /\ present \subseteq Ids
    /\ revoked \subseteq present
    /\ held \subseteq Ids
    /\ stack \in Seq(Ids \X (0..MaxDepth))
    /\ visited \subseteq Ids
    /\ at \in Ids \X (0..MaxDepth)
    /\ children \subseteq Ids
    /\ count \in 0..Cardinality(Ids)
    /\ result \in {"running", "ok", "held", "error"}
    /\ before \subseteq Ids
    /\ alone \in BOOLEAN

Init ==
    /\ derived \in Graphs
    /\ present = Ids
    /\ before \in SUBSET (Ids \ {Root})
    /\ revoked = before
    /\ held = {}
    /\ stack = << <<Root, 0>> >>
    /\ visited = {}
    /\ at = None
    /\ children = {}
    /\ count = 0
    /\ result = "running"
    /\ alone = TRUE

Top == stack[Len(stack)]

\* Mutant: one level too many.
ShouldCascadeInclusive(depth) == depth <= MaxDepth

\* Mutant: one level too few.
ShouldCascadeShort(depth) == depth + 1 < MaxDepth

\* should_cascade_at_depth
ShouldCascade(depth) == depth < MaxDepth

\* Mutant: the entry passed over stays on the stack.
SkipWithoutPop ==
    /\ result = "running" /\ at = None /\ stack # <<>>
    /\ ~ShouldCascade(Top[2]) \/ Top[1] \in visited
    /\ UNCHANGED vars

\* while let Some(..) = stack.pop(), and the two reasons to pass over it.
Skip ==
    /\ result = "running" /\ at = None /\ stack # <<>>
    /\ ~ShouldCascade(Top[2]) \/ Top[1] \in visited
    /\ stack' = Front(stack)
    /\ UNCHANGED <<derived, present, revoked, held, visited, at, children,
                   count, result, before, alone>>

\* find_derived_memories, before the memory itself is soft-deleted.
FindDerived ==
    /\ result = "running" /\ at = None /\ stack # <<>>
    /\ ShouldCascade(Top[2]) /\ Top[1] \notin visited
    /\ stack' = Front(stack)
    /\ visited' = visited \cup {Top[1]}
    /\ at' = Top
    /\ children' = {j \in present \ revoked : <<Top[1], j>> \in derived}
    /\ UNCHANGED <<derived, present, revoked, held, count, result, before, alone>>

\* The children found go onto the stack in the order of the rows.
PushChildren ==
    \E order \in SetToSeqs(children) :
        stack' = stack \o [k \in DOMAIN order |-> <<order[k], at[2] + 1>>]

\* soft_delete: a memory that is gone is passed over, a held one ends the
\* cascade with what was revoked so far left revoked.
SoftDelete ==
    /\ at # None
    /\ at' = None
    /\ IF at[1] \in held
       THEN /\ result' = "held"
            /\ UNCHANGED <<revoked, stack, count>>
       ELSE /\ IF at[1] \in present
               THEN revoked' = revoked \cup {at[1]} /\ count' = count + 1
               ELSE UNCHANGED <<revoked, count>>
            /\ PushChildren
            /\ UNCHANGED result
    /\ children' = {}
    /\ UNCHANGED <<derived, present, held, visited, before, alone>>

Finish ==
    /\ result = "running" /\ at = None /\ stack = <<>>
    /\ result' = "ok"
    /\ UNCHANGED <<derived, present, revoked, held, stack, visited, at,
                   children, count, before, alone>>

\* A statement fails and ends the cascade; the memory in hand may have been
\* revoked by then (the audit row and the event follow the update).
Fail ==
    /\ Interference /\ result = "running"
    /\ result' = "error"
    /\ at' = None
    /\ children' = {}
    /\ \/ UNCHANGED revoked
       \/ /\ at # None /\ at[1] \in present \ held
          /\ revoked' = revoked \cup {at[1]}
    /\ UNCHANGED <<derived, present, held, stack, visited, count, before, alone>>

\* Another request revokes, removes or holds a memory meanwhile.
Interfere(i) ==
    /\ Interference /\ result = "running"
    /\ \/ /\ i \in present \ revoked
          /\ revoked' = revoked \cup {i}
          /\ UNCHANGED <<present, held>>
       \/ /\ i \in present \ held
          /\ present' = present \ {i}
          /\ revoked' = revoked \ {i}
          /\ UNCHANGED held
       \/ /\ i \in present \ held
          /\ held' = held \cup {i}
          /\ UNCHANGED <<present, revoked>>
    /\ alone' = FALSE
    /\ UNCHANGED <<derived, stack, visited, at, children, count, result,
                   before>>

Cascade == Skip \/ FindDerived \/ SoftDelete \/ Finish

Next == Cascade \/ Fail \/ \E i \in Ids : Interfere(i)

\* The cascade runs in one request, which awaits only its own statements.
Spec == Init /\ [][Next]_vars /\ WF_vars(Cascade)

-----------------------------------------------------------------------------
(* Properties. *)

\* i is n derivations away from the root; memories already revoked when the
\* cascade began are passed over ("already-revoked memories are skipped").
Reaches(i, n) ==
    \E path \in [0..n -> Ids] :
        /\ path[0] = Root /\ path[n] = i
        /\ \A k \in 1..n :
              path[k] \notin before /\ <<path[k - 1], path[k]>> \in derived

\* Only the root and what was derived from it, within MaxDepth levels, is
\* visited and soft-deleted.
OnlyDescendants ==
    \A i \in visited : \E n \in 0..(MaxDepth - 1) : Reaches(i, n)

\* No memory has two parents and the root has none.
IsTree ==
    /\ \A i, j, k \in Ids : <<i, k>> \in derived /\ <<j, k>> \in derived => i = j
    /\ \A i \in Ids : <<i, Root>> \notin derived

\* When the cascade returns Ok, every memory at most MaxDepth - 1 derivations
\* from the root is revoked ("soft-delete a memory and all memories whose
\* derived_from array references it, recursively, up to MAX_CASCADE_DEPTH").
Complete ==
    result = "ok" =>
        \A i \in present : (\E n \in 0..(MaxDepth - 1) : Reaches(i, n)) => i \in revoked

\* Where no memory has two parents the cascade is complete: depth limit,
\* visited set and the order of the stack leave out no memory of the subtree
\* (no other request interfering).
CompleteOnTrees == IsTree /\ alone => Complete

\* The cascade ends, whatever the graph and whoever interferes.
CascadeEnds == <>(result # "running")
=============================================================================
