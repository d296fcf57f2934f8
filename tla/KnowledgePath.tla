------------------------------ MODULE KnowledgePath ------------------------------
(***************************************************************************)
(* How the server comes to know things and tells what it knows.            *)
(* Submissions are taken in, facts and profiles of several sources         *)
(* resolved, entities related; episodes become experiences, simulations    *)
(* become memories; decisions are recorded and memories verified; a        *)
(* request is given its context, or the answer to a search (ContextPath).  *)
(* The parts share no state, so one of them moves in a behaviour.          *)
(***************************************************************************)
EXTENDS ContextPath, EntityGraph, FactResolution, Reflection, DigitalTwin,
        DecisionTrail, WriteIntake

VARIABLE part

knowledge_vars == <<graph_vars, fact_vars, reflection_vars, twin_vars, trail_vars, intake_vars>>

\* The store differs from one start to another where it is read.
Init ==
    /\ part \in {"graph", "facts", "reflection", "twin", "decision", "verify", "intake", "context"}
    /\ GraphInit /\ FactInit /\ ReflectionInit /\ TwinInit /\ TrailInit /\ IntakeInit
    /\ ContextInit
    /\ part = "context" \/ store = CHOOSE s \in Stores : TRUE

KnowledgeNext ==
    \/ /\ part = "graph" /\ GraphNext
       /\ UNCHANGED <<fact_vars, reflection_vars, twin_vars, trail_vars, intake_vars>>
    \/ /\ part = "facts" /\ FactNext
       /\ UNCHANGED <<graph_vars, reflection_vars, twin_vars, trail_vars, intake_vars>>
    \/ /\ part = "reflection" /\ ReflectionNext
       /\ UNCHANGED <<graph_vars, fact_vars, twin_vars, trail_vars, intake_vars>>
    \/ /\ part = "twin" /\ TwinNext
       /\ UNCHANGED <<graph_vars, fact_vars, reflection_vars, trail_vars, intake_vars>>
    \/ /\ \/ part = "decision" /\ DecisionNext
          \/ part = "verify" /\ VerifyNext
       /\ UNCHANGED <<graph_vars, fact_vars, reflection_vars, twin_vars, intake_vars>>
    \/ /\ part = "intake" /\ IntakeNext
       /\ UNCHANGED <<graph_vars, fact_vars, reflection_vars, twin_vars, trail_vars>>

Next ==
    /\ UNCHANGED part
    /\ \/ part = "context" /\ ContextNext /\ UNCHANGED knowledge_vars
       \/ KnowledgeNext /\ UNCHANGED context_vars

Spec == Init /\ [][Next]_<<part, knowledge_vars, context_vars>>

-----------------------------------------------------------------------------

\* What the server concludes rests on what it was told: the value of a fact on the
\* highest authority (ConflictResolver), a merged profile on its sources
\* (merge_profiles), a reusable experience on its episodes (ReflectionJob), a
\* captured memory on a full run (DigitalTwinBridge).
ConclusionsGrounded == FactsWin /\ MergeKeepsAuthority /\ LessonsGrounded /\ TwinSound

\* What is put on record was put there in order: the stages of a decision
\* (DecisionManager), the verdict of a verification (SourceOfTruthVerifier), the
\* state of a submitted memory (WritePipeline).
RecordsKept == StagesInOrder /\ SafeWasVerified /\ IntakeSound
================================================================================
