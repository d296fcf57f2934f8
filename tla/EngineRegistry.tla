--------------------------- MODULE EngineRegistry ---------------------------
(***************************************************************************)
(* EngineRegistry and CircuitBreaker, for one engine (engines share        *)
(* nothing): concurrent searches through the breaker, results that arrive  *)
(* late, and the engine being registered and unregistered meanwhile. Each  *)
(* acquisition of one of the two locks is a step.                          *)
(*                                                                         *)
(* Time is abstracted to cooled: has the cooldown passed since the last    *)
(* failure? Cool may happen at any moment after it.                        *)
(***************************************************************************)
EXTENDS Naturals, FiniteSets

CONSTANTS
    Callers,           \* concurrent searches
    FailureThreshold,  \* failure_threshold
    MaxFailures,       \* bound on consecutive_failures in this instance
    Churn              \* may the engine be unregistered and registered again?

ASSUME RegistryAssumption ==
    /\ FailureThreshold \in Nat \ {0}
    /\ MaxFailures \in Nat
    /\ Churn \in BOOLEAN

VARIABLES
    engine,     \* is the engine in the map of engines?
    breaker,    \* its entry in the map of breakers
    present,    \* is there such an entry?
    writer,     \* a register or unregister between its two locks (one at a
                \* time)
    searching,  \* where a search is
    healthy,    \* does the engine answer in time?
    probes      \* searches admitted while not Closed since the last cooldown
                \* (history)

registry_vars == <<engine, breaker, present, writer, searching, healthy, probes>>

Breaker == [state : {"Closed", "Open", "HalfOpen"}, failures : Nat,
            cooled : BOOLEAN]

\* CircuitBreaker::new
NewBreaker == [state |-> "Closed", failures |-> 0, cooled |-> FALSE]

RegistryTypeOK ==
    /\ engine \in BOOLEAN
    /\ breaker \in Breaker
    /\ present \in BOOLEAN
    /\ writer \in {"none", "registering", "defaulting", "unregistering"}
    /\ searching \in [Callers -> {"idle", "found", "calling"}]
    /\ healthy \in BOOLEAN
    /\ probes \in Nat

RegistryInit ==
    /\ engine = TRUE
    /\ breaker = NewBreaker
    /\ present = TRUE
    /\ writer = "none"
    /\ searching = [c \in Callers |-> "idle"]
    /\ healthy \in BOOLEAN
    /\ probes = 0

-----------------------------------------------------------------------------
(* search *)

\* The engine is looked up first, under its own lock; NotFound otherwise.
Find(c) ==
    /\ searching[c] = "idle"
    /\ engine
    /\ searching' = [searching EXCEPT ![c] = "found"]
    /\ UNCHANGED <<engine, breaker, present, writer, healthy, probes>>

\* entry(..).or_insert_with(CircuitBreaker::default)
Entry == IF present THEN breaker ELSE NewBreaker

\* Mutant: the probe of a half-open breaker leaves it half-open.
AllowedHalfOpenStays(b) ==
    IF b.state = "Open" THEN [b EXCEPT !.state = "HalfOpen"] ELSE b

\* allow: the breaker after a search was let through.
Allowed(b) ==
    CASE b.state = "Closed"   -> b
      [] b.state = "HalfOpen" -> [b EXCEPT !.state = "Open", !.cooled = FALSE]
      [] b.state = "Open"     -> [b EXCEPT !.state = "HalfOpen"]

\* Mutant: an open circuit admits no probe.
RejectedWhileOpen(b) == b.state = "Open"

\* allow: CircuitOpen until the cooldown has passed.
Rejected(b) == b.state = "Open" /\ ~b.cooled

Allow(c) ==
    /\ searching[c] = "found"
    /\ present' = TRUE
    /\ IF Rejected(Entry)
       THEN /\ searching' = [searching EXCEPT ![c] = "idle"]
            /\ breaker' = Entry
            /\ UNCHANGED probes
       ELSE /\ searching' = [searching EXCEPT ![c] = "calling"]
            /\ breaker' = Allowed(Entry)
            /\ probes' = IF Entry.state = "Closed" THEN probes ELSE probes + 1
    /\ UNCHANGED <<engine, writer, healthy>>

\* record_success
Succeeded(b) == [b EXCEPT !.state = "Closed", !.failures = 0]

\* Mutant: the circuit opens one failure late.
FailedLate(b) ==
    [state |-> IF b.failures + 1 > FailureThreshold THEN "Open" ELSE b.state,
     failures |-> b.failures + 1,
     cooled |-> FALSE]

\* record_failure
Failed(b) ==
    [state |-> IF b.failures + 1 >= FailureThreshold THEN "Open" ELSE b.state,
     failures |-> b.failures + 1,
     cooled |-> FALSE]

Success(c) ==
    /\ searching[c] = "calling"
    /\ healthy
    /\ searching' = [searching EXCEPT ![c] = "idle"]
    /\ breaker' = Succeeded(Entry)
    /\ present' = TRUE
    /\ UNCHANGED <<engine, writer, healthy, probes>>

\* An error, or the timeout; an answer that comes later is dropped with its
\* future.
Failure(c) ==
    /\ searching[c] = "calling"
    /\ ~healthy
    /\ Entry.failures < MaxFailures
    /\ searching' = [searching EXCEPT ![c] = "idle"]
    /\ breaker' = Failed(Entry)
    /\ present' = TRUE
    /\ UNCHANGED <<engine, writer, healthy, probes>>

\* The caller of search goes away and its future is dropped at an await: the
\* breaker hears nothing.
Cancel(c) ==
    /\ searching[c] # "idle"
    /\ searching' = [searching EXCEPT ![c] = "idle"]
    /\ UNCHANGED <<engine, breaker, present, writer, healthy, probes>>

-----------------------------------------------------------------------------
(* register, register_default, unregister: two locks, one after the other *)

Register ==
    /\ Churn /\ writer = "none"
    /\ engine' = TRUE
    /\ writer' = "registering"
    /\ UNCHANGED <<breaker, present, searching, healthy, probes>>

\* register_default takes the locks in the other order.
RegisterDefault ==
    /\ Churn /\ writer = "none"
    /\ breaker' = NewBreaker
    /\ present' = TRUE
    /\ probes' = 0
    /\ writer' = "defaulting"
    /\ UNCHANGED <<engine, searching, healthy>>

Unregister ==
    /\ Churn /\ writer = "none"
    /\ engine' = FALSE
    /\ writer' = "unregistering"
    /\ UNCHANGED <<breaker, present, searching, healthy, probes>>

\* The second lock: the breaker is replaced or removed, or the engine entered.
FinishWriter ==
    /\ writer # "none"
    /\ writer' = "none"
    /\ IF writer = "defaulting"
       THEN engine' = TRUE /\ UNCHANGED <<breaker, present, probes>>
       ELSE /\ breaker' = NewBreaker
            /\ present' = (writer = "registering")
            /\ probes' = 0
            /\ UNCHANGED engine
    /\ UNCHANGED <<searching, healthy>>

-----------------------------------------------------------------------------
(* The engine and the clock *)

Cool ==
    /\ present /\ breaker.state # "Closed" /\ ~breaker.cooled
    /\ breaker' = [breaker EXCEPT !.cooled = TRUE]
    /\ probes' = 0
    /\ UNCHANGED <<engine, present, writer, searching, healthy>>

Flip ==
    /\ healthy' = ~healthy
    /\ UNCHANGED <<engine, breaker, present, writer, searching, probes>>

Search(c) == Find(c) \/ Allow(c) \/ Success(c) \/ Failure(c)

RegistryNext ==
    \/ \E c \in Callers : Search(c) \/ Cancel(c)
    \/ Register \/ RegisterDefault \/ Unregister \/ FinishWriter
    \/ Cool \/ Flip

RegistrySpec == RegistryInit /\ [][RegistryNext]_registry_vars

\* Searches keep coming and are not all cancelled; time passes.
Fairness ==
    /\ WF_registry_vars(Cool)
    /\ WF_registry_vars(FinishWriter)
    /\ \A c \in Callers :
          WF_registry_vars(Find(c)) /\ SF_registry_vars(Allow(c)) /\ SF_registry_vars(Success(c))

FairSpec == RegistrySpec /\ Fairness

-----------------------------------------------------------------------------
(* Properties. *)

\* The circuit is closed exactly while the failures in a row are fewer than the
\* threshold, whichever searches reported them, in whatever order their results
\* came in, and however the engine was registered again in between.
OpenIffFailing ==
    present => (breaker.state = "Closed" <=> breaker.failures < FailureThreshold)

\* An engine that is failing is probed at most twice per cooldown: once by the
\* search that half-opens the circuit and once by the one after it.
ProbesBounded == present => probes <= 2

\* An engine that stays registered and answers again is used again: a circuit
\* never stays open for good, not even when the probing search is cancelled.
Recovers == <>[](healthy /\ engine /\ writer = "none") => []<>(breaker.state = "Closed")
=============================================================================
