---------------------------- MODULE OutboxProofs ----------------------------
(***************************************************************************)
(* Proofs about Outbox, for any number of workers, any batch size, any     *)
(* retry limit and any submissions, with database faults and crashes.      *)
(***************************************************************************)
EXTENDS Outbox, SequenceTheorems, TLAPS

\* Where a worker stands determines what it holds: it works on a row of its
\* batch, and it polls or stops with an empty batch.
Control ==
    \A w \in Workers :
        /\ pc[w] \in {"invalidate", "mark", "fail"} => cur[w] \in batch[w]
        /\ pc[w] \in {"poll", "next", "stopped"} => cur[w] = 0
        /\ pc[w] \in {"poll", "stopped"} => batch[w] = {}

\* Every row belongs to the lineage of a row enqueued by a producer.
RootsClosed ==
    \A e \in Ids : /\ events[e].root \in Ids
                   /\ events[events[e].root].root = events[e].root

DeliveredRoots == delivered \subseteq Roots

IInv ==
    /\ TypeOK
    /\ Control
    /\ RootsClosed
    /\ DeliveredRoots
    /\ SingleHolder
    /\ LineageLinear
    /\ SettledOnce

-----------------------------------------------------------------------------
(* Sequences. *)

\* The length, the indices and the elements of a sequence.
LEMMA DomainLen ==
    ASSUME NEW S, NEW s \in Seq(S)
    PROVE  /\ Len(s) \in Nat
           /\ DOMAIN s = 1..Len(s)
           /\ \A i \in DOMAIN s : s[i] \in S
  OBVIOUS

\* Appending adds one index, with the new element, and keeps the rest.
LEMMA AppendFacts ==
    ASSUME NEW S, NEW s \in Seq(S), NEW x \in S
    PROVE  /\ Append(s, x) \in Seq(S)
           /\ Len(s) + 1 \in Nat \ {0}
           /\ Len(s) + 1 \notin DOMAIN s
           /\ \A i \in DOMAIN s : i < Len(s) + 1
           /\ DOMAIN Append(s, x) = DOMAIN s \cup {Len(s) + 1}
           /\ \A i \in DOMAIN s : Append(s, x)[i] = s[i]
           /\ Append(s, x)[Len(s) + 1] = x
  OBVIOUS

\* The invalidations computed for an event form a sequence of actions.
LEMMA ActionsInSeq ==
    ASSUME NEW type \in EventTypes
    PROVE  InvalidationActions(type) \in Seq(Actions)
<1>1. \A a, b \in Actions : /\ <<>> \in Seq(Actions)
                            /\ <<a>> \in Seq(Actions)
                            /\ <<a, b>> \in Seq(Actions)
  OBVIOUS
<1>2. {"InvalidateUserContext", "InvalidateUserPattern",
       "InvalidateTaskContext", "InvalidatePermissions",
       "InvalidateTenantPattern"} \subseteq Actions
  BY DEF Actions
<1>3. InvalidationActions(type) \in
          {<<>>, <<"InvalidateUserContext">>,
           <<"InvalidateUserContext", "InvalidateUserPattern">>,
           <<"InvalidateTaskContext">>, <<"InvalidatePermissions">>,
           <<"InvalidateTenantPattern">>}
  BY DEF InvalidationActions
<1> QED
  BY <1>1, <1>2, <1>3

\* map_row_to_outbox_event yields an event type whatever it reads.
LEMMA ReadBackType ==
    ASSUME NEW type \in EventTypes
    PROVE  ReadBack(type) \in EventTypes
  BY DEF ReadBack, EventTypes

-----------------------------------------------------------------------------
(* The inductive invariant. *)

\* The empty table satisfies the inductive invariant.
LEMMA InitIInv == Init => IInv
<1> SUFFICES ASSUME Init PROVE IInv
  OBVIOUS
<1>1. Ids = {} /\ events \in Seq(Event)
  BY DEF Init, Ids
<1>2. TypeOK
  <2>1. todo \in [Workers -> Seq(Actions)]
    BY DEF Init
  <2>2. /\ batch \in [Workers -> SUBSET Ids]
        /\ cur \in [Workers -> Ids \cup {0}]
    BY DEF Init
  <2>3. pc \in [Workers -> {"poll", "next", "invalidate", "mark", "fail",
                            "stopped"}]
    BY DEF Init
  <2> QED
    BY <1>1, <2>1, <2>2, <2>3 DEF Init, TypeOK
<1>3. Control /\ RootsClosed /\ DeliveredRoots
  BY <1>1 DEF Init, Control, RootsClosed, DeliveredRoots
<1>4. SingleHolder /\ LineageLinear /\ SettledOnce
  BY <1>1 DEF Init, SingleHolder, LineageLinear, SettledOnce, Dead
<1> QED
  BY <1>2, <1>3, <1>4 DEF IInv

\* Facts of every state of the invariant that the steps below share.
LEMMA RowFacts ==
    ASSUME IInv
    PROVE  /\ Len(events) \in Nat
           /\ Ids = 1..Len(events)
           /\ \A e \in Ids : events[e] \in Event
           /\ Dead \subseteq Ids
           /\ delivered \subseteq Ids
<1>1. events \in Seq(Event)
  BY DEF IInv, TypeOK
<1>2. Len(events) \in Nat /\ Ids = 1..Len(events) /\ \A e \in Ids : events[e] \in Event
  BY <1>1, DomainLen DEF Ids
<1>3. Dead \subseteq Ids
  BY DEF IInv, RootsClosed, Dead
<1> QED
  BY <1>2, <1>3 DEF IInv, TypeOK

\* A producer's enqueue preserves the invariant.
LEMMA SubmitInv ==
    ASSUME IInv, NEW s \in Submissions, Submit(s)
    PROVE  IInv'
<1> DEFINE n == Len(events) + 1
           row == [type |-> s.type, fields |-> s.fields, retry |-> 0,
                   status |-> "pending", root |-> n]
<1>1. /\ Ids = 1..Len(events) /\ Len(events) \in Nat
      /\ \A e \in Ids : events[e] \in Event
      /\ Dead \subseteq Ids /\ delivered \subseteq Ids
  BY RowFacts
<1>2. row \in Event
  BY <1>1, OutboxAssumption DEF Event, Status
<1>3. events' = Append(events, row) /\ events \in Seq(Event)
  BY DEF Submit, IInv, TypeOK
<1>4. /\ events' \in Seq(Event)
      /\ Ids' = Ids \cup {n} /\ n \notin Ids /\ n \in Nat
      /\ \A e \in Ids : events'[e] = events[e] /\ e < n
      /\ events'[n] = row
  BY <1>1, <1>2, <1>3, AppendFacts DEF Ids
<1> HIDE DEF n
<1>5. UNCHANGED <<pc, batch, cur, todo, shutdown, delivered, stranded>>
  BY DEF Submit
<1>6. TypeOK'
  <2>1. AffectedKeys(s.type) \subseteq Keys
    BY DEF AffectedKeys, Keys
  <2>2. stale' \subseteq Keys
    BY <2>1 DEF Submit, IInv, TypeOK
  <2> QED
    BY <1>4, <1>5, <2>2 DEF IInv, TypeOK
<1>7. Control'
  BY <1>5 DEF IInv, Control
<1>8. RootsClosed'
  BY <1>4 DEF IInv, RootsClosed
<1>9. DeliveredRoots'
  BY <1>4, <1>5 DEF IInv, DeliveredRoots, Roots
<1>10. SingleHolder'
  <2>1. {e \in Ids' : events'[e].status = "processing"}
          = {e \in Ids : events[e].status = "processing"}
    BY <1>4
  <2>2. \A w \in Workers : batch[w] \subseteq Ids
    BY DEF IInv, TypeOK
  <2> QED
    BY <1>4, <1>5, <2>1, <2>2 DEF IInv, SingleHolder
<1>11. \A e \in Ids : Active(e)' <=> Active(e)
  BY <1>4, <1>5 DEF Active
<1>12. LineageLinear'
  <2> SUFFICES ASSUME NEW e \in Ids'
               PROVE  /\ events'[e].retry <= MaxRetries
                      /\ \A f \in Ids' :
                            e < f /\ events'[e].root = events'[f].root
                              => events'[e].retry < events'[f].retry /\ ~Active(e)'
    BY DEF LineageLinear
  <2>1. CASE e = n
    <3>1. \A f \in Ids' : ~(n < f)
      BY <1>1, <1>4
    <3> QED
      BY <2>1, <3>1, <1>4, OutboxAssumption
  <2>2. CASE e \in Ids
    <3>1. events'[e].root # events'[n].root
      BY <2>2, <1>4 DEF IInv, RootsClosed
    <3> QED
      BY <2>2, <3>1, <1>4, <1>11 DEF IInv, LineageLinear
  <2> QED
    BY <1>4, <2>1, <2>2
<1>13. SettledOnce'
  <2>1. Dead' = Dead
    BY <1>4 DEF Dead
  <2>2. n \notin delivered \cup Dead
    BY <1>1, <1>4
  <2> QED
    BY <1>4, <1>5, <1>11, <2>1, <2>2 DEF IInv, SettledOnce
<1> QED
  BY <1>6, <1>7, <1>8, <1>9, <1>10, <1>12, <1>13 DEF IInv

\* A step that changes neither the rows nor what any worker holds, and
\* delivers nothing, preserves the invariant.
LEMMA QuietInv ==
    ASSUME IInv, TypeOK',
           UNCHANGED <<events, pc, batch, cur, delivered, stranded>>
    PROVE  IInv'
<1>1. \A e : Active(e)' <=> Active(e)
  BY DEF Active
<1>2. Ids' = Ids /\ Dead' = Dead /\ Roots' = Roots
  BY DEF Ids, Dead, Roots
<1>3. Control' /\ RootsClosed' /\ DeliveredRoots'
  BY <1>2 DEF IInv, Control, RootsClosed, DeliveredRoots
<1>4. SingleHolder' /\ LineageLinear' /\ SettledOnce'
  BY <1>1, <1>2 DEF IInv, SingleHolder, LineageLinear, SettledOnce
<1> QED
  BY <1>3, <1>4 DEF IInv

\* A worker that moves on within its loop, with no row changed, only makes
\* rows inactive: the invariant is preserved when the control is.
LEMMA HoldInv ==
    ASSUME IInv, TypeOK', Control',
           UNCHANGED <<events, batch, delivered, stranded>>,
           \A e \in Ids : Active(e)' => Active(e)
    PROVE  IInv'
<1>1. Ids' = Ids /\ Dead' = Dead /\ Roots' = Roots
  BY DEF Ids, Dead, Roots
<1>2. RootsClosed' /\ DeliveredRoots'
  BY <1>1 DEF IInv, RootsClosed, DeliveredRoots
<1>3. SingleHolder'
  BY <1>1 DEF IInv, SingleHolder
<1>4. LineageLinear' /\ SettledOnce'
  BY <1>1 DEF IInv, LineageLinear, SettledOnce
<1> QED
  BY <1>2, <1>3, <1>4 DEF IInv

\* Redis expiry and the shutdown signal touch no row and no worker.
LEMMA EnvironmentInv ==
    ASSUME IInv, Shutdown \/ \E k \in Keys : Expire(k)
    PROVE  IInv'
<1>1. UNCHANGED <<events, pc, batch, cur, delivered, stranded>>
  BY DEF Shutdown, Expire
<1>2. TypeOK'
  BY DEF IInv, TypeOK, Shutdown, Expire, Ids
<1> QED
  BY <1>1, <1>2, QuietInv

\* Stopping preserves the invariant.
LEMMA StopInv ==
    ASSUME IInv, NEW w \in Workers, Stop(w)
    PROVE  IInv'
<1>1. TypeOK'
  BY DEF IInv, TypeOK, Stop, Ids
<1>2. Control'
  BY DEF IInv, TypeOK, Control, Stop
<1>3. \A e \in Ids : Active(e)' => Active(e)
  BY DEF IInv, TypeOK, Control, Stop, Active
<1>4. UNCHANGED <<events, batch, delivered, stranded>>
  BY DEF Stop
<1> QED
  BY <1>1, <1>2, <1>3, <1>4, HoldInv

\* The dispatch preserves the invariant.
LEMMA ProcessEventInv ==
    ASSUME IInv, NEW w \in Workers, NEW e \in batch[w], ProcessEvent(w, e)
    PROVE  IInv'
<1>1. e \in Ids /\ events[e].type \in EventTypes
  BY RowFacts DEF IInv, TypeOK, Event
<1>2. TypeOK'
  <2>1. todo' \in [Workers -> Seq(Actions)]
    <3>1. InvalidationActions(ReadBack(events[e].type)) \in Seq(Actions)
      BY <1>1, ReadBackType, ActionsInSeq
    <3> QED
      BY <3>1 DEF IInv, TypeOK, ProcessEvent
  <2>2. pc' \in [Workers -> {"poll", "next", "invalidate", "mark", "fail",
                             "stopped"}]
    BY DEF IInv, TypeOK, ProcessEvent
  <2>3. cur' \in [Workers -> Ids \cup {0}]
    BY <1>1 DEF IInv, TypeOK, ProcessEvent
  <2> QED
    BY <2>1, <2>2, <2>3 DEF IInv, TypeOK, ProcessEvent, Ids
<1>3. /\ \A v \in Workers : v # w => pc'[v] = pc[v] /\ cur'[v] = cur[v]
      /\ pc'[w] \in {"invalidate", "fail"} /\ cur'[w] = e
      /\ pc[w] = "next"
  BY DEF IInv, TypeOK, ProcessEvent
<1>4. UNCHANGED <<events, batch, delivered, stranded>>
  BY DEF ProcessEvent
<1>5. Control'
  BY <1>3, <1>4 DEF IInv, Control
<1>6. \A f \in Ids : Active(f)' => Active(f)
  BY <1>3, <1>4 DEF Active
<1> QED
  BY <1>2, <1>4, <1>5, <1>6, HoldInv

\* A Redis delete, performed, skipped or failed, preserves the invariant.
LEMMA InvalidateInv ==
    ASSUME IInv, NEW w \in Workers, Invalidate(w)
    PROVE  IInv'
<1>1. TypeOK'
  <2>1. todo[w] \in Seq(Actions) /\ todo[w] # <<>>
    BY DEF IInv, TypeOK, Invalidate
  <2>2. Tail(todo[w]) \in Seq(Actions) /\ <<>> \in Seq(Actions)
    BY <2>1
  <2>3. todo' \in [Workers -> Seq(Actions)]
    BY <2>2 DEF IInv, TypeOK, Invalidate
  <2>4. pc' \in [Workers -> {"poll", "next", "invalidate", "mark", "fail",
                             "stopped"}]
    BY DEF IInv, TypeOK, Invalidate
  <2> QED
    BY <2>3, <2>4 DEF IInv, TypeOK, Invalidate, Ids
<1>2. /\ \A v \in Workers : v # w => pc'[v] = pc[v]
      /\ pc'[w] \in {"invalidate", "fail"} /\ pc[w] = "invalidate"
  BY DEF IInv, TypeOK, Invalidate
<1>3. UNCHANGED <<events, batch, cur, delivered, stranded>>
  BY DEF Invalidate
<1>4. Control'
  BY <1>2, <1>3 DEF IInv, Control
<1>5. \A f \in Ids : Active(f)' => Active(f)
  BY <1>2, <1>3 DEF Active
<1> QED
  BY <1>1, <1>3, <1>4, <1>5, HoldInv

\* The row a worker is dispatching or failing is the newest of its lineage,
\* nobody else holds it, and its lineage is not settled.
LEMMA Newest ==
    ASSUME IInv, NEW w \in Workers, pc[w] \in {"invalidate", "fail"}
    PROVE  /\ cur[w] \in Ids /\ cur[w] \in batch[w]
           /\ events[cur[w]].status = "processing"
           /\ Active(cur[w])
           /\ \A v \in Workers : v # w => cur[w] \notin batch[v]
           /\ \A f \in Ids : events[f].root = events[cur[w]].root /\ f # cur[w]
                  => f < cur[w] /\ ~Active(f)
                                /\ events[f].retry < events[cur[w]].retry
           /\ events[cur[w]].root \notin delivered \cup Dead
<1> DEFINE c == cur[w]
<1>1. c \in batch[w] /\ c \in Ids
  BY DEF IInv, TypeOK, Control
<1>2. events[c].status = "processing" /\ \A v \in Workers : v # w => c \notin batch[v]
  BY <1>1 DEF IInv, SingleHolder
<1>3. Active(c)
  BY <1>1 DEF Active
<1>4. ASSUME NEW f \in Ids, events[f].root = events[c].root, f # c
      PROVE  f < c /\ ~Active(f) /\ events[f].retry < events[c].retry
  <2>1. f < c \/ c < f
    BY <1>1, <1>4, RowFacts
  <2>2. ~(c < f)
    BY <1>1, <1>3, <1>4 DEF IInv, LineageLinear
  <2> QED
    BY <1>1, <1>4, <2>1, <2>2 DEF IInv, LineageLinear
<1>5. events[c].root \notin delivered \cup Dead
  BY <1>1, <1>3 DEF IInv, SettledOnce
<1> QED
  BY <1>1, <1>2, <1>3, <1>4, <1>5

\* Having performed every action settles the lineage: no row of it stays
\* active.
LEMMA PerformedInv ==
    ASSUME IInv, NEW w \in Workers, Performed(w)
    PROVE  IInv'
<1> DEFINE c == cur[w]
           r == events[c].root
<1>1. pc[w] = "invalidate"
  BY DEF Performed
<1>2. /\ c \in Ids /\ c \in batch[w]
      /\ events[c].status = "processing"
      /\ \A v \in Workers : v # w => c \notin batch[v]
      /\ \A f \in Ids : events[f].root = r /\ f # c => ~Active(f)
      /\ r \notin Dead
  BY <1>1, Newest
<1>3. /\ UNCHANGED <<events, batch, cur, todo, shutdown, stale, stranded>>
      /\ delivered' = delivered \cup {r}
      /\ \A v \in Workers : v # w => pc'[v] = pc[v]
      /\ pc'[w] = "mark"
  BY DEF Performed, IInv, TypeOK
<1>4. r \in Roots
  BY <1>2 DEF IInv, RootsClosed, Roots
<1> HIDE DEF r
<1>5. Ids' = Ids /\ Dead' = Dead /\ Roots' = Roots
  BY <1>3 DEF Ids, Dead, Roots
<1>6. TypeOK'
  <2>1. pc' \in [Workers -> {"poll", "next", "invalidate", "mark", "fail",
                             "stopped"}]
    BY DEF IInv, TypeOK, Performed
  <2> QED
    BY <1>3, <1>4, <1>5, <2>1 DEF IInv, TypeOK, Roots
<1>7. Control'
  BY <1>1, <1>3 DEF IInv, Control
<1>8. RootsClosed' /\ DeliveredRoots'
  BY <1>3, <1>4, <1>5 DEF IInv, RootsClosed, DeliveredRoots
<1>9. SingleHolder'
  BY <1>3, <1>5 DEF IInv, SingleHolder
<1>10. \A f \in Ids : Active(f)' => Active(f)
  BY <1>1, <1>3 DEF Active
<1>11. \A f \in Ids : f = c => ~Active(f)'
  BY <1>2, <1>3 DEF Active
<1>12. LineageLinear'
  BY <1>3, <1>5, <1>10 DEF IInv, LineageLinear
<1>13. SettledOnce'
  <2>1. \A f \in Ids : events[f].root = r => ~Active(f)'
    BY <1>2, <1>10, <1>11
  <2> QED
    BY <1>2, <1>3, <1>5, <1>10, <2>1 DEF IInv, SettledOnce
<1> QED
  BY <1>6, <1>7, <1>8, <1>9, <1>12, <1>13 DEF IInv

\* The retry row takes over from the row it retries.
LEMMA ReenqueueInv ==
    ASSUME IInv, NEW w \in Workers, Reenqueue(w)
    PROVE  IInv'
<1> DEFINE c == cur[w]
           n == Len(events) + 1
           row == [type |-> ReadBack(events[c].type),
                   fields |-> events[c].fields,
                   retry |-> events[c].retry + 1, status |-> "pending",
                   root |-> events[c].root]
<1>1. pc[w] = "fail" /\ events[c].retry < MaxRetries
  BY DEF Reenqueue
<1>2. /\ c \in Ids /\ c \in batch[w]
      /\ events[c].status = "processing"
      /\ \A v \in Workers : v # w => c \notin batch[v]
      /\ \A f \in Ids : events[f].root = events[c].root /\ f # c
            => ~Active(f) /\ events[f].retry < events[c].retry
      /\ events[c].root \notin delivered \cup Dead
  BY <1>1, Newest
<1>3. /\ Ids = 1..Len(events) /\ Len(events) \in Nat
      /\ \A e \in Ids : events[e] \in Event
  BY RowFacts
<1>4. row \in Event
  BY <1>2, <1>3, ReadBackType DEF Event, Status
<1>5. events' = Append(events, row) /\ events \in Seq(Event)
  BY DEF Reenqueue, IInv, TypeOK
<1>6. /\ events' \in Seq(Event)
      /\ Ids' = Ids \cup {n} /\ n \notin Ids /\ n \in Nat
      /\ \A e \in Ids : events'[e] = events[e] /\ e < n
      /\ events'[n] = row
  BY <1>3, <1>4, <1>5, AppendFacts DEF Ids
<1> HIDE DEF n
<1>7. /\ UNCHANGED <<batch, cur, todo, shutdown, stale, delivered, stranded>>
      /\ \A v \in Workers : v # w => pc'[v] = pc[v]
      /\ pc'[w] = "mark"
  BY DEF Reenqueue, IInv, TypeOK
<1>8. TypeOK'
  <2>1. pc' \in [Workers -> {"poll", "next", "invalidate", "mark", "fail",
                             "stopped"}]
    BY DEF IInv, TypeOK, Reenqueue
  <2> QED
    BY <1>6, <1>7, <2>1 DEF IInv, TypeOK
<1>9. Control'
  BY <1>1, <1>7 DEF IInv, Control
<1>10. RootsClosed'
  BY <1>2, <1>6 DEF IInv, RootsClosed
<1>11. DeliveredRoots'
  BY <1>6, <1>7 DEF IInv, DeliveredRoots, Roots
<1>12. SingleHolder'
  <2>1. {e \in Ids' : events'[e].status = "processing"}
          = {e \in Ids : events[e].status = "processing"}
    BY <1>6
  <2>2. \A v \in Workers : batch[v] \subseteq Ids
    BY DEF IInv, TypeOK
  <2> QED
    BY <1>6, <1>7, <2>1, <2>2 DEF IInv, SingleHolder
<1>13. \A f \in Ids : Active(f)' => Active(f)
  BY <1>1, <1>6, <1>7 DEF Active
<1>14. \A f \in Ids : f = c => ~Active(f)'
  BY <1>2, <1>6, <1>7 DEF Active
<1>15. LineageLinear'
  <2> SUFFICES ASSUME NEW e \in Ids'
               PROVE  /\ events'[e].retry <= MaxRetries
                      /\ \A f \in Ids' :
                            e < f /\ events'[e].root = events'[f].root
                              => events'[e].retry < events'[f].retry /\ ~Active(e)'
    BY DEF LineageLinear
  <2>0. MaxRetries \in Nat /\ \A f \in Ids : events[f].retry \in Nat
    BY <1>3, OutboxAssumption DEF Event
  <2>1. CASE e = n
    <3>1. \A f \in Ids' : ~(n < f)
      BY <1>3, <1>6
    <3>2. events'[n].retry <= MaxRetries
      BY <1>1, <1>2, <1>6, <2>0
    <3> QED
      BY <2>1, <3>1, <3>2
  <2>2. CASE e \in Ids
    <3>1. events'[e].root = events'[n].root
             => events'[e].retry < events'[n].retry /\ ~Active(e)'
      BY <2>0, <2>2, <1>2, <1>6, <1>13, <1>14
    <3>2. \A f \in Ids : e < f /\ events'[e].root = events'[f].root
             => events'[e].retry < events'[f].retry /\ ~Active(e)'
      BY <2>2, <1>6, <1>13 DEF IInv, LineageLinear
    <3>3. events'[e].retry <= MaxRetries
      BY <2>2, <1>6 DEF IInv, LineageLinear
    <3> QED
      BY <1>6, <3>1, <3>2, <3>3
  <2> QED
    BY <1>6, <2>1, <2>2
<1>16. SettledOnce'
  <2>1. Dead' = Dead
    BY <1>6 DEF Dead
  <2> QED
    BY <1>2, <1>6, <1>7, <1>13, <2>1 DEF IInv, SettledOnce
<1> QED
  BY <1>8, <1>9, <1>10, <1>11, <1>12, <1>15, <1>16 DEF IInv

\* Claiming a batch moves pending rows into the hands of one worker: the
\* same rows are active before and after.
LEMMA DequeueInv ==
    ASSUME IInv, NEW w \in Workers, Dequeue(w)
    PROVE  IInv'
<1> DEFINE claimed == Oldest(Pending)
<1>1. /\ Ids = 1..Len(events) /\ Len(events) \in Nat
      /\ \A e \in Ids : events[e] \in Event
  BY RowFacts
<1>2. claimed \subseteq Ids /\ \A e \in claimed : events[e].status = "pending"
  BY DEF Oldest, Pending
<1>3. /\ pc[w] = "poll"
      /\ events' = [e \in Ids |->
                       IF e \in claimed
                       THEN [events[e] EXCEPT !.status = "processing"]
                       ELSE events[e]]
      /\ batch' = [batch EXCEPT ![w] = claimed]
      /\ pc' = [pc EXCEPT ![w] = "next"]
      /\ UNCHANGED <<cur, todo, shutdown, stale, delivered, stranded>>
  BY DEF Dequeue
<1> HIDE DEF claimed
<1>4. \A e \in Ids : /\ events'[e] \in Event
                     /\ events'[e].root = events[e].root
                     /\ events'[e].retry = events[e].retry
                     /\ e \in claimed => events'[e].status = "processing"
                     /\ e \notin claimed => events'[e] = events[e]
  BY <1>1, <1>3 DEF Event, Status
<1>5. Ids' = Ids
  BY <1>3 DEF Ids
<1>6. events' \in Seq(Event)
  <2>1. events' = [e \in 1..Len(events) |-> events'[e]]
    BY <1>1, <1>3
  <2>2. \A e \in 1..Len(events) : events'[e] \in Event
    BY <1>1, <1>4
  <2> QED
    BY <1>1, <2>1, <2>2
<1>7. /\ \A v \in Workers : v # w => pc'[v] = pc[v] /\ batch'[v] = batch[v]
      /\ pc'[w] = "next" /\ batch'[w] = claimed
      /\ batch[w] = {} /\ cur[w] = 0
  BY <1>3 DEF IInv, TypeOK, Control
<1>8. TypeOK'
  <2>1. pc' \in [Workers -> {"poll", "next", "invalidate", "mark", "fail",
                             "stopped"}]
    BY <1>3 DEF IInv, TypeOK
  <2>2. batch' \in [Workers -> SUBSET Ids]
    BY <1>2, <1>3 DEF IInv, TypeOK
  <2> QED
    BY <1>3, <1>5, <1>6, <2>1, <2>2 DEF IInv, TypeOK
<1>9. Control'
  BY <1>3, <1>7 DEF IInv, Control
<1>10. RootsClosed' /\ DeliveredRoots'
  <2>1. RootsClosed'
    BY <1>4, <1>5 DEF IInv, RootsClosed
  <2> QED
    BY <1>3, <1>4, <1>5, <2>1 DEF IInv, DeliveredRoots, Roots
<1>11. SingleHolder'
  <2>1. \A v \in Workers : v # w => batch[v] \cap claimed = {}
    BY <1>2 DEF IInv, SingleHolder
  <2>2. \A v1, v2 \in Workers : v1 # v2 => batch'[v1] \cap batch'[v2] = {}
    BY <1>7, <2>1 DEF IInv, SingleHolder
  <2>3. \A v \in Workers : \A e \in batch'[v] : events'[e].status = "processing"
    <3> SUFFICES ASSUME NEW v \in Workers, NEW e \in batch'[v]
                 PROVE  events'[e].status = "processing"
      OBVIOUS
    <3>1. CASE v = w
      BY <1>2, <1>4, <1>7, <3>1
    <3>2. CASE v # w
      <4>1. e \in batch[v] /\ e \in Ids /\ e \notin claimed
        BY <1>7, <2>1, <3>2 DEF IInv, TypeOK
      <4> QED
        BY <1>4, <4>1 DEF IInv, SingleHolder
    <3> QED
      BY <3>1, <3>2
  <2>4. ASSUME NEW e \in Ids, events'[e].status = "processing"
        PROVE  e \in stranded \cup UNION {batch'[v] : v \in Workers}
    <3>1. CASE e \in claimed
      BY <1>7, <3>1
    <3>2. CASE e \notin claimed
      <4>1. e \in stranded \/ \E v \in Workers : e \in batch[v]
        BY <1>4, <2>4, <3>2 DEF IInv, SingleHolder
      <4> QED
        BY <1>7, <4>1
    <3> QED
      BY <3>1, <3>2
  <2> QED
    BY <1>3, <1>5, <2>2, <2>3, <2>4 DEF SingleHolder
<1>12. \A e \in Ids : Active(e)' => Active(e)
  <2> SUFFICES ASSUME NEW e \in Ids, Active(e)' PROVE Active(e)
    OBVIOUS
  <2>1. CASE e \in claimed
    BY <1>2, <2>1 DEF Active
  <2>2. CASE e \notin claimed
    BY <1>3, <1>4, <1>7, <2>2 DEF Active
  <2> QED
    BY <2>1, <2>2
<1>13. Dead' = Dead
  <2>1. \A e \in Ids : events'[e].status = "failed" <=> events[e].status = "failed"
    BY <1>2, <1>4
  <2> QED
    BY <1>4, <1>5, <2>1 DEF Dead
<1>14. LineageLinear'
  BY <1>4, <1>5, <1>12 DEF IInv, LineageLinear
<1>15. SettledOnce'
  BY <1>3, <1>4, <1>5, <1>12, <1>13 DEF IInv, SettledOnce
<1> QED
  BY <1>8, <1>9, <1>10, <1>11, <1>14, <1>15 DEF IInv

\* A worker lets go of rows of its batch, and keeps the others: whether the
\* rows are marked or left behind, the invariant is preserved. A row is
\* dead-lettered only from handle_failure.
LEMMA ReleaseInv ==
    ASSUME IInv, NEW w \in Workers, NEW rest \in SUBSET batch[w],
           FinishRow(w, rest), pc[w] # "stopped",
           cur[w] \notin rest,
           Ids' = Ids, events' \in Seq(Event),
           stranded' \in SUBSET Ids, stranded \subseteq stranded',
           \A e \in Ids \ (batch[w] \ rest) : events'[e] = events[e],
           \A e \in batch[w] \ rest :
               /\ events'[e].root = events[e].root
               /\ events'[e].retry = events[e].retry
               /\ events'[e].status # "pending"
               /\ events'[e].status = "processing" => e \in stranded'
               /\ events'[e].status = "failed" => e = cur[w] /\ pc[w] = "fail",
           UNCHANGED <<shutdown, stale, delivered>>
    PROVE  IInv'
<1>1. \A v \in Workers : batch[v] \subseteq Ids
  BY DEF IInv, TypeOK
<1>2. /\ \A v \in Workers : v # w => /\ pc'[v] = pc[v] /\ batch'[v] = batch[v]
                                    /\ cur'[v] = cur[v]
      /\ batch'[w] = rest /\ cur'[w] = 0
      /\ pc'[w] = IF rest = {} THEN "poll" ELSE "next"
  BY DEF FinishRow, IInv, TypeOK
<1>3. \A e \in Ids : /\ events'[e].root = events[e].root
                     /\ events'[e].retry = events[e].retry
  BY <1>1
<1>4. TypeOK'
  <2>1. pc' \in [Workers -> {"poll", "next", "invalidate", "mark", "fail",
                             "stopped"}]
    BY DEF FinishRow, IInv, TypeOK
  <2>2. batch' \in [Workers -> SUBSET Ids]
    BY <1>1 DEF FinishRow, IInv, TypeOK
  <2>3. cur' \in [Workers -> Ids \cup {0}]
    BY DEF FinishRow, IInv, TypeOK
  <2>4. todo' \in [Workers -> Seq(Actions)]
    <3>1. <<>> \in Seq(Actions)
      OBVIOUS
    <3> QED
      BY <3>1 DEF FinishRow, IInv, TypeOK
  <2> QED
    BY <2>1, <2>2, <2>3, <2>4 DEF IInv, TypeOK
<1>5. Control'
  BY <1>2 DEF IInv, Control
<1>6. RootsClosed' /\ DeliveredRoots'
  <2>1. RootsClosed'
    BY <1>3 DEF IInv, RootsClosed
  <2> QED
    BY <1>3, <2>1 DEF IInv, DeliveredRoots, Roots
<1>7. SingleHolder'
  <2>1. \A v1, v2 \in Workers : v1 # v2 => batch'[v1] \cap batch'[v2] = {}
    BY <1>2 DEF IInv, SingleHolder
  <2>2. \A v \in Workers : \A e \in batch'[v] :
            e \in batch[v] /\ e \in Ids /\ e \notin batch[w] \ rest
    BY <1>1, <1>2 DEF IInv, SingleHolder
  <2>3. \A v \in Workers : \A e \in batch'[v] : events'[e].status = "processing"
    BY <2>2 DEF IInv, SingleHolder
  <2>4. ASSUME NEW e \in Ids, events'[e].status = "processing"
        PROVE  e \in stranded' \cup UNION {batch'[v] : v \in Workers}
    <3>1. CASE e \in batch[w] \ rest
      BY <2>4, <3>1
    <3>2. CASE e \notin batch[w] \ rest
      <4>1. e \in stranded \/ \E v \in Workers : e \in batch[v]
        BY <2>4, <3>2 DEF IInv, SingleHolder
      <4>2. e \in stranded' \/ \E v \in Workers : e \in batch'[v]
        BY <1>2, <3>2, <4>1
      <4> QED
        BY <4>2
    <3> QED
      BY <3>1, <3>2
  <2> QED
    BY <2>1, <2>3, <2>4 DEF SingleHolder
<1>8. \A e \in Ids : Active(e)' => Active(e) /\ e \notin batch[w] \ rest
  <2> SUFFICES ASSUME NEW e \in Ids, Active(e)'
               PROVE  Active(e) /\ e \notin batch[w] \ rest
    OBVIOUS
  <2>1. CASE events'[e].status = "pending"
    BY <2>1 DEF Active
  <2>2. CASE \E v \in Workers : e \in batch'[v] /\ ~(cur'[v] = e /\ pc'[v] = "mark")
    <3>1. PICK v \in Workers : e \in batch'[v] /\ ~(cur'[v] = e /\ pc'[v] = "mark")
      BY <2>2
    <3>2. e \in batch[v] /\ ~(cur[v] = e /\ pc[v] = "mark")
      BY <1>2, <3>1
    <3>3. e \notin batch[w] \ rest
      BY <1>2, <3>1, <3>2 DEF IInv, SingleHolder
    <3> QED
      BY <3>2, <3>3 DEF Active
  <2> QED
    BY <2>1, <2>2 DEF Active
<1>9. LineageLinear'
  BY <1>3, <1>8 DEF IInv, LineageLinear
<1>10. SettledOnce'
  <2>1. ASSUME NEW d \in Dead'
        PROVE  /\ d \notin delivered
               /\ \A e \in Ids : events[e].root = d => ~Active(e)'
    <3>1. PICK f \in Ids : events'[f].status = "failed" /\ d = events[f].root
      BY <1>3, <2>1 DEF Dead
    <3>2. CASE f \notin batch[w] \ rest
      <4>1. d \in Dead
        BY <3>1, <3>2 DEF Dead
      <4> QED
        BY <1>8, <4>1 DEF IInv, SettledOnce
    <3>3. CASE f \in batch[w] \ rest
      <4>1. f = cur[w] /\ pc[w] = "fail"
        BY <3>1, <3>3
      <4>2. /\ d \notin delivered
            /\ \A e \in Ids : events[e].root = d /\ e # f => ~Active(e)
        BY <3>1, <4>1, Newest
      <4> QED
        BY <1>8, <3>3, <4>2
    <3> QED
      BY <3>2, <3>3
  <2> QED
    BY <1>3, <1>8, <2>1 DEF IInv, SettledOnce
<1> QED
  BY <1>4, <1>5, <1>6, <1>7, <1>9, <1>10 DEF IInv

\* mark_done and mark_failed change one row, and of it only the status.
LEMMA SetStatusFacts ==
    ASSUME IInv, NEW c \in Ids, NEW st \in Status,
           events' = SetStatus(c, st)
    PROVE  /\ events' \in Seq(Event)
           /\ Ids' = Ids
           /\ \A e \in Ids \ {c} : events'[e] = events[e]
           /\ events'[c] = [events[c] EXCEPT !.status = st]
           /\ events'[c].root = events[c].root
           /\ events'[c].retry = events[c].retry
           /\ events'[c].status = st
<1>1. /\ Ids = 1..Len(events) /\ Len(events) \in Nat
      /\ \A e \in Ids : events[e] \in Event
  BY RowFacts
<1>2. events' = [e \in Ids |-> IF e = c THEN [events[e] EXCEPT !.status = st]
                               ELSE events[e]]
  BY DEF IInv, TypeOK, SetStatus, Ids
<1>3. [events[c] EXCEPT !.status = st] \in Event
  BY <1>1 DEF Event
<1>4. \A e \in 1..Len(events) : events'[e] \in Event
  BY <1>1, <1>2, <1>3
<1>5. events' \in Seq(Event)
  <2>1. events' = [e \in 1..Len(events) |-> events'[e]]
    BY <1>1, <1>2
  <2> QED
    BY <1>1, <1>4, <2>1
<1>6. Ids' = Ids
  BY <1>2 DEF Ids
<1>7. events'[c] = [events[c] EXCEPT !.status = st]
  BY <1>2
<1>8. /\ events'[c].root = events[c].root
      /\ events'[c].retry = events[c].retry
      /\ events'[c].status = st
  BY <1>1, <1>7 DEF Event
<1> QED
  BY <1>2, <1>5, <1>6, <1>7, <1>8

\* mark_done preserves the invariant.
LEMMA MarkDoneInv ==
    ASSUME IInv, NEW w \in Workers, MarkDone(w)
    PROVE  IInv'
<1> DEFINE c == cur[w]
           rest == batch[w] \ {c}
<1>1. /\ pc[w] = "mark" /\ events' = SetStatus(c, "done")
      /\ FinishRow(w, rest)
      /\ UNCHANGED <<shutdown, stale, delivered, stranded>>
  BY DEF MarkDone
<1>2. c \in batch[w] /\ c \in Ids
  BY <1>1 DEF IInv, TypeOK, Control
<1>3. /\ events' \in Seq(Event) /\ Ids' = Ids
      /\ \A e \in Ids \ {c} : events'[e] = events[e]
      /\ events'[c].root = events[c].root
      /\ events'[c].retry = events[c].retry
      /\ events'[c].status = "done"
  BY <1>1, <1>2, SetStatusFacts DEF Status
<1>4. rest \in SUBSET batch[w] /\ batch[w] \ rest = {c} /\ stranded \subseteq Ids
  BY <1>2 DEF IInv, TypeOK
<1> QED
  BY <1>1, <1>3, <1>4, ReleaseInv

\* mark_failed preserves the invariant.
LEMMA DeadLetterInv ==
    ASSUME IInv, NEW w \in Workers, DeadLetter(w)
    PROVE  IInv'
<1> DEFINE c == cur[w]
           rest == batch[w] \ {c}
<1>1. /\ pc[w] = "fail" /\ events' = SetStatus(c, "failed")
      /\ FinishRow(w, rest)
      /\ UNCHANGED <<shutdown, stale, delivered, stranded>>
  BY DEF DeadLetter
<1>2. c \in batch[w] /\ c \in Ids
  BY <1>1 DEF IInv, TypeOK, Control
<1>3. /\ events' \in Seq(Event) /\ Ids' = Ids
      /\ \A e \in Ids \ {c} : events'[e] = events[e]
      /\ events'[c].root = events[c].root
      /\ events'[c].retry = events[c].retry
      /\ events'[c].status = "failed"
  BY <1>1, <1>2, SetStatusFacts DEF Status
<1>4. rest \in SUBSET batch[w] /\ batch[w] \ rest = {c} /\ stranded \subseteq Ids
  BY <1>2 DEF IInv, TypeOK
<1> QED
  BY <1>1, <1>3, <1>4, ReleaseInv

\* A failing statement strands the row and preserves the invariant.
LEMMA DbErrorInv ==
    ASSUME IInv, NEW w \in Workers, DbError(w)
    PROVE  IInv'
<1> DEFINE c == cur[w]
           rest == batch[w] \ {c}
<1>1. /\ pc[w] \in {"mark", "fail"} /\ stranded' = stranded \cup {c}
      /\ FinishRow(w, rest)
      /\ UNCHANGED <<events, shutdown, stale, delivered>>
  BY DEF DbError
<1>2. c \in batch[w] /\ c \in Ids
  BY <1>1 DEF IInv, TypeOK, Control
<1>3. /\ rest \in SUBSET batch[w] /\ batch[w] \ rest = {c}
      /\ stranded' \in SUBSET Ids /\ stranded \subseteq stranded'
      /\ Ids' = Ids /\ events' \in Seq(Event)
      /\ events[c].status = "processing"
  BY <1>1, <1>2 DEF IInv, TypeOK, Ids, SingleHolder
<1> QED
  BY <1>1, <1>3, ReleaseInv

\* A crash strands the batch and preserves the invariant.
LEMMA CrashInv ==
    ASSUME IInv, NEW w \in Workers, Crash(w)
    PROVE  IInv'
<1>1. /\ pc[w] # "stopped" /\ stranded' = stranded \cup batch[w]
      /\ FinishRow(w, {})
      /\ UNCHANGED <<events, shutdown, stale, delivered>>
  BY DEF Crash
<1>2. /\ {} \in SUBSET batch[w] /\ batch[w] \ {} = batch[w]
      /\ stranded' \in SUBSET Ids /\ stranded \subseteq stranded'
      /\ Ids' = Ids /\ events' \in Seq(Event)
      /\ \A e \in batch[w] : events[e].status = "processing" /\ e \in stranded'
  BY <1>1 DEF IInv, TypeOK, Ids, SingleHolder
<1> QED
  BY <1>1, <1>2, ReleaseInv

\* Every step preserves the inductive invariant.
LEMMA NextIInv == IInv /\ [Next]_vars => IInv'
<1> SUFFICES ASSUME IInv, [Next]_vars PROVE IInv'
  OBVIOUS
<1>1. CASE UNCHANGED vars
  <2>1. TypeOK'
    BY <1>1 DEF IInv, TypeOK, Ids, vars
  <2> QED
    BY <1>1, <2>1, QuietInv DEF vars
<1>2. ASSUME NEW s \in Submissions, Submit(s) PROVE IInv'
  BY <1>2, SubmitInv
<1>3. CASE Shutdown \/ \E k \in Keys : Expire(k)
  BY <1>3, EnvironmentInv
<1>4. ASSUME NEW w \in Workers, WorkerStep(w) PROVE IInv'
  BY <1>4, StopInv, DequeueInv, ProcessEventInv, InvalidateInv, PerformedInv,
     MarkDoneInv, ReenqueueInv, DeadLetterInv DEF WorkerStep
<1>5. ASSUME NEW w \in Workers, DbError(w) \/ Crash(w) PROVE IInv'
  BY <1>5, DbErrorInv, CrashInv
<1> QED
  BY <1>1, <1>2, <1>3, <1>4, <1>5 DEF Next

\* The inductive invariant holds in every reachable state of the table and its
\* workers.
THEOREM Invariance == Spec => []IInv
  BY InitIInv, NextIInv, PTL DEF Spec

-----------------------------------------------------------------------------
(* What follows from it. *)

\* The table and the workers' local state are always well formed; in
\* particular a worker only ever holds rows of the table.
THEOREM TypeCorrect == Spec => []TypeOK
<1>1. IInv => TypeOK
  BY DEF IInv
<1> QED
  BY <1>1, Invariance, PTL

\* However many workers drain the table, no row has two holders, and only a
\* fault or a crash leaves a row in 'processing' that nobody holds.
THEOREM NoDoubleProcessing == Spec => []SingleHolder
<1>1. IInv => SingleHolder
  BY DEF IInv
<1> QED
  BY <1>1, Invariance, PTL

\* Retries of one event form a chain of growing retry counts within the
\* limit, of which only the newest row can still be processed.
THEOREM RetriesFormAChain == Spec => []LineageLinear
<1>1. IInv => LineageLinear
  BY DEF IInv
<1> QED
  BY <1>1, Invariance, PTL

\* An event is never both delivered and dead-lettered, and nothing is done for
\* it once it is either.
THEOREM SettledAtMostOnce == Spec => []SettledOnce
<1>1. IInv => SettledOnce
  BY DEF IInv
<1> QED
  BY <1>1, Invariance, PTL

\* Only a claim and a mark change rows that exist, and they change rows in
\* 'pending' and in 'processing'.
LEMMA FinalRowsKept ==
    ASSUME IInv, [Next]_vars
    PROVE  \A e \in Ids : events[e].status \in {"done", "failed"}
                             => events'[e] = events[e]
<1>0. events \in Seq(Event) /\ \A e \in Ids : events[e] \in Event
  BY RowFacts DEF IInv, TypeOK
<1>1. CASE UNCHANGED vars
  BY <1>1 DEF vars
<1>2. ASSUME NEW s \in Submissions, Submit(s)
      PROVE  \A e \in Ids : events'[e] = events[e]
  BY <1>0, <1>2 DEF Submit, Ids
<1>3. CASE Shutdown \/ \E k \in Keys : Expire(k)
  BY <1>3 DEF Shutdown, Expire
<1>4. ASSUME NEW w \in Workers, Dequeue(w)
      PROVE  \A e \in Ids : events[e].status # "pending" => events'[e] = events[e]
  BY <1>4 DEF Dequeue, Oldest, Pending
<1>5. ASSUME NEW w \in Workers, Reenqueue(w)
      PROVE  \A e \in Ids : events'[e] = events[e]
  BY <1>0, <1>5 DEF Reenqueue, Ids
<1>6. ASSUME NEW w \in Workers, MarkDone(w) \/ DeadLetter(w)
      PROVE  \A e \in Ids : events[e].status # "processing"
                               => events'[e] = events[e]
  <2>1. cur[w] \in batch[w] /\ events[cur[w]].status = "processing"
    BY <1>6 DEF MarkDone, DeadLetter, IInv, Control, SingleHolder
  <2> QED
    BY <1>0, <1>6, <2>1 DEF MarkDone, DeadLetter, SetStatus, Ids
<1>7. ASSUME NEW w \in Workers,
             \/ Stop(w) \/ Invalidate(w) \/ Performed(w) \/ DbError(w)
             \/ Crash(w) \/ \E e \in batch[w] : ProcessEvent(w, e)
      PROVE  events' = events
  BY <1>7 DEF Stop, Invalidate, Performed, DbError, Crash, ProcessEvent
<1> QED
  BY <1>1, <1>2, <1>3, <1>4, <1>5, <1>6, <1>7 DEF Next, WorkerStep

\* No worker ever overwrites 'done' or 'failed', although the UPDATEs that
\* write a status carry no condition on the one they replace.
THEOREM FinalStatusNeverOverwritten == Spec => FinalStatusKept
  BY Invariance, FinalRowsKept, PTL DEF Spec, FinalStatusKept

-----------------------------------------------------------------------------
(* Refinement. *)

\* A step that adds no row and changes neither a root nor which rows are
\* dead-lettered nor what is delivered is a stutter of the promise.
LEMMA StutterStep ==
    ASSUME IInv, Ids' = Ids, delivered' = delivered,
           \A e \in Ids : /\ events'[e].root = events[e].root
                          /\ events'[e].status = "failed"
                               <=> events[e].status = "failed"
    PROVE  UNCHANGED <<Roots, delivered, Dead>>
<1>1. Roots' = Roots
  BY DEF Roots
<1>2. Dead' = Dead
  BY DEF Dead
<1> QED
  BY <1>1, <1>2

\* Every step of the outbox is a step of the promise or a stutter.
LEMMA StepDelivers ==
    ASSUME IInv, [Next]_vars
    PROVE  [Delivery!DeliveryNext]_<<Roots, delivered, Dead>>
<1> USE DEF Delivery!DeliveryNext, Delivery!Open, Delivery!Accept,
            Delivery!Deliver, Delivery!GiveUp
<1>0. /\ events \in Seq(Event) /\ Ids = 1..Len(events) /\ Len(events) \in Nat
      /\ \A e \in Ids : events[e] \in Event
  BY RowFacts DEF IInv, TypeOK
<1>1. CASE UNCHANGED vars
  BY <1>1 DEF vars, Roots, Dead, Ids
<1>2. ASSUME NEW s \in Submissions, Submit(s)
      PROVE  \E e \in Roots' : Delivery!Accept(e)
  <2> DEFINE n == Len(events) + 1
  <2>1. /\ Ids' = Ids \cup {n} /\ n \notin Ids
        /\ \A e \in Ids : events'[e] = events[e]
        /\ events'[n].root = n /\ events'[n].status = "pending"
        /\ delivered' = delivered
    BY <1>0, <1>2 DEF Submit, Ids
  <2>2. Roots' = Roots \cup {n} /\ n \notin Roots
    BY <2>1 DEF Roots
  <2>3. Dead' = Dead
    BY <2>1 DEF Dead
  <2> QED
    BY <2>1, <2>2, <2>3
<1>3. CASE Shutdown \/ \E k \in Keys : Expire(k)
  BY <1>3 DEF Shutdown, Expire, Roots, Dead, Ids
<1>4. ASSUME NEW w \in Workers, Dequeue(w)
      PROVE  UNCHANGED <<Roots, delivered, Dead>>
  <2>1. Ids' = Ids /\ delivered' = delivered
    BY <1>4 DEF Dequeue, Ids
  <2>2. \A e \in Ids : /\ events'[e].root = events[e].root
                       /\ events'[e].status = "failed"
                            <=> events[e].status = "failed"
    BY <1>0, <1>4 DEF Dequeue, Oldest, Pending, Event
  <2> QED
    BY <2>1, <2>2, StutterStep
<1>5. ASSUME NEW w \in Workers, Performed(w)
      PROVE  \E e \in Delivery!Open : Delivery!Deliver(e)
  <2> DEFINE r == events[cur[w]].root
  <2>1. cur[w] \in Ids /\ r \notin delivered \cup Dead
    BY <1>5, Newest DEF Performed
  <2>2. r \in Roots
    BY <2>1 DEF IInv, RootsClosed, Roots
  <2>3. delivered' = delivered \cup {r} /\ UNCHANGED <<Roots, Dead>>
    BY <1>5 DEF Performed, Roots, Dead, Ids
  <2> QED
    BY <2>1, <2>2, <2>3
<1>6. ASSUME NEW w \in Workers, Reenqueue(w)
      PROVE  UNCHANGED <<Roots, delivered, Dead>>
  <2> DEFINE n == Len(events) + 1
  <2>1. cur[w] \in Ids /\ events[cur[w]].root \in Ids
    BY <1>6, Newest DEF Reenqueue, IInv, RootsClosed
  <2>2. /\ Ids' = Ids \cup {n} /\ n \notin Ids
        /\ \A e \in Ids : events'[e] = events[e]
        /\ events'[n].root \in Ids /\ events'[n].status = "pending"
        /\ delivered' = delivered
    BY <1>0, <1>6, <2>1 DEF Reenqueue, Ids
  <2>3. Roots' = Roots
    BY <2>2 DEF Roots
  <2>4. Dead' = Dead
    BY <2>2 DEF Dead
  <2> QED
    BY <2>2, <2>3, <2>4
<1>7. ASSUME NEW w \in Workers, MarkDone(w)
      PROVE  UNCHANGED <<Roots, delivered, Dead>>
  <2>1. cur[w] \in Ids /\ events[cur[w]].status = "processing"
    BY <1>7 DEF MarkDone, IInv, TypeOK, Control, SingleHolder
  <2>2. events' = SetStatus(cur[w], "done") /\ delivered' = delivered
    BY <1>7 DEF MarkDone
  <2>3. "done" \in Status
    BY DEF Status
  <2>4. /\ Ids' = Ids /\ \A e \in Ids \ {cur[w]} : events'[e] = events[e]
        /\ events'[cur[w]].root = events[cur[w]].root
        /\ events'[cur[w]].status = "done"
    BY <2>1, <2>2, <2>3, SetStatusFacts
  <2> QED
    BY <2>1, <2>2, <2>4, StutterStep
<1>8. ASSUME NEW w \in Workers, DeadLetter(w)
      PROVE  \E e \in Delivery!Open : Delivery!GiveUp(e)
  <2> DEFINE c == cur[w]
             r == events[c].root
  <2>1. c \in Ids /\ r \notin delivered \cup Dead
    BY <1>8, Newest DEF DeadLetter
  <2>2. r \in Roots
    BY <2>1 DEF IInv, RootsClosed, Roots
  <2>3. events' = SetStatus(c, "failed") /\ delivered' = delivered
    BY <1>8 DEF DeadLetter
  <2>4. /\ Ids' = Ids
        /\ \A e \in Ids \ {c} : events'[e] = events[e]
        /\ events'[c].root = r /\ events'[c].status = "failed"
    BY <2>1, <2>3, SetStatusFacts DEF Status
  <2>5. Roots' = Roots
    BY <2>1, <2>4 DEF Roots
  <2>6. Dead' = Dead \cup {r}
    BY <2>1, <2>4 DEF Dead
  <2> QED
    BY <2>1, <2>2, <2>3, <2>5, <2>6
<1>9. ASSUME NEW w \in Workers,
             \/ Stop(w) \/ Invalidate(w) \/ DbError(w) \/ Crash(w)
             \/ \E e \in batch[w] : ProcessEvent(w, e)
      PROVE  UNCHANGED <<Roots, delivered, Dead>>
  <2>1. UNCHANGED <<events, delivered>>
    BY <1>9 DEF Stop, Invalidate, DbError, Crash, ProcessEvent
  <2> QED
    BY <2>1 DEF Roots, Dead, Ids
<1> QED
  BY <1>1, <1>2, <1>3, <1>4, <1>5, <1>6, <1>7, <1>8, <1>9 DEF Next, WorkerStep

\* The table and its workers implement the promise made to producers: an event
\* once accepted is delivered or dead-lettered, at most one of the two and at
\* most once.
THEOREM OutboxImplementsDelivery == Spec => ImplementsDelivery
<1>1. Init => Delivery!DeliveryInit
  BY DEF Init, Delivery!DeliveryInit, Roots, Dead, Ids
<1>2. IInv /\ [Next]_vars => [Delivery!DeliveryNext]_(Delivery!dvars)
  BY StepDelivers DEF Delivery!dvars
<1> QED
  BY <1>1, <1>2, Invariance, PTL
     DEF Spec, ImplementsDelivery, Delivery!DeliverySpec

-----------------------------------------------------------------------------
(* Stale entries. *)

\* The types whose dispatch names, and whose worker deletes, what they announce.
\* PermissionChanged deletes another entry; MemoryProposed, MemoryQuarantined and
\* ExperienceOutcomeRecorded are read back as another type.
Exact == {"UserContextUpdated", "PreferenceUpdated", "TaskContextUpdated",
          "MemoryPromoted", "MemoryRevoked", "MemoryExpired", "EngineProjectionFailed"}

\* The entries a worker is still to delete for its row.
Remaining(w) == {NamedKey(todo[w][n]) : n \in DOMAIN todo[w]}

\* The row announced the entry, and nobody was ever to delete it.
Excused(e, k) ==
    /\ k \in AffectedKeys(events[e].type)
    /\ k \in Overlooked(events[e].type) \/ KeeperOf(k) \notin Attached

\* A row that answers for a stale entry is not settled, and the worker on it, if
\* any, has not got past the delete of the entry.
Answers(e, k) ==
    /\ events[e].status # "done"
    /\ k \in AffectedKeys(events[e].type)
    /\ \A w \in Workers : cur[w] = e =>
          /\ pc[w] # "mark"
          /\ pc[w] = "invalidate" => k \in Remaining(w)

Covered == \A k \in stale : \E e \in Ids : Excused(e, k) \/ Answers(e, k)

\* The dispatch of these types names what they announce.
LEMMA DispatchExact ==
    ASSUME NEW type \in Exact
    PROVE  /\ ReadBack(type) = type /\ type \in EventTypes
           /\ "perm" \notin AffectedKeys(type)
           /\ AffectedKeys(type) \subseteq
                 {NamedKey(InvalidationActions(type)[n]) :
                     n \in DOMAIN InvalidationActions(type)}
<1>1. ReadBack(type) = type /\ type \in EventTypes
  BY DEF Exact, ReadBack, ParsedNames, EventTypes
<1> DEFINE named(acts) == {NamedKey(acts[n]) : n \in DOMAIN acts}
<1>2. CASE type \in {"UserContextUpdated", "MemoryRevoked", "MemoryExpired"}
  <2>1. AffectedKeys(type) = {"hotctx"} /\ InvalidationActions(type) = <<"InvalidateUserContext">>
    BY <1>2 DEF AffectedKeys, InvalidationActions
  <2>2. NamedKey("InvalidateUserContext") = "hotctx"
    BY DEF NamedKey
  <2>3. "hotctx" \in named(<<"InvalidateUserContext">>)
    BY <2>2
  <2> QED
    BY <1>1, <2>1, <2>3
<1>3. CASE type = "PreferenceUpdated"
  <2>1. /\ AffectedKeys(type) = {"hotctx", "cacheUser"}
        /\ InvalidationActions(type) = <<"InvalidateUserContext", "InvalidateUserPattern">>
    BY <1>3 DEF AffectedKeys, InvalidationActions
  <2>2. /\ NamedKey("InvalidateUserContext") = "hotctx"
        /\ NamedKey("InvalidateUserPattern") = "cacheUser"
    BY DEF NamedKey
  <2>3. {"hotctx", "cacheUser"}
            \subseteq named(<<"InvalidateUserContext", "InvalidateUserPattern">>)
    <3> DEFINE acts == <<"InvalidateUserContext", "InvalidateUserPattern">>
    <3>1. /\ 1 \in DOMAIN acts /\ acts[1] = "InvalidateUserContext"
          /\ 2 \in DOMAIN acts /\ acts[2] = "InvalidateUserPattern"
      OBVIOUS
    <3> HIDE DEF acts
    <3>2. {"hotctx", "cacheUser"} \subseteq named(acts)
      BY <2>2, <3>1
    <3> QED
      BY <3>2 DEF acts
  <2> QED
    BY <1>1, <2>1, <2>3
<1>4. CASE type = "TaskContextUpdated"
  <2>1. AffectedKeys(type) = {"task"} /\ InvalidationActions(type) = <<"InvalidateTaskContext">>
    BY <1>4 DEF AffectedKeys, InvalidationActions
  <2>2. NamedKey("InvalidateTaskContext") = "task"
    BY DEF NamedKey
  <2>3. "task" \in named(<<"InvalidateTaskContext">>)
    BY <2>2
  <2> QED
    BY <1>1, <2>1, <2>3
<1>5. CASE type = "MemoryPromoted"
  <2>1. /\ AffectedKeys(type) = {"cacheTenant"}
        /\ InvalidationActions(type) = <<"InvalidateTenantPattern">>
    BY <1>5 DEF AffectedKeys, InvalidationActions
  <2>2. NamedKey("InvalidateTenantPattern") = "cacheTenant"
    BY DEF NamedKey
  <2>3. "cacheTenant" \in named(<<"InvalidateTenantPattern">>)
    BY <2>2
  <2> QED
    BY <1>1, <2>1, <2>3
<1>6. CASE type = "EngineProjectionFailed"
  <2>1. AffectedKeys(type) = {}
    BY <1>6 DEF AffectedKeys
  <2> QED
    BY <1>1, <2>1
<1> QED
  BY <1>2, <1>3, <1>4, <1>5, <1>6 DEF Exact

\* An entry that an event announces and that is not excused is the entry of one
\* of the actions its worker performs, and is deleted by that action.
LEMMA DispatchCovers ==
    ASSUME NEW e \in Ids, events[e] \in Event, NEW k \in AffectedKeys(events[e].type),
           ~Excused(e, k)
    PROVE  /\ ReadBack(events[e].type) = events[e].type
           /\ k # "perm" /\ KeeperOf(k) \in Attached
           /\ k \in {NamedKey(InvalidationActions(events[e].type)[n]) :
                        n \in DOMAIN InvalidationActions(events[e].type)}
<1> DEFINE type == events[e].type
<1>1. type \in EventTypes
  BY DEF Event
<1>2. k \notin Overlooked(type) /\ KeeperOf(k) \in Attached
  BY DEF Excused
<1>3. type # "PermissionChanged" /\ type \notin EventTypes \ ParsedNames
  BY <1>1, <1>2 DEF AffectedKeys, Overlooked, EventTypes, ParsedNames
<1>4. type \in Exact
  BY <1>1, <1>3 DEF Exact, ParsedNames
<1> QED
  BY <1>2, <1>4, DispatchExact

\* A row that nobody works on answers for all it announces.
LEMMA NewRowAnswers ==
    ASSUME TypeOK', NEW e \in Ids', \A w \in Workers : cur'[w] # e,
           events'[e].status # "done"
    PROVE  \A k \in AffectedKeys(events'[e].type) : Answers(e, k)'
  BY DEF Answers

\* A row keeps answering as long as its worker, if it has one, does not go on.
LEMMA StillAnswers ==
    ASSUME NEW e \in Ids, NEW k, Answers(e, k),
           events'[e].type = events[e].type, events'[e].status # "done",
           \A w \in Workers : cur'[w] = e =>
              \/ cur[w] = e /\ pc'[w] = pc[w] /\ todo'[w] = todo[w]
              \/ pc'[w] \notin {"mark", "invalidate"}
    PROVE  Answers(e, k)'
  BY DEF Answers, Remaining

\* No step removes a row or changes what it announces.
LEMMA TypesKept ==
    ASSUME IInv, [Next]_vars
    PROVE  \A e \in Ids : e \in Ids' /\ events'[e].type = events[e].type
<1>0. /\ Ids = 1..Len(events) /\ Len(events) \in Nat
      /\ \A e \in Ids : events[e] \in Event
      /\ events \in Seq(Event)
  BY RowFacts DEF IInv, TypeOK
<1>1. ASSUME UNCHANGED events
      PROVE  \A e \in Ids : e \in Ids' /\ events'[e].type = events[e].type
  BY <1>1 DEF Ids
<1>2. ASSUME NEW row \in Event, events' = Append(events, row)
      PROVE  \A e \in Ids : e \in Ids' /\ events'[e].type = events[e].type
  BY <1>0, <1>2, AppendFacts DEF Ids
<1>3. ASSUME NEW s \in Submissions, Submit(s)
      PROVE  \E row \in Event : events' = Append(events, row)
  <2> DEFINE row == [type |-> s.type, fields |-> s.fields, retry |-> 0,
                     status |-> "pending", root |-> Len(events) + 1]
  <2>1. row \in Event
    BY <1>0, OutboxAssumption DEF Event, Status
  <2> QED
    BY <1>3, <2>1 DEF Submit
<1>4. ASSUME NEW w \in Workers, Reenqueue(w)
      PROVE  \E row \in Event : events' = Append(events, row)
  <2> DEFINE e == events[cur[w]]
             row == [type |-> ReadBack(e.type), fields |-> e.fields,
                     retry |-> e.retry + 1, status |-> "pending", root |-> e.root]
  <2>1. cur[w] \in Ids
    BY <1>4 DEF Reenqueue, IInv, Control, TypeOK
  <2>2. e \in Event
    BY <1>0, <2>1
  <2>3. ReadBack(e.type) \in EventTypes
    BY <2>2 DEF Event, ReadBack, EventTypes, ParsedNames
  <2>4. row \in Event
    BY <2>2, <2>3 DEF Event, Status
  <2> QED
    BY <1>4, <2>4 DEF Reenqueue
<1>5. ASSUME NEW w \in Workers, Dequeue(w)
      PROVE  \A e \in Ids : e \in Ids' /\ events'[e].type = events[e].type
  <2>1. /\ Ids' = Ids
        /\ \A e \in Ids : \/ events'[e] = events[e]
                          \/ events'[e] = [events[e] EXCEPT !.status = "processing"]
    BY <1>5 DEF Dequeue, Ids
  <2>2. \A e \in Ids : [events[e] EXCEPT !.status = "processing"].type = events[e].type
    BY <1>0 DEF Event
  <2> QED
    BY <2>1, <2>2
<1>6. ASSUME NEW w \in Workers, MarkDone(w) \/ DeadLetter(w)
      PROVE  \A e \in Ids : e \in Ids' /\ events'[e].type = events[e].type
  <2>1. cur[w] \in Ids
    BY <1>6 DEF MarkDone, DeadLetter, IInv, Control, TypeOK
  <2>2. PICK st \in Status : events' = SetStatus(cur[w], st)
    BY <1>6 DEF MarkDone, DeadLetter, Status
  <2>3. /\ Ids' = Ids /\ \A e \in Ids \ {cur[w]} : events'[e] = events[e]
        /\ events'[cur[w]] = [events[cur[w]] EXCEPT !.status = st]
    BY <2>1, <2>2, SetStatusFacts
  <2>4. [events[cur[w]] EXCEPT !.status = st].type = events[cur[w]].type
    BY <1>0, <2>1 DEF Event
  <2> QED
    BY <2>3, <2>4
<1>7. CASE UNCHANGED vars \/ Shutdown \/ (\E k \in Keys : Expire(k))
           \/ \E w \in Workers : \/ Stop(w) \/ Invalidate(w) \/ Performed(w)
                                  \/ DbError(w) \/ Crash(w)
                                  \/ \E e \in batch[w] : ProcessEvent(w, e)
  BY <1>1, <1>7 DEF vars, Shutdown, Expire, Stop, Invalidate, Performed, DbError,
     Crash, ProcessEvent
<1> QED
  BY <1>2, <1>3, <1>4, <1>5, <1>6, <1>7 DEF Next, WorkerStep

\* Every step keeps the stale entries answered for.
LEMMA CoveredStep == IInv /\ Covered /\ [Next]_vars => Covered'
<1> SUFFICES ASSUME IInv, Covered, [Next]_vars PROVE Covered'
  OBVIOUS
<1>0. /\ Ids = 1..Len(events) /\ Len(events) \in Nat
      /\ \A e \in Ids : events[e] \in Event
      /\ events \in Seq(Event) /\ 0 \notin Ids
      /\ cur \in [Workers -> Ids \cup {0}] /\ todo \in [Workers -> Seq(Actions)]
      /\ pc \in [Workers -> {"poll", "next", "invalidate", "mark", "fail", "stopped"}]
  BY RowFacts DEF IInv, TypeOK
<1>1. TypeOK'
  BY NextIInv DEF IInv
<1>a. \A e \in Ids : \A k : Excused(e, k) => Excused(e, k)'
  BY TypesKept DEF Excused
<1>b. ASSUME \A k \in stale' \ stale : \E f \in Ids' : Answers(f, k)',
             \A k \in stale' : \A e \in Ids : Answers(e, k) /\ ~Excused(e, k) =>
                 \E f \in Ids' : Answers(f, k)'
      PROVE  Covered'
  <2> SUFFICES ASSUME NEW k \in stale'
               PROVE  \E e \in Ids' : Excused(e, k)' \/ Answers(e, k)'
    BY DEF Covered
  <2>1. CASE k \notin stale
    BY <1>b, <2>1
  <2>2. CASE k \in stale
    <3>1. PICK e \in Ids : Excused(e, k) \/ Answers(e, k)
      BY <2>2 DEF Covered
    <3>2. e \in Ids' /\ (Excused(e, k) => Excused(e, k)')
      BY <1>a, TypesKept
    <3> QED
      BY <1>b, <3>1, <3>2
  <2> QED
    BY <2>1, <2>2
<1>2. CASE UNCHANGED <<events, pc, cur, todo>> /\ stale' \subseteq stale
  <2>1. Ids' = Ids
    BY <1>2 DEF Ids
  <2>2. \A e \in Ids : \A k : Answers(e, k) => Answers(e, k)'
    BY <1>2 DEF Answers, Remaining
  <2> QED
    BY <1>2, <1>b, <2>1, <2>2
<1>3. ASSUME NEW s \in Submissions, Submit(s) PROVE Covered'
  <2>0. PICK n : n = Len(events) + 1
    OBVIOUS
  <2> DEFINE row == [type |-> s.type, fields |-> s.fields, retry |-> 0,
                     status |-> "pending", root |-> n]
  <2>1. /\ events' = Append(events, row) /\ UNCHANGED <<pc, cur, todo>>
        /\ stale' = stale \cup AffectedKeys(s.type)
    BY <1>3, <2>0 DEF Submit
  <2>2. row \in Event
    BY <1>0, <2>0, OutboxAssumption DEF Event, Status
  <2>3. /\ Ids' = Ids \cup {n} /\ n \notin Ids /\ n # 0
        /\ \A e \in Ids : events'[e] = events[e]
        /\ events'[n] = row
    BY <1>0, <2>0, <2>1, <2>2, AppendFacts DEF Ids
  <2>4. \A k \in AffectedKeys(s.type) : Answers(n, k)'
    <3>1. events'[n].type = s.type /\ events'[n].status = "pending"
      BY <2>3
    <3>2. \A w \in Workers : cur'[w] # n
      BY <1>0, <2>1, <2>3
    <3> QED
      BY <1>1, <2>3, <3>1, <3>2, NewRowAnswers
  <2>5. \A e \in Ids : \A k : Answers(e, k) => Answers(e, k)'
    BY <2>1, <2>3 DEF Answers, Remaining
  <2>6. \A k \in stale' \ stale : Answers(n, k)'
    BY <2>1, <2>4
  <2> QED
    BY <1>b, <2>3, <2>5, <2>6
<1>4. ASSUME NEW w \in Workers, Dequeue(w) PROVE Covered'
  <2>1. /\ pc[w] = "poll" /\ pc' = [pc EXCEPT ![w] = "next"]
        /\ UNCHANGED <<cur, todo, stale>>
        /\ \A e \in Ids : \/ events'[e] = events[e]
                          \/ events'[e] = [events[e] EXCEPT !.status = "processing"]
        /\ Ids' = Ids
    BY <1>4 DEF Dequeue, Ids
  <2>2. \A e \in Ids : /\ events'[e].type = events[e].type
                       /\ events[e].status # "done" => events'[e].status # "done"
    <3> SUFFICES ASSUME NEW e \in Ids
                 PROVE  /\ events'[e].type = events[e].type
                        /\ events[e].status # "done" => events'[e].status # "done"
      OBVIOUS
    <3>1. events[e] \in Event
      BY <1>0
    <3>2. CASE events'[e] = events[e]
      BY <3>2
    <3>3. CASE events'[e] = [events[e] EXCEPT !.status = "processing"]
      BY <3>1, <3>3 DEF Event
    <3> QED
      BY <2>1, <3>2, <3>3
  <2>3. \A e \in Ids : \A k : Answers(e, k) => Answers(e, k)'
    <3> SUFFICES ASSUME NEW e \in Ids, NEW k, Answers(e, k) PROVE Answers(e, k)'
      OBVIOUS
    <3>1. \A v \in Workers : cur'[v] = e =>
             \/ cur[v] = e /\ pc'[v] = pc[v] /\ todo'[v] = todo[v]
             \/ pc'[v] \notin {"mark", "invalidate"}
      BY <1>0, <2>1
    <3>2. events'[e].status # "done"
      BY <2>2 DEF Answers
    <3> QED
      BY <2>2, <3>1, <3>2, StillAnswers
  <2> QED
    BY <1>b, <2>1, <2>3
<1>5. ASSUME NEW w \in Workers, NEW c \in batch[w], ProcessEvent(w, c) PROVE Covered'
  <2>1. UNCHANGED <<events, stale>> /\ cur' = [cur EXCEPT ![w] = c] /\ c \in Ids
    BY <1>5 DEF ProcessEvent, IInv, TypeOK
  <2>2. Ids' = Ids
    BY <2>1 DEF Ids
  <2>3. \/ /\ pc' = [pc EXCEPT ![w] = "invalidate"]
           /\ todo' = [todo EXCEPT ![w] = InvalidationActions(ReadBack(events[c].type))]
        \/ pc' = [pc EXCEPT ![w] = "fail"] /\ todo' = todo
    BY <1>0, <1>5, <2>1 DEF ProcessEvent
  <2>5. ASSUME NEW e \in Ids, NEW k, Answers(e, k), ~Excused(e, k) PROVE Answers(e, k)'
    <3>1. /\ events[e].status # "done" /\ k \in AffectedKeys(events[e].type)
          /\ \A v \in Workers : cur[v] = e =>
                pc[v] # "mark" /\ (pc[v] = "invalidate" => k \in Remaining(v))
      BY <2>5 DEF Answers
    <3>2. \A v \in Workers \ {w} : /\ cur'[v] = cur[v] /\ pc'[v] = pc[v]
                                   /\ todo'[v] = todo[v]
      BY <1>0, <2>1, <2>3
    <3>3. cur'[w] = c /\ pc'[w] \in {"invalidate", "fail"}
      BY <1>0, <2>1, <2>3
    <3>4. c = e /\ pc'[w] = "invalidate" => k \in Remaining(w)'
      <4>1. /\ ReadBack(events[e].type) = events[e].type
            /\ k \in {NamedKey(InvalidationActions(events[e].type)[n]) :
                         n \in DOMAIN InvalidationActions(events[e].type)}
        BY <1>0, <2>5, <3>1, DispatchCovers
      <4>2. c = e /\ pc'[w] = "invalidate" => todo'[w] = InvalidationActions(events[e].type)
        BY <1>0, <2>3, <4>1
      <4> QED
        BY <4>1, <4>2 DEF Remaining
    <3>5. \A v \in Workers \ {w} : Remaining(v)' = Remaining(v)
      BY <3>2 DEF Remaining
    <3> QED
      BY <2>1, <3>1, <3>2, <3>3, <3>4, <3>5 DEF Answers
  <2> QED
    BY <1>b, <2>1, <2>2, <2>5
<1>6. ASSUME NEW w \in Workers, Invalidate(w) PROVE Covered'
  <2> DEFINE act == Head(todo[w])
  <2>1. /\ pc[w] = "invalidate" /\ todo[w] # <<>> /\ UNCHANGED <<events, cur>>
        /\ \/ /\ stale' = stale \ {k \in {DeletedKey(act)} : RepoOf(act) \in Attached}
              /\ todo' = [todo EXCEPT ![w] = Tail(@)] /\ UNCHANGED pc
           \/ /\ todo' = [todo EXCEPT ![w] = <<>>] /\ pc' = [pc EXCEPT ![w] = "fail"]
              /\ UNCHANGED stale
    BY <1>6 DEF Invalidate
  <2>2. Ids' = Ids
    BY <2>1 DEF Ids
  <2>3. act \in Actions
    BY <1>0, <2>1
  <2>4. ASSUME NEW k \in stale', NEW e \in Ids, Answers(e, k), ~Excused(e, k)
        PROVE  Answers(e, k)'
    <3>1. CASE cur[w] = e /\ pc' = pc
      <4>1. /\ stale' = stale \ {j \in {DeletedKey(act)} : RepoOf(act) \in Attached}
            /\ todo' = [todo EXCEPT ![w] = Tail(@)]
        <5>1. pc' # [pc EXCEPT ![w] = "fail"]
          BY <1>0, <2>1, <3>1
        <5> QED
          BY <2>1, <5>1
      <4>2. k \in Remaining(w) /\ k # "perm" /\ KeeperOf(k) \in Attached
        BY <1>0, <2>1, <2>4, <3>1, DispatchCovers DEF Answers
      <4>3. k # NamedKey(act)
        <5>1. NamedKey(act) # "perm" => DeletedKey(act) = NamedKey(act)
          BY DEF NamedKey, DeletedKey
        <5>2. KeeperOf(NamedKey(act)) = RepoOf(act)
          BY <2>3 DEF Actions, NamedKey, KeeperOf, RepoOf
        <5> QED
          BY <2>4, <4>1, <4>2, <5>1, <5>2
      <4>4. PICK n \in DOMAIN todo[w] : k = NamedKey(todo[w][n])
        BY <4>2 DEF Remaining
      <4>5. /\ todo[w] \in Seq(Actions) /\ n # 1
            /\ todo'[w] = Tail(todo[w])
        BY <1>0, <2>1, <4>1, <4>3, <4>4
      <4>6. n - 1 \in DOMAIN todo'[w] /\ todo'[w][n - 1] = todo[w][n]
        BY <2>1, <4>4, <4>5
      <4>7. k \in Remaining(w)'
        BY <4>4, <4>6 DEF Remaining
      <4>8. \A v \in Workers \ {w} : todo'[v] = todo[v]
        BY <1>0, <4>1
      <4>9. \A v \in Workers \ {w} : Remaining(v)' = Remaining(v)
        BY <4>8 DEF Remaining
      <4> QED
        BY <2>1, <2>4, <3>1, <4>7, <4>9 DEF Answers
    <3>2. CASE cur[w] # e \/ pc' # pc
      <4>1. \A v \in Workers : cur'[v] = e =>
               \/ cur[v] = e /\ pc'[v] = pc[v] /\ todo'[v] = todo[v]
               \/ pc'[v] \notin {"mark", "invalidate"}
        BY <1>0, <2>1, <3>2
      <4>2. events'[e].type = events[e].type /\ events'[e].status # "done"
        BY <2>1, <2>4 DEF Answers
      <4> QED
        BY <2>4, <4>1, <4>2, StillAnswers
    <3> QED
      BY <3>1, <3>2
  <2>5. stale' \subseteq stale
    BY <2>1
  <2> QED
    BY <1>b, <2>2, <2>4, <2>5
<1>7. ASSUME NEW w \in Workers, Performed(w) PROVE Covered'
  <2>1. /\ pc[w] = "invalidate" /\ todo[w] = <<>> /\ pc' = [pc EXCEPT ![w] = "mark"]
        /\ UNCHANGED <<events, cur, todo, stale>>
    BY <1>7 DEF Performed
  <2>2. Ids' = Ids
    BY <2>1 DEF Ids
  <2>3. ASSUME NEW e \in Ids, NEW k, Answers(e, k) PROVE Answers(e, k)'
    <3>1. cur[w] # e
      BY <2>1, <2>3 DEF Answers, Remaining
    <3> QED
      BY <1>0, <2>1, <2>3, <3>1 DEF Answers, Remaining
  <2> QED
    BY <1>b, <2>1, <2>2, <2>3
<1>8. ASSUME NEW w \in Workers, NEW st \in {"done", "failed"},
             pc[w] = IF st = "done" THEN "mark" ELSE "fail",
             events' = SetStatus(cur[w], st), FinishRow(w, batch[w] \ {cur[w]}), UNCHANGED stale
      PROVE  Covered'
  <2>1. cur[w] \in Ids
    BY <1>8 DEF IInv, Control, TypeOK
  <2>2. /\ Ids' = Ids /\ \A e \in Ids \ {cur[w]} : events'[e] = events[e]
        /\ events'[cur[w]] = [events[cur[w]] EXCEPT !.status = st]
        /\ events'[cur[w]].status = st
    BY <1>8, <2>1, SetStatusFacts DEF Status
  <2>3. \A e \in Ids : events'[e].type = events[e].type
    <3>1. events[cur[w]] \in Event
      BY <1>0, <2>1
    <3>2. events'[cur[w]].type = events[cur[w]].type
      BY <2>2, <3>1 DEF Event
    <3> QED
      BY <2>2, <3>2
  <2>4. ASSUME NEW e \in Ids, NEW k, Answers(e, k) PROVE Answers(e, k)'
    <3>1. events'[e].status # "done"
      BY <1>8, <2>1, <2>2, <2>4 DEF Answers
    <3>2. \A v \in Workers : cur'[v] = e => cur[v] = e /\ pc'[v] = pc[v] /\ todo'[v] = todo[v]
      BY <1>0, <1>8 DEF FinishRow
    <3> QED
      BY <2>3, <2>4, <3>1, <3>2, StillAnswers
  <2> QED
    BY <1>8, <1>b, <2>2, <2>4
<1>9. ASSUME NEW w \in Workers, Reenqueue(w) PROVE Covered'
  <2>0. PICK n : n = Len(events) + 1
    OBVIOUS
  <2> DEFINE c == cur[w]
             row == [type |-> ReadBack(events[c].type), fields |-> events[c].fields,
                     retry |-> events[c].retry + 1, status |-> "pending",
                     root |-> events[c].root]
  <2>1. pc[w] = "fail" /\ pc' = [pc EXCEPT ![w] = "mark"] /\ UNCHANGED <<cur, todo, stale>>
    BY <1>9 DEF Reenqueue
  <2>2. c \in Ids
    BY <2>1 DEF IInv, Control, TypeOK
  <2>3. events' = Append(events, row)
    BY <1>9 DEF Reenqueue
  <2>4. row \in Event
    <3>1. events[c] \in Event /\ events[c].type \in EventTypes
      BY <1>0, <2>2 DEF Event
    <3>2. ReadBack(events[c].type) \in EventTypes
      BY <3>1 DEF ReadBack, EventTypes, ParsedNames
    <3> QED
      BY <3>1, <3>2 DEF Event, Status
  <2>5. /\ Ids' = Ids \cup {n} /\ n \notin Ids /\ n # 0
        /\ \A e \in Ids : events'[e] = events[e]
        /\ events'[n] = row
    BY <1>0, <2>0, <2>3, <2>4, AppendFacts DEF Ids
  <2>6. \A k \in AffectedKeys(ReadBack(events[c].type)) : Answers(n, k)'
    <3>1. events'[n].type = ReadBack(events[c].type) /\ events'[n].status = "pending"
      BY <2>5
    <3>2. \A v \in Workers : cur'[v] # n
      BY <1>0, <2>1, <2>5
    <3> QED
      BY <1>1, <2>5, <3>1, <3>2, NewRowAnswers
  <2>7. ASSUME NEW e \in Ids, NEW k, Answers(e, k), ~Excused(e, k)
        PROVE  \E f \in Ids' : Answers(f, k)'
    <3>1. CASE e = c
      <4>1. k \in AffectedKeys(events[c].type) /\ ReadBack(events[c].type) = events[c].type
        BY <1>0, <2>7, <3>1, DispatchCovers DEF Answers
      <4> QED
        BY <2>5, <2>6, <4>1
    <3>2. CASE e # c
      <4>1. \A v \in Workers : cur'[v] = e =>
               cur[v] = e /\ pc'[v] = pc[v] /\ todo'[v] = todo[v]
        BY <1>0, <2>1, <3>2
      <4>2. events'[e].type = events[e].type /\ events'[e].status # "done"
        BY <2>5, <2>7 DEF Answers
      <4>3. Answers(e, k)'
        BY <2>7, <4>1, <4>2, StillAnswers
      <4> QED
        BY <2>5, <4>3
    <3> QED
      BY <3>1, <3>2
  <2> QED
    BY <1>b, <2>1, <2>7
<1>10. ASSUME NEW w \in Workers, NEW rest, FinishRow(w, rest), UNCHANGED <<events, stale>>
       PROVE  Covered'
  <2>1. Ids' = Ids
    BY <1>10 DEF Ids
  <2>2. ASSUME NEW e \in Ids, NEW k, Answers(e, k) PROVE Answers(e, k)'
    <3>1. \A v \in Workers : cur'[v] = e => cur[v] = e /\ pc'[v] = pc[v] /\ todo'[v] = todo[v]
      BY <1>0, <1>10 DEF FinishRow
    <3>2. events'[e].type = events[e].type /\ events'[e].status # "done"
      BY <1>10, <2>2 DEF Answers
    <3> QED
      BY <2>2, <3>1, <3>2, StillAnswers
  <2> QED
    BY <1>10, <1>b, <2>1, <2>2
<1>11. ASSUME NEW w \in Workers, Stop(w) PROVE Covered'
  <2>1. /\ pc[w] = "poll" /\ pc' = [pc EXCEPT ![w] = "stopped"]
        /\ UNCHANGED <<events, cur, todo, stale>>
    BY <1>11 DEF Stop
  <2>2. Ids' = Ids
    BY <2>1 DEF Ids
  <2>3. \A e \in Ids : \A k : Answers(e, k) => Answers(e, k)'
    BY <1>0, <2>1 DEF Answers, Remaining
  <2> QED
    BY <1>b, <2>1, <2>2, <2>3
<1>12. ASSUME NEW w \in Workers, MarkDone(w) \/ DeadLetter(w) PROVE Covered'
  BY <1>8, <1>12 DEF MarkDone, DeadLetter
<1>13. ASSUME NEW w \in Workers, DbError(w) \/ Crash(w) PROVE Covered'
  BY <1>10, <1>13 DEF DbError, Crash
<1>14. CASE UNCHANGED vars \/ Shutdown \/ \E k \in Keys : Expire(k)
  BY <1>2, <1>14 DEF vars, Shutdown, Expire
<1> QED
  BY <1>3, <1>4, <1>5, <1>6, <1>7, <1>9, <1>11, <1>12, <1>13, <1>14 DEF Next, WorkerStep

\* Whatever producers send and whichever repositories the workers were given,
\* through Redis errors, retries, database faults and crashes: an entry that is
\* stale after the last event announcing its change was marked done is one of a
\* repository nobody attached, or one announced by a type whose dispatch never
\* performs what it announces.
THEOREM StaleEntriesCovered == Spec => []StaleCovered
<1>1. Init => Covered
  BY DEF Init, Covered, Ids
<1>2. IInv /\ Covered /\ [Next]_vars => Covered'
  BY CoveredStep
<1>3. Covered => StaleCovered
  BY DEF Covered, Answers, Excused, StaleCovered
<1> QED
  BY <1>1, <1>2, <1>3, Invariance, PTL DEF Spec
=============================================================================
