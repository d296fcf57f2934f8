---------------------------- MODULE EventDelivery ----------------------------
(***************************************************************************)
(* What the outbox promises to the producer of an event: an event it       *)
(* accepted is delivered or given up, at most one of the two and at most   *)
(* once, in whatever order. The identity of a new event is the outbox's    *)
(* choice: any that was not accepted before.                               *)
(***************************************************************************)
VARIABLES
    accepted,   \* events the outbox took responsibility for
    done,       \* events delivered
    givenUp     \* events dead-lettered

dvars == <<accepted, done, givenUp>>

DeliveryInit == accepted = {} /\ done = {} /\ givenUp = {}

Open == accepted \ (done \cup givenUp)

Accept(e) ==
    /\ e \notin accepted
    /\ accepted' = accepted \cup {e}
    /\ UNCHANGED <<done, givenUp>>

Deliver(e) ==
    /\ e \in Open
    /\ done' = done \cup {e}
    /\ UNCHANGED <<accepted, givenUp>>

GiveUp(e) ==
    /\ e \in Open
    /\ givenUp' = givenUp \cup {e}
    /\ UNCHANGED <<accepted, done>>

DeliveryNext ==
    \/ \E e \in accepted' : Accept(e)
    \/ \E e \in Open : Deliver(e) \/ GiveUp(e)

DeliverySpec == DeliveryInit /\ [][DeliveryNext]_dvars
=============================================================================
