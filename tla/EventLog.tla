------------------------------- MODULE EventLog -------------------------------
(***************************************************************************)
(* Events between the applications of a tenant (events/event-service.ts,   *)
(* web/routes/events.ts).  An event is a row of core.events; that an       *)
(* application has dealt with it is a row of core.event_consumption.       *)
(* Consuming takes nothing away: it answers the oldest events without such *)
(* a row, so workers of one application get the same ones.  An answer may  *)
(* be lost, a worker may end with its events in hand, and an               *)
(* acknowledgement is one insert after another that may stop midway or     *)
(* come when the worker is already consuming again.                        *)
(***************************************************************************)
EXTENDS Naturals, FiniteSets

CONSTANTS
    Tenants, Consumers,
    Workers,        \* processes of the applications, each with its token
    ConsumerOf,     \* consumer_app_id of the worker's requests
    TenantOf,       \* the tenant of the worker's token
    Unhandled,      \* events that no worker manages to handle
    Max,            \* "max" of a consume request
    None,
    \* Bounds of the model, not of the code.
    MaxEvents,      \* events published
    MaxFaults       \* lost answers and acknowledgements, ended workers

Events == 1..MaxEvents  \* in the order of created_at

ASSUME WorkersAssumption ==
    ConsumerOf \in [Workers -> Consumers] /\ TenantOf \in [Workers -> Tenants]
ASSUME BoundsAssumption == MaxEvents \in Nat /\ MaxFaults \in Nat
ASSUME AbsenceAssumption == None \notin Tenants

VARIABLES
    tenant,     \* tenant_id of each event, None before it is inserted
    visible,    \* the events whose insert has been committed
    consumed,   \* core.event_consumption, by consumer_app_id
    batch,      \* the answer each worker has been given and is handling
    acking,     \* the events of each worker's ack request not yet inserted
    faults

vars == <<tenant, visible, consumed, batch, acking, faults>>

TypeOK ==
    /\ tenant \in [Events -> Tenants \cup {None}]
    /\ visible \subseteq {e \in Events : tenant[e] # None}
    /\ consumed \in [Consumers -> SUBSET Events]
    /\ batch \in [Workers -> SUBSET Events]
    /\ acking \in [Workers -> SUBSET Events]
    /\ faults \in 0..MaxFaults

Init ==
    /\ tenant = [e \in Events |-> None]
    /\ visible = {}
    /\ consumed = [c \in Consumers |-> {}]
    /\ batch = [w \in Workers |-> {}]
    /\ acking = [w \in Workers |-> {}]
    /\ faults = 0

-----------------------------------------------------------------------------
(* Publishing: created_at is the time the insert begins, and others see    *)
(* the row when it has been committed, perhaps after a later one           *)

InsertEvent(e, t) ==
    /\ tenant[e] = None
    /\ \A f \in Events : f < e => tenant[f] # None
    /\ tenant' = [tenant EXCEPT ![e] = t]
    /\ UNCHANGED <<visible, consumed, batch, acking, faults>>

CommitEvent(e) ==
    /\ tenant[e] # None /\ e \notin visible
    /\ visible' = visible \cup {e}
    /\ UNCHANGED <<tenant, consumed, batch, acking, faults>>

-----------------------------------------------------------------------------
(* Consuming *)

Waiting(w) == {e \in visible : tenant[e] = TenantOf[w] /\ e \notin consumed[ConsumerOf[w]]}

Oldest(S, n) == {e \in S : Cardinality({f \in S : f < e}) < n}

(* Mutant: consuming marks the events as consumed. *)
ConsumeClaiming(w) ==
    /\ batch[w] = {} /\ Waiting(w) # {}
    /\ batch' = [batch EXCEPT ![w] = Oldest(Waiting(w), Max)]
    /\ consumed' = [consumed EXCEPT ![ConsumerOf[w]] = @ \cup Oldest(Waiting(w), Max)]
    /\ UNCHANGED <<tenant, visible, acking, faults>>

(* Mutant: a cursor: what is older than an acknowledged event is skipped.  *)
ConsumeFromCursor(w) ==
    LET new == {e \in Waiting(w) : \A f \in consumed[ConsumerOf[w]] : f < e} IN
    /\ batch[w] = {} /\ new # {}
    /\ batch' = [batch EXCEPT ![w] = Oldest(new, Max)]
    /\ UNCHANGED <<tenant, visible, consumed, acking, faults>>

(* The query of a consume request; one that finds nothing changes nothing. *)
Consume(w) ==
    /\ batch[w] = {} /\ Waiting(w) # {}
    /\ batch' = [batch EXCEPT ![w] = Oldest(Waiting(w), Max)]
    /\ UNCHANGED <<tenant, visible, consumed, acking, faults>>

-----------------------------------------------------------------------------
(* Acknowledging: what could be handled, in one request.  The route checks *)
(* neither the identifiers nor the consumer it is given; that a worker     *)
(* names only events it holds, under its own name, is the worker's part.   *)

Acknowledge(w) ==
    /\ batch[w] # {} /\ acking[w] = {}
    /\ acking' = [acking EXCEPT ![w] = batch[w] \ Unhandled]
    /\ batch' = [batch EXCEPT ![w] = {}]
    /\ UNCHANGED <<tenant, visible, consumed, faults>>

(* One insert ... on conflict do nothing. *)
InsertConsumption(w, e) ==
    /\ e \in acking[w]
    /\ consumed' = [consumed EXCEPT ![ConsumerOf[w]] = @ \cup {e}]
    /\ acking' = [acking EXCEPT ![w] = @ \ {e}]
    /\ UNCHANGED <<tenant, visible, batch, faults>>

-----------------------------------------------------------------------------
(* Faults: the rest of an acknowledgement is lost, an answer is lost or a  *)
(* worker ends and starts again with empty hands, which is the same        *)

LoseAcknowledgement(w) ==
    /\ acking[w] # {} /\ faults < MaxFaults
    /\ acking' = [acking EXCEPT ![w] = {}]
    /\ faults' = faults + 1
    /\ UNCHANGED <<tenant, visible, consumed, batch>>

EndWorker(w) ==
    /\ batch[w] # {} /\ faults < MaxFaults
    /\ batch' = [batch EXCEPT ![w] = {}]
    /\ faults' = faults + 1
    /\ UNCHANGED <<tenant, visible, consumed, acking>>

-----------------------------------------------------------------------------

Next ==
    \/ \E e \in Events : CommitEvent(e) \/ \E t \in Tenants : InsertEvent(e, t)
    \/ \E w \in Workers :
         \/ Consume(w) \/ Acknowledge(w)
         \/ \E e \in Events : InsertConsumption(w, e)
         \/ LoseAcknowledgement(w) \/ EndWorker(w)

(* Workers poll and handle what they hold, and an acknowledgement that has *)
(* been sent is carried out unless it is lost.  Nobody has to publish.     *)
Fairness ==
    \A w \in Workers :
      /\ WF_vars(Consume(w)) /\ WF_vars(Acknowledge(w))
      /\ WF_vars(\E e \in Events : InsertConsumption(w, e))

Spec == Init /\ [][Next]_vars
FairSpec == Spec /\ Fairness

-----------------------------------------------------------------------------
(* The promise *)

Published == [e \in Events |-> IF e \in visible THEN tenant[e] ELSE None]
Held == [w \in Workers |-> batch[w] \cup acking[w]]

Delivery == INSTANCE EventDelivery WITH log <- Published, acked <- consumed, held <- Held

(* Only what was offered to an application is recorded as consumed by it,  *)
(* as long as its workers acknowledge only what they hold, and nothing     *)
(* recorded is offered to it again, whatever is lost or late.              *)
DeliversAtLeastOnce == Delivery!Spec

(* Every published event is acknowledged by each application that works    *)
(* for its tenant, as long as fewer than "max" events cannot be handled:   *)
(* more of them would fill every answer.                                   *)
EventsSettle == Cardinality(Unhandled) < Max => Delivery!EventuallySettled
=============================================================================
