---------------------------- MODULE EventDelivery ----------------------------
(***************************************************************************)
(* What the event routes promise to the applications of a tenant, without  *)
(* queries, limits or requests: an event, once published, is offered to    *)
(* each consuming application until one of its workers has acknowledged    *)
(* it, and is not offered to it again.  Offers are at least once: two      *)
(* workers may hold one event, and what a worker holds it may lose.        *)
(***************************************************************************)
CONSTANTS
    Events, Tenants, Consumers, Workers,
    ConsumerOf,     \* the application a worker consumes for
    TenantOf,       \* the tenant of the worker's token
    Unhandled,      \* events the consuming applications never manage to handle
    None

VARIABLES
    log,    \* the tenant of each published event
    acked,  \* the events each application has acknowledged
    held    \* the events each worker holds, or is acknowledging

vars == <<log, acked, held>>

Init ==
    /\ log = [e \in Events |-> None]
    /\ acked = [c \in Consumers |-> {}]
    /\ held = [w \in Workers |-> {}]

Publish(e, t) ==
    /\ log[e] = None
    /\ log' = [log EXCEPT ![e] = t]
    /\ UNCHANGED <<acked, held>>

Due(w) == {e \in Events : log[e] = TenantOf[w] /\ e \notin acked[ConsumerOf[w]]}

Offer(w) ==
    /\ \E S \in SUBSET Due(w) : held' = [held EXCEPT ![w] = @ \cup S]
    /\ UNCHANGED <<log, acked>>

Settle(w, e) ==
    /\ e \in held[w]
    /\ acked' = [acked EXCEPT ![ConsumerOf[w]] = @ \cup {e}]
    /\ \/ UNCHANGED held
       \/ held' = [held EXCEPT ![w] = @ \ {e}]
    /\ UNCHANGED log

Forget(w) ==
    /\ \E S \in SUBSET held[w] : held' = [held EXCEPT ![w] = S]
    /\ UNCHANGED <<log, acked>>

Next ==
    \/ \E e \in Events, t \in Tenants : Publish(e, t)
    \/ \E w \in Workers :
         \/ Offer(w) \/ Forget(w)
         \/ \E e \in Events : Settle(w, e)

Spec == Init /\ [][Next]_vars

(* Every event an application can handle is acknowledged by it at last,    *)
(* the applications being the consumers and tenants workers work for.      *)
EventuallySettled ==
    \A app \in {<<ConsumerOf[w], TenantOf[w]>> : w \in Workers}, e \in Events \ Unhandled :
      log[e] = app[2] ~> e \in acked[app[1]]
=============================================================================
