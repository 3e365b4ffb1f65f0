---------------------------- MODULE ServicesProofs ----------------------------
(***************************************************************************)
(* Proofs about Services: every behaviour of EventLog is one of            *)
(* EventDelivery; an OAuth flow brings one license, and takes its code to  *)
(* the client it was asked for; what the catalog has from a feed the feed  *)
(* has listed, and what the timer stores was trusted.  All of it for any   *)
(* tenants, workers, flows, clients, sources, applications and bounds.     *)
(***************************************************************************)
EXTENDS Services, FiniteSetTheorems, TLAPS

USE WorkersAssumption

LEMMA TypeStep ==
    ASSUME TypeOK, [Next]_vars
    PROVE  TypeOK'
  <1> USE BoundsAssumption, AbsenceAssumption DEF TypeOK
  <1>1. ASSUME NEW e \in Events, NEW t \in Tenants, InsertEvent(e, t)
        PROVE  TypeOK'
    <2>1. tenant' = [tenant EXCEPT ![e] = t] /\ t # None
      BY <1>1 DEF InsertEvent
    <2> QED BY <1>1, <2>1 DEF InsertEvent
  <1>2. ASSUME NEW e \in Events, CommitEvent(e)
        PROVE  TypeOK'
    BY <1>2 DEF CommitEvent
  <1>3. ASSUME NEW w \in Workers, Consume(w)
        PROVE  TypeOK'
    <2>1. Oldest(Waiting(w), Max) \in SUBSET Events
      BY DEF Oldest, Waiting
    <2> QED BY <1>3, <2>1 DEF Consume
  <1>4. ASSUME NEW w \in Workers, Acknowledge(w)
        PROVE  TypeOK'
    BY <1>4 DEF Acknowledge
  <1>5. ASSUME NEW w \in Workers, NEW e \in Events, InsertConsumption(w, e)
        PROVE  TypeOK'
    BY <1>5 DEF InsertConsumption
  <1>6. ASSUME NEW w \in Workers, LoseAcknowledgement(w) \/ EndWorker(w)
        PROVE  TypeOK'
    BY <1>6 DEF LoseAcknowledgement, EndWorker
  <1>7. CASE UNCHANGED vars
    BY <1>7 DEF vars
  <1> QED BY <1>1, <1>2, <1>3, <1>4, <1>5, <1>6, <1>7 DEF Next

(* Events, consumption records and what workers hold stay well-formed.     *)
THEOREM TypeCorrect == Spec => []TypeOK
  <1>1. Init => TypeOK
    BY BoundsAssumption DEF Init, TypeOK
  <1> QED BY <1>1, TypeStep, PTL DEF Spec

-----------------------------------------------------------------------------
(* The refinement *)

LEMMA InitRefines == Init => Delivery!Init
  BY DEF Init, Delivery!Init, Published, Held

(* An event that is not visible is not published, so inserting its row is  *)
(* a stutter and committing it the publication.                            *)
LEMMA InsertStutters ==
    ASSUME TypeOK, NEW e \in Events, NEW t \in Tenants, InsertEvent(e, t)
    PROVE  UNCHANGED Delivery!vars
  <1>1. e \notin visible
    BY DEF InsertEvent, TypeOK
  <1>2. Published' = Published
    BY <1>1 DEF InsertEvent, TypeOK, Published
  <1> QED BY <1>2 DEF InsertEvent, Delivery!vars, Held

LEMMA CommitPublishes ==
    ASSUME TypeOK, NEW e \in Events, CommitEvent(e)
    PROVE  tenant[e] \in Tenants /\ Delivery!Publish(e, tenant[e])
  <1>1. tenant[e] \in Tenants /\ e \notin visible
    BY DEF CommitEvent, TypeOK
  <1>2. Published[e] = None
    BY <1>1 DEF Published
  <1>3. Published' = [Published EXCEPT ![e] = tenant[e]]
    BY DEF CommitEvent, Published
  <1> QED BY <1>1, <1>2, <1>3 DEF CommitEvent, Delivery!Publish, Held

LEMMA HeldWritten ==
    ASSUME TypeOK, NEW w \in Workers,
           \A v \in Workers \ {w} : batch'[v] = batch[v] /\ acking'[v] = acking[v]
    PROVE  Held' = [Held EXCEPT ![w] = batch'[w] \cup acking'[w]]
  BY DEF Held, TypeOK

(* What a consume answers is waiting, and is added to what is held. *)
LEMMA ConsumeOffers ==
    ASSUME TypeOK, NEW w \in Workers, Consume(w)
    PROVE  Delivery!Offer(w)
  <1> DEFINE S == Oldest(Waiting(w), Max)
  <1>1. \A e \in S :
          e \in Events /\ Published[e] = TenantOf[w] /\ e \notin consumed[ConsumerOf[w]]
    BY DEF Oldest, Waiting, TypeOK, Published
  <1>2. S \in SUBSET Delivery!Due(w)
    BY <1>1 DEF Delivery!Due
  <1>3. batch'[w] = S /\ batch[w] = {} /\ acking' = acking
        /\ \A v \in Workers \ {w} : batch'[v] = batch[v]
    BY DEF Consume, TypeOK
  <1>4. Held' = [Held EXCEPT ![w] = batch'[w] \cup acking'[w]]
    BY <1>3, HeldWritten
  <1>5. Held' = [Held EXCEPT ![w] = @ \cup S]
    <2> HIDE DEF S
    <2>1. batch'[w] \cup acking'[w] = Held[w] \cup S
      BY <1>3 DEF Held
    <2> QED BY <1>4, <2>1
  <1>6. UNCHANGED <<Published, consumed>>
    BY DEF Consume, Published
  <1> QED BY <1>2, <1>5, <1>6 DEF Delivery!Offer

(* A step that leaves a worker with less is forgetting. *)
LEMMA LessIsForgetting ==
    ASSUME TypeOK, NEW w \in Workers,
           UNCHANGED <<tenant, visible, consumed>>,
           \A v \in Workers \ {w} : batch'[v] = batch[v] /\ acking'[v] = acking[v],
           batch'[w] \cup acking'[w] \subseteq batch[w] \cup acking[w]
    PROVE  Delivery!Forget(w)
  <1>1. Held' = [Held EXCEPT ![w] = batch'[w] \cup acking'[w]]
    BY HeldWritten
  <1>2. batch'[w] \cup acking'[w] \in SUBSET Held[w]
    BY DEF Held
  <1>3. UNCHANGED <<Published, consumed>>
    BY DEF Published
  <1> QED BY <1>1, <1>2, <1>3 DEF Delivery!Forget

LEMMA WorkerForgets ==
    ASSUME TypeOK, NEW w \in Workers,
           Acknowledge(w) \/ LoseAcknowledgement(w) \/ EndWorker(w)
    PROVE  Delivery!Forget(w)
  <1>1. UNCHANGED <<tenant, visible, consumed>>
    BY DEF Acknowledge, LoseAcknowledgement, EndWorker
  <1>2. \A v \in Workers \ {w} : batch'[v] = batch[v] /\ acking'[v] = acking[v]
    BY DEF Acknowledge, LoseAcknowledgement, EndWorker, TypeOK
  <1>3. batch'[w] \cup acking'[w] \subseteq batch[w] \cup acking[w]
    BY DEF Acknowledge, LoseAcknowledgement, EndWorker, TypeOK
  <1> QED BY <1>1, <1>2, <1>3, LessIsForgetting

(* An inserted acknowledgement settles an event the worker holds; it may   *)
(* hold the event a second time, from a later answer.                      *)
LEMMA InsertSettles ==
    ASSUME TypeOK, NEW w \in Workers, NEW e \in Events, InsertConsumption(w, e)
    PROVE  Delivery!Settle(w, e)
  <1>1. e \in Held[w]
    BY DEF InsertConsumption, Held
  <1>2. acking'[w] = acking[w] \ {e} /\ batch' = batch
        /\ \A v \in Workers \ {w} : acking'[v] = acking[v]
    BY DEF InsertConsumption, TypeOK
  <1>3. Held' = [Held EXCEPT ![w] = batch'[w] \cup acking'[w]]
    BY <1>2, HeldWritten
  <1>4. UNCHANGED Held \/ Held' = [Held EXCEPT ![w] = @ \ {e}]
    <2>1. CASE e \in batch[w]
      <3>1. batch'[w] \cup acking'[w] = Held[w]
        BY <1>2, <2>1 DEF Held, InsertConsumption
      <3> QED BY <1>3, <3>1 DEF Held
    <2>2. CASE e \notin batch[w]
      <3>1. batch'[w] \cup acking'[w] = Held[w] \ {e}
        BY <1>2, <2>2 DEF Held
      <3> QED BY <1>3, <3>1
    <2> QED BY <2>1, <2>2
  <1>5. UNCHANGED Published
    BY DEF InsertConsumption, Published
  <1> QED BY <1>1, <1>4, <1>5 DEF InsertConsumption, Delivery!Settle

LEMMA StepRefines ==
    ASSUME TypeOK, [Next]_vars
    PROVE  [Delivery!Next]_(Delivery!vars)
  <1>1. ASSUME NEW e \in Events, NEW t \in Tenants, InsertEvent(e, t)
        PROVE  UNCHANGED Delivery!vars
    BY <1>1, InsertStutters
  <1>2. ASSUME NEW e \in Events, CommitEvent(e)
        PROVE  Delivery!Next
    BY <1>2, CommitPublishes DEF Delivery!Next
  <1>3. ASSUME NEW w \in Workers, Consume(w)
        PROVE  Delivery!Next
    BY <1>3, ConsumeOffers DEF Delivery!Next
  <1>4. ASSUME NEW w \in Workers, Acknowledge(w) \/ LoseAcknowledgement(w) \/ EndWorker(w)
        PROVE  Delivery!Next
    BY <1>4, WorkerForgets DEF Delivery!Next
  <1>5. ASSUME NEW w \in Workers, NEW e \in Events, InsertConsumption(w, e)
        PROVE  Delivery!Next
    BY <1>5, InsertSettles DEF Delivery!Next
  <1>6. CASE UNCHANGED vars
    BY <1>6 DEF vars, Delivery!vars, Published, Held
  <1> QED BY <1>1, <1>2, <1>3, <1>4, <1>5, <1>6 DEF Next

(* The log implements the promise of EventDelivery: events are offered     *)
(* until acknowledged and never afterwards, whatever is lost or repeated.  *)
THEOREM LogDelivers == Spec => DeliversAtLeastOnce
  <1>1. Spec => []TypeOK
    BY TypeCorrect
  <1>2. TypeOK /\ [Next]_vars => [Delivery!Next]_(Delivery!vars)
    BY StepRefines
  <1> QED BY <1>1, <1>2, InitRefines, PTL DEF Spec, DeliversAtLeastOnce, Delivery!Spec

-----------------------------------------------------------------------------
(* The authorization of licenses *)

(* The instance counts as the library does. *)
LEMMA SameCounts ==
    /\ \A S : OAuth!IsFiniteSet(S) <=> IsFiniteSet(S)
    /\ \A S : OAuth!Cardinality(S) = Cardinality(S)
  <1>1. \A S : OAuth!IsFiniteSet(S) <=> IsFiniteSet(S)
    BY DEF OAuth!IsFiniteSet, IsFiniteSet
  <1>2. \A S : OAuth!Cardinality(S) = Cardinality(S)
    BY DEF OAuth!Cardinality, Cardinality
  <1> QED BY <1>1, <1>2

USE AuthorizationAssumption DEF OAuth!OAuthAssumption

LEMMA FiniteClients == IsFiniteSet(Clients)
  BY SameCounts

(* Clients are as old as the number stored before them says, so of any of  *)
(* them one is the latest.                                                 *)
Aged ==
    /\ \A c \in OAuth!Stored : conn[c].born <= Cardinality(OAuth!Stored)
    /\ \A S \in SUBSET OAuth!Stored :
         S # {} => \E c \in S : \A d \in S : conn[d].born <= conn[c].born

(* No client changes its tenant. *)
Owned ==
    /\ \A c \in OAuth!Stored : owner[c] = conn[c].tenant
    /\ \A f \in Flows :
         OAuth!AtStart(f, "store") =>
           flow[f].client \in Clients /\ owner[flow[f].client] = flow[f].tenant

(* What a flow has found is so until another of its tenant stores a client. *)
Unpassed ==
    \A f \in Flows, t \in Tenants, a \in Licensed :
      flow[f] # None /\ ~flow[f].passed /\ flow[f].tenant = t /\ flow[f].app = a =>
        /\ flow[f].step \in {"register", "store"} => OAuth!Of(t, a) = {}
        /\ flow[f].step \in {"remember", "away"} => flow[f].client = OAuth!Connection(t, a)

(* A flow that is away is remembered, or taken by one callback, or spent.  *)
Spent ==
    /\ \A f \in store :
         /\ OAuth!AtStart(f, "away")
         /\ \A b \in Callbacks :
              <<b, f>> \notin imported /\ (callback[b] # None => callback[b].flow # f)
    /\ \A b \in Callbacks :
         callback[b] # None =>
           /\ OAuth!AtStart(callback[b].flow, "away")
           /\ callback[b].tenant = flow[callback[b].flow].tenant
           /\ \A d \in Callbacks :
                /\ <<d, callback[b].flow>> \notin imported
                /\ callback[d] # None /\ callback[d].flow = callback[b].flow => d = b
    /\ \A b \in Callbacks, f \in Flows : <<b, f>> \in imported => OAuth!AtStart(f, "away")

OAuthInv ==
    /\ OAuth!TypeOK /\ Aged /\ Owned /\ Unpassed /\ Spent
    /\ OAuth!OneImportPerFlow /\ OAuth!CodesGoHome

LEMMA FlowFields ==
    ASSUME NEW x \in OAuth!Flow
    PROVE  /\ x # None /\ x.tenant \in Tenants /\ x.app \in Licensed
           /\ x.step \in {"lookup", "register", "store", "remember", "away", "failed"}
           /\ x.client \in Clients \cup {None} /\ x.passed \in BOOLEAN
  BY DEF OAuth!Flow

LEMMA CallbackFields ==
    ASSUME NEW x \in OAuth!Callback
    PROVE  /\ x # None /\ x.tenant \in Tenants /\ x.flow \in Flows
           /\ x.client \in Clients \cup {None}
           /\ x.step \in {"lookup", "exchange", "issue", "import"}
  BY DEF OAuth!Callback

LEMMA RowFields ==
    ASSUME OAuth!TypeOK, NEW c \in OAuth!Stored
    PROVE  /\ c \in Clients /\ conn[c] \in OAuth!Row /\ conn[c].born \in Nat
           /\ conn[c].tenant \in Tenants /\ conn[c].app \in Licensed
  <1>1. Cardinality(Clients) \in Nat
    BY FiniteClients, FS_CardinalityType
  <1> QED BY <1>1, SameCounts DEF OAuth!TypeOK, OAuth!Stored, OAuth!Row

LEMMA CountStored ==
    ASSUME OAuth!TypeOK
    PROVE  /\ IsFiniteSet(OAuth!Stored) /\ Cardinality(OAuth!Stored) \in Nat
           /\ Cardinality(OAuth!Stored) <= Cardinality(Clients)
  <1>1. OAuth!Stored \subseteq Clients
    BY DEF OAuth!Stored
  <1> QED BY <1>1, FiniteClients, FS_Subset, FS_CardinalityType

(* The client looked up is one of the tenant and the application, if there *)
(* is any.                                                                 *)
LEMMA ConnectionFound ==
    ASSUME OAuth!TypeOK, Aged, NEW t \in Tenants, NEW a \in Licensed
    PROVE  IF OAuth!Of(t, a) = {} THEN OAuth!Connection(t, a) = None
           ELSE OAuth!Connection(t, a) \in OAuth!Of(t, a) /\ OAuth!Connection(t, a) \in Clients
  <1>1. CASE OAuth!Of(t, a) = {}
    BY <1>1 DEF OAuth!Connection
  <1>2. CASE OAuth!Of(t, a) # {}
    <2> DEFINE born == [c \in OAuth!Of(t, a) |-> conn[c].born]
    <2>1. OAuth!Of(t, a) \in SUBSET OAuth!Stored /\ OAuth!Stored \subseteq Clients
      BY DEF OAuth!Of, OAuth!Stored
    <2>2. \E c \in OAuth!Of(t, a) : \A d \in OAuth!Of(t, a) : conn[d].born <= conn[c].born
      BY <1>2, <2>1 DEF Aged
    <2>3. \E c \in OAuth!Of(t, a) : \A d \in OAuth!Of(t, a) : born[d] <= born[c]
      BY <2>2
    <2>4. OAuth!Latest(OAuth!Of(t, a), born) \in OAuth!Of(t, a)
      <3> HIDE DEF born
      <3> QED BY <2>3 DEF OAuth!Latest
    <2> QED BY <1>2, <2>1, <2>4 DEF OAuth!Connection
  <1> QED BY <1>1, <1>2

(* The look-up depends on the rows of the tenant only. *)
LEMMA ConnectionKept ==
    ASSUME OAuth!TypeOK, NEW t \in Tenants, NEW a \in Licensed,
           \A c \in Clients :
             (conn[c] # None /\ conn[c].tenant = t) \/ (conn'[c] # None /\ conn'[c].tenant = t)
               => conn'[c] = conn[c]
    PROVE  OAuth!Of(t, a)' = OAuth!Of(t, a) /\ OAuth!Connection(t, a)' = OAuth!Connection(t, a)
  <1>1. OAuth!Of(t, a)' = OAuth!Of(t, a)
    BY DEF OAuth!Of, OAuth!Stored
  <1>2. \A c \in OAuth!Of(t, a) : conn'[c] = conn[c]
    BY DEF OAuth!Of, OAuth!Stored
  <1>3. [c \in OAuth!Of(t, a) |-> conn[c].born]' = [c \in OAuth!Of(t, a) |-> conn[c].born]
    BY <1>1, <1>2
  <1> QED BY <1>1, <1>3 DEF OAuth!Connection

LEMMA ConnectionUnchanged ==
    ASSUME conn' = conn
    PROVE  /\ OAuth!Stored' = OAuth!Stored
           /\ \A t \in Tenants, a \in Licensed :
                OAuth!Of(t, a)' = OAuth!Of(t, a)
                /\ OAuth!Connection(t, a)' = OAuth!Connection(t, a)
  BY DEF OAuth!Stored, OAuth!Of, OAuth!Connection

LEMMA AgedKept ==
    ASSUME Aged, conn' = conn
    PROVE  Aged'
  BY ConnectionUnchanged DEF Aged

-----------------------------------------------------------------------------
(* Steps that leave the rows and the callbacks alone and write one flow. *)
LEMMA FlowWritten ==
    ASSUME OAuthInv, NEW f \in Flows, NEW x \in OAuth!Flow,
           flow' = [flow EXCEPT ![f] = x],
           flow[f] = None \/ (x.tenant = flow[f].tenant /\ x.app = flow[f].app),
           flow[f] = None \/ flow[f].step # "away",
           conn' = conn, callback' = callback, imported' = imported,
           owner' \in [Clients -> Tenants \cup {None}],
           \A c \in Clients : owner'[c] = owner[c] \/ owner[c] = None,
           x.step = "store" => x.client \in Clients /\ owner'[x.client] = x.tenant,
           ~x.passed /\ x.step \in {"register", "store"} => OAuth!Of(x.tenant, x.app) = {},
           ~x.passed /\ x.step \in {"remember", "away"} =>
             x.client = OAuth!Connection(x.tenant, x.app),
           IF x.step = "away" THEN store' = store \cup {f} ELSE store' = store
    PROVE  OAuthInv'
  <1> USE DEF OAuthInv, OAuth!AtStart, OAuth!AtCallback
  <1>0. \A g \in Flows : flow'[g] = IF g = f THEN x ELSE flow[g]
    BY DEF OAuth!TypeOK
  <1>00. x # None
    BY FlowFields
  <1>1. OAuth!TypeOK'
    BY <1>0, <1>00 DEF OAuth!TypeOK
  <1>2. Aged'
    BY AgedKept
  <1>3. Owned'
    <2>1. \A c \in OAuth!Stored : owner'[c] = conn[c].tenant
      BY RowFields DEF Owned
    <2>2. \A g \in Flows : OAuth!AtStart(g, "store")' =>
            flow'[g].client \in Clients /\ owner'[flow'[g].client] = flow'[g].tenant
      <3> SUFFICES ASSUME NEW g \in Flows, OAuth!AtStart(g, "store")', g # f
                   PROVE  flow'[g].client \in Clients /\ owner'[flow'[g].client] = flow'[g].tenant
        BY <1>0
      <3>1. flow'[g] = flow[g] /\ flow[g] \in OAuth!Flow
        BY <1>0 DEF OAuth!TypeOK
      <3>2. flow[g].client \in Clients /\ owner[flow[g].client] = flow[g].tenant
        BY <3>1 DEF Owned
      <3>3. flow[g].tenant # None
        BY <3>1, FlowFields
      <3> QED BY <3>1, <3>2, <3>3
    <2> QED BY <2>1, <2>2, ConnectionUnchanged DEF Owned
  <1>4. Unpassed'
    <2> SUFFICES ASSUME NEW g \in Flows, NEW t \in Tenants, NEW a \in Licensed,
                        flow'[g] # None, ~flow'[g].passed,
                        flow'[g].tenant = t, flow'[g].app = a
                 PROVE  /\ flow'[g].step \in {"register", "store"} => OAuth!Of(t, a)' = {}
                        /\ flow'[g].step \in {"remember", "away"} =>
                             flow'[g].client = OAuth!Connection(t, a)'
      BY DEF Unpassed
    <2>1. OAuth!Of(t, a)' = OAuth!Of(t, a) /\ OAuth!Connection(t, a)' = OAuth!Connection(t, a)
      BY ConnectionUnchanged
    <2> QED BY <1>0, <2>1 DEF Unpassed
  <1>5. f \notin store /\ \A b \in Callbacks : callback[b] # None => callback[b].flow # f
    BY DEF Spent
  <1>6. \A b \in Callbacks : <<b, f>> \notin imported
    BY DEF Spent
  <1>7. \A b \in Callbacks : callback[b] # None => callback[b].flow \in Flows
    BY CallbackFields DEF OAuth!TypeOK
  <1>8. Spent'
    BY <1>0, <1>00, <1>5, <1>6, <1>7 DEF Spent
  <1>9. OAuth!OneImportPerFlow'
    BY DEF OAuth!OneImportPerFlow
  <1>10. OAuth!CodesGoHome'
    BY <1>0, <1>5, <1>7 DEF OAuth!CodesGoHome
  <1> QED BY <1>1, <1>2, <1>3, <1>4, <1>8, <1>9, <1>10

LEMMA StartStep ==
    ASSUME OAuthInv, NEW f \in Flows, NEW t \in Tenants, NEW a \in Licensed,
           OAuth!StartLicenseOAuth(f, t, a)
    PROVE  OAuthInv'
  <1> DEFINE x == [tenant |-> t, app |-> a, step |-> "lookup", client |-> None, passed |-> FALSE]
  <1>1. x \in OAuth!Flow /\ x.step = "lookup"
    BY DEF OAuth!Flow
  <1>2. /\ flow[f] = None /\ flow' = [flow EXCEPT ![f] = x]
        /\ UNCHANGED <<conn, owner, store, callback, imported>>
    BY DEF OAuth!StartLicenseOAuth
  <1> HIDE DEF x
  <1> QED BY <1>1, <1>2, FlowWritten DEF OAuthInv, OAuth!TypeOK

LEMMA LookUpStep ==
    ASSUME OAuthInv, NEW f \in Flows, OAuth!LookUpClient(f)
    PROVE  OAuthInv'
  <1> DEFINE found == OAuth!Connection(flow[f].tenant, flow[f].app)
             x == [flow[f] EXCEPT !.client = found, !.passed = FALSE,
                                  !.step = IF found = None THEN "register" ELSE "remember"]
  <1>1. flow[f] \in OAuth!Flow /\ flow[f].step = "lookup"
    BY DEF OAuth!LookUpClient, OAuth!AtStart, OAuthInv, OAuth!TypeOK
  <1>2. flow[f].tenant \in Tenants /\ flow[f].app \in Licensed
    BY <1>1, FlowFields
  <1>3. IF OAuth!Of(flow[f].tenant, flow[f].app) = {} THEN found = None ELSE found \in Clients
    BY <1>2, ConnectionFound DEF OAuthInv
  <1>4. found # None => found \in Clients
    BY <1>3
  <1>5. /\ flow' = [flow EXCEPT ![f] = x]
        /\ UNCHANGED <<conn, owner, store, callback, imported>>
    BY DEF OAuth!LookUpClient
  <1>6. /\ x \in OAuth!Flow /\ x.tenant = flow[f].tenant /\ x.app = flow[f].app
        /\ x.client = found
        /\ x.step = IF found = None THEN "register" ELSE "remember"
    <2> HIDE DEF found
    <2> QED BY <1>1, <1>4 DEF OAuth!Flow
  <1>7. found = None => OAuth!Of(flow[f].tenant, flow[f].app) = {}
    BY <1>3
  <1> HIDE DEF x
  <1>8. x.step \in {"register", "remember"} /\ (x.step = "register" => found = None)
    BY <1>6
  <1>9. owner \in [Clients -> Tenants \cup {None}]
    BY DEF OAuthInv, OAuth!TypeOK
  <1> QED BY <1>1, <1>5, <1>6, <1>7, <1>8, <1>9, FlowWritten

LEMMA RegisterStep ==
    ASSUME OAuthInv, NEW f \in Flows, NEW c \in Clients, OAuth!RegisterClient(f, c)
    PROVE  OAuthInv'
  <1> DEFINE x == [flow[f] EXCEPT !.client = c, !.step = "store"]
  <1>1. flow[f] \in OAuth!Flow /\ flow[f].step = "register" /\ flow[f] # None
    BY DEF OAuth!RegisterClient, OAuth!AtStart, OAuthInv, OAuth!TypeOK
  <1>2. flow[f].tenant \in Tenants
    BY <1>1, FlowFields
  <1>3. /\ flow' = [flow EXCEPT ![f] = x]
        /\ UNCHANGED <<conn, store, callback, imported>>
        /\ owner' = [owner EXCEPT ![c] = flow[f].tenant] /\ owner[c] \in {None, flow[f].tenant}
    BY DEF OAuth!RegisterClient
  <1>4. /\ x \in OAuth!Flow /\ x.tenant = flow[f].tenant /\ x.app = flow[f].app /\ x.client = c
        /\ x.step = "store" /\ x.passed = flow[f].passed
    BY <1>1 DEF OAuth!Flow
  <1>5. ~flow[f].passed => OAuth!Of(flow[f].tenant, flow[f].app) = {}
    BY <1>1, FlowFields DEF OAuthInv, Unpassed
  <1> HIDE DEF x
  <1>6. /\ owner' \in [Clients -> Tenants \cup {None}] /\ owner'[c] = x.tenant
        /\ \A d \in Clients : owner'[d] = owner[d] \/ owner[d] = None
    BY <1>2, <1>3, <1>4 DEF OAuthInv, OAuth!TypeOK
  <1> QED BY <1>1, <1>3, <1>4, <1>5, <1>6, FlowWritten

LEMMA RememberStep ==
    ASSUME OAuthInv, NEW f \in Flows, OAuth!RememberState(f)
    PROVE  OAuthInv'
  <1> DEFINE x == [flow[f] EXCEPT !.step = "away"]
  <1>1. flow[f] \in OAuth!Flow /\ flow[f].step = "remember" /\ flow[f] # None
    BY DEF OAuth!RememberState, OAuth!AtStart, OAuthInv, OAuth!TypeOK
  <1>2. /\ flow' = [flow EXCEPT ![f] = x] /\ store' = store \cup {f}
        /\ UNCHANGED <<conn, owner, callback, imported>>
    BY DEF OAuth!RememberState
  <1>3. /\ x \in OAuth!Flow /\ x.tenant = flow[f].tenant /\ x.app = flow[f].app
        /\ x.client = flow[f].client /\ x.step = "away" /\ x.passed = flow[f].passed
    BY <1>1 DEF OAuth!Flow
  <1>4. ~flow[f].passed => flow[f].client = OAuth!Connection(flow[f].tenant, flow[f].app)
    BY <1>1, FlowFields DEF OAuthInv, Unpassed
  <1>5. owner \in [Clients -> Tenants \cup {None}]
    BY DEF OAuthInv, OAuth!TypeOK
  <1> HIDE DEF x
  <1> QED BY <1>1, <1>2, <1>3, <1>4, <1>5, FlowWritten

LEMMA StartFailsStep ==
    ASSUME OAuthInv, NEW f \in Flows, OAuth!StartFails(f)
    PROVE  OAuthInv'
  <1> DEFINE x == [flow[f] EXCEPT !.step = "failed"]
  <1>1. flow[f] \in OAuth!Flow /\ flow[f].step # "away" /\ flow[f] # None
    BY DEF OAuth!StartFails, OAuth!AtStart, OAuthInv, OAuth!TypeOK
  <1>2. /\ flow' = [flow EXCEPT ![f] = x]
        /\ UNCHANGED <<conn, owner, store, callback, imported>>
    BY DEF OAuth!StartFails
  <1>3. x \in OAuth!Flow /\ x.tenant = flow[f].tenant /\ x.app = flow[f].app /\ x.step = "failed"
    BY <1>1 DEF OAuth!Flow
  <1>5. owner \in [Clients -> Tenants \cup {None}]
    BY DEF OAuthInv, OAuth!TypeOK
  <1> HIDE DEF x
  <1> QED BY <1>1, <1>2, <1>3, <1>5, FlowWritten

-----------------------------------------------------------------------------
(* Storing a client *)

LEMMA StoreAges ==
    ASSUME OAuth!TypeOK, Aged, NEW c \in Clients, NEW t \in Tenants, NEW a \in Licensed,
           OAuth!UpsertConnection(c, t, a)
    PROVE  /\ conn' \in [Clients -> OAuth!Row \cup {None}] /\ Aged'
           /\ OAuth!Stored' = OAuth!Stored \cup {c}
           /\ conn'[c].tenant = t /\ conn'[c].app = a
           /\ \A d \in Clients \ {c} : conn'[d] = conn[d]
  <1> DEFINE age == IF conn[c] = None THEN Cardinality(OAuth!Stored) + 1 ELSE conn[c].born
             row == [tenant |-> t, app |-> a, born |-> age]
  <1>1. conn' = [conn EXCEPT ![c] = row]
    BY SameCounts DEF OAuth!UpsertConnection, OAuth!TypeOK
  <1>2. IsFiniteSet(OAuth!Stored) /\ Cardinality(OAuth!Stored) \in Nat
        /\ Cardinality(Clients) \in Nat
    BY CountStored, FiniteClients, FS_CardinalityType
  <1>3. conn[c] = None => /\ Cardinality(OAuth!Stored \cup {c}) = Cardinality(OAuth!Stored) + 1
                          /\ Cardinality(OAuth!Stored) + 1 <= Cardinality(Clients)
    <2>1. OAuth!Stored \subseteq Clients
      BY DEF OAuth!Stored
    <2> SUFFICES ASSUME conn[c] = None
                 PROVE  /\ Cardinality(OAuth!Stored \cup {c}) = Cardinality(OAuth!Stored) + 1
                        /\ Cardinality(OAuth!Stored) + 1 <= Cardinality(Clients)
      OBVIOUS
    <2>2. c \notin OAuth!Stored
      BY DEF OAuth!Stored
    <2>3. Cardinality(OAuth!Stored \cup {c}) = Cardinality(OAuth!Stored) + 1
      BY <1>2, <2>2, FS_AddElement
    <2>4. OAuth!Stored \cup {c} \subseteq Clients
      BY <2>1
    <2>5. Cardinality(OAuth!Stored \cup {c}) <= Cardinality(Clients)
      BY <2>4, FiniteClients, FS_Subset
    <2> QED BY <2>3, <2>5
  <1>4. conn[c] # None => c \in OAuth!Stored /\ conn[c].born \in 1..Cardinality(Clients)
    BY SameCounts DEF OAuth!Stored, OAuth!TypeOK, OAuth!Row
  <1>5. age \in 1..Cardinality(Clients)
    BY <1>2, <1>3, <1>4
  <1>6. row \in OAuth!Row /\ row # None /\ row.born = age /\ row.tenant = t /\ row.app = a
    <2> HIDE DEF age
    <2> QED BY <1>5, SameCounts DEF OAuth!Row
  <1> HIDE DEF row
  <1>7. /\ conn' \in [Clients -> OAuth!Row \cup {None}] /\ conn'[c] = row
        /\ \A d \in Clients \ {c} : conn'[d] = conn[d]
    BY <1>1, <1>6 DEF OAuth!TypeOK
  <1>8. OAuth!Stored' = OAuth!Stored \cup {c}
    BY <1>6, <1>7 DEF OAuth!Stored
  <1>9. Cardinality(OAuth!Stored') \in Nat
        /\ Cardinality(OAuth!Stored) <= Cardinality(OAuth!Stored')
    BY <1>2, <1>3, <1>4, <1>8
  <1>10. \A d \in OAuth!Stored : conn[d].born \in Nat /\ conn[d].born <= Cardinality(OAuth!Stored)
    BY RowFields DEF Aged
  <1>11. \A d \in OAuth!Stored : conn'[d].born = conn[d].born
    BY <1>6, <1>7, <1>4 DEF OAuth!Stored
  <1>12. ASSUME NEW d \in OAuth!Stored'
         PROVE  conn'[d].born <= Cardinality(OAuth!Stored)'
    <2>1. CASE d \in OAuth!Stored
      BY <2>1, <1>2, <1>9, <1>10, <1>11
    <2>2. CASE d \notin OAuth!Stored
      <3>1. d = c /\ conn[c] = None
        BY <2>2, <1>8 DEF OAuth!Stored
      <3> QED BY <3>1, <1>2, <1>3, <1>6, <1>7, <1>8
    <2> QED BY <2>1, <2>2
  <1>13. ASSUME NEW S \in SUBSET OAuth!Stored', S # {}
         PROVE  \E m \in S : \A d \in S : conn'[d].born <= conn'[m].born
    <2>1. CASE S \subseteq OAuth!Stored
      BY <1>11, <2>1, <1>13 DEF Aged
    <2>2. CASE ~(S \subseteq OAuth!Stored)
      <3>1. c \in S /\ conn[c] = None
        BY <2>2, <1>8 DEF OAuth!Stored
      <3>2. conn'[c].born = Cardinality(OAuth!Stored) + 1
        BY <3>1, <1>6, <1>7
      <3>3. \A d \in S : d = c \/ conn'[d].born <= Cardinality(OAuth!Stored)
        BY <1>8, <1>10, <1>11
      <3>4. \A d \in S : conn'[d].born <= conn'[c].born
        BY <3>2, <3>3, <1>2, <1>8, <1>10, <1>11
      <3> QED BY <3>1, <3>4
    <2> QED BY <2>1, <2>2
  <1>14. Aged'
    BY <1>12, <1>13 DEF Aged
  <1> QED BY <1>6, <1>7, <1>8, <1>14

LEMMA ClientStored ==
    ASSUME OAuthInv, NEW f \in Flows, OAuth!StoreClient(f)
    PROVE  OAuthInv'
  <1> USE DEF OAuthInv, OAuth!AtStart, OAuth!AtCallback
  <1> DEFINE c == flow[f].client
             t == flow[f].tenant
             a == flow[f].app
  <1>1. flow[f] \in OAuth!Flow /\ flow[f].step = "store" /\ flow[f] # None
    BY DEF OAuth!StoreClient, OAuth!TypeOK
  <1>2. c \in Clients /\ owner[c] = t
    BY <1>1 DEF Owned
  <1>3. t \in Tenants /\ a \in Licensed /\ t # None
    BY <1>1, FlowFields
  <1>4. OAuth!UpsertConnection(c, t, a) /\ UNCHANGED <<owner, store, callback, imported>>
    BY DEF OAuth!StoreClient
  <1>5. \A g \in Flows : flow'[g] =
          IF g = f THEN [flow[f] EXCEPT !.step = "remember"]
          ELSE IF flow[g] # None /\ flow[g].tenant = t THEN [flow[g] EXCEPT !.passed = TRUE]
          ELSE flow[g]
    BY DEF OAuth!StoreClient
  <1>6. /\ conn' \in [Clients -> OAuth!Row \cup {None}] /\ Aged'
        /\ OAuth!Stored' = OAuth!Stored \cup {c}
        /\ conn'[c].tenant = t /\ conn'[c].app = a
        /\ \A d \in Clients \ {c} : conn'[d] = conn[d]
    BY <1>2, <1>3, <1>4, StoreAges
  <1>7. \A g \in Flows :
          /\ flow[g] = None <=> flow'[g] = None
          /\ flow[g] # None => /\ flow[g] \in OAuth!Flow /\ flow'[g] \in OAuth!Flow
                               /\ flow'[g].tenant = flow[g].tenant
                               /\ flow'[g].app = flow[g].app
                               /\ flow'[g].client = flow[g].client
                               /\ g # f => flow'[g].step = flow[g].step
                               /\ g # f /\ flow[g].tenant = t => flow'[g].passed
                               /\ ~flow'[g].passed => ~flow[g].passed
                               /\ flow'[f].step = "remember"
    <2> HIDE DEF t
    <2> SUFFICES ASSUME NEW g \in Flows, flow[g] # None
                 PROVE  /\ flow[g] \in OAuth!Flow /\ flow'[g] \in OAuth!Flow
                        /\ flow'[g].tenant = flow[g].tenant
                        /\ flow'[g].app = flow[g].app
                        /\ flow'[g].client = flow[g].client
                        /\ g # f => flow'[g].step = flow[g].step
                        /\ g # f /\ flow[g].tenant = t => flow'[g].passed
                        /\ ~flow'[g].passed => ~flow[g].passed
                        /\ flow'[f].step = "remember"
      BY <1>1, <1>5, FlowFields
    <2>1. flow[g] \in OAuth!Flow
      BY DEF OAuth!TypeOK
    <2>2. flow'[f].step = "remember"
      BY <1>1, <1>5 DEF OAuth!Flow
    <2>3. CASE g = f
      <3>1. flow'[g] = [flow[g] EXCEPT !.step = "remember"]
        BY <2>3, <1>5
      <3> QED BY <2>1, <2>2, <2>3, <3>1 DEF OAuth!Flow
    <2>4. CASE g # f /\ flow[g].tenant = t
      <3>1. flow'[g] = [flow[g] EXCEPT !.passed = TRUE]
        BY <2>4, <1>5
      <3> QED BY <2>1, <2>2, <2>4, <3>1 DEF OAuth!Flow
    <2>5. CASE g # f /\ flow[g].tenant # t
      BY <2>1, <2>2, <2>5, <1>5 DEF OAuth!Flow
    <2> QED BY <2>3, <2>4, <2>5
  <1>8. OAuth!TypeOK'
    <2>1. flow' \in [Flows -> OAuth!Flow \cup {None}]
      <3>1. DOMAIN flow' = Flows /\ flow' = [g \in Flows |-> flow'[g]]
        BY DEF OAuth!StoreClient
      <3> QED BY <3>1, <1>7
    <2> QED BY <2>1, <1>4, <1>6, <1>7 DEF OAuth!TypeOK
  <1>9. Owned'
    <2>1. conn[c] # None => conn[c].tenant = t
      BY <1>2 DEF Owned, OAuth!Stored
    <2>2. \A d \in OAuth!Stored' : owner[d] = conn'[d].tenant
      <3> SUFFICES ASSUME NEW d \in OAuth!Stored' PROVE owner[d] = conn'[d].tenant
        OBVIOUS
      <3>1. CASE d = c
        BY <3>1, <1>2, <1>6
      <3>2. CASE d # c
        BY <3>2, <1>6 DEF Owned, OAuth!Stored
      <3> QED BY <3>1, <3>2
    <2>3. \A g \in Flows : OAuth!AtStart(g, "store")' =>
            flow'[g].client \in Clients /\ owner[flow'[g].client] = flow'[g].tenant
      BY <1>7 DEF Owned
    <2> QED BY <1>4, <2>2, <2>3 DEF Owned
  <1>10. Unpassed'
    <2> SUFFICES ASSUME NEW g \in Flows, NEW u \in Tenants, NEW b \in Licensed,
                        flow'[g] # None, ~flow'[g].passed,
                        flow'[g].tenant = u, flow'[g].app = b
                 PROVE  /\ flow'[g].step \in {"register", "store"} => OAuth!Of(u, b)' = {}
                        /\ flow'[g].step \in {"remember", "away"} =>
                             flow'[g].client = OAuth!Connection(u, b)'
      BY DEF Unpassed
    <2>1. CASE g = f
      <3>1. u = t /\ b = a /\ flow'[f].step = "remember" /\ flow'[f].client = c
        BY <2>1, <1>1, <1>7
      <3>2. ~flow[f].passed
        BY <1>1, <1>7, <2>1
      <3>3. OAuth!Of(u, b) = {}
        BY <3>1, <3>2, <1>1 DEF Unpassed
      <3>4. OAuth!Of(u, b)' = {c}
        BY <3>1, <3>3, <1>2, <1>6 DEF OAuth!Of, OAuth!Stored
      <3>5. OAuth!Connection(u, b)' = OAuth!Latest({c}, [d \in {c} |-> conn'[d].born])
        BY <3>4 DEF OAuth!Connection
      <3>7. conn'[c].born \in Nat
        BY <1>6, <1>8, RowFields DEF OAuth!Row, OAuth!TypeOK, OAuth!Stored
      <3>8. OAuth!Connection(u, b)' = c
        <4> DEFINE m == [d \in {c} |-> conn'[d].born]
        <4>1. \E x \in {c} : \A d \in {c} : m[d] <= m[x]
          BY <3>7
        <4>2. OAuth!Latest({c}, m) \in {c}
          <5> HIDE DEF m
          <5> QED BY <4>1 DEF OAuth!Latest
        <4> QED BY <3>5, <4>2
      <3> QED BY <2>1, <3>1, <3>8
    <2>2. CASE g # f
      <3>1. u # t
        BY <2>2, <1>7
      <3>2. conn[c] # None => conn[c].tenant = t
        BY <1>2 DEF Owned, OAuth!Stored
      <3>3. \A d \in Clients :
              (conn[d] # None /\ conn[d].tenant = u) \/ (conn'[d] # None /\ conn'[d].tenant = u)
                => conn'[d] = conn[d]
        BY <3>1, <3>2, <1>6
      <3>4. OAuth!Of(u, b)' = OAuth!Of(u, b) /\ OAuth!Connection(u, b)' = OAuth!Connection(u, b)
        BY <3>3, ConnectionKept
      <3> QED BY <2>2, <1>7, <3>4 DEF Unpassed
    <2> QED BY <2>1, <2>2
  <1>11. \A b \in Callbacks : callback[b] # None => callback[b].flow \in Flows
    BY CallbackFields DEF OAuth!TypeOK
  <1>12. \A g \in Flows : OAuth!AtStart(g, "away") => OAuth!AtStart(g, "away")' /\ g # f
    BY <1>1, <1>7
  <1>13. Spent'
    <2>1. store \subseteq Flows
      BY DEF OAuth!TypeOK
    <2> QED BY <2>1, <1>4, <1>7, <1>11, <1>12 DEF Spent
  <1>14. OAuth!OneImportPerFlow'
    BY <1>4 DEF OAuth!OneImportPerFlow
  <1>15. OAuth!CodesGoHome'
    BY <1>4, <1>7, <1>11 DEF OAuth!CodesGoHome, Spent
  <1> QED BY <1>6, <1>8, <1>9, <1>10, <1>13, <1>14, <1>15

-----------------------------------------------------------------------------
(* The callback *)

LEMMA RowsKept ==
    ASSUME OAuthInv, flow' = flow, conn' = conn, owner' = owner
    PROVE  Aged' /\ Owned' /\ Unpassed'
  <1>1. Aged'
    BY AgedKept DEF OAuthInv
  <1>2. Owned'
    BY DEF OAuthInv, Owned, OAuth!Stored, OAuth!AtStart
  <1>3. Unpassed'
    BY ConnectionUnchanged DEF OAuthInv, Unpassed
  <1> QED BY <1>1, <1>2, <1>3

(* A callback that goes on with what it has, or ends. *)
LEMMA CallbackGoes ==
    ASSUME OAuthInv, NEW b \in Callbacks,
           callback' \in [Callbacks -> OAuth!Callback \cup {None}],
           \A d \in Callbacks \ {b} : callback'[d] = callback[d],
           callback'[b] # None =>
             /\ callback[b] # None /\ callback'[b].flow = callback[b].flow
             /\ callback'[b].tenant = callback[b].tenant
             /\ callback'[b].step = "exchange" /\ ~flow[callback[b].flow].passed =>
                  callback'[b].client = flow[callback[b].flow].client,
           UNCHANGED <<conn, owner, flow, store, imported>>
    PROVE  OAuthInv'
  <1> USE DEF OAuthInv, OAuth!AtStart, OAuth!AtCallback
  <1>1. OAuth!TypeOK'
    BY DEF OAuth!TypeOK
  <1>2. Spent'
    BY DEF Spent
  <1>3. OAuth!OneImportPerFlow'
    BY DEF OAuth!OneImportPerFlow
  <1>4. OAuth!CodesGoHome'
    BY DEF OAuth!CodesGoHome
  <1> QED BY <1>1, <1>2, <1>3, <1>4, RowsKept

LEMMA TakeStep ==
    ASSUME OAuthInv, NEW b \in Callbacks, NEW f \in Flows, NEW t \in Tenants,
           OAuth!TakeState(b, f, t)
    PROVE  OAuthInv'
  <1> USE DEF OAuthInv, OAuth!AtStart, OAuth!AtCallback
  <1> DEFINE x == [tenant |-> t, flow |-> f, client |-> None, step |-> "lookup"]
  <1>1. x \in OAuth!Callback /\ x # None /\ x.tenant = t /\ x.flow = f /\ x.step = "lookup"
    <2>1. x \in OAuth!Callback
      BY DEF OAuth!Callback
    <2> QED BY <2>1, CallbackFields
  <1>2. /\ callback[b] = None /\ f \in store /\ store' = store \ {f}
        /\ callback' = [callback EXCEPT ![b] = IF flow[f].tenant = t THEN x ELSE None]
        /\ UNCHANGED <<conn, owner, flow, imported>>
    BY DEF OAuth!TakeState
  <1> HIDE DEF x
  <1>3. /\ \A d \in Callbacks \ {b} : callback'[d] = callback[d]
        /\ callback'[b] = IF flow[f].tenant = t THEN x ELSE None
        /\ callback' \in [Callbacks -> OAuth!Callback \cup {None}]
    BY <1>1, <1>2 DEF OAuth!TypeOK
  <1>4. OAuth!TypeOK'
    BY <1>2, <1>3 DEF OAuth!TypeOK
  <1>5. Spent'
    <2>1. \A g \in store' :
            /\ OAuth!AtStart(g, "away")
            /\ \A d \in Callbacks :
                 <<d, g>> \notin imported /\ (callback'[d] # None => callback'[d].flow # g)
      BY <1>1, <1>2, <1>3 DEF Spent
    <2>2. \A d \in Callbacks :
            callback'[d] # None =>
              /\ OAuth!AtStart(callback'[d].flow, "away")
              /\ callback'[d].tenant = flow[callback'[d].flow].tenant
              /\ \A e \in Callbacks :
                   /\ <<e, callback'[d].flow>> \notin imported
                   /\ callback'[e] # None /\ callback'[e].flow = callback'[d].flow => e = d
      BY <1>1, <1>2, <1>3 DEF Spent
    <2> QED BY <1>2, <2>1, <2>2 DEF Spent
  <1>6. OAuth!OneImportPerFlow' /\ OAuth!CodesGoHome'
    BY <1>1, <1>2, <1>3 DEF OAuth!OneImportPerFlow, OAuth!CodesGoHome
  <1> QED BY <1>2, <1>4, <1>5, <1>6, RowsKept

LEMMA LookUpAgainStep ==
    ASSUME OAuthInv, NEW b \in Callbacks, OAuth!LookUpClientAgain(b)
    PROVE  OAuthInv'
  <1> DEFINE f == callback[b].flow
             found == OAuth!Connection(callback[b].tenant, flow[f].app)
             x == [callback[b] EXCEPT !.client = found, !.step = "exchange"]
  <1>1. callback[b] # None /\ callback[b] \in OAuth!Callback
    BY DEF OAuth!LookUpClientAgain, OAuth!AtCallback, OAuthInv, OAuth!TypeOK
  <1>2. f \in Flows /\ callback[b].tenant \in Tenants
    BY <1>1, CallbackFields
  <1>3. OAuth!AtStart(f, "away") /\ callback[b].tenant = flow[f].tenant
    BY <1>1 DEF OAuthInv, Spent
  <1>4. flow[f] # None /\ flow[f].step = "away" /\ flow[f] \in OAuth!Flow
    BY <1>2, <1>3 DEF OAuth!AtStart, OAuthInv, OAuth!TypeOK
  <1>5. flow[f].tenant \in Tenants /\ flow[f].app \in Licensed
    BY <1>4, FlowFields
  <1>6. found \in Clients \cup {None}
    BY <1>3, <1>5, ConnectionFound DEF OAuthInv
  <1>7. ~flow[f].passed => found = flow[f].client
    BY <1>2, <1>3, <1>4, <1>5 DEF OAuthInv, Unpassed
  <1>8. callback' = [callback EXCEPT ![b] = x] /\ UNCHANGED <<conn, owner, flow, store, imported>>
    BY DEF OAuth!LookUpClientAgain
  <1>9. /\ x \in OAuth!Callback /\ x.flow = f /\ x.tenant = callback[b].tenant /\ x.client = found
        /\ x.step = "exchange"
    <2> HIDE DEF found
    <2> QED BY <1>1, <1>6 DEF OAuth!Callback
  <1> HIDE DEF x, found
  <1>10. /\ callback' \in [Callbacks -> OAuth!Callback \cup {None}] /\ callback'[b] = x
         /\ \A d \in Callbacks \ {b} : callback'[d] = callback[d]
    BY <1>8, <1>9 DEF OAuthInv, OAuth!TypeOK
  <1> QED BY <1>1, <1>7, <1>8, <1>9, <1>10, CallbackGoes

LEMMA CallbackEnds ==
    ASSUME OAuthInv, NEW b \in Callbacks, OAuth!EndCallback(b),
           UNCHANGED <<conn, owner, flow, store, imported>>
    PROVE  OAuthInv'
  <1>1. /\ callback' \in [Callbacks -> OAuth!Callback \cup {None}] /\ callback'[b] = None
        /\ \A d \in Callbacks \ {b} : callback'[d] = callback[d]
    BY DEF OAuth!EndCallback, OAuthInv, OAuth!TypeOK
  <1> QED BY <1>1, CallbackGoes

LEMMA CallbackSteps ==
    ASSUME OAuthInv, NEW b \in Callbacks, NEW step \in {"issue", "import"},
           callback[b] # None, OAuth!Go(b, step), UNCHANGED <<conn, owner, flow, store, imported>>
    PROVE  OAuthInv'
  <1> DEFINE x == [callback[b] EXCEPT !.step = step]
  <1>1. callback[b] \in OAuth!Callback
    BY DEF OAuthInv, OAuth!TypeOK
  <1>2. callback' = [callback EXCEPT ![b] = x]
    BY DEF OAuth!Go
  <1>3. /\ x \in OAuth!Callback /\ x.flow = callback[b].flow /\ x.tenant = callback[b].tenant
        /\ x.step = step
    BY <1>1 DEF OAuth!Callback
  <1> HIDE DEF x
  <1>4. /\ callback' \in [Callbacks -> OAuth!Callback \cup {None}] /\ callback'[b] = x
        /\ \A d \in Callbacks \ {b} : callback'[d] = callback[d]
    BY <1>2, <1>3 DEF OAuthInv, OAuth!TypeOK
  <1> QED BY <1>3, <1>4, CallbackGoes

(* The license of a flow is stored by the callback that took its state. *)
LEMMA ImportStep ==
    ASSUME OAuthInv, NEW b \in Callbacks, OAuth!ImportLicense(b)
    PROVE  OAuthInv'
  <1> USE DEF OAuthInv, OAuth!AtStart, OAuth!AtCallback
  <1>1. callback[b] # None /\ callback[b] \in OAuth!Callback
    BY DEF OAuth!ImportLicense, OAuth!TypeOK
  <1>2. callback[b].flow \in Flows
    BY <1>1, CallbackFields
  <1>3. /\ imported' = imported \cup {<<b, callback[b].flow>>}
        /\ UNCHANGED <<conn, owner, flow, store>>
        /\ callback' \in [Callbacks -> OAuth!Callback \cup {None}] /\ callback'[b] = None
        /\ \A d \in Callbacks \ {b} : callback'[d] = callback[d]
    BY DEF OAuth!ImportLicense, OAuth!EndCallback, OAuth!TypeOK
  <1>4. OAuth!TypeOK'
    BY <1>2, <1>3 DEF OAuth!TypeOK
  <1>5. Spent'
    BY <1>1, <1>2, <1>3 DEF Spent
  <1>6. OAuth!OneImportPerFlow'
    BY <1>1, <1>2, <1>3 DEF Spent, OAuth!OneImportPerFlow
  <1>7. OAuth!CodesGoHome'
    BY <1>3 DEF OAuth!CodesGoHome
  <1> QED BY <1>3, <1>4, <1>5, <1>6, <1>7, RowsKept

LEMMA CleanUpStep ==
    ASSUME OAuthInv, NEW f \in Flows, OAuth!CleanUpOAuthState(f)
    PROVE  OAuthInv'
  <1> USE DEF OAuthInv, OAuth!AtStart, OAuth!AtCallback
  <1>1. store' = store \ {f} /\ UNCHANGED <<conn, owner, flow, callback, imported>>
    BY DEF OAuth!CleanUpOAuthState
  <1>2. OAuth!TypeOK' /\ Spent' /\ OAuth!OneImportPerFlow' /\ OAuth!CodesGoHome'
    BY <1>1 DEF OAuth!TypeOK, Spent, OAuth!OneImportPerFlow, OAuth!CodesGoHome
  <1> QED BY <1>1, <1>2, RowsKept

(* What is remembered is lost; what is stored stays. *)
LEMMA ProcessEnds ==
    ASSUME OAuthInv, OAuth!Restart
    PROVE  OAuthInv'
  <1> USE DEF OAuthInv, OAuth!AtStart, OAuth!AtCallback
  <1>1. store' = {} /\ callback' = [b \in Callbacks |-> None]
        /\ UNCHANGED <<conn, owner, imported>>
    BY DEF OAuth!Restart
  <1>2. \A f \in Flows :
          flow'[f] = flow[f]
          \/ (/\ flow[f] # None /\ flow[f].step # "away"
              /\ flow'[f] = [flow[f] EXCEPT !.step = "failed"])
    BY DEF OAuth!Restart
  <1>3. \A f \in Flows :
          flow'[f] = flow[f]
          \/ (/\ flow[f] # None /\ flow[f].step # "away" /\ flow'[f] \in OAuth!Flow
              /\ flow'[f].step = "failed")
    <2> SUFFICES ASSUME NEW f \in Flows, flow[f] # None, flow[f].step # "away",
                        flow'[f] = [flow[f] EXCEPT !.step = "failed"]
                 PROVE  flow'[f] \in OAuth!Flow /\ flow'[f].step = "failed"
      BY <1>2
    <2>1. flow[f] \in OAuth!Flow
      BY DEF OAuth!TypeOK
    <2> QED BY <2>1 DEF OAuth!Flow
  <1>4. OAuth!TypeOK'
    <2>1. DOMAIN flow' = Flows /\ flow' = [f \in Flows |-> flow'[f]]
      BY DEF OAuth!Restart
    <2>2. flow' \in [Flows -> OAuth!Flow \cup {None}]
      BY <1>3, <2>1 DEF OAuth!TypeOK
    <2> QED BY <1>1, <2>2 DEF OAuth!TypeOK
  <1>5. Aged'
    BY <1>1, AgedKept
  <1>6. Owned'
    BY <1>1, <1>3 DEF Owned, OAuth!Stored
  <1>7. Unpassed'
    BY <1>1, <1>3, ConnectionUnchanged DEF Unpassed
  <1>8. Spent' /\ OAuth!OneImportPerFlow' /\ OAuth!CodesGoHome'
    BY <1>1, <1>3 DEF Spent, OAuth!OneImportPerFlow, OAuth!CodesGoHome
  <1> QED BY <1>4, <1>5, <1>6, <1>7, <1>8

LEMMA OAuthStep ==
    ASSUME OAuthInv, [OAuth!Next]_(OAuth!vars)
    PROVE  OAuthInv'
  <1>1. ASSUME NEW f \in Flows, NEW t \in Tenants, NEW a \in Licensed,
               OAuth!StartLicenseOAuth(f, t, a)
        PROVE  OAuthInv'
    BY <1>1, StartStep
  <1>2. ASSUME NEW f \in Flows,
               OAuth!LookUpClient(f) \/ OAuth!StoreClient(f) \/ OAuth!RememberState(f)
               \/ OAuth!StartFails(f)
        PROVE  OAuthInv'
    BY <1>2, LookUpStep, ClientStored, RememberStep, StartFailsStep
  <1>3. ASSUME NEW f \in Flows, NEW c \in Clients, OAuth!RegisterClient(f, c)
        PROVE  OAuthInv'
    BY <1>3, RegisterStep
  <1>4. ASSUME NEW f \in Flows, OAuth!CleanUpOAuthState(f)
        PROVE  OAuthInv'
    BY <1>4, CleanUpStep
  <1>5. ASSUME NEW b \in Callbacks, NEW f \in Flows, NEW t \in Tenants, OAuth!TakeState(b, f, t)
        PROVE  OAuthInv'
    BY <1>5, TakeStep
  <1>6. ASSUME NEW b \in Callbacks, OAuth!LookUpClientAgain(b)
        PROVE  OAuthInv'
    BY <1>6, LookUpAgainStep
  <1>7. ASSUME NEW b \in Callbacks,
               OAuth!ExchangeCode(b) \/ OAuth!IssueLicense(b) \/ OAuth!CallbackFails(b)
        PROVE  OAuthInv'
    <2>1. /\ callback[b] # None /\ UNCHANGED <<conn, owner, flow, store, imported>>
          /\ OAuth!EndCallback(b) \/ \E step \in {"issue", "import"} : OAuth!Go(b, step)
      BY <1>7 DEF OAuth!ExchangeCode, OAuth!IssueLicense, OAuth!CallbackFails, OAuth!AtCallback
    <2> QED BY <2>1, CallbackEnds, CallbackSteps
  <1>8. ASSUME NEW b \in Callbacks, OAuth!ImportLicense(b)
        PROVE  OAuthInv'
    BY <1>8, ImportStep
  <1>9. CASE OAuth!Restart
    BY <1>9, ProcessEnds
  <1>10. CASE UNCHANGED OAuth!vars
    <2>1. UNCHANGED <<conn, owner, flow, store, callback, imported>>
      BY <1>10 DEF OAuth!vars
    <2>2. OAuth!TypeOK' /\ Spent' /\ OAuth!OneImportPerFlow' /\ OAuth!CodesGoHome'
      BY <2>1 DEF OAuthInv, OAuth!TypeOK, Spent, OAuth!OneImportPerFlow, OAuth!CodesGoHome,
                  OAuth!AtStart, OAuth!AtCallback
    <2> QED BY <2>1, <2>2, RowsKept DEF OAuthInv
  <1> QED
    BY <1>1, <1>2, <1>3, <1>4, <1>5, <1>6, <1>7, <1>8, <1>9, <1>10 DEF OAuth!Next

LEMMA OAuthInit == OAuth!Init => OAuthInv
  <1> SUFFICES ASSUME OAuth!Init PROVE OAuthInv
    OBVIOUS
  <1>1. OAuth!Stored = {}
    BY DEF OAuth!Init, OAuth!Stored
  <1>2. Aged /\ Owned
    BY <1>1 DEF Aged, Owned, OAuth!AtStart, OAuth!Init
  <1> QED
    BY <1>2 DEF OAuth!Init, OAuthInv, OAuth!TypeOK, Unpassed, Spent, OAuth!OneImportPerFlow,
                OAuth!CodesGoHome, OAuth!AtStart,
                OAuth!AtCallback

LEMMA OAuthAlways == OAuth!Spec => []OAuthInv
  BY OAuthInit, OAuthStep, PTL DEF OAuth!Spec

-----------------------------------------------------------------------------
(* The catalog *)

USE CatalogAssumption DEF Catalog!CatalogAssumption

(* What a synchronization has at a step: items its source has listed, and  *)
(* of the application it is storing a release its item agrees with.        *)
SyncSound(x, known) ==
    /\ x.step \in {"feed", "item", "signal", "store"} /\ x.from.source \in Sources
    /\ x.step # "feed" =>
         \A a \in Apps :
           x.items[a] # None => <<x.from.source, a, x.items[a].release>> \in known
    /\ x.step \in {"signal", "store"} =>
         /\ x.app \in Apps /\ x.release \in Catalog!Releases
         /\ \E r \in {0, x.release} : <<x.from.source, x.app, r>> \in known

TaskSound(x, known) ==
    /\ x.kind = "sync" => SyncSound(x, known)
    /\ x.kind = "manifest" => x.step = "store" /\ x.from.source = None
    /\ x.kind = "refresh" => x.step \in {"read", "store"}
    /\ x.kind = "auto" => x.step = "update" /\ x.from.source \in Sources
    /\ x.kind = "publish" => x.step = "update"
    /\ x.kind \in {"manifest", "refresh", "publish"} => x.app \in Apps
    /\ x.kind \in {"manifest", "refresh"} => x.release \in Catalog!Releases

TasksSound == \A t \in Catalog!Tasks : task[t] # None => TaskSound(task[t], listed)

(* No source is deleted. *)
SourcesKnown ==
    \A t \in Catalog!Tasks :
      task[t] # None /\ task[t].kind = "auto" => source[task[t].from.source] # None

(* The timer synchronizes sources that were trusted when its tick began. *)
TimerTrusts ==
    /\ task[Timer] # None => task[Timer].kind = "sync" /\ Catalog!Trusted(task[Timer].from.status)
    /\ \A s \in Sources, mode \in Modes : <<s, mode>> \in todo => Catalog!Trusted(mode)

FeedsListed ==
    \A s \in Sources, a \in Apps :
      feed[s][a] # None => <<s, a, feed[s][a].release>> \in listed

CatalogInv ==
    /\ Catalog!TypeOK /\ TasksSound /\ SourcesKnown /\ TimerTrusts
    /\ FeedsListed /\ Catalog!FeedEntriesWereListed

LEMMA TaskFields ==
    ASSUME NEW x \in Catalog!Task
    PROVE  /\ x # None /\ x.kind \in {"sync", "manifest", "refresh", "auto", "publish"}
           /\ x.step \in {"feed", "item", "signal", "read", "store", "update"}
           /\ x.from \in Catalog!Provenance /\ x.from.source \in Sources \cup {None}
           /\ x.from.status \in Catalog!Statuses
           /\ x.items \in [Apps -> Catalog!Item \cup {None}]
           /\ x.app \in Apps \cup {None} /\ x.release \in 0..MaxRelease
           /\ x.signal \in 0..MaxRelease
  BY DEF Catalog!Task, Catalog!Provenance

LEMMA ItemFields ==
    ASSUME NEW i \in Catalog!Item
    PROVE  /\ i # None /\ i.release \in 0..MaxRelease /\ i.signal \in 0..MaxRelease
           /\ i.left \in 0..Validity
  BY DEF Catalog!Item

(* A new task, field by field. *)
LEMMA TaskMade ==
    ASSUME NEW kind \in {"sync", "manifest", "refresh", "auto", "publish"},
           NEW step \in {"feed", "item", "signal", "read", "store", "update"},
           NEW from \in Catalog!Provenance, NEW app \in Apps \cup {None},
           NEW release \in 0..MaxRelease
    PROVE  /\ Catalog!NewTask(kind, step, from, app, release) \in Catalog!Task
           /\ Catalog!NewTask(kind, step, from, app, release).kind = kind
           /\ Catalog!NewTask(kind, step, from, app, release).step = step
           /\ Catalog!NewTask(kind, step, from, app, release).from = from
           /\ Catalog!NewTask(kind, step, from, app, release).app = app
           /\ Catalog!NewTask(kind, step, from, app, release).release = release
  <1>1. Catalog!Nothing \in [Apps -> Catalog!Item \cup {None}]
    BY DEF Catalog!Nothing
  <1> QED BY <1>1 DEF Catalog!NewTask, Catalog!Task

LEMMA ModesAreStatuses ==
    ASSUME NEW mode \in Modes
    PROVE  /\ mode \in Catalog!Statuses
           /\ Catalog!TrustStatusFromSource(mode) \in Catalog!Statuses
           /\ Catalog!Trusted(mode) => Catalog!Trusted(Catalog!TrustStatusFromSource(mode))
  BY DEF Catalog!Statuses, Catalog!TrustModes, Catalog!TrustStatusFromSource, Catalog!Trusted

LEMMA ManualIsProvenance == Catalog!Manual \in Catalog!Provenance /\ Catalog!Manual.source = None
  BY DEF Catalog!Manual, Catalog!Provenance, Catalog!Statuses, Catalog!TrustModes

LEMMA SoundKept ==
    ASSUME NEW x, NEW K, NEW L, K \subseteq L, TaskSound(x, K)
    PROVE  TaskSound(x, L)
  BY DEF TaskSound, SyncSound

(* A step that leaves the tasks alone. *)
LEMMA TasksRest ==
    ASSUME CatalogInv, task' = task, todo' = todo, listed \subseteq listed',
           \A s \in Sources : source[s] # None => source'[s] # None
    PROVE  TasksSound' /\ SourcesKnown' /\ TimerTrusts'
  <1>1. TasksSound'
    BY SoundKept DEF CatalogInv, TasksSound
  <1>2. SourcesKnown'
    BY DEF CatalogInv, SourcesKnown, TasksSound, TaskSound
  <1> QED BY <1>1, <1>2 DEF CatalogInv, TimerTrusts

(* A step of one task, which may end it. *)
LEMMA TaskGoes ==
    ASSUME CatalogInv, NEW t \in Catalog!Tasks, NEW x \in Catalog!Task \cup {None},
           task' = [task EXCEPT ![t] = x], listed' = listed, todo' \subseteq todo,
           \A s \in Sources : source[s] # None => source'[s] # None,
           x # None => TaskSound(x, listed),
           x # None /\ x.kind = "auto" => source[x.from.source] # None,
           x # None /\ t = Timer => x.kind = "sync" /\ Catalog!Trusted(x.from.status)
    PROVE  /\ task' \in [Catalog!Tasks -> Catalog!Task \cup {None}]
           /\ TasksSound' /\ SourcesKnown' /\ TimerTrusts'
  <1>1. \A y \in Catalog!Tasks : task'[y] = IF y = t THEN x ELSE task[y]
    BY DEF CatalogInv, Catalog!TypeOK
  <1>2. task' \in [Catalog!Tasks -> Catalog!Task \cup {None}]
    BY DEF CatalogInv, Catalog!TypeOK
  <1>3. TasksSound'
    BY <1>1 DEF CatalogInv, TasksSound
  <1>4. Timer \in Catalog!Tasks
    BY DEF Catalog!Tasks
  <1>5. TimerTrusts'
    BY <1>1, <1>4 DEF CatalogInv, TimerTrusts
  <1>6. SourcesKnown'
    BY <1>1 DEF CatalogInv, SourcesKnown, TasksSound, TaskSound
  <1> QED BY <1>2, <1>3, <1>5, <1>6

LEMMA TaskAt ==
    ASSUME CatalogInv, NEW t \in Catalog!Tasks, task[t] # None
    PROVE  /\ task[t] \in Catalog!Task /\ TaskSound(task[t], listed)
           /\ t = Timer => task[t].kind = "sync" /\ Catalog!Trusted(task[t].from.status)
  BY DEF CatalogInv, Catalog!TypeOK, TasksSound, TimerTrusts

(* What an entry names stays listed. *)
LEMMA EntriesRest ==
    ASSUME CatalogInv, listed \subseteq listed',
           \A a \in Apps :
             entry'[a] = None \/ entry'[a] = entry[a]
             \/ (/\ entry[a] # None /\ entry'[a].from = entry[a].from
                 /\ entry'[a].release = entry[a].release
                 /\ entry'[a].refreshed = entry[a].refreshed)
    PROVE  Catalog!FeedEntriesWereListed'
  BY DEF CatalogInv, Catalog!FeedEntriesWereListed

-----------------------------------------------------------------------------
(* Outside, sources, and what needs no task *)

LEMMA FeedStep ==
    ASSUME CatalogInv, NEW s \in Sources, NEW a \in Apps, NEW r \in 0..MaxRelease,
           NEW signal \in 0..MaxRelease, NEW left \in 0..Validity,
           Catalog!UpdateFeed(s, a, r, signal, left)
    PROVE  CatalogInv'
  <1> DEFINE item == [release |-> r, signal |-> signal, left |-> left]
  <1>1. item \in Catalog!Item /\ item.release = r
    BY DEF Catalog!Item
  <1>2. /\ feed' = [feed EXCEPT ![s][a] = item] /\ listed' = listed \cup {<<s, a, r>>}
        /\ UNCHANGED <<serves, source, entry, signed, installed, task, todo, requests, outages>>
    BY DEF Catalog!UpdateFeed, Catalog!tables
  <1> HIDE DEF item
  <1>3. \A z \in Sources, b \in Apps :
          feed'[z][b] = IF z = s /\ b = a THEN item ELSE feed[z][b]
    BY <1>2 DEF CatalogInv, Catalog!TypeOK
  <1>4. Catalog!TypeOK'
    <2>1. feed' \in [Sources -> [Apps -> Catalog!Item \cup {None}]]
      BY <1>1, <1>2 DEF CatalogInv, Catalog!TypeOK
    <2> QED BY <1>2, <2>1 DEF CatalogInv, Catalog!TypeOK
  <1>5. FeedsListed'
    BY <1>1, <1>2, <1>3 DEF CatalogInv, FeedsListed
  <1>6. TasksSound' /\ SourcesKnown' /\ TimerTrusts' /\ Catalog!FeedEntriesWereListed'
    BY <1>2, TasksRest, EntriesRest
  <1> QED BY <1>4, <1>5, <1>6 DEF CatalogInv

LEMMA RenewStep ==
    ASSUME CatalogInv, NEW s \in Sources, NEW a \in Apps, Catalog!RenewSignal(s, a)
    PROVE  CatalogInv'
  <1> DEFINE item == [feed[s][a] EXCEPT !.left = Validity]
  <1>1. /\ feed[s][a] # None /\ feed' = [feed EXCEPT ![s][a] = item]
        /\ UNCHANGED <<serves, listed, source, entry, signed, installed, task, todo, requests,
                       outages>>
    BY DEF Catalog!RenewSignal, Catalog!tables
  <1>2. feed[s][a] \in Catalog!Item
    BY <1>1 DEF CatalogInv, Catalog!TypeOK
  <1>3. item \in Catalog!Item /\ item.release = feed[s][a].release
    BY <1>2 DEF Catalog!Item
  <1> HIDE DEF item
  <1>4. \A z \in Sources, b \in Apps :
          feed'[z][b] = IF z = s /\ b = a THEN item ELSE feed[z][b]
    BY <1>1 DEF CatalogInv, Catalog!TypeOK
  <1>5. Catalog!TypeOK'
    <2>1. feed' \in [Sources -> [Apps -> Catalog!Item \cup {None}]]
      BY <1>1, <1>3 DEF CatalogInv, Catalog!TypeOK
    <2> QED BY <1>1, <2>1 DEF CatalogInv, Catalog!TypeOK
  <1>6. FeedsListed'
    BY <1>1, <1>3, <1>4 DEF CatalogInv, FeedsListed
  <1>7. TasksSound' /\ SourcesKnown' /\ TimerTrusts' /\ Catalog!FeedEntriesWereListed'
    BY <1>1, TasksRest, EntriesRest
  <1> QED BY <1>5, <1>6, <1>7 DEF CatalogInv

(* A day changes nothing of an item but the days left. *)
LEMMA ItemOlder ==
    ASSUME NEW item \in Catalog!Item \cup {None}
    PROVE  /\ Catalog!DayOlder(item) \in Catalog!Item \cup {None}
           /\ Catalog!DayOlder(item) # None <=> item # None
           /\ item # None => Catalog!DayOlder(item).release = item.release
  <1>1. CASE item = None \/ item.left = 0
    BY <1>1 DEF Catalog!DayOlder
  <1>2. CASE item # None /\ item.left # 0
    <2> DEFINE older == [item EXCEPT !.left = item.left - 1]
    <2>1. item \in Catalog!Item /\ item.left - 1 \in 0..Validity
      BY <1>2, ItemFields
    <2>2. older \in Catalog!Item /\ older.release = item.release
      BY <2>1 DEF Catalog!Item
    <2>3. Catalog!DayOlder(item) = older
      BY <1>2 DEF Catalog!DayOlder
    <2> HIDE DEF older
    <2> QED BY <1>2, <2>2, <2>3, ItemFields
  <1> QED BY <1>1, <1>2

LEMMA DayStep ==
    ASSUME CatalogInv, Catalog!NextDay
    PROVE  CatalogInv'
  <1>1. /\ UNCHANGED <<serves, listed, source, entry, signed, installed, task, todo, requests,
                       outages>>
        /\ feed' = [s \in Sources |-> [a \in Apps |-> Catalog!DayOlder(feed[s][a])]]
    BY DEF Catalog!NextDay, Catalog!tables
  <1>2. \A s \in Sources, a \in Apps :
          /\ feed[s][a] \in Catalog!Item \cup {None}
          /\ feed'[s][a] = Catalog!DayOlder(feed[s][a])
    BY <1>1 DEF CatalogInv, Catalog!TypeOK
  <1>3. \A s \in Sources, a \in Apps :
          /\ feed'[s][a] \in Catalog!Item \cup {None}
          /\ feed'[s][a] # None =>
               feed[s][a] # None /\ feed'[s][a].release = feed[s][a].release
    BY <1>2, ItemOlder
  <1>4. Catalog!TypeOK'
    <2>1. feed' \in [Sources -> [Apps -> Catalog!Item \cup {None}]]
      BY <1>1, <1>3
    <2> QED BY <1>1, <2>1 DEF CatalogInv, Catalog!TypeOK
  <1>5. FeedsListed'
    BY <1>1, <1>3 DEF CatalogInv, FeedsListed
  <1> QED BY <1>1, <1>4, <1>5, TasksRest, EntriesRest DEF CatalogInv

LEMMA OutsideStep ==
    ASSUME CatalogInv, NEW a \in Apps,
           Catalog!Release(a) \/ Catalog!Uninstall(a) \/ Catalog!ReportSignal(a)
           \/ \E r \in Catalog!Releases : Catalog!Install(a, r)
    PROVE  CatalogInv'
  <1>1. UNCHANGED <<feed, listed, source, entry, task, todo>>
    BY DEF Catalog!Release, Catalog!Uninstall, Catalog!ReportSignal, Catalog!Install,
           Catalog!tables, Catalog!world
  <1>2. Catalog!TypeOK'
    <2> USE DEF CatalogInv, Catalog!TypeOK
    <2>1. CASE Catalog!Release(a)
      BY <1>1, <2>1 DEF Catalog!Release, Catalog!tables, Catalog!Releases
    <2>2. CASE Catalog!Uninstall(a)
      BY <1>1, <2>2 DEF Catalog!Uninstall, Catalog!world
    <2>3. CASE Catalog!ReportSignal(a)
      BY <1>1, <2>3 DEF Catalog!ReportSignal, Catalog!world
    <2>4. ASSUME NEW r \in Catalog!Releases, Catalog!Install(a, r)
          PROVE  Catalog!TypeOK'
      <3>1. r # None
        OBVIOUS
      <3> QED BY <1>1, <2>4, <3>1 DEF Catalog!Install, Catalog!world
    <2> QED BY <2>1, <2>2, <2>3, <2>4
  <1>3. FeedsListed'
    BY <1>1 DEF CatalogInv, FeedsListed
  <1> QED BY <1>1, <1>2, <1>3, TasksRest, EntriesRest DEF CatalogInv

LEMMA SourceStep ==
    ASSUME CatalogInv, NEW s \in Sources,
           (\E mode \in Modes : Catalog!CreateFeedSource(s, mode))
           \/ (\E is \in BOOLEAN : Catalog!SetSourceEnabled(s, is)) \/ Catalog!StopAutoRefresh(s)
    PROVE  CatalogInv'
  <1>1. UNCHANGED <<serves, feed, listed, entry, signed, installed, task, todo, outages>>
    BY DEF Catalog!CreateFeedSource, Catalog!SetSourceEnabled, Catalog!StopAutoRefresh,
           Catalog!world
  <1>2. requests' \in 0..MaxRequests
    BY DEF Catalog!CreateFeedSource, Catalog!SetSourceEnabled, Catalog!StopAutoRefresh,
    CatalogInv, Catalog!TypeOK
  <1>3. \E x \in Catalog!Source : source' = [source EXCEPT ![s] = x]
    <2> USE DEF CatalogInv, Catalog!TypeOK
    <2>1. ASSUME NEW mode \in Modes, Catalog!CreateFeedSource(s, mode)
          PROVE  \E x \in Catalog!Source : source' = [source EXCEPT ![s] = x]
      <3> DEFINE auto == source[s] # None /\ source[s].auto
      <3>1. source[s] # None => source[s].auto \in BOOLEAN
        BY DEF Catalog!Source
      <3>2. auto \in BOOLEAN
        BY <3>1
      <3>3. [trust |-> mode, enabled |-> TRUE, auto |-> auto] \in Catalog!Source
        <4> HIDE DEF auto
        <4> QED BY <3>2 DEF Catalog!Source
      <3>4. source' = [source EXCEPT ![s] = [trust |-> mode, enabled |-> TRUE, auto |-> auto]]
        BY <2>1 DEF Catalog!CreateFeedSource
      <3> QED BY <3>3, <3>4
    <2>2. ASSUME NEW is \in BOOLEAN, Catalog!SetSourceEnabled(s, is)
          PROVE  \E x \in Catalog!Source : source' = [source EXCEPT ![s] = x]
      <3>0. source[s] # None /\ source[s] \in Catalog!Source
        BY <2>2 DEF Catalog!SetSourceEnabled
      <3>1. /\ [source[s] EXCEPT !.enabled = TRUE] \in Catalog!Source
            /\ [source[s] EXCEPT !.enabled = FALSE] \in Catalog!Source
        BY <3>0 DEF Catalog!Source
      <3>2. source' = [source EXCEPT ![s] = [source[s] EXCEPT !.enabled = is]]
        BY <2>2 DEF Catalog!SetSourceEnabled
      <3>3. CASE is = TRUE
        BY <3>1, <3>2, <3>3
      <3>4. CASE is = FALSE
        BY <3>1, <3>2, <3>4
      <3> QED BY <3>3, <3>4
    <2>3. ASSUME Catalog!StopAutoRefresh(s)
          PROVE  \E x \in Catalog!Source : source' = [source EXCEPT ![s] = x]
      <3>0. source[s] # None /\ source[s] \in Catalog!Source
        BY <2>3 DEF Catalog!StopAutoRefresh
      <3>1. [source[s] EXCEPT !.auto = FALSE] \in Catalog!Source
        BY <3>0 DEF Catalog!Source
      <3>2. source' = [source EXCEPT ![s] = [source[s] EXCEPT !.auto = FALSE]]
        BY <2>3 DEF Catalog!StopAutoRefresh
      <3> QED BY <3>1, <3>2
    <2> QED BY <2>1, <2>2, <2>3
  <1>6. /\ source' \in [Sources -> Catalog!Source \cup {None}]
        /\ \A z \in Sources : source[z] # None => source'[z] # None
    <2>1. PICK x \in Catalog!Source : source' = [source EXCEPT ![s] = x]
      BY <1>3
    <2>2. x # None
      OBVIOUS
    <2> QED BY <2>1, <2>2 DEF CatalogInv, Catalog!TypeOK
  <1>4. Catalog!TypeOK'
    BY <1>1, <1>2, <1>6 DEF CatalogInv, Catalog!TypeOK
  <1>5. FeedsListed'
    BY <1>1 DEF CatalogInv, FeedsListed
  <1> QED BY <1>1, <1>4, <1>5, <1>6, TasksRest, EntriesRest DEF CatalogInv

LEMMA EntryFields ==
    ASSUME NEW e \in Catalog!Entry
    PROVE  /\ e # None /\ e.release \in Catalog!Releases /\ e.from \in Catalog!Provenance
           /\ e.published \in BOOLEAN /\ e.refreshed \in BOOLEAN
  BY DEF Catalog!Entry

LEMMA EntryStep ==
    ASSUME CatalogInv, NEW a \in Apps, Catalog!Unpublish(a) \/ Catalog!DeleteEntry(a)
    PROVE  CatalogInv'
  <1>1. UNCHANGED <<serves, feed, listed, source, signed, installed, task, todo, outages>>
    BY DEF Catalog!Unpublish, Catalog!DeleteEntry, Catalog!world
  <1>2. requests' \in 0..MaxRequests
    BY DEF Catalog!Unpublish, Catalog!DeleteEntry, CatalogInv, Catalog!TypeOK
  <1>3. /\ entry' \in [Apps -> Catalog!Entry \cup {None}]
        /\ \A b \in Apps :
             entry'[b] = None \/ entry'[b] = entry[b]
             \/ (/\ entry[b] # None /\ entry'[b].from = entry[b].from
                 /\ entry'[b].release = entry[b].release
                 /\ entry'[b].refreshed = entry[b].refreshed)
    <2> USE DEF CatalogInv, Catalog!TypeOK
    <2>1. CASE Catalog!Unpublish(a)
      <3> DEFINE e == [entry[a] EXCEPT !.published = FALSE]
      <3>1. /\ entry[a] # None /\ entry[a] \in Catalog!Entry /\ entry' = [entry EXCEPT ![a] = e]
        BY <2>1 DEF Catalog!Unpublish
      <3>2. /\ e \in Catalog!Entry /\ e.from = entry[a].from /\ e.release = entry[a].release
            /\ e.refreshed = entry[a].refreshed
        BY <3>1 DEF Catalog!Entry
      <3> HIDE DEF e
      <3> QED BY <3>1, <3>2
    <2>2. CASE Catalog!DeleteEntry(a)
      BY <2>2 DEF Catalog!DeleteEntry
    <2> QED BY <2>1, <2>2
  <1>4. Catalog!TypeOK'
    BY <1>1, <1>2, <1>3 DEF CatalogInv, Catalog!TypeOK
  <1>5. FeedsListed'
    BY <1>1 DEF CatalogInv, FeedsListed
  <1> QED BY <1>1, <1>3, <1>4, <1>5, TasksRest, EntriesRest DEF CatalogInv

-----------------------------------------------------------------------------
(* Requests begin *)

LEMMA BeginStep ==
    ASSUME CatalogInv, NEW q \in Admins, NEW x \in Catalog!Task, TaskSound(x, listed),
           Catalog!Begin(q, x),
           x.kind = "auto" => source[x.from.source] # None
    PROVE  CatalogInv'
  <1>1. /\ UNCHANGED <<serves, feed, listed, source, entry, signed, installed, todo, outages>>
        /\ task' = [task EXCEPT ![q] = x] /\ requests' = requests + 1 /\ requests < MaxRequests
    BY DEF Catalog!Begin, Catalog!world, Catalog!tables
  <1>2. q \in Catalog!Tasks /\ q # Timer
    BY DEF Catalog!Tasks
  <1>3. task' \in [Catalog!Tasks -> Catalog!Task \cup {None}] /\ TasksSound' /\ SourcesKnown'
        /\ TimerTrusts'
    BY <1>1, <1>2, TaskGoes
  <1>4. Catalog!TypeOK'
    BY <1>1, <1>3 DEF CatalogInv, Catalog!TypeOK
  <1>5. FeedsListed'
    BY <1>1 DEF CatalogInv, FeedsListed
  <1> QED BY <1>1, <1>3, <1>4, <1>5, EntriesRest DEF CatalogInv

LEMMA SyncMade ==
    ASSUME NEW s \in Sources, NEW mode \in Modes, NEW K
    PROVE  /\ Catalog!Sync(s, mode) \in Catalog!Task /\ TaskSound(Catalog!Sync(s, mode), K)
           /\ Catalog!Sync(s, mode).kind = "sync"
           /\ Catalog!Sync(s, mode).from.status = Catalog!TrustStatusFromSource(mode)
  <1> DEFINE from == [source |-> s, status |-> Catalog!TrustStatusFromSource(mode)]
             x == Catalog!NewTask("sync", "feed", from, None, 0)
  <1>0. from \in Catalog!Provenance /\ from.source = s
        /\ from.status = Catalog!TrustStatusFromSource(mode)
    BY ModesAreStatuses DEF Catalog!Provenance
  <1>1. /\ x \in Catalog!Task /\ x.kind = "sync" /\ x.step = "feed" /\ x.from.source = s
        /\ x.from.status = Catalog!TrustStatusFromSource(mode)
    <2> HIDE DEF from
    <2> QED BY <1>0, TaskMade
  <1>2. Catalog!Sync(s, mode) = x
    BY DEF Catalog!Sync
  <1> HIDE DEF x
  <1>3. TaskSound(x, K)
    BY <1>1 DEF TaskSound, SyncSound
  <1> QED BY <1>1, <1>2, <1>3

LEMMA RequestBegins ==
    ASSUME CatalogInv, NEW q \in Admins,
           (\E s \in Sources : Catalog!StartSync(q, s) \/ Catalog!StartAutoRefresh(q, s))
           \/ \E a \in Apps :
                \/ \E status \in Claims : Catalog!StartFromManifest(q, a, status)
                \/ Catalog!StartRefreshFromInstalled(q, a) \/ Catalog!StartPublication(q, a)
    PROVE  CatalogInv'
  <1>1. ASSUME NEW s \in Sources, Catalog!StartSync(q, s)
        PROVE  CatalogInv'
    <2>1. source[s].trust \in Modes
      BY <1>1 DEF Catalog!StartSync, CatalogInv, Catalog!TypeOK, Catalog!Source
    <2> QED BY <1>1, <2>1, SyncMade, BeginStep DEF Catalog!StartSync
  <1>2. ASSUME NEW s \in Sources, Catalog!StartAutoRefresh(q, s)
        PROVE  CatalogInv'
    <2> DEFINE from == [source |-> s, status |-> source[s].trust]
               x == Catalog!NewTask("auto", "update", from, None, 0)
    <2>1. source[s].trust \in Modes
      BY <1>2 DEF Catalog!StartAutoRefresh, CatalogInv, Catalog!TypeOK, Catalog!Source
    <2>0. from \in Catalog!Provenance /\ from.source = s
      BY <2>1, ModesAreStatuses DEF Catalog!Provenance
    <2>2. x \in Catalog!Task /\ x.kind = "auto" /\ x.step = "update" /\ x.from.source = s
      <3> HIDE DEF from
      <3> QED BY <2>0, TaskMade
    <2>3. Catalog!Begin(q, x)
      BY <1>2 DEF Catalog!StartAutoRefresh
    <2>5. source[s] # None
      BY <1>2 DEF Catalog!StartAutoRefresh
    <2> HIDE DEF x
    <2>4. TaskSound(x, listed)
      BY <2>2 DEF TaskSound
    <2> QED BY <2>2, <2>3, <2>4, <2>5, BeginStep
  <1>3. ASSUME NEW a \in Apps, NEW status \in Claims,
               Catalog!StartFromManifest(q, a, status)
        PROVE  CatalogInv'
    <2> DEFINE from == [source |-> None, status |-> status]
               x == Catalog!NewTask("manifest", "store", from, a, serves[a])
    <2>1. serves[a] \in Catalog!Releases /\ serves[a] \in 0..MaxRelease
      BY DEF CatalogInv, Catalog!TypeOK, Catalog!Releases
    <2>5. status \in Catalog!Statuses
      BY DEF Catalog!Statuses, Catalog!TrustModes
    <2>0. from \in Catalog!Provenance /\ from.source = None
      BY <2>5 DEF Catalog!Provenance
    <2>2. /\ x \in Catalog!Task /\ x.kind = "manifest" /\ x.step = "store" /\ x.from.source = None
          /\ x.app = a /\ x.release = serves[a]
      <3> HIDE DEF from
      <3> QED BY <2>0, <2>1, TaskMade
    <2>3. Catalog!Begin(q, x)
      BY <1>3 DEF Catalog!StartFromManifest
    <2> HIDE DEF x
    <2>4. TaskSound(x, listed)
      BY <2>1, <2>2 DEF TaskSound
    <2> QED BY <2>2, <2>3, <2>4, BeginStep
  <1>4. ASSUME NEW a \in Apps, Catalog!StartRefreshFromInstalled(q, a)
        PROVE  CatalogInv'
    <2> DEFINE x == Catalog!NewTask("refresh", "read", Catalog!Manual, a, serves[a])
    <2>1. serves[a] \in Catalog!Releases /\ serves[a] \in 0..MaxRelease
          /\ "manual" \in Catalog!Statuses
      BY DEF CatalogInv, Catalog!TypeOK, Catalog!Releases, Catalog!Statuses, Catalog!TrustModes
    <2>2. /\ x \in Catalog!Task /\ x.kind = "refresh" /\ x.step = "read"
          /\ x.app = a /\ x.release = serves[a]
      BY <2>1, ManualIsProvenance, TaskMade
    <2>3. Catalog!Begin(q, x)
      BY <1>4 DEF Catalog!StartRefreshFromInstalled
    <2> HIDE DEF x
    <2>4. TaskSound(x, listed)
      BY <2>1, <2>2 DEF TaskSound
    <2> QED BY <2>2, <2>3, <2>4, BeginStep
  <1>5. ASSUME NEW a \in Apps, Catalog!StartPublication(q, a)
        PROVE  CatalogInv'
    <2> DEFINE x == Catalog!NewTask("publish", "update", Catalog!Manual, a, 0)
    <2>1. "manual" \in Catalog!Statuses /\ 0 \in 0..MaxRelease
      BY DEF Catalog!Statuses, Catalog!TrustModes
    <2>2. x \in Catalog!Task /\ x.kind = "publish" /\ x.step = "update" /\ x.app = a
      BY <2>1, ManualIsProvenance, TaskMade
    <2>3. Catalog!Begin(q, x)
      BY <1>5 DEF Catalog!StartPublication
    <2> HIDE DEF x
    <2>4. TaskSound(x, listed)
      BY <2>1, <2>2 DEF TaskSound
    <2> QED BY <2>2, <2>3, <2>4, BeginStep
  <1> QED BY <1>1, <1>2, <1>3, <1>4, <1>5

-----------------------------------------------------------------------------
(* Tasks go on *)

(* A step of one task that stores no entry. *)
LEMMA QuietGoes ==
    ASSUME CatalogInv, NEW t \in Catalog!Tasks, NEW x \in Catalog!Task \cup {None},
           task' = [task EXCEPT ![t] = x], todo' \subseteq todo, outages' \in 0..MaxOutages,
           source' \in [Sources -> Catalog!Source \cup {None}],
           \A s \in Sources : source[s] # None => source'[s] # None,
           signed' \in [Apps -> 0..MaxRelease],
           \A a \in Apps : signed'[a] # 0 => installed[a] # None,
           UNCHANGED <<serves, feed, listed, entry, installed, requests>>,
           x # None => TaskSound(x, listed),
           x # None /\ x.kind = "auto" => source[x.from.source] # None,
           x # None /\ t = Timer => x.kind = "sync" /\ Catalog!Trusted(x.from.status)
    PROVE  CatalogInv'
  <1>1. task' \in [Catalog!Tasks -> Catalog!Task \cup {None}] /\ TasksSound' /\ SourcesKnown'
        /\ TimerTrusts'
    BY TaskGoes
  <1>2. Catalog!TypeOK'
    BY <1>1 DEF CatalogInv, Catalog!TypeOK
  <1>3. FeedsListed'
    BY DEF CatalogInv, FeedsListed
  <1> QED BY <1>1, <1>2, <1>3, EntriesRest DEF CatalogInv

LEMMA TickSteps ==
    ASSUME CatalogInv,
           Catalog!Tick \/ \E s \in Sources, mode \in Modes : Catalog!TickNext(s, mode)
    PROVE  CatalogInv'
  <1>1. CASE Catalog!Tick
    <2>1. /\ UNCHANGED <<serves, feed, listed, source, entry, signed, installed, task, requests,
                         outages>>
          /\ todo' = {<<s, source[s].trust>> :
                      s \in {z \in Sources : Catalog!IsAutoRefreshEligible(z)}}
      BY <1>1 DEF Catalog!Tick, Catalog!world, Catalog!tables
    <2>2. \A s \in Sources : Catalog!IsAutoRefreshEligible(s) =>
            source[s].trust \in Modes /\ Catalog!Trusted(source[s].trust)
      BY DEF Catalog!IsAutoRefreshEligible, CatalogInv, Catalog!TypeOK, Catalog!Source
    <2>3. Catalog!TypeOK'
      <3>1. todo' \subseteq Sources \X Modes
        BY <2>1, <2>2
      <3> QED BY <2>1, <3>1 DEF CatalogInv, Catalog!TypeOK
    <2>4. \A s \in Sources, mode \in Modes : <<s, mode>> \in todo' => Catalog!Trusted(mode)
      BY <2>1, <2>2
    <2>5. TimerTrusts'
      BY <2>1, <2>4 DEF CatalogInv, TimerTrusts
    <2>6. TasksSound' /\ SourcesKnown' /\ FeedsListed'
      BY <2>1 DEF CatalogInv, TasksSound, SourcesKnown, FeedsListed
    <2> QED BY <2>1, <2>3, <2>5, <2>6, EntriesRest DEF CatalogInv
  <1>2. ASSUME NEW s \in Sources, NEW mode \in Modes, Catalog!TickNext(s, mode)
        PROVE  CatalogInv'
    <2>1. /\ UNCHANGED <<serves, feed, listed, source, entry, signed, installed, requests,
                         outages>>
          /\ task' = [task EXCEPT ![Timer] = Catalog!Sync(s, mode)] /\ todo' \subseteq todo
          /\ <<s, mode>> \in todo
      BY <1>2 DEF Catalog!TickNext, Catalog!world, Catalog!tables
    <2>2. Catalog!Trusted(mode)
      BY <2>1 DEF CatalogInv, TimerTrusts
    <2>3. Timer \in Catalog!Tasks
      BY DEF Catalog!Tasks
    <2>4. /\ Catalog!Sync(s, mode) \in Catalog!Task /\ TaskSound(Catalog!Sync(s, mode), listed)
          /\ Catalog!Sync(s, mode).kind = "sync"
          /\ Catalog!Trusted(Catalog!Sync(s, mode).from.status)
      BY <2>2, SyncMade, ModesAreStatuses
    <2>5. /\ outages' \in 0..MaxOutages /\ source' \in [Sources -> Catalog!Source \cup {None}]
          /\ signed' \in [Apps -> 0..MaxRelease]
          /\ \A a \in Apps : signed'[a] # 0 => installed[a] # None
      BY <2>1 DEF CatalogInv, Catalog!TypeOK
    <2> QED BY <2>1, <2>3, <2>4, <2>5, QuietGoes
  <1> QED BY <1>1, <1>2

LEMMA FetchFeedStep ==
    ASSUME CatalogInv, NEW t \in Catalog!Tasks, Catalog!FetchCatalogFeed(t)
    PROVE  CatalogInv'
  <1> DEFINE x == [task[t] EXCEPT !.step = "item", !.items = feed[task[t].from.source]]
  <1>1. /\ task[t] # None /\ task[t].step = "feed" /\ task' = [task EXCEPT ![t] = x]
        /\ UNCHANGED <<serves, feed, listed, source, entry, signed, installed, todo, requests,
                       outages>>
    BY DEF Catalog!FetchCatalogFeed, Catalog!At, Catalog!world, Catalog!tables
  <1>2. task[t] \in Catalog!Task /\ TaskSound(task[t], listed)
    BY <1>1, TaskAt
  <1>3. task[t].kind = "sync" /\ task[t].from.source \in Sources
    BY <1>1, <1>2, TaskFields DEF TaskSound, SyncSound
  <1>4. feed[task[t].from.source] \in [Apps -> Catalog!Item \cup {None}]
    BY <1>3 DEF CatalogInv, Catalog!TypeOK
  <1>5. /\ x \in Catalog!Task /\ x.kind = "sync" /\ x.step = "item" /\ x.from = task[t].from
        /\ x.items = feed[task[t].from.source]
    BY <1>2, <1>3, <1>4 DEF Catalog!Task
  <1> HIDE DEF x
  <1>6. TaskSound(x, listed)
    BY <1>3, <1>5 DEF TaskSound, SyncSound, CatalogInv, FeedsListed
  <1>7. /\ outages' \in 0..MaxOutages /\ source' \in [Sources -> Catalog!Source \cup {None}]
        /\ signed' \in [Apps -> 0..MaxRelease]
        /\ \A a \in Apps : signed'[a] # 0 => installed[a] # None
    BY <1>1 DEF CatalogInv, Catalog!TypeOK
  <1>8. x.kind = "sync" /\ (t = Timer => Catalog!Trusted(x.from.status))
    BY <1>1, <1>5, TaskAt
  <1> QED BY <1>1, <1>5, <1>6, <1>7, <1>8, QuietGoes

(* What a task has of an item that matches. *)
LEMMA FetchedTask ==
    ASSUME NEW x \in Catalog!Task, NEW a \in Apps, x.items[a] # None,
           serves[a] \in 0..MaxRelease
    PROVE  /\ Catalog!Fetched(x, a) \in Catalog!Task /\ Catalog!Fetched(x, a).kind = x.kind
           /\ Catalog!Fetched(x, a).step = "signal" /\ Catalog!Fetched(x, a).from = x.from
           /\ Catalog!Fetched(x, a).app = a /\ Catalog!Fetched(x, a).release = serves[a]
           /\ \A b \in Apps :
                \/ Catalog!Fetched(x, a).items[b] = None
                \/ Catalog!Fetched(x, a).items[b] = x.items[b]
  <1> DEFINE items == [x.items EXCEPT ![a] = None]
             signal == x.items[a].signal
             v == [x EXCEPT !.step = "signal"]
             w == [v EXCEPT !.items = items]
             u == [w EXCEPT !.app = a]
             z == [u EXCEPT !.release = serves[a]]
             y == [z EXCEPT !.signal = signal]
  <1>0. x.items \in [Apps -> Catalog!Item \cup {None}]
    BY TaskFields
  <1>1. Catalog!Fetched(x, a) = y
    BY DEF Catalog!Fetched
  <1>2. /\ items \in [Apps -> Catalog!Item \cup {None}] /\ signal \in 0..MaxRelease
        /\ \A b \in Apps : items[b] = None \/ items[b] = x.items[b]
    BY <1>0, ItemFields
  <1> HIDE DEF items, signal
  <1>3. v \in Catalog!Task /\ v.kind = x.kind /\ v.step = "signal" /\ v.from = x.from
    BY DEF Catalog!Task
  <1> HIDE DEF v
  <1>4. /\ w \in Catalog!Task /\ w.kind = x.kind /\ w.step = "signal" /\ w.from = x.from
        /\ w.items = items
    BY <1>2, <1>3 DEF Catalog!Task
  <1> HIDE DEF w
  <1>5. /\ u \in Catalog!Task /\ u.kind = x.kind /\ u.step = "signal" /\ u.from = x.from
        /\ u.items = items /\ u.app = a
    BY <1>4 DEF Catalog!Task
  <1> HIDE DEF u
  <1>6. /\ z \in Catalog!Task /\ z.kind = x.kind /\ z.step = "signal" /\ z.from = x.from
        /\ z.items = items /\ z.app = a /\ z.release = serves[a]
    BY <1>5 DEF Catalog!Task
  <1> HIDE DEF z
  <1>7. /\ y \in Catalog!Task /\ y.kind = x.kind /\ y.step = "signal" /\ y.from = x.from
        /\ y.items = items /\ y.app = a /\ y.release = serves[a]
    BY <1>2, <1>6 DEF Catalog!Task
  <1> QED BY <1>1, <1>2, <1>7

LEMMA ItemStep ==
    ASSUME CatalogInv, NEW t \in Catalog!Tasks, NEW a \in Apps, Catalog!FetchItemManifest(t, a)
    PROVE  CatalogInv'
  <1> DEFINE listing == task[t].items[a]
             dropped == [task[t] EXCEPT !.items = [task[t].items EXCEPT ![a] = None]]
             fetched == Catalog!Fetched(task[t], a)
  <1>1. /\ task[t] # None /\ task[t].step = "item" /\ listing # None
        /\ UNCHANGED <<serves, feed, listed, source, entry, signed, installed, todo, requests,
                       outages>>
    BY DEF Catalog!FetchItemManifest, Catalog!At, Catalog!world, Catalog!tables
  <1>2. task[t] \in Catalog!Task /\ TaskSound(task[t], listed)
    BY <1>1, TaskAt
  <1>3. task[t].kind = "sync" /\ task[t].items \in [Apps -> Catalog!Item \cup {None}]
    BY <1>1, <1>2, TaskFields DEF TaskSound
  <1>4. SyncSound(task[t], listed)
    BY <1>2, <1>3 DEF TaskSound
  <1>5. /\ outages' \in 0..MaxOutages /\ source' \in [Sources -> Catalog!Source \cup {None}]
        /\ signed' \in [Apps -> 0..MaxRelease]
        /\ \A b \in Apps : signed'[b] # 0 => installed[b] # None
    BY <1>1 DEF CatalogInv, Catalog!TypeOK
  <1>6. t = Timer => Catalog!Trusted(task[t].from.status)
    BY <1>1, TaskAt
  <1>7. listing \in Catalog!Item \cup {None}
    BY <1>3
  <1>8. PICK item \in {listing, Catalog!DayOlder(listing)} :
          task' = IF Catalog!Matches(item, serves[a])
                  THEN [task EXCEPT ![t] = fetched] ELSE [task EXCEPT ![t] = dropped]
    BY DEF Catalog!FetchItemManifest
  <1>9. item.release = listing.release
    <2> HIDE DEF listing
    <2> QED BY <1>1, <1>7, ItemOlder
  <1>10. CASE Catalog!Matches(item, serves[a])
    <2>1. serves[a] \in Catalog!Releases /\ serves[a] \in 0..MaxRelease
      BY DEF CatalogInv, Catalog!TypeOK, Catalog!Releases
    <2>2. /\ fetched \in Catalog!Task /\ fetched.kind = "sync" /\ fetched.step = "signal"
          /\ fetched.from = task[t].from /\ fetched.app = a /\ fetched.release = serves[a]
          /\ \A b \in Apps : fetched.items[b] = None \/ fetched.items[b] = task[t].items[b]
      BY <1>1, <1>2, <1>3, <2>1, FetchedTask
    <2>3. listing.release \in {0, serves[a]}
      BY <1>9, <1>10 DEF Catalog!Matches
    <2>5. <<task[t].from.source, a, listing.release>> \in listed
      BY <1>1, <1>4 DEF SyncSound
    <2> HIDE DEF fetched, listing
    <2>4. TaskSound(fetched, listed)
      BY <1>1, <1>4, <2>1, <2>2, <2>3, <2>5 DEF TaskSound, SyncSound
    <2> QED BY <1>1, <1>5, <1>6, <1>8, <1>10, <2>2, <2>4, QuietGoes
  <1>11. CASE ~Catalog!Matches(item, serves[a])
    <2>1. /\ dropped \in Catalog!Task /\ dropped.kind = "sync" /\ dropped.step = "item"
          /\ dropped.from = task[t].from
          /\ \A b \in Apps : dropped.items[b] = None \/ dropped.items[b] = task[t].items[b]
      <3>1. [task[t].items EXCEPT ![a] = None] \in [Apps -> Catalog!Item \cup {None}]
        BY <1>3
      <3> QED BY <1>1, <1>2, <1>3, <3>1 DEF Catalog!Task
    <2> HIDE DEF dropped
    <2>2. TaskSound(dropped, listed)
      BY <1>1, <1>4, <2>1 DEF TaskSound, SyncSound
    <2> QED BY <1>1, <1>5, <1>6, <1>8, <1>11, <2>1, <2>2, QuietGoes
  <1> QED BY <1>10, <1>11

LEMMA SignalStep ==
    ASSUME CatalogInv, NEW t \in Catalog!Tasks, Catalog!InsertSignal(t)
    PROVE  CatalogInv'
  <1> DEFINE x == [task[t] EXCEPT !.step = "store", !.signal = 0]
             a == task[t].app
  <1>1. /\ task[t] # None /\ task[t].step = "signal" /\ task' = [task EXCEPT ![t] = x]
        /\ signed' = IF task[t].signal # 0 /\ installed[a] # None
                     THEN [signed EXCEPT ![a] = task[t].signal] ELSE signed
        /\ UNCHANGED <<serves, feed, listed, source, entry, installed, todo, requests, outages>>
    BY DEF Catalog!InsertSignal, Catalog!At, Catalog!world
  <1>2. task[t] \in Catalog!Task /\ TaskSound(task[t], listed)
    BY <1>1, TaskAt
  <1>3. task[t].kind = "sync" /\ task[t].items \in [Apps -> Catalog!Item \cup {None}]
    BY <1>1, <1>2, TaskFields DEF TaskSound
  <1>4. SyncSound(task[t], listed)
    BY <1>2, <1>3 DEF TaskSound
  <1>5. a \in Apps
    BY <1>1, <1>4 DEF SyncSound
  <1>6. task[t].signal \in 0..MaxRelease
    BY <1>2, TaskFields
  <1>7. /\ signed' \in [Apps -> 0..MaxRelease]
        /\ \A b \in Apps : signed'[b] # 0 => installed[b] # None
    BY <1>1, <1>5, <1>6 DEF CatalogInv, Catalog!TypeOK
  <1>8. /\ x \in Catalog!Task /\ x.kind = "sync" /\ x.step = "store" /\ x.from = task[t].from
        /\ x.items = task[t].items /\ x.app = a /\ x.release = task[t].release
    <2> DEFINE v == [task[t] EXCEPT !.step = "store"]
               y == [v EXCEPT !.signal = 0]
    <2>1. /\ v \in Catalog!Task /\ v.kind = "sync" /\ v.step = "store" /\ v.from = task[t].from
          /\ v.items = task[t].items /\ v.app = a /\ v.release = task[t].release
      BY <1>2, <1>3 DEF Catalog!Task
    <2>2. x = y
      OBVIOUS
    <2> HIDE DEF v, x
    <2> QED BY <2>1, <2>2 DEF Catalog!Task
  <1>9. t = Timer => Catalog!Trusted(task[t].from.status)
    BY <1>1, TaskAt
  <1> HIDE DEF x
  <1>10. TaskSound(x, listed)
    BY <1>1, <1>4, <1>8 DEF TaskSound, SyncSound
  <1>11. outages' \in 0..MaxOutages /\ source' \in [Sources -> Catalog!Source \cup {None}]
    BY <1>1 DEF CatalogInv, Catalog!TypeOK
  <1> QED BY <1>1, <1>7, <1>8, <1>9, <1>10, <1>11, QuietGoes

(* A task ends, or drops an item of its feed. *)
LEMMA TaskEnds ==
    ASSUME CatalogInv, NEW t \in Catalog!Tasks, Catalog!End(t), outages' \in 0..MaxOutages,
           source' \in [Sources -> Catalog!Source \cup {None}],
           \A s \in Sources : source[s] # None => source'[s] # None,
           UNCHANGED <<serves, feed, listed, entry, signed, installed, todo, requests>>
    PROVE  CatalogInv'
  <1>1. /\ signed' \in [Apps -> 0..MaxRelease]
        /\ \A b \in Apps : signed'[b] # 0 => installed[b] # None
    BY DEF CatalogInv, Catalog!TypeOK
  <1> QED BY <1>1, QuietGoes DEF Catalog!End

LEMMA AutoRefreshStep ==
    ASSUME CatalogInv, NEW q \in Admins, Catalog!SetSourceAutoRefresh(q)
    PROVE  CatalogInv'
  <1> DEFINE s == task[q].from.source
  <1>1. /\ task[q] # None /\ task[q].kind = "auto" /\ Catalog!End(q)
        /\ source' = [source EXCEPT ![s].auto = TRUE]
        /\ UNCHANGED <<serves, feed, listed, entry, signed, installed, todo, requests, outages>>
    BY DEF Catalog!SetSourceAutoRefresh, Catalog!At, Catalog!world
  <1>2. q \in Catalog!Tasks
    BY DEF Catalog!Tasks
  <1>3. TaskSound(task[q], listed)
    BY <1>1, <1>2, TaskAt
  <1>4. s \in Sources /\ source[s] # None
    BY <1>1, <1>2, <1>3 DEF TaskSound, CatalogInv, SourcesKnown
  <1>5. [source[s] EXCEPT !.auto = TRUE] \in Catalog!Source
    <2>1. source[s] \in Catalog!Source
      BY <1>4 DEF CatalogInv, Catalog!TypeOK
    <2> HIDE DEF s
    <2> QED BY <2>1 DEF Catalog!Source
  <1>6. source' = [source EXCEPT ![s] = [source[s] EXCEPT !.auto = TRUE]]
    BY <1>1
  <1> HIDE DEF s
  <1>7. /\ source' \in [Sources -> Catalog!Source \cup {None}]
        /\ \A z \in Sources : source[z] # None => source'[z] # None
    BY <1>4, <1>5, <1>6 DEF CatalogInv, Catalog!TypeOK
  <1>8. outages' \in 0..MaxOutages
    BY <1>1 DEF CatalogInv, Catalog!TypeOK
  <1> QED BY <1>1, <1>2, <1>7, <1>8, TaskEnds

LEMMA EndSyncStep ==
    ASSUME CatalogInv, NEW t \in Catalog!Tasks, Catalog!EndSync(t)
    PROVE  CatalogInv'
  <1>1. /\ Catalog!End(t)
        /\ UNCHANGED <<serves, feed, listed, source, entry, signed, installed, todo, requests,
                       outages>>
    BY DEF Catalog!EndSync, Catalog!world, Catalog!tables
  <1>2. outages' \in 0..MaxOutages /\ source' \in [Sources -> Catalog!Source \cup {None}]
    BY <1>1 DEF CatalogInv, Catalog!TypeOK
  <1> QED BY <1>1, <1>2, TaskEnds

LEMMA FetchFailsStep ==
    ASSUME CatalogInv, NEW t \in Catalog!Tasks, Catalog!FetchFails(t)
    PROVE  CatalogInv'
  <1>1. /\ UNCHANGED <<serves, feed, listed, source, entry, signed, installed, todo, requests>>
        /\ outages' \in 0..MaxOutages
    BY DEF Catalog!FetchFails, Catalog!world, Catalog!tables, CatalogInv, Catalog!TypeOK
  <1>2. /\ source' \in [Sources -> Catalog!Source \cup {None}]
        /\ signed' \in [Apps -> 0..MaxRelease]
        /\ \A b \in Apps : signed'[b] # 0 => installed[b] # None
    BY <1>1 DEF CatalogInv, Catalog!TypeOK
  <1>3. CASE Catalog!End(t)
    BY <1>1, <1>2, <1>3, TaskEnds
  <1>4. ASSUME NEW a \in Apps, Catalog!At(t, "item"), task' = [task EXCEPT ![t].items[a] = None]
        PROVE  CatalogInv'
    <2> DEFINE x == [task[t] EXCEPT !.items = [task[t].items EXCEPT ![a] = None]]
    <2>1. task[t] # None /\ task[t].step = "item" /\ task' = [task EXCEPT ![t] = x]
      BY <1>4 DEF Catalog!At
    <2>2. task[t] \in Catalog!Task /\ TaskSound(task[t], listed)
      BY <2>1, TaskAt
    <2>3. task[t].kind = "sync" /\ task[t].items \in [Apps -> Catalog!Item \cup {None}]
      BY <2>1, <2>2, TaskFields DEF TaskSound
    <2>4. SyncSound(task[t], listed)
      BY <2>2, <2>3 DEF TaskSound
    <2>5. /\ x \in Catalog!Task /\ x.kind = "sync" /\ x.step = "item" /\ x.from = task[t].from
          /\ \A b \in Apps : x.items[b] = None \/ x.items[b] = task[t].items[b]
      <3>1. [task[t].items EXCEPT ![a] = None] \in [Apps -> Catalog!Item \cup {None}]
        BY <2>3
      <3> QED BY <2>1, <2>2, <2>3, <3>1 DEF Catalog!Task
    <2>6. t = Timer => Catalog!Trusted(task[t].from.status)
      BY <2>1, TaskAt
    <2> HIDE DEF x
    <2>7. TaskSound(x, listed)
      BY <2>1, <2>4, <2>5 DEF TaskSound, SyncSound
    <2> QED BY <1>1, <1>2, <2>1, <2>5, <2>6, <2>7, QuietGoes
  <1> QED BY <1>3, <1>4 DEF Catalog!FetchFails

(* A synchronization that has stored an item. *)
ItemStored(x) == [x EXCEPT !.step = "item", !.app = None, !.release = 0]

LEMMA ItemDone ==
    ASSUME NEW x \in Catalog!Task
    PROVE  /\ ItemStored(x) \in Catalog!Task /\ ItemStored(x).kind = x.kind
           /\ ItemStored(x).step = "item" /\ ItemStored(x).from = x.from
           /\ ItemStored(x).items = x.items
  <1> DEFINE v == [x EXCEPT !.step = "item"]
             w == [v EXCEPT !.app = None]
             y == [w EXCEPT !.release = 0]
  <1>1. ItemStored(x) = y
    BY DEF ItemStored
  <1>2. /\ v \in Catalog!Task /\ v.kind = x.kind /\ v.step = "item" /\ v.from = x.from
        /\ v.items = x.items
    BY DEF Catalog!Task
  <1> HIDE DEF v
  <1>3. /\ w \in Catalog!Task /\ w.kind = x.kind /\ w.step = "item" /\ w.from = x.from
        /\ w.items = x.items
    BY <1>2 DEF Catalog!Task
  <1> HIDE DEF w
  <1>4. /\ y \in Catalog!Task /\ y.kind = x.kind /\ y.step = "item" /\ y.from = x.from
        /\ y.items = x.items
    BY <1>3 DEF Catalog!Task
  <1> QED BY <1>1, <1>4

(* What a task stores: the step is the last of its item, or of the task. *)
LEMMA EntryStored ==
    ASSUME CatalogInv, NEW t \in Catalog!Tasks, Catalog!StoreEntry(t)
    PROVE  CatalogInv'
  <1> DEFINE a == task[t].app
             new == [release |-> task[t].release, from |-> task[t].from,
                     refreshed |-> task[t].kind = "refresh",
                     published |-> entry[a] # None /\ entry[a].published]
             x == IF task[t].kind = "sync"
                  THEN [task[t] EXCEPT !.step = "item", !.app = None, !.release = 0]
                  ELSE None
  <1>1. /\ task[t] # None /\ task[t].step = "store"
        /\ entry' = [entry EXCEPT ![a] = new] /\ task' = [task EXCEPT ![t] = x]
        /\ UNCHANGED <<serves, feed, listed, source, signed, installed, todo, requests, outages>>
    BY DEF Catalog!StoreEntry, Catalog!At, Catalog!UpsertFromManifest, Catalog!world
  <1>2. task[t] \in Catalog!Task /\ TaskSound(task[t], listed)
    BY <1>1, TaskAt
  <1>3. task[t].kind \in {"sync", "manifest", "refresh"}
    BY <1>1, <1>2, TaskFields DEF TaskSound
  <1>4. a \in Apps /\ task[t].release \in Catalog!Releases
    BY <1>1, <1>2, <1>3 DEF TaskSound, SyncSound
  <1>5. entry[a] # None => entry[a].published \in BOOLEAN
    BY <1>4, EntryFields DEF CatalogInv, Catalog!TypeOK
  <1>6. new \in Catalog!Entry /\ new # None
    <2> DEFINE is == entry[a] # None /\ entry[a].published
               refreshed == task[t].kind = "refresh"
    <2>1. is \in BOOLEAN /\ refreshed \in BOOLEAN
      BY <1>5
    <2>2. task[t].from \in Catalog!Provenance
      BY <1>2, TaskFields
    <2>3. [release |-> task[t].release, from |-> task[t].from, refreshed |-> refreshed,
           published |-> is] \in Catalog!Entry
      <3> HIDE DEF is, refreshed
      <3> QED BY <1>4, <2>1, <2>2 DEF Catalog!Entry
    <2>4. new \in Catalog!Entry
      BY <2>3
    <2> QED BY <2>4, EntryFields
  <1>7. /\ x # None => /\ x \in Catalog!Task /\ x.kind = "sync" /\ x.step = "item"
                       /\ x.from = task[t].from /\ x.items = task[t].items
                       /\ task[t].kind = "sync"
        /\ x \in Catalog!Task \cup {None}
    <2>1. CASE task[t].kind = "sync"
      <3>1. x = ItemStored(task[t])
        BY <2>1 DEF ItemStored
      <3> HIDE DEF x
      <3> QED BY <1>2, <2>1, <3>1, ItemDone
    <2>2. CASE task[t].kind # "sync"
      BY <2>2
    <2> QED BY <2>1, <2>2
  <1>8. t = Timer => Catalog!Trusted(task[t].from.status)
    BY <1>1, TaskAt
  <1> HIDE DEF x
  <1>9. x # None => TaskSound(x, listed)
    BY <1>1, <1>2, <1>7 DEF TaskSound, SyncSound
  <1>10. task' \in [Catalog!Tasks -> Catalog!Task \cup {None}] /\ TasksSound' /\ SourcesKnown'
         /\ TimerTrusts'
    BY <1>1, <1>7, <1>8, <1>9, TaskGoes
  <1>11. Catalog!TypeOK'
    <2> HIDE DEF new
    <2>1. entry' \in [Apps -> Catalog!Entry \cup {None}]
      BY <1>1, <1>6 DEF CatalogInv, Catalog!TypeOK
    <2> QED BY <1>1, <1>10, <2>1 DEF CatalogInv, Catalog!TypeOK
  <1>12. FeedsListed'
    BY <1>1 DEF CatalogInv, FeedsListed
  <1>13. new.from.source # None /\ ~new.refreshed =>
           \E r \in {0, new.release} : <<new.from.source, a, r>> \in listed
    <2> SUFFICES ASSUME new.from.source # None, ~new.refreshed
                 PROVE  \E r \in {0, new.release} : <<new.from.source, a, r>> \in listed
      OBVIOUS
    <2>1. task[t].kind = "sync"
      BY <1>2, <1>3 DEF TaskSound
    <2>2. SyncSound(task[t], listed)
      BY <1>2, <2>1 DEF TaskSound
    <2>3. \E r \in {0, task[t].release} : <<task[t].from.source, a, r>> \in listed
      BY <1>1, <2>2 DEF SyncSound
    <2> QED BY <2>3
  <1>14. Catalog!FeedEntriesWereListed'
    <2> HIDE DEF new
    <2>1. \A b \in Apps : entry'[b] = IF b = a THEN new ELSE entry[b]
      BY <1>1, <1>4 DEF CatalogInv, Catalog!TypeOK
    <2> QED BY <1>1, <1>13, <2>1 DEF CatalogInv, Catalog!FeedEntriesWereListed
  <1> QED BY <1>10, <1>11, <1>12, <1>14 DEF CatalogInv

LEMMA ReadStep ==
    ASSUME CatalogInv, NEW q \in Admins, Catalog!ReadEntry(q)
    PROVE  CatalogInv'
  <1> DEFINE existing == entry[task[q].app]
             from == IF existing = None THEN Catalog!Manual ELSE existing.from
             x == [task[q] EXCEPT !.step = "store", !.from = from]
  <1>1. /\ task[q] # None /\ task[q].step = "read" /\ task' = [task EXCEPT ![q] = x]
        /\ UNCHANGED <<serves, feed, listed, source, entry, signed, installed, todo, requests,
                       outages>>
    BY DEF Catalog!ReadEntry, Catalog!At, Catalog!world, Catalog!tables
  <1>2. q \in Catalog!Tasks /\ q # Timer
    BY DEF Catalog!Tasks
  <1>3. task[q] \in Catalog!Task /\ TaskSound(task[q], listed)
    BY <1>1, <1>2, TaskAt
  <1>4. task[q].kind = "refresh" /\ task[q].app \in Apps /\ task[q].release \in Catalog!Releases
    BY <1>1, <1>3, TaskFields DEF TaskSound, SyncSound
  <1>5. from \in Catalog!Provenance
    BY <1>4, ManualIsProvenance, EntryFields DEF CatalogInv, Catalog!TypeOK
  <1>6. /\ x \in Catalog!Task /\ x.kind = "refresh" /\ x.step = "store" /\ x.app \in Apps
        /\ x.release \in Catalog!Releases
    <2> HIDE DEF from
    <2> QED BY <1>3, <1>4, <1>5 DEF Catalog!Task
  <1> HIDE DEF x
  <1>7. TaskSound(x, listed)
    BY <1>6 DEF TaskSound
  <1>8. /\ outages' \in 0..MaxOutages /\ source' \in [Sources -> Catalog!Source \cup {None}]
        /\ signed' \in [Apps -> 0..MaxRelease]
        /\ \A b \in Apps : signed'[b] # 0 => installed[b] # None
    BY <1>1 DEF CatalogInv, Catalog!TypeOK
  <1> QED BY <1>1, <1>2, <1>6, <1>7, <1>8, QuietGoes

LEMMA PublishStep ==
    ASSUME CatalogInv, NEW q \in Admins, Catalog!SetEntryPublished(q)
    PROVE  CatalogInv'
  <1> DEFINE a == task[q].app
             e == IF entry[a] = None THEN None ELSE [entry[a] EXCEPT !.published = TRUE]
  <1>1. /\ task[q] # None /\ task[q].kind = "publish" /\ task' = [task EXCEPT ![q] = None]
        /\ entry' = [entry EXCEPT ![a] = e]
        /\ UNCHANGED <<serves, feed, listed, source, signed, installed, todo, requests, outages>>
    BY DEF Catalog!SetEntryPublished, Catalog!At, Catalog!End, Catalog!world
  <1>2. q \in Catalog!Tasks /\ q # Timer
    BY DEF Catalog!Tasks
  <1>3. task[q] \in Catalog!Task /\ TaskSound(task[q], listed)
    BY <1>1, <1>2, TaskAt
  <1>4. a \in Apps
    BY <1>1, <1>3 DEF TaskSound
  <1>5. /\ e \in Catalog!Entry \cup {None}
        /\ e = None \/ (/\ entry[a] # None /\ e.from = entry[a].from
                        /\ e.release = entry[a].release /\ e.refreshed = entry[a].refreshed)
    <2>1. CASE entry[a] = None
      BY <2>1
    <2>2. CASE entry[a] # None
      <3>1. entry[a] \in Catalog!Entry
        BY <1>4, <2>2 DEF CatalogInv, Catalog!TypeOK
      <3> QED BY <2>2, <3>1 DEF Catalog!Entry
    <2> QED BY <2>1, <2>2
  <1> HIDE DEF e
  <1>6. task' \in [Catalog!Tasks -> Catalog!Task \cup {None}] /\ TasksSound' /\ SourcesKnown'
        /\ TimerTrusts'
    BY <1>1, <1>2, TaskGoes
  <1>7. Catalog!TypeOK'
    BY <1>1, <1>5, <1>6 DEF CatalogInv, Catalog!TypeOK
  <1>8. FeedsListed'
    BY <1>1 DEF CatalogInv, FeedsListed
  <1>9. \A b \in Apps :
          entry'[b] = None \/ entry'[b] = entry[b]
          \/ (/\ entry[b] # None /\ entry'[b].from = entry[b].from
              /\ entry'[b].release = entry[b].release
              /\ entry'[b].refreshed = entry[b].refreshed)
    BY <1>1, <1>5 DEF CatalogInv, Catalog!TypeOK
  <1> QED BY <1>1, <1>6, <1>7, <1>8, <1>9, EntriesRest DEF CatalogInv

(* The process ends with everything it was doing. *)
LEMMA CatalogRestarts ==
    ASSUME CatalogInv, Catalog!Restart
    PROVE  CatalogInv'
  <1>1. /\ UNCHANGED <<serves, feed, listed, source, entry, signed, installed, requests>>
        /\ task' = [t \in Catalog!Tasks |-> None] /\ todo' = {} /\ outages' \in 0..MaxOutages
    BY DEF Catalog!Restart, Catalog!world, Catalog!tables, CatalogInv, Catalog!TypeOK
  <1>2. Catalog!TypeOK'
    BY <1>1 DEF CatalogInv, Catalog!TypeOK
  <1>3. Timer \in Catalog!Tasks
    BY DEF Catalog!Tasks
  <1>4. TasksSound' /\ SourcesKnown' /\ TimerTrusts' /\ FeedsListed'
    BY <1>1, <1>3 DEF CatalogInv, TasksSound, SourcesKnown, TimerTrusts, FeedsListed
  <1> QED BY <1>1, <1>2, <1>4, EntriesRest DEF CatalogInv

LEMMA SyncSteps ==
    ASSUME CatalogInv, NEW t \in Catalog!Tasks, Catalog!SyncStep(t)
    PROVE  CatalogInv'
  BY FetchFeedStep, ItemStep, SignalStep, EntryStored, EndSyncStep DEF Catalog!SyncStep

LEMMA CatalogStep ==
    ASSUME CatalogInv, [Catalog!Next]_(Catalog!vars)
    PROVE  CatalogInv'
  <1>1. ASSUME NEW a \in Apps,
               \/ Catalog!Release(a) \/ Catalog!Uninstall(a) \/ Catalog!Unpublish(a)
               \/ Catalog!DeleteEntry(a) \/ Catalog!ReportSignal(a)
               \/ \E r \in Catalog!Releases : Catalog!Install(a, r)
               \/ \E s \in Sources :
                    \/ \E r, signal \in 0..MaxRelease, left \in 0..Validity :
                         Catalog!UpdateFeed(s, a, r, signal, left)
                    \/ Catalog!RenewSignal(s, a)
        PROVE  CatalogInv'
    BY <1>1, OutsideStep, EntryStep, FeedStep, RenewStep
  <1>2. ASSUME NEW s \in Sources,
               \/ \E mode \in Modes : Catalog!CreateFeedSource(s, mode)
               \/ \E is \in BOOLEAN : Catalog!SetSourceEnabled(s, is)
               \/ Catalog!StopAutoRefresh(s)
        PROVE  CatalogInv'
    BY <1>2, SourceStep
  <1>3. ASSUME NEW q \in Admins,
               \/ \E s \in Sources : Catalog!StartSync(q, s) \/ Catalog!StartAutoRefresh(q, s)
               \/ \E a \in Apps :
                    \/ \E status \in Claims : Catalog!StartFromManifest(q, a, status)
                    \/ Catalog!StartRefreshFromInstalled(q, a) \/ Catalog!StartPublication(q, a)
        PROVE  CatalogInv'
    BY <1>3, RequestBegins
  <1>4. ASSUME NEW q \in Admins, Catalog!RequestStep(q)
        PROVE  CatalogInv'
    <2>1. q \in Catalog!Tasks
      BY DEF Catalog!Tasks
    <2> QED BY <1>4, <2>1, SyncSteps, AutoRefreshStep, ReadStep, PublishStep
    DEF Catalog!RequestStep
  <1>5. CASE Catalog!TimerStep
    <2>1. Timer \in Catalog!Tasks
      BY DEF Catalog!Tasks
    <2> QED BY <1>5, <2>1, SyncSteps, TickSteps DEF Catalog!TimerStep
  <1>6. ASSUME NEW t \in Catalog!Tasks, Catalog!FetchFails(t)
        PROVE  CatalogInv'
    BY <1>6, FetchFailsStep
  <1>7. CASE Catalog!Restart
    BY <1>7, CatalogRestarts
  <1>9. CASE Catalog!NextDay
    BY <1>9, DayStep
  <1>8. CASE UNCHANGED Catalog!vars
    <2>1. UNCHANGED <<serves, feed, listed, source, entry, signed, installed, task, todo,
                     requests, outages>>
      BY <1>8 DEF Catalog!vars
    <2>2. Catalog!TypeOK' /\ FeedsListed'
      BY <2>1 DEF CatalogInv, Catalog!TypeOK, FeedsListed
    <2> QED BY <2>1, <2>2, TasksRest, EntriesRest DEF CatalogInv
  <1> QED BY <1>1, <1>2, <1>3, <1>4, <1>5, <1>6, <1>7, <1>8, <1>9 DEF Catalog!Next

LEMMA CatalogInit == Catalog!Init => CatalogInv
  <1> SUFFICES ASSUME Catalog!Init PROVE CatalogInv
    OBVIOUS
  <1>1. Timer \in Catalog!Tasks
    BY DEF Catalog!Tasks
  <1>2. Catalog!TypeOK
    BY DEF Catalog!Init, Catalog!TypeOK, Catalog!Releases
  <1> QED
    BY <1>1, <1>2 DEF Catalog!Init, CatalogInv, TasksSound, SourcesKnown, TimerTrusts,
    FeedsListed,
                      Catalog!FeedEntriesWereListed

LEMMA CatalogAlways == Catalog!Init /\ [][Catalog!Next]_(Catalog!vars) => []CatalogInv
  BY CatalogInit, CatalogStep, PTL

(* The steps of tasks that write an entry. *)
LEMMA EntryWriters ==
    ASSUME [Catalog!Next]_(Catalog!vars), entry' # entry, task' # task
    PROVE  \E t \in Catalog!Tasks :
             Catalog!StoreEntry(t) \/ (t \in Admins /\ Catalog!SetEntryPublished(t))
  <1>1. ASSUME NEW a \in Apps,
               \/ Catalog!Release(a) \/ Catalog!Uninstall(a) \/ Catalog!Unpublish(a)
               \/ Catalog!DeleteEntry(a) \/ Catalog!ReportSignal(a)
               \/ \E r \in Catalog!Releases : Catalog!Install(a, r)
               \/ \E s \in Sources :
                    \/ \E r, signal \in 0..MaxRelease, left \in 0..Validity :
                         Catalog!UpdateFeed(s, a, r, signal, left)
                    \/ Catalog!RenewSignal(s, a)
        PROVE  FALSE
    BY <1>1 DEF Catalog!Release, Catalog!Uninstall, Catalog!Unpublish, Catalog!DeleteEntry,
                Catalog!ReportSignal, Catalog!Install, Catalog!UpdateFeed,
                Catalog!RenewSignal, Catalog!tables
  <1>2. ASSUME NEW s \in Sources,
               \/ \E mode \in Modes : Catalog!CreateFeedSource(s, mode)
               \/ \E is \in BOOLEAN : Catalog!SetSourceEnabled(s, is)
               \/ Catalog!StopAutoRefresh(s)
        PROVE  FALSE
    BY <1>2 DEF Catalog!CreateFeedSource, Catalog!SetSourceEnabled, Catalog!StopAutoRefresh
  <1>3. ASSUME NEW q \in Admins,
               \/ \E s \in Sources : Catalog!StartSync(q, s) \/ Catalog!StartAutoRefresh(q, s)
               \/ \E a \in Apps :
                    \/ \E status \in Claims : Catalog!StartFromManifest(q, a, status)
                    \/ Catalog!StartRefreshFromInstalled(q, a) \/ Catalog!StartPublication(q, a)
        PROVE  FALSE
    <2>1. PICK x : Catalog!Begin(q, x)
      BY <1>3 DEF Catalog!StartSync, Catalog!StartAutoRefresh, Catalog!StartFromManifest,
                  Catalog!StartRefreshFromInstalled,
                  Catalog!StartPublication
    <2> QED BY <2>1 DEF Catalog!Begin, Catalog!tables
  <1>4. ASSUME NEW t \in Catalog!Tasks, Catalog!SyncStep(t)
        PROVE  Catalog!StoreEntry(t)
    BY <1>4 DEF Catalog!SyncStep, Catalog!FetchCatalogFeed, Catalog!InsertSignal,
                Catalog!EndSync, Catalog!FetchItemManifest, Catalog!tables
  <1>5. ASSUME NEW q \in Admins, Catalog!SetSourceAutoRefresh(q) \/ Catalog!ReadEntry(q)
        PROVE  FALSE
    BY <1>5 DEF Catalog!SetSourceAutoRefresh, Catalog!ReadEntry, Catalog!tables
  <1>6. ~Catalog!Tick /\ ~(\E s \in Sources, mode \in Modes : Catalog!TickNext(s, mode))
    BY DEF Catalog!Tick, Catalog!TickNext, Catalog!tables
  <1>7. /\ ~Catalog!Restart /\ ~Catalog!NextDay
        /\ \A t \in Catalog!Tasks : ~Catalog!FetchFails(t)
    BY DEF Catalog!Restart, Catalog!NextDay, Catalog!FetchFails, Catalog!tables
  <1>8. ~UNCHANGED Catalog!vars
    BY DEF Catalog!vars
  <1>9. Timer \in Catalog!Tasks /\ \A q \in Admins : q \in Catalog!Tasks
    BY DEF Catalog!Tasks
  <1>10. ASSUME NEW q \in Admins, Catalog!RequestStep(q)
         PROVE  \E t \in Catalog!Tasks :
                  Catalog!StoreEntry(t) \/ (t \in Admins /\ Catalog!SetEntryPublished(t))
    BY <1>4, <1>5, <1>9, <1>10 DEF Catalog!RequestStep
  <1>11. CASE Catalog!TimerStep
    BY <1>4, <1>6, <1>9, <1>11 DEF Catalog!TimerStep
  <1> QED BY <1>1, <1>2, <1>3, <1>7, <1>8, <1>10, <1>11 DEF Catalog!Next

(* Whatever a step of the timer writes to an entry has a trusted source. *)
LEMMA TimerStores ==
    ASSUME CatalogInv, [Catalog!Next]_(Catalog!vars), NEW a \in Apps,
           entry'[a] # entry[a], task'[Timer] # task[Timer]
    PROVE  Catalog!Trusted(entry'[a].from.status)
  <1>1. Timer \in Catalog!Tasks /\ \A q \in Admins : q \in Catalog!Tasks /\ q # Timer
    BY DEF Catalog!Tasks
  <1>2. \A q \in Catalog!Tasks : \A x : task' = [task EXCEPT ![q] = x] => q = Timer
    <2> SUFFICES ASSUME NEW q \in Catalog!Tasks, NEW x, task' = [task EXCEPT ![q] = x], q # Timer
                 PROVE  FALSE
      OBVIOUS
    <2>1. task'[Timer] = task[Timer]
      BY <1>1 DEF CatalogInv, Catalog!TypeOK
    <2> QED BY <2>1
  <1>3. Catalog!StoreEntry(Timer)
    <2>1. entry' # entry /\ task' # task
      OBVIOUS
    <2>2. PICK t \in Catalog!Tasks :
            Catalog!StoreEntry(t) \/ (t \in Admins /\ Catalog!SetEntryPublished(t))
      BY <2>1, EntryWriters
    <2>3. \E x : task' = [task EXCEPT ![t] = x]
      BY <2>2 DEF Catalog!StoreEntry, Catalog!SetEntryPublished, Catalog!End
    <2> QED BY <1>1, <1>2, <2>2, <2>3
  <1>4. /\ Catalog!At(Timer, "store")
        /\ Catalog!UpsertFromManifest(task[Timer].app, task[Timer].release, task[Timer].from,
                              task[Timer].kind = "refresh")
    BY <1>3 DEF Catalog!StoreEntry
  <1>5. Catalog!Trusted(task[Timer].from.status)
    BY <1>4 DEF Catalog!At, CatalogInv, TimerTrusts
  <1>6. entry'[a].from = task[Timer].from
    BY <1>4 DEF Catalog!UpsertFromManifest, CatalogInv, Catalog!TypeOK
  <1> QED BY <1>5, <1>6

-----------------------------------------------------------------------------
(* The composition: a behaviour of it is one of each service. *)
LEMMA StepsOfAll ==
    [AllNext]_allVars =>
      [Next]_vars /\ [OAuth!Next]_(OAuth!vars) /\ [Catalog!Next]_(Catalog!vars)
  BY DEF AllNext, allVars, oauthVars, catalogVars, OAuth!vars, Catalog!vars

LEMMA EventsRun == AllSpec => Spec
  <1>1. AllInit => Init
    BY DEF AllInit
  <1> QED BY <1>1, StepsOfAll, PTL DEF AllSpec, Spec

LEMMA OAuthRuns == AllSpec => OAuth!Spec
  <1>1. AllInit => OAuth!Init
    BY DEF AllInit
  <1> QED BY <1>1, StepsOfAll, PTL DEF AllSpec, OAuth!Spec

LEMMA CatalogRuns == AllSpec => Catalog!Init /\ [][Catalog!Next]_(Catalog!vars)
  <1>1. AllInit => Catalog!Init
    BY DEF AllInit
  <1> QED BY <1>1, StepsOfAll, PTL DEF AllSpec

(***************************************************************************)
(* Events, flows, callbacks, sources, entries and tasks keep their form;   *)
(* only installed applications have an update signal.                      *)
(***************************************************************************)
THEOREM AllTyped == AllSpec => []AllTypeOK
  <1>1. TypeOK /\ OAuthInv /\ CatalogInv => AllTypeOK
    BY DEF OAuthInv, CatalogInv, AllTypeOK
  <1> QED
    BY <1>1, EventsRun, TypeCorrect, OAuthRuns, OAuthAlways, CatalogRuns, CatalogAlways, PTL

(***************************************************************************)
(* The log implements the promise of EventDelivery: events are offered     *)
(* until acknowledged and never afterwards, whatever is lost or repeated.  *)
(***************************************************************************)
THEOREM EventsDelivered == AllSpec => DeliversAtLeastOnce
  BY EventsRun, LogDelivers, PTL

(***************************************************************************)
(* However often the browser returns with a state, and whenever the        *)
(* process is restarted, a flow brings one license at most.                *)
(***************************************************************************)
THEOREM OneImport == AllSpec => []OneImportPerFlow
  <1>1. OAuthInv => OneImportPerFlow
    BY DEF OAuthInv, OneImportPerFlow
  <1> QED BY <1>1, OAuthRuns, OAuthAlways, PTL

(***************************************************************************)
(* A callback finds the client its code was asked for, unless another      *)
(* start of the tenant has stored a client since the flow looked its up:   *)
(* clients registered twice and rows that move are no exception.           *)
(***************************************************************************)
THEOREM CodesReturn == AllSpec => []CodesGoHome
  <1>1. OAuthInv => CodesGoHome
    BY DEF OAuthInv, CodesGoHome
  <1> QED BY <1>1, OAuthRuns, OAuthAlways, PTL

(***************************************************************************)
(* An entry from a feed has a release the feed has listed, however feeds,  *)
(* servers, sources and entries change between the fetches.                *)
(***************************************************************************)
THEOREM FeedEntriesListed == AllSpec => []FeedEntriesWereListed
  <1>1. CatalogInv => FeedEntriesWereListed
    BY DEF CatalogInv, FeedEntriesWereListed
  <1> QED BY <1>1, CatalogRuns, CatalogAlways, PTL

(***************************************************************************)
(* What the timer stores comes from a source that was trusted when its     *)
(* tick began.                                                             *)
(***************************************************************************)
THEOREM TimerTrusted == AllSpec => TimerTrustsSource
  <1>1. CatalogInv /\ [Catalog!Next]_(Catalog!vars) =>
          [\A a \in Apps :
             entry'[a] # entry[a] /\ task'[Timer] # task[Timer]
               => Catalog!Trusted(entry'[a].from.status)]_(Catalog!vars)
    BY TimerStores
  <1> QED
    BY <1>1, CatalogRuns, CatalogAlways, PTL DEF TimerTrustsSource, Catalog!TimerTrustsSource
=============================================================================
