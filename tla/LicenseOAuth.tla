----------------------------- MODULE LicenseOAuth -----------------------------
(***************************************************************************)
(* Fetching a license from an issuer by OAuth (startLicenseOAuth and       *)
(* completeLicenseOAuth in licensing/license-service.ts).  A start reads   *)
(* the issuer's metadata, looks for the tenant's client at the issuer and  *)
(* registers one if there is none, and keeps the flow in memory under a    *)
(* fresh state.  The browser comes back with that state and a code, at     *)
(* most ten minutes later, perhaps twice, perhaps to a process that has    *)
(* been restarted; the client is looked up again before the code is        *)
(* exchanged.                                                              *)
(*                                                                         *)
(* A client is looked up and registered in two steps, so two starts may    *)
(* register two; and an issuer may answer a registration with a client it  *)
(* gave this tenant before, whose row then moves to the new application.   *)
(* Validation, storing and selection of the license are LicenseStore's.    *)
(***************************************************************************)
EXTENDS Naturals, FiniteSets

CONSTANTS
    Tenants, Apps,
    Flows,          \* starts, each with the state it would draw
    Callbacks,      \* slots for callbacks
    Clients,        \* client_ids of the issuer
    None

Row == [tenant : Tenants, app : Apps, born : 1..Cardinality(Clients)]
Flow == [tenant : Tenants, app : Apps,
         step : {"lookup", "register", "store", "remember", "away", "failed"},
         client : Clients \cup {None},  \* client_id of the authorize URL
         passed : BOOLEAN]              \* history: another start of the tenant stored
                                        \* a client since the lookup of this one
Callback == [tenant : Tenants, flow : Flows, client : Clients \cup {None},
             step : {"lookup", "exchange", "issue", "import"}]

OAuthAssumption ==
    IsFiniteSet(Clients) /\ None \notin Tenants \cup Clients \cup Row \cup Flow \cup Callback

VARIABLES
    conn,       \* core.oauth_connections of one issuer, by client_id
    owner,      \* the tenant the issuer gave a client to (external)
    flow,       \* the starts
    store,      \* oauthStateStore: the flows whose state is remembered
    callback,   \* the callbacks under way
    imported    \* the licenses stored: by which callback, of which flow

vars == <<conn, owner, flow, store, callback, imported>>

TypeOK ==
    /\ conn \in [Clients -> Row \cup {None}]
    /\ owner \in [Clients -> Tenants \cup {None}]
    /\ flow \in [Flows -> Flow \cup {None}]
    /\ store \subseteq {f \in Flows : flow[f] # None}
    /\ callback \in [Callbacks -> Callback \cup {None}]
    /\ imported \subseteq Callbacks \X Flows

Init ==
    /\ conn = [c \in Clients |-> None]
    /\ owner = [c \in Clients |-> None]
    /\ flow = [f \in Flows |-> None]
    /\ store = {}
    /\ callback = [b \in Callbacks |-> None]
    /\ imported = {}

-----------------------------------------------------------------------------
(* Clients *)

Stored == {c \in Clients : conn[c] # None}

Of(t, a) == {c \in Stored : conn[c].tenant = t /\ conn[c].app = a}
Latest(S, born) == CHOOSE c \in S : \A d \in S : born[d] <= born[c]

(* getOAuthConnection: of the clients of this tenant and application the   *)
(* one with the latest created_at, which an overwritten row keeps.         *)
Connection(t, a) ==
    IF Of(t, a) = {} THEN None ELSE Latest(Of(t, a), [c \in Of(t, a) |-> conn[c].born])

(* Mutant: on conflict do nothing. *)
InsertConnection(c, t, a) ==
    conn' = [conn EXCEPT ![c] =
      IF @ = None THEN [tenant |-> t, app |-> a, born |-> Cardinality(Stored) + 1] ELSE @]

(* On conflict the tenant and the application are overwritten.             *)
UpsertConnection(c, t, a) ==
    conn' = [conn EXCEPT ![c] =
      [tenant |-> t, app |-> a,
       born |-> IF @ = None THEN Cardinality(Stored) + 1 ELSE @.born]]

-----------------------------------------------------------------------------
(* Starting *)

AtStart(f, step) == flow[f] # None /\ flow[f].step = step

StartLicenseOAuth(f, t, a) ==
    /\ flow[f] = None
    /\ flow' = [flow EXCEPT ![f] =
         [tenant |-> t, app |-> a, step |-> "lookup", client |-> None, passed |-> FALSE]]
    /\ UNCHANGED <<conn, owner, store, callback, imported>>

LookUpClient(f) ==
    LET found == Connection(flow[f].tenant, flow[f].app) IN
    /\ AtStart(f, "lookup")
    /\ flow' = [flow EXCEPT ![f].client = found, ![f].passed = FALSE,
                            ![f].step = IF found = None THEN "register" ELSE "remember"]
    /\ UNCHANGED <<conn, owner, store, callback, imported>>

(* The issuer draws a new client or repeats one of this tenant. *)
RegisterClient(f, c) ==
    /\ AtStart(f, "register") /\ owner[c] \in {None, flow[f].tenant}
    /\ owner' = [owner EXCEPT ![c] = flow[f].tenant]
    /\ flow' = [flow EXCEPT ![f].client = c, ![f].step = "store"]
    /\ UNCHANGED <<conn, store, callback, imported>>

StoreClient(f) ==
    LET t == flow[f].tenant IN
    /\ AtStart(f, "store")
    /\ UpsertConnection(flow[f].client, t, flow[f].app)
    /\ flow' = [g \in Flows |->
         IF g = f THEN [flow[f] EXCEPT !.step = "remember"]
         ELSE IF flow[g] # None /\ flow[g].tenant = t THEN [flow[g] EXCEPT !.passed = TRUE]
         ELSE flow[g]]
    /\ UNCHANGED <<owner, store, callback, imported>>

(* The browser is sent away. *)
RememberState(f) ==
    /\ AtStart(f, "remember")
    /\ store' = store \cup {f}
    /\ flow' = [flow EXCEPT ![f].step = "away"]
    /\ UNCHANGED <<conn, owner, callback, imported>>

StartFails(f) ==
    /\ AtStart(f, "lookup") \/ AtStart(f, "register")
    /\ flow' = [flow EXCEPT ![f].step = "failed"]
    /\ UNCHANGED <<conn, owner, store, callback, imported>>

(* Older than OAUTH_STATE_TTL_MS: the next start or callback removes it    *)
(* before it looks.                                                        *)
CleanUpOAuthState(f) ==
    /\ f \in store
    /\ store' = store \ {f}
    /\ UNCHANGED <<conn, owner, flow, callback, imported>>

-----------------------------------------------------------------------------
(* The callback *)

AtCallback(b, step) == callback[b] # None /\ callback[b].step = step
Go(b, step) == callback' = [callback EXCEPT ![b].step = step]
EndCallback(b) == callback' = [callback EXCEPT ![b] = None]

(* Mutant: the state is deleted when the license has been stored. *)
KeepState(b, f, t) ==
    /\ callback[b] = None /\ f \in store
    /\ callback' = [callback EXCEPT ![b] =
         IF flow[f].tenant = t
         THEN [tenant |-> t, flow |-> f, client |-> None, step |-> "lookup"] ELSE None]
    /\ UNCHANGED <<conn, owner, flow, store, imported>>

(* The state is read and deleted before anything is awaited; a tenant      *)
(* other than the flow's has spent it.                                     *)
TakeState(b, f, t) ==
    /\ callback[b] = None /\ f \in store
    /\ store' = store \ {f}
    /\ callback' = [callback EXCEPT ![b] =
         IF flow[f].tenant = t
         THEN [tenant |-> t, flow |-> f, client |-> None, step |-> "lookup"] ELSE None]
    /\ UNCHANGED <<conn, owner, flow, imported>>

LookUpClientAgain(b) ==
    LET found == Connection(callback[b].tenant, flow[callback[b].flow].app) IN
    /\ AtCallback(b, "lookup")
    /\ callback' = [callback EXCEPT ![b].client = found, ![b].step = "exchange"]
    /\ UNCHANGED <<conn, owner, flow, store, imported>>

(* The issuer takes a code from the client it was given to only. *)
ExchangeCode(b) ==
    /\ AtCallback(b, "exchange")
    /\ IF callback[b].client = flow[callback[b].flow].client
       THEN Go(b, "issue") ELSE EndCallback(b)
    /\ UNCHANGED <<conn, owner, flow, store, imported>>

IssueLicense(b) ==
    /\ AtCallback(b, "issue")
    /\ Go(b, "import")
    /\ UNCHANGED <<conn, owner, flow, store, imported>>

ImportLicense(b) ==
    /\ AtCallback(b, "import")
    /\ imported' = imported \cup {<<b, callback[b].flow>>}
    /\ EndCallback(b)
    /\ UNCHANGED <<conn, owner, flow, store>>

CallbackFails(b) ==
    /\ callback[b] # None
    /\ EndCallback(b)
    /\ UNCHANGED <<conn, owner, flow, store, imported>>

(* The process ends: states are lost, and with them the browsers' flows.   *)
Restart ==
    /\ store # {} \/ \E b \in Callbacks : callback[b] # None
    /\ store' = {}
    /\ callback' = [b \in Callbacks |-> None]
    /\ flow' = [f \in Flows |->
         IF flow[f] = None \/ flow[f].step = "away" THEN flow[f]
         ELSE [flow[f] EXCEPT !.step = "failed"]]
    /\ UNCHANGED <<conn, owner, imported>>

-----------------------------------------------------------------------------

Next ==
    \/ \E f \in Flows :
         \/ \E t \in Tenants, a \in Apps : StartLicenseOAuth(f, t, a)
         \/ LookUpClient(f) \/ StoreClient(f) \/ RememberState(f) \/ StartFails(f)
         \/ \E c \in Clients : RegisterClient(f, c)
         \/ CleanUpOAuthState(f)
    \/ \E b \in Callbacks :
         \/ \E f \in Flows, t \in Tenants : TakeState(b, f, t)
         \/ LookUpClientAgain(b) \/ ExchangeCode(b) \/ IssueLicense(b) \/ ImportLicense(b)
         \/ CallbackFails(b)
    \/ Restart

Spec == Init /\ [][Next]_vars

-----------------------------------------------------------------------------
(* A flow brings one license at most, however often the browser returns.   *)
OneImportPerFlow ==
    \A b, d \in Callbacks, f \in Flows : <<b, f>> \in imported /\ <<d, f>> \in imported => b = d

(* A code is exchanged with the client it was asked for, unless another    *)
(* start of the tenant stored a client while this flow was away.           *)
CodesGoHome ==
    \A b \in Callbacks :
      AtCallback(b, "exchange") /\ ~flow[callback[b].flow].passed
        => callback[b].client = flow[callback[b].flow].client
=============================================================================
