---------------------------- MODULE LicenseStore ----------------------------
(***************************************************************************)
(* Tenant licenses: importing signed license material, re-validating what  *)
(* is stored, synchronising revocations, and selecting the license a       *)
(* tenant uses for an application (licensing/license-service.ts, with the  *)
(* routes that call it).                                                   *)
(*                                                                         *)
(* The service is one Node process.  Every "await" of a database query or  *)
(* of an HTTP fetch lets other requests run, so a request is a sequence of *)
(* steps between two awaits; a request slot r holds its program counter    *)
(* and what it has read so far.  validateStoredLicense runs once per row   *)
(* inside a Promise.all, so each slot has one validation task per jti.     *)
(*                                                                         *)
(* Material stands for a license JWS with its author certificate: the      *)
(* record of the claims the service acts on.                               *)
(***************************************************************************)
EXTENDS Naturals, FiniteSets

CONSTANTS
    Tenants, Apps, Jtis, Issuers, Roots, Authors, Kids,
    Materials,      \* license material that may be presented to the service
    InitialRoots,   \* root keys configured by LICENSING_ROOT_JWKS_JSON
    Requests,       \* request slots: how many requests may be in flight
    Skew,           \* LICENSING_CLOCK_SKEW_SECONDS
    NoMaterial, NoJti,
    \* Bounds of the model, not of the code.
    MaxTime,
    MaxFaults,      \* failing queries and restarts
    LocalRevocable,    \* local revocations an administrator may insert
    RegistryRevocable, \* revocations the author registry may publish
    RegistryRootSets,  \* sets of root keys it may rotate to
    IssuerRevocable    \* jtis an issuer may revoke

(***************************************************************************)
(* The (type, value) pairs of core.license_revocations_local, and the      *)
(* entries of a registry revocation document, that concern material m.     *)
(***************************************************************************)
LocalKeys(m) ==
    {<<"author_id", m.author>>, <<"license_jti", m.jti>>, <<"author_kid", m.kid>>}
RegistryKeys(m) ==
    {<<"author_id", m.author>>, <<"author_kid", m.author, m.kid>>, <<"root_kid", m.root>>}

AllRegistryKeys == UNION {RegistryKeys(m) : m \in Materials}
AllLocalKeys == UNION {LocalKeys(m) : m \in Materials}
TrustDocs == [roots : SUBSET Roots, revoked : SUBSET AllRegistryKeys]

ASSUME MaterialsAssumption ==
    /\ Materials \subseteq
         [jti : Jtis, tenant : Tenants, app : Apps, author : Authors, kid : Kids,
          root : Roots, nbf : Nat, exp : Nat, certExp : Nat, claimsOk : BOOLEAN]
    /\ NoMaterial \notin Materials
    /\ NoJti \notin Jtis
    /\ InitialRoots \subseteq Roots
    /\ RegistryRevocable \subseteq AllRegistryKeys
    /\ LocalRevocable \subseteq AllLocalKeys
    /\ RegistryRootSets \subseteq SUBSET Roots
    /\ IssuerRevocable \subseteq Jtis
    /\ Tenants # {} /\ Apps # {} /\ Jtis # {} /\ Issuers # {}
    /\ Skew \in Nat

VARIABLES
    lic,        \* core.tenant_licenses: the material stored under each jti
    status,     \* its status column
    selection,  \* core.tenant_app_license_selection
    local,      \* core.license_revocations_local
    trust,      \* what loadTrustState returns
    snapshot,   \* core.license_issuer_revocation_snapshots, per issuer
    registry,   \* the document the author registry now serves (external)
    published,  \* the jtis each issuer has revoked (external)
    now,
    req,        \* the request in each slot
    task,       \* its validation of each jti
    faults,
    settled     \* history: the rows validated since revocation data last changed

storeVars == <<lic, status, selection>>
revocationVars == <<local, trust, snapshot>>
externalVars == <<registry, published, now>>
vars == <<lic, status, selection, local, trust, snapshot, registry, published,
          now, req, task, faults, settled>>

-----------------------------------------------------------------------------
(* States *)

Statuses == {"active", "invalid", "expired", "revoked"}
Phases == {"idle", "read", "load", "local", "issuer", "write"}
Task == [phase : Phases, dest : {"import", "status"}, tenant : Tenants,
         mat : Materials \cup {NoMaterial}, revoked : SUBSET AllRegistryKeys,
         verdict : Statuses, fresh : BOOLEAN]
PCs == {"idle", "validating", "issuerFetched", "trustFetched", "stored", "selecting"}
Request == [pc : PCs, tenant : Tenants, app : Apps, jti : Jtis, issuer : Issuers,
            jtis : SUBSET Jtis, doc : TrustDocs]

TypeOK ==
    /\ lic \in [Jtis -> Materials \cup {NoMaterial}]
    /\ status \in [Jtis -> Statuses]
    /\ selection \in [Tenants -> [Apps -> Jtis \cup {NoJti}]]
    /\ local \in SUBSET AllLocalKeys
    /\ trust \in TrustDocs
    /\ snapshot \in [Issuers -> SUBSET Jtis]
    /\ registry \in TrustDocs
    /\ published \in [Issuers -> SUBSET Jtis]
    /\ now \in Nat
    /\ req \in [Requests -> Request]
    /\ task \in [Requests -> [Jtis -> Task]]
    /\ faults \in Nat
    /\ settled \in SUBSET Jtis

ConfiguredTrust == [roots |-> InitialRoots, revoked |-> {}]
IdleRequest ==
    [pc |-> "idle", tenant |-> CHOOSE t \in Tenants : TRUE,
     app |-> CHOOSE a \in Apps : TRUE, jti |-> CHOOSE j \in Jtis : TRUE,
     issuer |-> CHOOSE i \in Issuers : TRUE, jtis |-> {}, doc |-> ConfiguredTrust]
IdleTask ==
    [phase |-> "idle", dest |-> "status", tenant |-> CHOOSE t \in Tenants : TRUE,
     mat |-> NoMaterial, revoked |-> {}, verdict |-> "invalid", fresh |-> FALSE]

Init ==
    /\ lic = [j \in Jtis |-> NoMaterial]
    /\ status = [j \in Jtis |-> "invalid"]
    /\ selection = [t \in Tenants |-> [a \in Apps |-> NoJti]]
    /\ local = {}
    /\ trust = ConfiguredTrust
    /\ snapshot = [i \in Issuers |-> {}]
    /\ registry = ConfiguredTrust
    /\ published = [i \in Issuers |-> {}]
    /\ now = 0
    /\ req = [r \in Requests |-> IdleRequest]
    /\ task = [r \in Requests |-> [j \in Jtis |-> IdleTask]]
    /\ faults = 0
    /\ settled = {}

-----------------------------------------------------------------------------
(* Verification of license material *)

Stored(j) == lic[j] # NoMaterial

(* jwtVerify of certificate and license: signatures under a trusted root,  *)
(* exp and nbf with clockTolerance = Skew.                                 *)
ChainVerifies(m) ==
    /\ m.root \in trust.roots
    /\ now < m.exp + Skew
    /\ now < m.certExp + Skew
    /\ m.nbf <= now + Skew

LocallyRevoked(m) == LocalKeys(m) \cap local # {}
RegistryRevoked(m, revoked) == RegistryKeys(m) \cap revoked # {}
IssuerRevoked(m) == \E i \in Issuers : m.jti \in snapshot[i]

(* isRevoked, as of this moment. *)
Revoked(m) ==
    LocallyRevoked(m) \/ RegistryRevoked(m, trust.revoked) \/ IssuerRevoked(m)

(* getLicenseStatus of material that is not revoked. *)
StatusByClock(m) == IF m.exp <= now THEN "expired" ELSE "active"

Running(r, j, phase) == task[r][j].phase = phase
SetTask(r, j, t) == task' = [task EXCEPT ![r][j] = t]

(* An exception inside verifyLicenseMaterial: validateLicenseMaterial      *)
(* turns it into status "invalid", an import fails.                        *)
Thrown(t, fresh) ==
    IF t.dest = "status"
    THEN [t EXCEPT !.phase = "write", !.verdict = "invalid", !.fresh = fresh]
    ELSE IdleTask

(* getLicenseByJti at the start of validateStoredLicense. *)
ReadStored(r, j) ==
    /\ Running(r, j, "read")
    /\ SetTask(r, j,
         IF Stored(j) /\ lic[j].tenant = task[r][j].tenant
         THEN [task[r][j] EXCEPT !.phase = "load", !.mat = lic[j]]
         ELSE IdleTask)
    /\ UNCHANGED <<storeVars, revocationVars, externalVars, faults, req, settled>>

(* loadTrustState, the signature chain and the checks on the claims. *)
LoadTrust(r, j) ==
    LET t == task[r][j] IN
    /\ Running(r, j, "load")
    /\ SetTask(r, j,
         IF ChainVerifies(t.mat) /\ t.mat.claimsOk /\ t.mat.tenant = t.tenant
         THEN [t EXCEPT !.phase = "local", !.revoked = trust.revoked, !.fresh = TRUE]
         ELSE Thrown(t, TRUE))
    /\ UNCHANGED <<storeVars, revocationVars, externalVars, faults, req, settled>>

(* isRevoked, first await: the local revocation table. *)
CheckLocal(r, j) ==
    LET t == task[r][j] IN
    /\ Running(r, j, "local")
    /\ SetTask(r, j,
         IF LocallyRevoked(t.mat)
         THEN [t EXCEPT !.phase = "write", !.verdict = "revoked"]
         ELSE [t EXCEPT !.phase = "issuer"])
    /\ UNCHANGED <<storeVars, revocationVars, externalVars, faults, req, settled>>

(* Mutant: the registry document is not searched. *)
CheckIssuersOnly(r, j) ==
    LET t == task[r][j] IN
    /\ Running(r, j, "issuer")
    /\ SetTask(r, j,
         [t EXCEPT !.phase = "write",
                   !.verdict = IF IssuerRevoked(t.mat) THEN "revoked" ELSE StatusByClock(t.mat)])
    /\ UNCHANGED <<storeVars, revocationVars, externalVars, faults, req, settled>>

(* isRevoked, the registry document read by LoadTrust and the issuers'     *)
(* snapshots read now; then the clock.                                     *)
CheckIssuers(r, j) ==
    LET t == task[r][j] IN
    /\ Running(r, j, "issuer")
    /\ SetTask(r, j,
         [t EXCEPT !.phase = "write",
                   !.verdict = IF RegistryRevoked(t.mat, t.revoked) \/ IssuerRevoked(t.mat)
                               THEN "revoked" ELSE StatusByClock(t.mat)])
    /\ UNCHANGED <<storeVars, revocationVars, externalVars, faults, req, settled>>

(* The upsert by jti of importLicenseMaterial: a row of that jti becomes   *)
(* this tenant's and this application's, whoever's it was.                 *)
WriteImport(r, j) ==
    LET t == task[r][j] IN
    /\ Running(r, j, "write") /\ t.dest = "import"
    /\ lic' = [lic EXCEPT ![j] = t.mat]
    /\ status' = [status EXCEPT ![j] = t.verdict]
    /\ settled' = IF t.fresh THEN settled \cup {j} ELSE settled \ {j}
    /\ SetTask(r, j, IdleTask)
    /\ UNCHANGED <<selection, revocationVars, externalVars, faults, req>>

(* Mutant: the status update looks the row up by jti alone. *)
WriteStatusByJti(r, j) ==
    LET t == task[r][j] IN
    /\ Running(r, j, "write") /\ t.dest = "status"
    /\ IF Stored(j)
       THEN /\ status' = [status EXCEPT ![j] = t.verdict]
            /\ settled' = IF t.fresh /\ lic[j] = t.mat
                          THEN settled \cup {j} ELSE settled \ {j}
       ELSE UNCHANGED <<status, settled>>
    /\ SetTask(r, j, IdleTask)
    /\ UNCHANGED <<lic, selection, revocationVars, externalVars, faults, req>>

(* The status update of validateStoredLicense, by tenant and jti: it does  *)
(* not look whether the row still holds the material that was validated.   *)
WriteStatus(r, j) ==
    LET t == task[r][j] IN
    /\ Running(r, j, "write") /\ t.dest = "status"
    /\ IF Stored(j) /\ lic[j].tenant = t.tenant
       THEN /\ status' = [status EXCEPT ![j] = t.verdict]
            /\ settled' = IF t.fresh /\ lic[j] = t.mat
                          THEN settled \cup {j} ELSE settled \ {j}
       ELSE UNCHANGED <<status, settled>>
    /\ SetTask(r, j, IdleTask)
    /\ UNCHANGED <<lic, selection, revocationVars, externalVars, faults, req>>

(* A query that fails.  Inside the verification of a stored license the    *)
(* failure is one more exception, reported as "invalid".                   *)
QueryFails(r, j) ==
    LET t == task[r][j] IN
    /\ faults < MaxFaults /\ faults' = faults + 1
    /\ t.phase # "idle"
    /\ SetTask(r, j, IF t.phase \in {"read", "write"} THEN IdleTask ELSE Thrown(t, FALSE))
    /\ UNCHANGED <<storeVars, revocationVars, externalVars, req, settled>>

TaskStep(r, j) ==
    \/ ReadStored(r, j) \/ LoadTrust(r, j) \/ CheckLocal(r, j) \/ CheckIssuers(r, j)
    \/ WriteImport(r, j) \/ WriteStatus(r, j)

-----------------------------------------------------------------------------
(* Requests *)

Idle(r) == req[r].pc = "idle"
TasksDone(r) == \A j \in Jtis : Running(r, j, "idle")

(* POST /tenants/:t/licenses/import, POST /licensing/offline *)
StartImport(r, t, m) ==
    /\ Idle(r)
    /\ req' = [req EXCEPT ![r].pc = "validating"]
    /\ SetTask(r, m.jti, [IdleTask EXCEPT !.phase = "load", !.dest = "import",
                                          !.tenant = t, !.mat = m])
    /\ UNCHANGED <<storeVars, revocationVars, externalVars, faults, settled>>

(* POST /tenants/:t/licenses/validate with a license_jti *)
StartValidate(r, t, j) ==
    /\ Idle(r)
    /\ req' = [req EXCEPT ![r].pc = "validating"]
    /\ SetTask(r, j, [IdleTask EXCEPT !.phase = "read", !.tenant = t])
    /\ UNCHANGED <<storeVars, revocationVars, externalVars, faults, settled>>

(* POST /licensing/revocations/sync: fetch the issuer's document ... *)
FetchRevocations(r, i) ==
    /\ Idle(r)
    /\ req' = [req EXCEPT ![r].pc = "issuerFetched", ![r].issuer = i,
                          ![r].jtis = published[i]]
    /\ UNCHANGED <<storeVars, revocationVars, externalVars, faults, task, settled>>

(* POST /platform/author-registry/sync-trust: fetch the trust anchor and   *)
(* the revocations of the author registry ...                              *)
FetchTrust(r) ==
    /\ Idle(r)
    /\ req' = [req EXCEPT ![r].pc = "trustFetched", ![r].doc = registry]
    /\ UNCHANGED <<storeVars, revocationVars, externalVars, faults, task, settled>>

(* Revocation data changes under every verification in flight. *)
RevocationsChange ==
    /\ task' = [r \in Requests |-> [j \in Jtis |-> [task[r][j] EXCEPT !.fresh = FALSE]]]
    /\ settled' = {}

(* Mutant: the route answers without refreshing the stored licenses. *)
StoreRevocationsOnly(r) ==
    /\ req[r].pc = "issuerFetched"
    /\ snapshot' = [snapshot EXCEPT ![req[r].issuer] = req[r].jtis]
    /\ req' = [req EXCEPT ![r].pc = "validating"]
    /\ RevocationsChange
    /\ UNCHANGED <<storeVars, local, trust, externalVars, faults>>

(* ... store it, replacing the previous document ... *)
StoreRevocations(r) ==
    /\ req[r].pc = "issuerFetched"
    /\ snapshot' = [snapshot EXCEPT ![req[r].issuer] = req[r].jtis]
    /\ req' = [req EXCEPT ![r].pc = "stored"]
    /\ RevocationsChange
    /\ UNCHANGED <<storeVars, local, trust, externalVars, faults>>

StoreTrust(r) ==
    /\ req[r].pc = "trustFetched"
    /\ trust' = req[r].doc
    /\ req' = [req EXCEPT ![r].pc = "stored"]
    /\ RevocationsChange
    /\ UNCHANGED <<storeVars, local, snapshot, externalVars, faults>>

(* Mutant: the refresh lists only the rows that are selected. *)
StartRefreshSelected(r) ==
    /\ req[r].pc = "stored"
    /\ req' = [req EXCEPT ![r].pc = "validating"]
    /\ task' = [task EXCEPT ![r] = [j \in Jtis |->
                  IF \E t \in Tenants, a \in Apps : selection[t][a] = j
                  THEN [IdleTask EXCEPT !.phase = "read", !.tenant = lic[j].tenant]
                  ELSE IdleTask]]
    /\ UNCHANGED <<storeVars, revocationVars, externalVars, faults, settled>>

(* ... and refreshStoredLicenseStatuses: list the rows, validate each. *)
StartRefresh(r) ==
    /\ req[r].pc = "stored"
    /\ req' = [req EXCEPT ![r].pc = "validating"]
    /\ task' = [task EXCEPT ![r] = [j \in Jtis |->
                  IF Stored(j) THEN [IdleTask EXCEPT !.phase = "read", !.tenant = lic[j].tenant]
                               ELSE IdleTask]]
    /\ UNCHANGED <<storeVars, revocationVars, externalVars, faults, settled>>

Reply(r) ==
    /\ req[r].pc = "validating" /\ TasksDone(r)
    /\ req' = [req EXCEPT ![r] = IdleRequest]
    /\ UNCHANGED <<storeVars, revocationVars, externalVars, faults, task, settled>>

(* selectTenantLicense: the status query ... *)
CheckSelectable(r, t, a, j) ==
    /\ Idle(r)
    /\ Stored(j) /\ lic[j].tenant = t /\ lic[j].app = a
    /\ status[j] = "active"
    /\ req' = [req EXCEPT ![r].pc = "selecting", ![r].tenant = t, ![r].app = a, ![r].jti = j]
    /\ UNCHANGED <<storeVars, revocationVars, externalVars, faults, task, settled>>

(* ... and the upsert of the selection. *)
StoreSelection(r) ==
    /\ req[r].pc = "selecting"
    /\ selection' = [selection EXCEPT ![req[r].tenant][req[r].app] = req[r].jti]
    /\ req' = [req EXCEPT ![r].pc = "idle"]
    /\ UNCHANGED <<lic, status, revocationVars, externalVars, faults, task, settled>>

(* clearSelectedTenantLicense: one DELETE, also run by an uninstall. *)
ClearSelection(t, a) ==
    /\ selection[t][a] # NoJti
    /\ selection' = [selection EXCEPT ![t][a] = NoJti]
    /\ UNCHANGED <<lic, status, revocationVars, externalVars, faults, req, task, settled>>

(* A query of the request itself fails: the request answers 500 and stops  *)
(* where it is.                                                            *)
RequestFails(r) ==
    /\ faults < MaxFaults /\ faults' = faults + 1
    /\ req[r].pc \in {"issuerFetched", "trustFetched", "stored", "selecting"}
    /\ req' = [req EXCEPT ![r] = IdleRequest]
    /\ UNCHANGED <<storeVars, revocationVars, externalVars, task, settled>>

-----------------------------------------------------------------------------
(* The environment *)

(* An administrator inserts a local revocation; no code path does. *)
RevokeLocally(k) ==
    /\ k \in LocalRevocable \ local
    /\ local' = local \cup {k}
    /\ RevocationsChange
    /\ UNCHANGED <<storeVars, trust, snapshot, externalVars, faults, req>>

IssuerRevokes(i, j) ==
    /\ j \in IssuerRevocable \ published[i]
    /\ published' = [published EXCEPT ![i] = @ \cup {j}]
    /\ UNCHANGED <<storeVars, revocationVars, registry, now, faults, req, task, settled>>

RegistryRevokes(k) ==
    /\ k \in RegistryRevocable \ registry.revoked
    /\ registry' = [registry EXCEPT !.revoked = @ \cup {k}]
    /\ UNCHANGED <<storeVars, revocationVars, published, now, faults, req, task, settled>>

RegistryRotatesRoots(roots) ==
    /\ roots \in RegistryRootSets \ {registry.roots}
    /\ registry' = [registry EXCEPT !.roots = roots]
    /\ UNCHANGED <<storeVars, revocationVars, published, now, faults, req, task, settled>>

Tick ==
    /\ now < MaxTime
    /\ now' = now + 1
    /\ UNCHANGED <<storeVars, revocationVars, registry, published, faults, req, task, settled>>

(* The process dies and is restarted: requests are lost, tables are kept. *)
Restart ==
    /\ faults < MaxFaults /\ faults' = faults + 1
    /\ req' = [r \in Requests |-> IdleRequest]
    /\ task' = [r \in Requests |-> [j \in Jtis |-> IdleTask]]
    /\ UNCHANGED <<storeVars, revocationVars, externalVars, settled>>

-----------------------------------------------------------------------------
RequestStep(r) ==
    \/ \E j \in Jtis : TaskStep(r, j)
    \/ StoreRevocations(r) \/ StoreTrust(r) \/ StartRefresh(r) \/ Reply(r)
    \/ StoreSelection(r)

RequestArrives(r) ==
    \/ \E t \in Tenants, m \in Materials : StartImport(r, t, m)
    \/ \E t \in Tenants, j \in Jtis : StartValidate(r, t, j)
    \/ \E i \in Issuers : FetchRevocations(r, i)
    \/ FetchTrust(r)
    \/ \E t \in Tenants, a \in Apps, j \in Jtis : CheckSelectable(r, t, a, j)

Environment ==
    \/ \E r \in Requests, j \in Jtis : QueryFails(r, j)
    \/ \E r \in Requests : RequestFails(r)
    \/ \E t \in Tenants, a \in Apps : ClearSelection(t, a)
    \/ \E k \in LocalRevocable : RevokeLocally(k)
    \/ \E i \in Issuers, j \in IssuerRevocable : IssuerRevokes(i, j)
    \/ \E k \in RegistryRevocable : RegistryRevokes(k)
    \/ \E roots \in RegistryRootSets : RegistryRotatesRoots(roots)
    \/ Tick
    \/ Restart

Next ==
    \/ \E r \in Requests : RequestStep(r) \/ RequestArrives(r)
    \/ Environment

Spec == Init /\ [][Next]_vars

(* The event loop runs every continuation that is ready. *)
FairSpec == Spec /\ \A r \in Requests : WF_vars(RequestStep(r))

-----------------------------------------------------------------------------
(* What the rest of the platform reads *)

(* hasSelectedActiveLicense: the gate of the proxy and of the registry. *)
GateOpen(t, a) ==
    selection[t][a] # NoJti /\ status[selection[t][a]] = "active"

(* The license_status of the installed-applications view for an application *)
(* that requires a license.                                                 *)
HasAnyLicense(t, a) == \E j \in Jtis : Stored(j) /\ lic[j].tenant = t /\ lic[j].app = a
ViewedLicenseStatus(t, a) ==
    IF selection[t][a] # NoJti THEN "active"
    ELSE IF HasAnyLicense(t, a) THEN "invalid" ELSE "missing"

-----------------------------------------------------------------------------
(* Properties *)

(***************************************************************************)
(* A license that moves to another tenant under a validation takes no      *)
(* verdict of its former owner with it: a status is written only from the  *)
(* verification of material of the tenant whose row it is.                 *)
(***************************************************************************)
VerdictsStayHome ==
    [][\A j \in Jtis : status'[j] # status[j] =>
         \E r \in Requests :
           /\ task[r][j].phase = "write" /\ task[r][j].verdict = status'[j]
           /\ task[r][j].mat.tenant = lic'[j].tenant]_vars

(***************************************************************************)
(* A row whose status was decided since revocation data last changed, by a *)
(* validation of the material the row holds that read nothing older, tells *)
(* the truth: active means verified under a trusted root and revoked by    *)
(* nobody, revoked means somebody revokes it.  With interleaved requests,  *)
(* failing queries and restarts this is all the status column promises.    *)
(***************************************************************************)
SettledStatusTrue ==
    \A j \in settled :
        /\ Stored(j)
        /\ status[j] = "active" => ~Revoked(lic[j]) /\ lic[j].root \in trust.roots
        /\ status[j] = "revoked" => Revoked(lic[j])

(***************************************************************************)
(* A synchronisation that has answered has re-validated every stored       *)
(* license against what it stored: with one request at a time and no       *)
(* failing query, nothing is left with the status it had before.           *)
(***************************************************************************)
Synchronised(q) ==
    q.pc = "validating" /\ (q.jtis # {} \/ q.doc # ConfiguredTrust)

SyncSettlesAll ==
    [][\A r \in Requests : Synchronised(req[r]) /\ req'[r].pc = "idle" =>
         \A j \in Jtis : status[j] = "active" =>
           /\ lic[j].root \in trust.roots
           /\ ~IssuerRevoked(lic[j]) /\ ~RegistryRevoked(lic[j], trust.revoked)]_vars

(***************************************************************************)
(* A revocation that has reached the database takes effect: an active      *)
(* license named by a stored snapshot does not stay active.                *)
(***************************************************************************)
RevocationTakesEffect ==
    \A j \in Jtis :
        (Stored(j) /\ status[j] = "active" /\ IssuerRevoked(lic[j])) ~> (status[j] # "active")

(***************************************************************************)
(* The administrators' view and the gate agree: an application shown with  *)
(* an active license is one the proxy lets through.                        *)
(***************************************************************************)
ViewMatchesGate ==
    \A t \in Tenants, a \in Apps :
        ViewedLicenseStatus(t, a) = "active" => GateOpen(t, a)
-----------------------------------------------------------------------------
(* The inductive invariant                                                 *)

(* A row, and the material a validation carries, is filed under its jti.   *)
FiledByJti ==
    /\ \A j \in Jtis : Stored(j) => lic[j].jti = j
    /\ \A r \in Requests, j \in Jtis :
         /\ task[r][j].mat # NoMaterial => task[r][j].mat.jti = j
         /\ task[r][j].phase \in {"load", "local", "issuer", "write"}
              => task[r][j].mat # NoMaterial

(* A validation carries on only with material of the tenant it is for. *)
StatusTaskOwned ==
    \A r \in Requests, j \in Jtis :
        LET t == task[r][j] IN
        t.dest = "status" /\ t.phase \in {"load", "local", "issuer", "write"} =>
            t.mat.tenant = t.tenant

(* What a validation that has read no outdated revocation data knows.      *)
FreshTrue(t) == t.fresh =>
    /\ t.phase \in {"local", "issuer"} =>
         t.mat.root \in trust.roots /\ t.revoked = trust.revoked
    /\ t.phase = "issuer" => ~LocallyRevoked(t.mat)
    /\ t.phase = "write" =>
         /\ t.verdict = "active" => ~Revoked(t.mat) /\ t.mat.root \in trust.roots
         /\ t.verdict = "revoked" => Revoked(t.mat)

FreshTaskTrue == \A r \in Requests, j \in Jtis : FreshTrue(task[r][j])

IInv ==
    /\ TypeOK /\ FiledByJti
    /\ StatusTaskOwned
    /\ FreshTaskTrue /\ SettledStatusTrue
=============================================================================
