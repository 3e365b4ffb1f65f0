------------------------- MODULE LicenseStoreProofs -------------------------
(***************************************************************************)
(* Proofs about LicenseStore: type correctness, truth of settled statuses  *)
(* and whose verdicts a status column receives, for every set of tenants,  *)
(* licenses and requests, every clock and any number of faults and         *)
(* restarts.                                                               *)
(***************************************************************************)
EXTENDS LicenseStore, TLAPS

(* The idle values of a slot and of a task are well typed. *)
LEMMA IdleTyped == IdleTask \in Task /\ IdleRequest \in Request
<1>1. (CHOOSE t \in Tenants : TRUE) \in Tenants
  BY MaterialsAssumption
<1>2. (CHOOSE a \in Apps : TRUE) \in Apps
  BY MaterialsAssumption
<1>3. (CHOOSE j \in Jtis : TRUE) \in Jtis
  BY MaterialsAssumption
<1>4. (CHOOSE i \in Issuers : TRUE) \in Issuers
  BY MaterialsAssumption
<1>5. ConfiguredTrust \in TrustDocs
  BY MaterialsAssumption DEF ConfiguredTrust, TrustDocs
<1>6. IdleTask \in Task
  BY <1>1 DEF IdleTask, Task, Phases, Statuses
<1>7. IdleRequest \in Request
  BY <1>1, <1>2, <1>3, <1>4, <1>5 DEF IdleRequest, Request, PCs
<1> QED
  BY <1>6, <1>7

(* Writing one task leaves every other task alone. *)
LEMMA SetTaskEffect ==
  ASSUME task \in [Requests -> [Jtis -> Task]],
         NEW r \in Requests, NEW j \in Jtis, NEW t \in Task, SetTask(r, j, t)
  PROVE  /\ task' \in [Requests -> [Jtis -> Task]]
         /\ \A s \in Requests, k \in Jtis :
              task'[s][k] = IF s = r /\ k = j THEN t ELSE task[s][k]
  BY DEF SetTask

(* Moving a request to another program counter. *)
LEMMA SetPcTyped ==
  ASSUME req \in [Requests -> Request], NEW r \in Requests, NEW p \in PCs,
         req' = [req EXCEPT ![r].pc = p]
  PROVE  req' \in [Requests -> Request]
<1>1. req[r] \in Request
  OBVIOUS
<1>2. [req[r] EXCEPT !.pc = p] \in Request
  BY <1>1 DEF Request
<1>3. req' = [req EXCEPT ![r] = [req[r] EXCEPT !.pc = p]]
  OBVIOUS
<1> QED
  BY <1>2, <1>3

(* An exception leaves a well typed task, without a verdict to trust but   *)
(* "invalid".                                                              *)
LEMMA ThrownTyped ==
  ASSUME NEW t \in Task, NEW f \in BOOLEAN
  PROVE  /\ Thrown(t, f) \in Task
         /\ Thrown(t, f).phase \in {"idle", "write"}
         /\ Thrown(t, f).phase = "write" =>
              Thrown(t, f).mat = t.mat /\ Thrown(t, f).verdict = "invalid"
         /\ Thrown(t, f).phase = "idle" => Thrown(t, f) = IdleTask
<1>1. CASE t.dest = "status"
  BY <1>1 DEF Thrown, Task, Phases, Statuses
<1>2. CASE t.dest # "status"
  BY <1>2, IdleTyped DEF Thrown, IdleTask
<1> QED
  BY <1>1, <1>2

(***************************************************************************)
(* What a step may do to the tables, and by which step: the facts that the *)
(* proofs of the invariants below need of most actions.                    *)
(***************************************************************************)
LEMMA TypeStep == TypeOK /\ [Next]_vars => TypeOK'
<1> SUFFICES ASSUME TypeOK, [Next]_vars PROVE TypeOK'
  OBVIOUS
<1> USE DEF TypeOK
<1>1. ASSUME NEW r \in Requests, NEW j \in Jtis, ReadStored(r, j) PROVE TypeOK'
  <2> DEFINE t == IF Stored(j) /\ lic[j].tenant = task[r][j].tenant
                  THEN [task[r][j] EXCEPT !.phase = "load", !.mat = lic[j]] ELSE IdleTask
  <2>1. t \in Task
    <3>1. task[r][j] \in Task /\ lic[j] \in Materials \cup {NoMaterial}
      OBVIOUS
    <3>2. [task[r][j] EXCEPT !.phase = "load", !.mat = lic[j]] \in Task
      BY <3>1 DEF Task, Phases
    <3> QED
      BY <3>2, IdleTyped
  <2>2. SetTask(r, j, t)
    BY <1>1 DEF ReadStored
  <2> QED
    BY <1>1, <2>1, <2>2, SetTaskEffect
    DEF ReadStored, storeVars, revocationVars, externalVars
<1>2. ASSUME NEW r \in Requests, NEW j \in Jtis, LoadTrust(r, j) PROVE TypeOK'
  <2> DEFINE old == task[r][j]
             t == IF ChainVerifies(old.mat) /\ old.mat.claimsOk /\ old.mat.tenant = old.tenant
                  THEN [old EXCEPT !.phase = "local", !.revoked = trust.revoked, !.fresh = TRUE]
                  ELSE Thrown(old, TRUE)
  <2>1. t \in Task
    <3>1. old \in Task /\ trust.revoked \in SUBSET AllRegistryKeys
      BY DEF TrustDocs
    <3>2. [old EXCEPT !.phase = "local", !.revoked = trust.revoked, !.fresh = TRUE] \in Task
      BY <3>1 DEF Task, Phases
    <3> QED
      BY <3>1, <3>2, ThrownTyped
  <2>2. SetTask(r, j, t)
    BY <1>2 DEF LoadTrust
  <2> QED
    BY <1>2, <2>1, <2>2, SetTaskEffect
    DEF LoadTrust, storeVars, revocationVars, externalVars
<1>3. ASSUME NEW r \in Requests, NEW j \in Jtis, CheckLocal(r, j) PROVE TypeOK'
  <2> DEFINE old == task[r][j]
             t == IF LocallyRevoked(old.mat)
                  THEN [old EXCEPT !.phase = "write", !.verdict = "revoked"]
                  ELSE [old EXCEPT !.phase = "issuer"]
  <2>1. t \in Task
    <3>1. old \in Task
      OBVIOUS
    <3> QED
      BY <3>1 DEF Task, Phases, Statuses
  <2>2. SetTask(r, j, t)
    BY <1>3 DEF CheckLocal
  <2> QED
    BY <1>3, <2>1, <2>2, SetTaskEffect
    DEF CheckLocal, storeVars, revocationVars, externalVars
<1>4. ASSUME NEW r \in Requests, NEW j \in Jtis, CheckIssuers(r, j) PROVE TypeOK'
  <2> DEFINE old == task[r][j]
             v == IF RegistryRevoked(old.mat, old.revoked) \/ IssuerRevoked(old.mat)
                  THEN "revoked" ELSE StatusByClock(old.mat)
             t == [old EXCEPT !.phase = "write", !.verdict = v]
  <2>1. v \in Statuses
    BY DEF Statuses, StatusByClock
  <2>2. t \in Task
    <3>1. old \in Task
      OBVIOUS
    <3> QED
      BY <2>1, <3>1 DEF Task, Phases
  <2>3. SetTask(r, j, t)
    BY <1>4 DEF CheckIssuers
  <2> QED
    BY <1>4, <2>2, <2>3, SetTaskEffect
    DEF CheckIssuers, storeVars, revocationVars, externalVars
<1>5. ASSUME NEW r \in Requests, NEW j \in Jtis, WriteImport(r, j) PROVE TypeOK'
  <2>1. task[r][j] \in Task /\ SetTask(r, j, IdleTask)
    BY <1>5 DEF WriteImport
  <2>2. task[r][j].mat \in Materials \cup {NoMaterial} /\ task[r][j].verdict \in Statuses
    BY <2>1 DEF Task
  <2> QED
    BY <1>5, <2>1, <2>2, IdleTyped, SetTaskEffect
    DEF WriteImport, revocationVars, externalVars
<1>6. ASSUME NEW r \in Requests, NEW j \in Jtis, WriteStatus(r, j) PROVE TypeOK'
  <2>1. task[r][j] \in Task /\ SetTask(r, j, IdleTask)
    BY <1>6 DEF WriteStatus
  <2>2. task[r][j].verdict \in Statuses
    BY <2>1 DEF Task
  <2>3. status' \in [Jtis -> Statuses] /\ settled' \subseteq Jtis
    BY <1>6, <2>2 DEF WriteStatus
  <2>4. task' \in [Requests -> [Jtis -> Task]]
    BY <2>1, IdleTyped, SetTaskEffect
  <2> QED
    BY <1>6, <2>3, <2>4 DEF WriteStatus, revocationVars, externalVars
<1>7. ASSUME NEW r \in Requests, NEW j \in Jtis, QueryFails(r, j) PROVE TypeOK'
  <2> DEFINE t == IF task[r][j].phase \in {"read", "write"} THEN IdleTask
                  ELSE Thrown(task[r][j], FALSE)
  <2>1. t \in Task
    <3>1. task[r][j] \in Task
      OBVIOUS
    <3> QED
      BY <3>1, IdleTyped, ThrownTyped
  <2>2. SetTask(r, j, t)
    BY <1>7 DEF QueryFails
  <2>3. faults' \in Nat
    BY <1>7 DEF QueryFails
  <2> QED
    BY <1>7, <2>1, <2>2, <2>3, SetTaskEffect
    DEF QueryFails, storeVars, revocationVars, externalVars
<1>8. ASSUME NEW r \in Requests, NEW t \in Tenants, NEW m \in Materials, StartImport(r, t, m)
      PROVE  TypeOK'
  <2> DEFINE new == [IdleTask EXCEPT !.phase = "load", !.dest = "import",
                                     !.tenant = t, !.mat = m]
  <2>1. m.jti \in Jtis
    BY MaterialsAssumption
  <2>2. new \in Task
    BY IdleTyped DEF Task, Phases
  <2>3. SetTask(r, m.jti, new)
    BY <1>8 DEF StartImport
  <2>4. req' \in [Requests -> Request]
    BY <1>8, SetPcTyped DEF StartImport, PCs
  <2> QED
    BY <1>8, <2>1, <2>2, <2>3, <2>4, SetTaskEffect
    DEF StartImport, storeVars, revocationVars, externalVars
<1>9. ASSUME NEW r \in Requests, NEW t \in Tenants, NEW j \in Jtis, StartValidate(r, t, j)
      PROVE  TypeOK'
  <2> DEFINE new == [IdleTask EXCEPT !.phase = "read", !.tenant = t]
  <2>1. new \in Task
    BY IdleTyped DEF Task, Phases
  <2>2. SetTask(r, j, new)
    BY <1>9 DEF StartValidate
  <2>3. req' \in [Requests -> Request]
    BY <1>9, SetPcTyped DEF StartValidate, PCs
  <2> QED
    BY <1>9, <2>1, <2>2, <2>3, SetTaskEffect
    DEF StartValidate, storeVars, revocationVars, externalVars
<1>10. ASSUME NEW r \in Requests, NEW i \in Issuers, FetchRevocations(r, i) PROVE TypeOK'
  <2>1. req' \in [Requests -> Request]
    <3> DEFINE q == [req[r] EXCEPT !.pc = "issuerFetched", !.issuer = i,
                                   !.jtis = published[i]]
    <3>1. req[r] \in Request /\ published[i] \in SUBSET Jtis
      OBVIOUS
    <3>2. q \in Request
      BY <3>1 DEF Request, PCs
    <3>3. req' = [req EXCEPT ![r] = q]
      BY <1>10 DEF FetchRevocations
    <3> QED
      BY <3>2, <3>3
  <2> QED
    BY <1>10, <2>1
    DEF FetchRevocations, storeVars, revocationVars, externalVars
<1>11. ASSUME NEW r \in Requests, FetchTrust(r) PROVE TypeOK'
  <2>1. req' \in [Requests -> Request]
    <3> DEFINE q == [req[r] EXCEPT !.pc = "trustFetched", !.doc = registry]
    <3>1. req[r] \in Request /\ registry \in TrustDocs
      OBVIOUS
    <3>2. q \in Request
      BY <3>1 DEF Request, PCs
    <3>3. req' = [req EXCEPT ![r] = q]
      BY <1>11 DEF FetchTrust
    <3> QED
      BY <3>2, <3>3
  <2> QED
    BY <1>11, <2>1 DEF FetchTrust, storeVars, revocationVars, externalVars
<1>12. ASSUME RevocationsChange
       PROVE  task' \in [Requests -> [Jtis -> Task]] /\ settled' \in SUBSET Jtis
  <2>1. ASSUME NEW r \in Requests, NEW j \in Jtis
        PROVE  [task[r][j] EXCEPT !.fresh = FALSE] \in Task
    <3>1. task[r][j] \in Task
      OBVIOUS
    <3> QED
      BY <3>1 DEF Task
  <2> QED
    BY <1>12, <2>1 DEF RevocationsChange
<1>13. ASSUME NEW r \in Requests, StoreRevocations(r) PROVE TypeOK'
  <2>1. req[r] \in Request
    OBVIOUS
  <2>2. snapshot' \in [Issuers -> SUBSET Jtis]
    BY <1>13, <2>1 DEF StoreRevocations, Request
  <2>3. req' \in [Requests -> Request]
    BY <1>13, SetPcTyped DEF StoreRevocations, PCs
  <2> QED
    BY <1>12, <1>13, <2>2, <2>3 DEF StoreRevocations, storeVars, externalVars
<1>14. ASSUME NEW r \in Requests, StoreTrust(r) PROVE TypeOK'
  <2>1. req[r] \in Request
    OBVIOUS
  <2>2. trust' \in TrustDocs
    BY <1>14, <2>1 DEF StoreTrust, Request
  <2>3. req' \in [Requests -> Request]
    BY <1>14, SetPcTyped DEF StoreTrust, PCs
  <2> QED
    BY <1>12, <1>14, <2>2, <2>3 DEF StoreTrust, storeVars, externalVars
<1>15. ASSUME NEW r \in Requests, StartRefresh(r) PROVE TypeOK'
  <2> DEFINE new(j) == IF Stored(j) THEN [IdleTask EXCEPT !.phase = "read",
                                                         !.tenant = lic[j].tenant]
                                    ELSE IdleTask
  <2>1. ASSUME NEW j \in Jtis PROVE new(j) \in Task
    <3>1. CASE Stored(j)
      <4>1. lic[j].tenant \in Tenants
        BY <3>1, MaterialsAssumption DEF Stored
      <4> QED
        BY <3>1, <4>1, IdleTyped DEF Task, Phases
    <3> QED
      BY <3>1, IdleTyped
  <2>2. task' = [task EXCEPT ![r] = [j \in Jtis |-> new(j)]]
    BY <1>15 DEF StartRefresh
  <2>3. task' \in [Requests -> [Jtis -> Task]]
    <3> HIDE DEF new
    <3> QED
      BY <2>1, <2>2
  <2>4. req' \in [Requests -> Request]
    BY <1>15, SetPcTyped DEF StartRefresh, PCs
  <2> QED
    BY <1>15, <2>3, <2>4
    DEF StartRefresh, storeVars, revocationVars, externalVars
<1>16. ASSUME NEW r \in Requests, Reply(r) PROVE TypeOK'
  BY <1>16, IdleTyped DEF Reply, storeVars, revocationVars, externalVars
<1>17. ASSUME NEW r \in Requests, NEW t \in Tenants, NEW a \in Apps, NEW j \in Jtis,
              CheckSelectable(r, t, a, j)
       PROVE  TypeOK'
  <2>1. req' \in [Requests -> Request]
    <3> DEFINE q == [req[r] EXCEPT !.pc = "selecting", !.tenant = t, !.app = a, !.jti = j]
    <3>1. req[r] \in Request
      OBVIOUS
    <3>2. q \in Request
      BY <3>1 DEF Request, PCs
    <3>3. req' = [req EXCEPT ![r] = q]
      BY <1>17 DEF CheckSelectable
    <3> QED
      BY <3>2, <3>3
  <2> QED
    BY <1>17, <2>1
    DEF CheckSelectable, storeVars, revocationVars, externalVars
<1>18. ASSUME NEW r \in Requests, StoreSelection(r) PROVE TypeOK'
  <2>1. req[r] \in Request
    OBVIOUS
  <2>2. req[r].tenant \in Tenants /\ req[r].app \in Apps /\ req[r].jti \in Jtis
    BY <2>1 DEF Request
  <2>3. selection' \in [Tenants -> [Apps -> Jtis \cup {NoJti}]]
    BY <1>18, <2>2 DEF StoreSelection
  <2>4. req' \in [Requests -> Request]
    BY <1>18, SetPcTyped DEF StoreSelection, PCs
  <2> QED
    BY <1>18, <2>3, <2>4
    DEF StoreSelection, revocationVars, externalVars
<1>19. ASSUME NEW t \in Tenants, NEW a \in Apps, ClearSelection(t, a) PROVE TypeOK'
  BY <1>19 DEF ClearSelection, revocationVars, externalVars
<1>20. ASSUME NEW r \in Requests, RequestFails(r) PROVE TypeOK'
  BY <1>20, IdleTyped DEF RequestFails, storeVars, revocationVars, externalVars
<1>21. ASSUME NEW k \in LocalRevocable, RevokeLocally(k) PROVE TypeOK'
  BY <1>12, <1>21, MaterialsAssumption
  DEF RevokeLocally, storeVars, externalVars
<1>22. ASSUME NEW i \in Issuers, NEW j \in IssuerRevocable, IssuerRevokes(i, j) PROVE TypeOK'
  BY <1>22, MaterialsAssumption DEF IssuerRevokes, storeVars, revocationVars
<1>23. ASSUME NEW k \in RegistryRevocable, RegistryRevokes(k) PROVE TypeOK'
  <2>1. registry' \in TrustDocs
    BY <1>23, MaterialsAssumption DEF RegistryRevokes, TrustDocs
  <2> QED
    BY <1>23, <2>1 DEF RegistryRevokes, storeVars, revocationVars
<1>24. ASSUME NEW roots \in RegistryRootSets, RegistryRotatesRoots(roots) PROVE TypeOK'
  <2>1. registry' \in TrustDocs
    BY <1>24, MaterialsAssumption DEF RegistryRotatesRoots, TrustDocs
  <2> QED
    BY <1>24, <2>1 DEF RegistryRotatesRoots, storeVars, revocationVars
<1>25. ASSUME Tick PROVE TypeOK'
  BY <1>25 DEF Tick, storeVars, revocationVars
<1>26. ASSUME Restart PROVE TypeOK'
  BY <1>26, IdleTyped DEF Restart, storeVars, revocationVars, externalVars
<1>27. ASSUME UNCHANGED vars PROVE TypeOK'
  BY <1>27 DEF vars
<1> QED
  BY <1>1, <1>2, <1>3, <1>4, <1>5, <1>6, <1>7, <1>8, <1>9, <1>10, <1>11, <1>13, <1>14,
     <1>15, <1>16, <1>17, <1>18, <1>19, <1>20, <1>21, <1>22, <1>23, <1>24, <1>25, <1>26,
     <1>27
  DEF Next, RequestStep, RequestArrives, TaskStep, Environment

(* Every table, request and validation always has its type. *)
THEOREM TypeCorrect == Spec => []TypeOK
<1>1. Init => TypeOK
  BY IdleTyped, MaterialsAssumption DEF Init, TypeOK, Statuses, ConfiguredTrust, TrustDocs
<1> QED
  BY <1>1, TypeStep, PTL DEF Spec

(***************************************************************************)
(* Rows: only an import writes material, and no row is ever deleted.       *)
(***************************************************************************)
LEMMA LicWritten ==
  [Next]_vars => UNCHANGED lic \/ \E r \in Requests, j \in Jtis : WriteImport(r, j)
<1> SUFFICES ASSUME [Next]_vars
             PROVE  UNCHANGED lic \/ \E r \in Requests, j \in Jtis : WriteImport(r, j)
  OBVIOUS
<1>1. ASSUME NEW r \in Requests, NEW j \in Jtis, TaskStep(r, j)
      PROVE  UNCHANGED lic \/ WriteImport(r, j)
  BY <1>1 DEF TaskStep, storeVars, ReadStored, LoadTrust, CheckLocal, CheckIssuers,
     WriteStatus
<1>2. ASSUME NEW r \in Requests, RequestStep(r)
      PROVE  UNCHANGED lic \/ \E j \in Jtis : WriteImport(r, j)
  BY <1>1, <1>2 DEF RequestStep, storeVars, StoreRevocations, StoreTrust, StartRefresh,
     Reply, StoreSelection
<1>3. ASSUME NEW r \in Requests, RequestArrives(r) PROVE UNCHANGED lic
  BY <1>3 DEF RequestArrives, storeVars, StartImport, StartValidate, FetchRevocations,
     FetchTrust, CheckSelectable
<1>4. ASSUME Environment PROVE UNCHANGED lic
  BY <1>4 DEF Environment, storeVars, QueryFails, RequestFails, ClearSelection,
     RevokeLocally, IssuerRevokes, RegistryRevokes, RegistryRotatesRoots, Tick, Restart
<1> QED
  BY <1>2, <1>3, <1>4 DEF Next, vars

LEMMA RowsKept ==
  ASSUME TypeOK, FiledByJti, [Next]_vars, NEW k \in Jtis, Stored(k)
  PROVE  Stored(k)'
<1>1. CASE UNCHANGED lic
  BY <1>1 DEF Stored
<1>2. ASSUME NEW r \in Requests, NEW j \in Jtis, WriteImport(r, j) PROVE Stored(k)'
  <2>1. lic' = [lic EXCEPT ![j] = task[r][j].mat]
    BY <1>2 DEF WriteImport
  <2>2. task[r][j].mat # NoMaterial
    BY <1>2 DEF WriteImport, Running, FiledByJti
  <2> QED
    BY <2>1, <2>2 DEF Stored, TypeOK
<1> QED
  BY <1>1, <1>2, LicWritten

(***************************************************************************)
(* Validations: what one step may make of the task of one slot and jti.    *)
(***************************************************************************)
LEMMA TaskCases ==
  ASSUME TypeOK, [Next]_vars, NEW s \in Requests, NEW k \in Jtis
  PROVE  \/ task'[s][k] = task[s][k] /\ UNCHANGED revocationVars
         \/ task'[s][k] = [task[s][k] EXCEPT !.fresh = FALSE]
         \/ /\ task'[s][k].phase \in {"idle", "read"}
            /\ task'[s][k].mat = NoMaterial /\ ~task'[s][k].fresh
         \/ /\ task'[s][k].phase = "load" /\ ~task'[s][k].fresh
            /\ task'[s][k].mat \in Materials /\ task'[s][k].mat.jti = k
            /\ task'[s][k].dest = "import"
         \/ TaskStep(s, k)
         \/ QueryFails(s, k)
<1> DEFINE Goal ==
         \/ task'[s][k] = task[s][k] /\ UNCHANGED revocationVars
         \/ task'[s][k] = [task[s][k] EXCEPT !.fresh = FALSE]
         \/ /\ task'[s][k].phase \in {"idle", "read"}
            /\ task'[s][k].mat = NoMaterial /\ ~task'[s][k].fresh
         \/ /\ task'[s][k].phase = "load" /\ ~task'[s][k].fresh
            /\ task'[s][k].mat \in Materials /\ task'[s][k].mat.jti = k
            /\ task'[s][k].dest = "import"
         \/ TaskStep(s, k)
         \/ QueryFails(s, k)
<1>1. ASSUME NEW r \in Requests, NEW j \in Jtis, TaskStep(r, j) PROVE Goal
  <2>1. UNCHANGED revocationVars
    BY <1>1 DEF TaskStep, ReadStored, LoadTrust, CheckLocal, CheckIssuers, WriteImport,
       WriteStatus
  <2>2. \E t : SetTask(r, j, t)
    BY <1>1 DEF TaskStep, ReadStored, LoadTrust, CheckLocal, CheckIssuers, WriteImport,
       WriteStatus
  <2>3. r # s \/ j # k => task'[s][k] = task[s][k]
    BY <2>2 DEF SetTask, TypeOK
  <2> QED
    BY <1>1, <2>1, <2>3
<1>2. ASSUME NEW r \in Requests, NEW j \in Jtis, QueryFails(r, j) PROVE Goal
  <2>1. UNCHANGED revocationVars /\ \E t : SetTask(r, j, t)
    BY <1>2 DEF QueryFails
  <2>2. r # s \/ j # k => task'[s][k] = task[s][k]
    BY <2>1 DEF SetTask, TypeOK
  <2> QED
    BY <1>2, <2>1, <2>2
<1>3. ASSUME NEW r \in Requests, NEW t \in Tenants, NEW m \in Materials, StartImport(r, t, m)
      PROVE  Goal
  <2>1. UNCHANGED revocationVars
    BY <1>3 DEF StartImport
  <2>2. m.jti \in Jtis
    BY MaterialsAssumption
  <2>3. task' = [task EXCEPT ![r][m.jti] = [IdleTask EXCEPT
                    !.phase = "load", !.dest = "import", !.tenant = t, !.mat = m]]
    BY <1>3 DEF StartImport, SetTask
  <2>4. CASE r = s /\ m.jti = k
    BY <2>2, <2>3, <2>4 DEF TypeOK, IdleTask
  <2>5. CASE ~(r = s /\ m.jti = k)
    BY <2>1, <2>2, <2>3, <2>5 DEF TypeOK
  <2> QED
    BY <2>4, <2>5
<1>4. ASSUME NEW r \in Requests, NEW t \in Tenants, NEW j \in Jtis, StartValidate(r, t, j)
      PROVE  Goal
  <2>1. UNCHANGED revocationVars
    BY <1>4 DEF StartValidate
  <2>2. task' = [task EXCEPT ![r][j] = [IdleTask EXCEPT !.phase = "read", !.tenant = t]]
    BY <1>4 DEF StartValidate, SetTask
  <2>3. CASE r = s /\ j = k
    BY <2>2, <2>3 DEF TypeOK, IdleTask
  <2>4. CASE ~(r = s /\ j = k)
    BY <2>1, <2>2, <2>4 DEF TypeOK
  <2> QED
    BY <2>3, <2>4
<1>5. ASSUME NEW r \in Requests, StartRefresh(r) PROVE Goal
  <2>1. UNCHANGED revocationVars
    BY <1>5 DEF StartRefresh
  <2>2. CASE r # s
    BY <1>5, <2>1, <2>2 DEF StartRefresh, TypeOK
  <2>3. CASE r = s
    <3>1. task'[s][k] = IF Stored(k) THEN [IdleTask EXCEPT !.phase = "read",
                                                         !.tenant = lic[k].tenant]
                                   ELSE IdleTask
      BY <1>5, <2>3 DEF StartRefresh, TypeOK
    <3> QED
      BY <3>1 DEF IdleTask
  <2> QED
    BY <2>2, <2>3
<1>6. ASSUME RevocationsChange PROVE Goal
  BY <1>6 DEF RevocationsChange
<1>7. ASSUME Restart PROVE Goal
  BY <1>7 DEF Restart, IdleTask
<1>8. ASSUME UNCHANGED task, UNCHANGED revocationVars PROVE Goal
  BY <1>8
<1> HIDE DEF Goal
<1>9. ASSUME NEW r \in Requests, RequestStep(r) PROVE Goal
  BY <1>1, <1>5, <1>6, <1>8, <1>9
  DEF RequestStep, StoreRevocations, StoreTrust, Reply, StoreSelection
<1>10. ASSUME NEW r \in Requests, RequestArrives(r) PROVE Goal
  BY <1>3, <1>4, <1>8, <1>10
  DEF RequestArrives, FetchRevocations, FetchTrust, CheckSelectable
<1>11. ASSUME Environment PROVE Goal
  BY <1>2, <1>6, <1>7, <1>8, <1>11
  DEF Environment, RequestFails, ClearSelection, RevokeLocally, IssuerRevokes,
      RegistryRevokes, RegistryRotatesRoots, Tick
<1>12. Goal
  BY <1>8, <1>9, <1>10, <1>11 DEF Next, vars, revocationVars
<1> QED
  BY <1>12 DEF Goal

(***************************************************************************)
(* The parts of the inductive invariant, one lemma each.                   *)
(***************************************************************************)
LEMMA FiledStep == TypeOK /\ FiledByJti /\ [Next]_vars => FiledByJti'
<1> SUFFICES ASSUME TypeOK, FiledByJti, [Next]_vars PROVE FiledByJti'
  OBVIOUS
<1>1. ASSUME NEW j \in Jtis, Stored(j)' PROVE lic'[j].jti = j
  <2>1. CASE UNCHANGED lic
    BY <1>1, <2>1 DEF Stored, FiledByJti
  <2>2. ASSUME NEW r \in Requests, NEW k \in Jtis, WriteImport(r, k) PROVE lic'[j].jti = j
    <3>1. lic' = [lic EXCEPT ![k] = task[r][k].mat]
      BY <2>2 DEF WriteImport
    <3>2. task[r][k].mat.jti = k
      BY <2>2 DEF WriteImport, Running, FiledByJti
    <3> QED
      BY <1>1, <3>1, <3>2 DEF Stored, FiledByJti, TypeOK
  <2> QED
    BY <2>1, <2>2, LicWritten
<1>2. ASSUME NEW r \in Requests, NEW j \in Jtis
      PROVE  /\ task'[r][j].mat # NoMaterial => task'[r][j].mat.jti = j
             /\ task'[r][j].phase \in {"load", "local", "issuer", "write"}
                  => task'[r][j].mat # NoMaterial
  <2> DEFINE t == task[r][j]
             Goal == /\ task'[r][j].mat # NoMaterial => task'[r][j].mat.jti = j
                     /\ task'[r][j].phase \in {"load", "local", "issuer", "write"}
                          => task'[r][j].mat # NoMaterial
  <2>1. /\ t \in Task
        /\ t.mat # NoMaterial => t.mat.jti = j
        /\ t.phase \in {"load", "local", "issuer", "write"} => t.mat # NoMaterial
    BY DEF TypeOK, FiledByJti
  <2>2. CASE task'[r][j] = t
    BY <2>1, <2>2
  <2>3. CASE task'[r][j] = [t EXCEPT !.fresh = FALSE]
    BY <2>1, <2>3 DEF Task
  <2>4. CASE task'[r][j].phase \in {"idle", "read"} /\ task'[r][j].mat = NoMaterial
    BY <2>4
  <2>5. CASE task'[r][j].mat \in Materials /\ task'[r][j].mat.jti = j
    BY <2>5, MaterialsAssumption
  <2>6. CASE ReadStored(r, j)
    <3>1. task'[r][j] = IF Stored(j) /\ lic[j].tenant = t.tenant
                        THEN [t EXCEPT !.phase = "load", !.mat = lic[j]] ELSE IdleTask
      BY <2>6 DEF ReadStored, SetTask, TypeOK
    <3>2. Stored(j) => lic[j].jti = j
      BY DEF FiledByJti
    <3> QED
      BY <2>1, <3>1, <3>2 DEF IdleTask, Stored, Task
  <2>7. CASE LoadTrust(r, j) \/ CheckLocal(r, j) \/ CheckIssuers(r, j) \/ QueryFails(r, j)
    <3>1. \/ task'[r][j] = IdleTask
          \/ task'[r][j].mat = t.mat /\ t.phase \notin {"idle", "read"}
      <4>1. CASE LoadTrust(r, j)
        <5>1. task'[r][j] = IF ChainVerifies(t.mat) /\ t.mat.claimsOk /\ t.mat.tenant = t.tenant
                THEN [t EXCEPT !.phase = "local", !.revoked = trust.revoked, !.fresh = TRUE]
                ELSE Thrown(t, TRUE)
          BY <4>1 DEF LoadTrust, SetTask, TypeOK
        <5>2. t.phase = "load"
          BY <4>1 DEF LoadTrust, Running
        <5>3. Thrown(t, TRUE).mat = t.mat \/ Thrown(t, TRUE) = IdleTask
          BY <2>1, ThrownTyped
        <5> QED
          BY <2>1, <5>1, <5>2, <5>3 DEF Task
      <4>2. CASE CheckLocal(r, j)
        BY <2>1, <4>2 DEF CheckLocal, SetTask, Running, TypeOK, Task
      <4>3. CASE CheckIssuers(r, j)
        BY <2>1, <4>3 DEF CheckIssuers, SetTask, Running, TypeOK, Task
      <4>4. CASE QueryFails(r, j)
        <5>1. task'[r][j] = IF t.phase \in {"read", "write"} THEN IdleTask ELSE Thrown(t, FALSE)
          BY <4>4 DEF QueryFails, SetTask, TypeOK
        <5>2. t.phase # "idle"
          BY <4>4 DEF QueryFails
        <5>3. Thrown(t, FALSE).mat = t.mat \/ Thrown(t, FALSE) = IdleTask
          BY <2>1, ThrownTyped
        <5> QED
          BY <2>1, <5>1, <5>2, <5>3
      <4> QED
        BY <2>7, <4>1, <4>2, <4>3, <4>4
    <3>2. t.phase \notin {"idle", "read"} => t.mat # NoMaterial
      BY <2>1 DEF Task, Phases
    <3> QED
      BY <2>1, <3>1, <3>2 DEF IdleTask
  <2>8. CASE WriteImport(r, j) \/ WriteStatus(r, j)
    <3>1. task'[r][j] = IdleTask
      BY <2>8 DEF WriteImport, WriteStatus, SetTask, TypeOK
    <3> QED
      BY <3>1 DEF IdleTask
  <2> QED
    BY <2>2, <2>3, <2>4, <2>5, <2>6, <2>7, <2>8, TaskCases DEF TaskStep
<1> QED
  BY <1>1, <1>2 DEF FiledByJti

LEMMA OwnedStep ==
  TypeOK /\ StatusTaskOwned /\ [Next]_vars => StatusTaskOwned'
<1> SUFFICES ASSUME TypeOK, StatusTaskOwned, [Next]_vars,
                    NEW r \in Requests, NEW j \in Jtis, NEW new, new = task'[r][j],
                    new.dest = "status",
                    new.phase \in {"load", "local", "issuer", "write"}
             PROVE  new.mat.tenant = new.tenant
  BY DEF StatusTaskOwned
<1> DEFINE t == task[r][j]
<1>1. t \in Task
  BY DEF TypeOK
<1>2. CASE /\ new.mat = t.mat /\ new.tenant = t.tenant /\ new.dest = t.dest
           /\ t.phase \in {"load", "local", "issuer", "write"}
  BY <1>2 DEF StatusTaskOwned
<1>3. CASE new = t \/ new = [t EXCEPT !.fresh = FALSE]
  BY <1>1, <1>2, <1>3 DEF Task
<1>4. ASSUME new = IdleTask PROVE FALSE
  BY <1>4 DEF IdleTask
<1>5. ASSUME NEW f \in BOOLEAN, new = Thrown(t, f), t.phase \in {"load", "local", "issuer"}
      PROVE  new.mat.tenant = new.tenant
  BY <1>1, <1>2, <1>4, <1>5 DEF Thrown, Task
<1>6. CASE ReadStored(r, j)
  <2>1. new = [t EXCEPT !.phase = "load", !.mat = lic[j]] /\ lic[j].tenant = t.tenant
    BY <1>4, <1>6 DEF ReadStored, SetTask, TypeOK
  <2> QED
    BY <1>1, <2>1 DEF Task
<1>7. CASE LoadTrust(r, j)
  <2>1. \/ new = [t EXCEPT !.phase = "local", !.revoked = trust.revoked, !.fresh = TRUE]
        \/ new = Thrown(t, TRUE)
    BY <1>7 DEF LoadTrust, SetTask, TypeOK
  <2>2. t.phase = "load"
    BY <1>7 DEF LoadTrust, Running
  <2> QED
    BY <1>1, <1>2, <1>5, <2>1, <2>2 DEF Task
<1>8. CASE CheckLocal(r, j)
  <2>1. \/ new = [t EXCEPT !.phase = "write", !.verdict = "revoked"]
        \/ new = [t EXCEPT !.phase = "issuer"]
    BY <1>8 DEF CheckLocal, SetTask, TypeOK
  <2>2. t.phase = "local"
    BY <1>8 DEF CheckLocal, Running
  <2> QED
    BY <1>1, <1>2, <2>1, <2>2 DEF Task
<1>9. CASE CheckIssuers(r, j)
  <2> DEFINE v == IF RegistryRevoked(t.mat, t.revoked) \/ IssuerRevoked(t.mat)
                  THEN "revoked" ELSE StatusByClock(t.mat)
  <2>1. new = [t EXCEPT !.phase = "write", !.verdict = v]
    BY <1>9 DEF CheckIssuers, SetTask, TypeOK
  <2>2. t.phase = "issuer"
    BY <1>9 DEF CheckIssuers, Running
  <2> HIDE DEF v
  <2> QED
    BY <1>1, <1>2, <2>1, <2>2 DEF Task
<1>10. CASE WriteImport(r, j) \/ WriteStatus(r, j)
  BY <1>4, <1>10 DEF WriteImport, WriteStatus, SetTask, TypeOK
<1>11. CASE QueryFails(r, j)
  <2>1. new = IF t.phase \in {"read", "write"} THEN IdleTask ELSE Thrown(t, FALSE)
    BY <1>11 DEF QueryFails, SetTask, TypeOK
  <2>2. t.phase # "idle"
    BY <1>11 DEF QueryFails
  <2> QED
    BY <1>1, <1>4, <1>5, <2>1, <2>2 DEF Task, Phases
<1> QED
  BY <1>3, <1>6, <1>7, <1>8, <1>9, <1>10, <1>11, TaskCases DEF TaskStep

(* Revocation: the predicates depend only on the revocation tables.        *)
LEMMA RevocationStable ==
  ASSUME UNCHANGED revocationVars, NEW m
  PROVE  /\ LocallyRevoked(m)' = LocallyRevoked(m)
         /\ Revoked(m)' = Revoked(m)
  BY DEF revocationVars, LocallyRevoked, Revoked, IssuerRevoked

(* What a fresh validation knows carries over a step that leaves the       *)
(* revocation tables alone.                                                *)
LEMMA FreshStable ==
  ASSUME UNCHANGED revocationVars, NEW t, FreshTrue(t) PROVE FreshTrue(t)'
<1>1. /\ LocallyRevoked(t.mat)' = LocallyRevoked(t.mat)
      /\ Revoked(t.mat)' = Revoked(t.mat)
  BY RevocationStable
<1> QED
  BY <1>1 DEF FreshTrue, revocationVars

LEMMA FreshStep ==
  TypeOK /\ FiledByJti /\ FreshTaskTrue /\ [Next]_vars => FreshTaskTrue'
<1> SUFFICES ASSUME TypeOK, FiledByJti, FreshTaskTrue, [Next]_vars,
                    NEW r \in Requests, NEW j \in Jtis, NEW new, new = task'[r][j]
             PROVE  FreshTrue(new)'
  BY DEF FreshTaskTrue, FreshTrue, LocallyRevoked, Revoked, IssuerRevoked, RegistryRevoked
<1> DEFINE t == task[r][j]
<1>1. t \in Task /\ FreshTrue(t)
  BY DEF TypeOK, FreshTaskTrue
<1>2. ASSUME ~new.fresh PROVE FreshTrue(new)'
  BY <1>2 DEF FreshTrue
<1>3. CASE new = t /\ UNCHANGED revocationVars
  BY <1>1, <1>3, FreshStable
<1>4. CASE new = [t EXCEPT !.fresh = FALSE]
  BY <1>1, <1>2, <1>4 DEF Task
<1>5. CASE new = IdleTask
  BY <1>2, <1>5 DEF IdleTask
<1>6. ASSUME UNCHANGED revocationVars, FreshTrue(new) PROVE FreshTrue(new)'
  BY <1>6, FreshStable
<1>7. CASE ReadStored(r, j)
  <2>1. UNCHANGED revocationVars /\ t.phase = "read"
    BY <1>7 DEF ReadStored, Running
  <2>2. new = IdleTask \/ new = [t EXCEPT !.phase = "load", !.mat = lic[j]]
    BY <1>7 DEF ReadStored, SetTask, TypeOK
  <2>3. CASE new = [t EXCEPT !.phase = "load", !.mat = lic[j]]
    <3>1. new.phase = "load"
      BY <1>1, <2>3 DEF Task
    <3> QED
      BY <3>1 DEF FreshTrue
  <2> QED
    BY <1>5, <2>2, <2>3
<1>8. CASE LoadTrust(r, j)
  <2>1. UNCHANGED revocationVars
    BY <1>8 DEF LoadTrust
  <2>2. \/ /\ new = [t EXCEPT !.phase = "local", !.revoked = trust.revoked, !.fresh = TRUE]
           /\ t.mat.root \in trust.roots
        \/ new = Thrown(t, TRUE)
    BY <1>8 DEF LoadTrust, SetTask, TypeOK, ChainVerifies
  <2>3. CASE new = Thrown(t, TRUE)
    <3>1. CASE Thrown(t, TRUE).phase = "idle"
      <4>1. Thrown(t, TRUE) = IdleTask
        BY <1>1, <3>1, ThrownTyped
      <4> QED
        BY <1>5, <2>3, <4>1
    <3>2. CASE Thrown(t, TRUE).phase = "write"
      <4>1. Thrown(t, TRUE).verdict = "invalid"
        BY <1>1, <3>2, ThrownTyped
      <4> QED
        BY <2>3, <3>2, <4>1 DEF FreshTrue
    <3> QED
      BY <1>1, <3>1, <3>2, ThrownTyped
  <2>4. CASE /\ new = [t EXCEPT !.phase = "local", !.revoked = trust.revoked, !.fresh = TRUE]
             /\ t.mat.root \in trust.roots
    <3>1. /\ new.phase = "local" /\ new.mat = t.mat
          /\ new.revoked = trust.revoked
      BY <1>1, <2>4 DEF Task
    <3>2. FreshTrue(new)
      BY <2>4, <3>1 DEF FreshTrue
    <3> QED
      BY <1>6, <2>1, <3>2
  <2> QED
    BY <2>2, <2>3, <2>4
<1>9. CASE CheckLocal(r, j)
  <2>1. UNCHANGED revocationVars /\ t.phase = "local"
    BY <1>9 DEF CheckLocal, Running
  <2>2. new = IF LocallyRevoked(t.mat) THEN [t EXCEPT !.phase = "write", !.verdict = "revoked"]
              ELSE [t EXCEPT !.phase = "issuer"]
    BY <1>9 DEF CheckLocal, SetTask, TypeOK
  <2>3. CASE LocallyRevoked(t.mat)
    <3>1. new.phase = "write" /\ new.verdict = "revoked" /\ new.mat = t.mat
      BY <1>1, <2>2, <2>3 DEF Task
    <3>2. FreshTrue(new)
      BY <2>3, <3>1 DEF FreshTrue, Revoked
    <3> QED
      BY <1>6, <2>1, <3>2
  <2>4. CASE ~LocallyRevoked(t.mat)
    <3>1. /\ new.phase = "issuer" /\ new.mat = t.mat /\ new.fresh = t.fresh
          /\ new.revoked = t.revoked
      BY <1>1, <2>2, <2>4 DEF Task
    <3>2. FreshTrue(new)
      BY <1>1, <2>1, <2>4, <3>1 DEF FreshTrue
    <3> QED
      BY <1>6, <2>1, <3>2
  <2> QED
    BY <2>3, <2>4
<1>10. CASE CheckIssuers(r, j)
  <2> DEFINE hit == RegistryRevoked(t.mat, t.revoked) \/ IssuerRevoked(t.mat)
             v == IF hit THEN "revoked" ELSE StatusByClock(t.mat)
  <2>1. UNCHANGED revocationVars /\ t.phase = "issuer"
    BY <1>10 DEF CheckIssuers, Running
  <2>2. new = [t EXCEPT !.phase = "write", !.verdict = v]
    BY <1>10 DEF CheckIssuers, SetTask, TypeOK
  <2>3. /\ new.phase = "write" /\ new.verdict = v /\ new.mat = t.mat
        /\ new.fresh = t.fresh
    BY <1>1, <2>2 DEF Task
  <2>4. v = "revoked" <=> hit
    BY DEF StatusByClock
  <2>5. ASSUME t.fresh
        PROVE  Revoked(t.mat) <=> hit
    BY <1>1, <2>1, <2>5 DEF FreshTrue, Revoked
  <2>6. ASSUME t.fresh PROVE t.mat.root \in trust.roots
    BY <1>1, <2>1, <2>6 DEF FreshTrue
  <2>7. FreshTrue(new)
    <3> HIDE DEF v, hit
    <3> QED
      BY <2>3, <2>4, <2>5, <2>6 DEF FreshTrue
  <2> QED
    BY <1>6, <2>1, <2>7
<1>11. CASE WriteImport(r, j) \/ WriteStatus(r, j)
  <2>1. new = IdleTask
    BY <1>11 DEF WriteImport, WriteStatus, SetTask, TypeOK
  <2> QED
    BY <1>5, <2>1
<1>12. CASE QueryFails(r, j)
  <2>1. new = IdleTask \/ new = Thrown(t, FALSE)
    BY <1>12 DEF QueryFails, SetTask, TypeOK
  <2>2. Thrown(t, FALSE) = IdleTask
          \/ (Thrown(t, FALSE).phase = "write" /\ Thrown(t, FALSE).verdict = "invalid")
    BY <1>1, ThrownTyped
  <2>3. CASE new.phase = "write" /\ new.verdict = "invalid"
    BY <2>3 DEF FreshTrue
  <2> QED
    BY <1>5, <2>1, <2>2, <2>3
<1> QED
  BY <1>2, <1>3, <1>4, <1>7, <1>8, <1>9, <1>10, <1>11, <1>12, TaskCases DEF TaskStep


(* Statuses: a row that counts as settled was settled before and left      *)
(* alone, or is written now by a validation that read nothing outdated.    *)
LEMMA SettledFrom ==
  ASSUME TypeOK, [Next]_vars, NEW k \in Jtis, k \in settled'
  PROVE  \/ /\ k \in settled /\ UNCHANGED revocationVars
            /\ lic'[k] = lic[k] /\ status'[k] = status[k]
         \/ \E r \in Requests :
              /\ UNCHANGED revocationVars
              /\ task[r][k].fresh /\ task[r][k].phase = "write"
              /\ lic'[k] = task[r][k].mat /\ status'[k] = task[r][k].verdict
              /\ WriteImport(r, k) \/ Stored(k)
<1> DEFINE Kept == /\ k \in settled /\ UNCHANGED revocationVars
                   /\ lic'[k] = lic[k] /\ status'[k] = status[k]
           Written(r) == /\ UNCHANGED revocationVars
                         /\ task[r][k].fresh /\ task[r][k].phase = "write"
                         /\ lic'[k] = task[r][k].mat /\ status'[k] = task[r][k].verdict
                         /\ WriteImport(r, k) \/ Stored(k)
<1>1. ASSUME UNCHANGED <<lic, status, settled, revocationVars>> PROVE Kept
  BY <1>1
<1>2. ASSUME NEW r \in Requests, NEW j \in Jtis, WriteImport(r, j)
      PROVE  Kept \/ Written(r)
  <2>1. /\ lic' = [lic EXCEPT ![j] = task[r][j].mat]
        /\ status' = [status EXCEPT ![j] = task[r][j].verdict]
        /\ settled' = IF task[r][j].fresh THEN settled \cup {j} ELSE settled \ {j}
        /\ task[r][j].phase = "write" /\ UNCHANGED revocationVars
    BY <1>2 DEF WriteImport, Running
  <2>2. CASE j = k
    BY <1>2, <2>1, <2>2 DEF TypeOK
  <2>3. CASE j # k
    BY <2>1, <2>3 DEF TypeOK
  <2> QED
    BY <2>2, <2>3
<1>3. ASSUME NEW r \in Requests, NEW j \in Jtis, WriteStatus(r, j)
      PROVE  Kept \/ Written(r)
  <2> DEFINE found == Stored(j) /\ lic[j].tenant = task[r][j].tenant
  <2>1. UNCHANGED lic /\ UNCHANGED revocationVars /\ task[r][j].phase = "write"
    BY <1>3 DEF WriteStatus, Running
  <2>2. CASE ~found
    BY <1>1, <1>3, <2>1, <2>2 DEF WriteStatus
  <2>3. CASE found
    <3>1. /\ status' = [status EXCEPT ![j] = task[r][j].verdict]
          /\ settled' = IF task[r][j].fresh /\ lic[j] = task[r][j].mat
                        THEN settled \cup {j} ELSE settled \ {j}
      BY <1>3, <2>3 DEF WriteStatus
    <3>2. CASE j = k
      BY <2>1, <2>3, <3>1, <3>2 DEF TypeOK
    <3>3. CASE j # k
      BY <2>1, <3>1, <3>3 DEF TypeOK
    <3> QED
      BY <3>2, <3>3
  <2> QED
    BY <2>2, <2>3
<1>4. ASSUME RevocationsChange PROVE FALSE
  BY <1>4 DEF RevocationsChange
<1> HIDE DEF Kept, Written
<1>5. ASSUME NEW r \in Requests, NEW j \in Jtis, TaskStep(r, j) PROVE Kept \/ Written(r)
  BY <1>1, <1>2, <1>3, <1>5
  DEF TaskStep, storeVars, ReadStored, LoadTrust, CheckLocal, CheckIssuers
<1>6. ASSUME NEW r \in Requests, RequestStep(r) PROVE Kept \/ Written(r)
  BY <1>1, <1>4, <1>5, <1>6
  DEF RequestStep, storeVars, StoreRevocations, StoreTrust, StartRefresh, Reply,
      StoreSelection
<1>7. ASSUME NEW r \in Requests, RequestArrives(r) PROVE Kept
  BY <1>1, <1>7 DEF RequestArrives, storeVars, StartImport, StartValidate,
     FetchRevocations, FetchTrust, CheckSelectable
<1>8. ASSUME Environment PROVE Kept
  BY <1>1, <1>4, <1>8 DEF Environment, storeVars, QueryFails, RequestFails, ClearSelection,
     RevokeLocally, IssuerRevokes, RegistryRevokes, RegistryRotatesRoots, Tick, Restart
<1>9. ASSUME UNCHANGED vars PROVE Kept
  BY <1>1, <1>9 DEF vars, revocationVars
<1>10. Kept \/ \E r \in Requests : Written(r)
  BY <1>6, <1>7, <1>8, <1>9 DEF Next
<1> QED
  BY <1>10 DEF Kept, Written

LEMMA SettledStep ==
  TypeOK /\ FiledByJti /\ FreshTaskTrue /\ SettledStatusTrue /\ [Next]_vars
    => SettledStatusTrue'
<1> SUFFICES ASSUME TypeOK, FiledByJti, FreshTaskTrue, SettledStatusTrue, [Next]_vars
             PROVE  SettledStatusTrue'
  OBVIOUS
<1> SUFFICES ASSUME NEW j \in Jtis, j \in settled',
                    NEW m, m = lic'[j], NEW v, v = status'[j]
             PROVE  /\ m # NoMaterial
                    /\ v = "active" => ~Revoked(m)' /\ m.root \in trust'.roots
                    /\ v = "revoked" => Revoked(m)'
  <2>1. settled' \subseteq Jtis
    BY TypeStep DEF TypeOK
  <2> QED
    BY <2>1 DEF SettledStatusTrue, Stored, Revoked, LocallyRevoked, RegistryRevoked,
       IssuerRevoked
<1>1. ASSUME UNCHANGED revocationVars, m # NoMaterial,
             v = "active" => ~Revoked(m) /\ m.root \in trust.roots,
             v = "revoked" => Revoked(m)
      PROVE  /\ m # NoMaterial
             /\ v = "active" => ~Revoked(m)' /\ m.root \in trust'.roots
             /\ v = "revoked" => Revoked(m)'
  <2>1. Revoked(m)' = Revoked(m) /\ trust' = trust
    BY <1>1, RevocationStable DEF revocationVars
  <2> QED
    BY <1>1, <2>1
<1>2. CASE /\ j \in settled /\ UNCHANGED revocationVars
           /\ m = lic[j] /\ v = status[j]
  BY <1>1, <1>2 DEF SettledStatusTrue, Stored
<1>3. ASSUME NEW r \in Requests, UNCHANGED revocationVars, task[r][j].fresh,
             task[r][j].phase = "write", m = task[r][j].mat, v = task[r][j].verdict
      PROVE  /\ m # NoMaterial
             /\ v = "active" => ~Revoked(m)' /\ m.root \in trust'.roots
             /\ v = "revoked" => Revoked(m)'
  <2>1. FreshTrue(task[r][j])
    BY DEF FreshTaskTrue
  <2>2. m # NoMaterial
    BY <1>3 DEF FiledByJti
  <2>3. /\ v = "active" => ~Revoked(m) /\ m.root \in trust.roots
        /\ v = "revoked" => Revoked(m)
    BY <1>3, <2>1 DEF FreshTrue
  <2> QED
    BY <1>1, <1>3, <2>2, <2>3
<1> QED
  BY <1>2, <1>3, SettledFrom

-----------------------------------------------------------------------------
(* The inductive invariant holds at the start and is kept by every step.   *)
LEMMA InvInit == Init => IInv
<1> SUFFICES ASSUME Init PROVE IInv
  OBVIOUS
<1>1. TypeOK
  BY IdleTyped, MaterialsAssumption DEF Init, TypeOK, Statuses, ConfiguredTrust, TrustDocs
<1>2. FiledByJti
  BY DEF Init, FiledByJti, Stored, IdleTask
<1>3. StatusTaskOwned
  BY DEF Init, StatusTaskOwned, IdleTask
<1>4. FreshTaskTrue
  BY DEF Init, FreshTaskTrue, FreshTrue, IdleTask
<1>5. SettledStatusTrue
  BY DEF Init, SettledStatusTrue
<1> QED
  BY <1>1, <1>2, <1>3, <1>4, <1>5 DEF IInv

LEMMA InvStep == IInv /\ [Next]_vars => IInv'
  BY TypeStep, FiledStep, OwnedStep, FreshStep, SettledStep DEF IInv

LEMMA InvHolds == Spec => []IInv
  BY InvInit, InvStep, PTL DEF Spec

(***************************************************************************)
(* Whatever requests overlap, fail or are lost in a restart: a row         *)
(* validated against the current revocation data and not touched since has *)
(* a status that is true of that data.                                     *)
(***************************************************************************)
THEOREM SettledStatusesTrue == Spec => []SettledStatusTrue
<1>1. IInv => SettledStatusTrue
  BY DEF IInv
<1> QED
  BY <1>1, InvHolds, PTL

(* Which step changes a status.                                            *)
LEMMA StatusWritten ==
  [Next]_vars => UNCHANGED status
                 \/ \E r \in Requests, j \in Jtis : WriteImport(r, j) \/ WriteStatus(r, j)
<1> SUFFICES ASSUME [Next]_vars
             PROVE  UNCHANGED status
                    \/ \E r \in Requests, j \in Jtis : WriteImport(r, j) \/ WriteStatus(r, j)
  OBVIOUS
<1>1. ASSUME NEW r \in Requests, NEW j \in Jtis, TaskStep(r, j)
      PROVE  UNCHANGED status \/ WriteImport(r, j) \/ WriteStatus(r, j)
  BY <1>1 DEF TaskStep, storeVars, ReadStored, LoadTrust, CheckLocal, CheckIssuers
<1>2. ASSUME NEW r \in Requests, RequestStep(r)
      PROVE  UNCHANGED status \/ \E j \in Jtis : WriteImport(r, j) \/ WriteStatus(r, j)
  BY <1>1, <1>2 DEF RequestStep, storeVars, StoreRevocations, StoreTrust, StartRefresh,
     Reply, StoreSelection
<1>3. ASSUME NEW r \in Requests, RequestArrives(r) PROVE UNCHANGED status
  BY <1>3 DEF RequestArrives, storeVars, StartImport, StartValidate, FetchRevocations,
     FetchTrust, CheckSelectable
<1>4. ASSUME Environment PROVE UNCHANGED status
  BY <1>4 DEF Environment, storeVars, QueryFails, RequestFails, ClearSelection,
     RevokeLocally, IssuerRevokes, RegistryRevokes, RegistryRotatesRoots, Tick, Restart
<1> QED
  BY <1>2, <1>3, <1>4 DEF Next, vars

(***************************************************************************)
(* A status is written only by the import of the material the row then     *)
(* holds, or by a validation of material of the tenant whose row it still  *)
(* is: an import that gives the row to another tenant, at any moment of    *)
(* the validation, keeps the verdict out.                                  *)
(***************************************************************************)
THEOREM VerdictsOfOwnMaterial == Spec => VerdictsStayHome
<1>1. IInv /\ [Next]_vars =>
        \A j \in Jtis : status'[j] # status[j] =>
          \E r \in Requests :
            /\ task[r][j].phase = "write" /\ task[r][j].verdict = status'[j]
            /\ task[r][j].mat.tenant = lic'[j].tenant
  <2> SUFFICES ASSUME IInv, [Next]_vars, NEW j \in Jtis, status'[j] # status[j]
               PROVE  \E r \in Requests :
                        /\ task[r][j].phase = "write" /\ task[r][j].verdict = status'[j]
                        /\ task[r][j].mat.tenant = lic'[j].tenant
    OBVIOUS
  <2>1. TypeOK /\ StatusTaskOwned
    BY DEF IInv
  <2>2. PICK r \in Requests, k \in Jtis : WriteImport(r, k) \/ WriteStatus(r, k)
    BY StatusWritten
  <2>3. CASE WriteImport(r, k)
    <3>1. j = k /\ status'[j] = task[r][j].verdict /\ lic'[j] = task[r][j].mat
      BY <2>1, <2>3 DEF WriteImport, TypeOK
    <3> QED
      BY <2>3, <3>1 DEF WriteImport, Running
  <2>4. CASE WriteStatus(r, k)
    <3>1. /\ j = k /\ status'[j] = task[r][j].verdict /\ lic' = lic
          /\ lic[j].tenant = task[r][j].tenant
      BY <2>1, <2>4 DEF WriteStatus, TypeOK
    <3>2. task[r][j].phase = "write" /\ task[r][j].dest = "status"
      BY <2>4, <3>1 DEF WriteStatus, Running
    <3> QED
      BY <2>1, <3>1, <3>2 DEF StatusTaskOwned
  <2> QED
    BY <2>2, <2>3, <2>4
<1> QED
  BY <1>1, InvHolds, PTL DEF Spec, VerdictsStayHome
-----------------------------------------------------------------------------
(***************************************************************************)
(* One request at a time, no failing query and no restart: what a          *)
(* synchronization has established at each of its steps.                   *)
(***************************************************************************)
Serial == (\A p, q \in Requests : p = q) /\ MaxFaults = 0

(* What the documents that are stored now say of material m.               *)
Trusted(m) ==
    m.root \in trust.roots /\ ~IssuerRevoked(m) /\ ~RegistryRevoked(m, trust.revoked)

(* Only a row that is there is active.                                     *)
ActiveStored == \A j \in Jtis : status[j] = "active" => Stored(j)

(* A slot that carries a document is synchronizing.                        *)
Unsynchronised ==
    \A r \in Requests : req[r].pc \in {"idle", "selecting"} =>
        req[r].jtis = {} /\ req[r].doc = ConfiguredTrust

(* The refresh validates the material each row holds; what it is done with *)
(* is active only under the documents stored before it.                    *)
Refreshing(t, j) ==
    /\ t.phase = "idle" => (status[j] = "active" => Trusted(lic[j]))
    /\ t.phase # "idle" => t.dest = "status" /\ Stored(j) /\ t.tenant = lic[j].tenant
    /\ t.phase \in {"load", "local", "issuer", "write"} => t.mat = lic[j]
    /\ t.phase \in {"local", "issuer"} =>
         t.mat.root \in trust.roots /\ t.revoked = trust.revoked
    /\ t.phase = "write" => (t.verdict = "active" => Trusted(t.mat))

RefreshFollows ==
    \A r \in Requests : Synchronised(req[r]) =>
        \A j \in Jtis : Refreshing(task[r][j], j)

SerialInv == IInv /\ ActiveStored /\ Unsynchronised /\ RefreshFollows

LEMMA ActiveStep ==
  ASSUME TypeOK, FiledByJti, ActiveStored, [Next]_vars PROVE ActiveStored'
<1> SUFFICES ASSUME NEW k \in Jtis, status'[k] = "active" PROVE Stored(k)'
  BY DEF ActiveStored
<1>1. CASE status'[k] = status[k]
  BY <1>1, RowsKept DEF ActiveStored
<1>2. CASE status'[k] # status[k]
  <2>1. PICK r \in Requests, j \in Jtis : WriteImport(r, j) \/ WriteStatus(r, j)
    BY <1>2, StatusWritten
  <2>2. CASE WriteImport(r, j)
    <3>1. j = k
      BY <1>2, <2>2 DEF WriteImport, TypeOK
    <3>2. lic'[k] = task[r][j].mat
      BY <2>2, <3>1 DEF WriteImport, TypeOK
    <3>3. task[r][j].mat # NoMaterial
      BY <2>2 DEF WriteImport, Running, FiledByJti
    <3> QED
      BY <3>2, <3>3 DEF Stored
  <2>3. CASE WriteStatus(r, j)
    <3>1. j = k /\ Stored(j)
      BY <1>2, <2>3 DEF WriteStatus, TypeOK
    <3> QED
      BY <3>1, RowsKept
  <2> QED
    BY <2>1, <2>2, <2>3
<1> QED
  BY <1>1, <1>2

(***************************************************************************)
(* Without faults and restarts: what a step makes of a request, and of the *)
(* documents.                                                              *)
(***************************************************************************)
LEMMA RequestMoves ==
  ASSUME Serial, TypeOK, [Next]_vars, NEW r \in Requests
  PROVE  \/ UNCHANGED <<req, trust, snapshot>>
         \/ Reply(r) \/ StartRefresh(r) \/ StoreSelection(r)
         \/ \E t \in Tenants, m \in Materials : StartImport(r, t, m)
         \/ \E t \in Tenants, j \in Jtis : StartValidate(r, t, j)
         \/ \E t \in Tenants, a \in Apps, j \in Jtis : CheckSelectable(r, t, a, j)
         \/ req'[r].pc \in {"issuerFetched", "trustFetched", "stored"}
<1> DEFINE Goal ==
         \/ UNCHANGED <<req, trust, snapshot>>
         \/ Reply(r) \/ StartRefresh(r) \/ StoreSelection(r)
         \/ \E t \in Tenants, m \in Materials : StartImport(r, t, m)
         \/ \E t \in Tenants, j \in Jtis : StartValidate(r, t, j)
         \/ \E t \in Tenants, a \in Apps, j \in Jtis : CheckSelectable(r, t, a, j)
         \/ req'[r].pc \in {"issuerFetched", "trustFetched", "stored"}
<1>0. req \in [Requests -> Request] /\ req[r] \in Request
  BY DEF TypeOK
<1>1. ASSUME NEW j \in Jtis, TaskStep(r, j) PROVE Goal
  BY <1>1 DEF TaskStep, revocationVars, ReadStored, LoadTrust, CheckLocal, CheckIssuers,
     WriteImport, WriteStatus
<1>2. ASSUME StoreRevocations(r) \/ StoreTrust(r) PROVE Goal
  BY <1>0, <1>2 DEF StoreRevocations, StoreTrust, Request
<1>3. ASSUME NEW i \in Issuers, FetchRevocations(r, i) PROVE Goal
  BY <1>0, <1>3 DEF FetchRevocations, Request
<1>4. ASSUME FetchTrust(r) PROVE Goal
  BY <1>0, <1>4 DEF FetchTrust, Request
<1>5. ASSUME Environment PROVE UNCHANGED <<req, trust, snapshot>>
  <2>1. ~(faults < MaxFaults)
    BY DEF Serial, TypeOK
  <2> QED
    BY <1>5, <2>1
    DEF Environment, revocationVars, QueryFails, RequestFails, ClearSelection,
        RevokeLocally, IssuerRevokes, RegistryRevokes, RegistryRotatesRoots, Tick, Restart
<1>6. ASSUME NEW s \in Requests, RequestStep(s) \/ RequestArrives(s) PROVE Goal
  <2>1. s = r
    BY DEF Serial
  <2> QED
    BY <1>1, <1>2, <1>3, <1>4, <1>6, <2>1 DEF RequestStep, RequestArrives
<1>7. Goal
  BY <1>5, <1>6 DEF Next, vars
<1> QED
  BY <1>7

LEMMA UnsynchronisedStep ==
  ASSUME Serial, TypeOK, Unsynchronised, [Next]_vars PROVE Unsynchronised'
<1> SUFFICES ASSUME NEW r \in Requests, req'[r].pc \in {"idle", "selecting"}
             PROVE  req'[r].jtis = {} /\ req'[r].doc = ConfiguredTrust
  BY DEF Unsynchronised, ConfiguredTrust
<1>0. req \in [Requests -> Request] /\ req[r] \in Request
  BY DEF TypeOK
<1>1. CASE UNCHANGED <<req, trust, snapshot>>
  BY <1>1 DEF Unsynchronised
<1>2. CASE Reply(r)
  BY <1>0, <1>2 DEF Reply, IdleRequest
<1>3. CASE StartRefresh(r)
  BY <1>0, <1>3 DEF StartRefresh, Request
<1>4. CASE StoreSelection(r)
  BY <1>0, <1>4 DEF StoreSelection, Request, Unsynchronised
<1>5. ASSUME NEW t \in Tenants, NEW m \in Materials, StartImport(r, t, m) PROVE FALSE
  BY <1>0, <1>5 DEF StartImport, Request
<1>6. ASSUME NEW t \in Tenants, NEW j \in Jtis, StartValidate(r, t, j) PROVE FALSE
  BY <1>0, <1>6 DEF StartValidate, Request
<1>7. ASSUME NEW t \in Tenants, NEW a \in Apps, NEW j \in Jtis, CheckSelectable(r, t, a, j)
      PROVE  req'[r].jtis = {} /\ req'[r].doc = ConfiguredTrust
  <2>1. req'[r] = [req[r] EXCEPT !.pc = "selecting", !.tenant = t, !.app = a, !.jti = j]
    BY <1>0, <1>7 DEF CheckSelectable
  <2>2. req'[r].jtis = req[r].jtis /\ req'[r].doc = req[r].doc
    BY <1>0, <2>1 DEF Request
  <2> QED
    BY <1>7, <2>2 DEF CheckSelectable, Idle, Unsynchronised
<1> QED
  BY <1>1, <1>2, <1>3, <1>4, <1>5, <1>6, <1>7, RequestMoves

(* A request becomes a refresh only by StartRefresh, and while it is one   *)
(* the documents stand still.                                              *)
LEMMA RefreshFrom ==
  ASSUME Serial, TypeOK, Unsynchronised, [Next]_vars,
         NEW r \in Requests, Synchronised(req'[r])
  PROVE  \/ StartRefresh(r)
         \/ Synchronised(req[r]) /\ UNCHANGED <<req, trust, snapshot>>
<1>0. req \in [Requests -> Request] /\ req[r] \in Request
  BY DEF TypeOK
<1>1. CASE UNCHANGED <<req, trust, snapshot>>
  BY <1>1 DEF Synchronised
<1>2. CASE Reply(r) \/ StoreSelection(r)
  BY <1>0, <1>2 DEF Reply, StoreSelection, IdleRequest, Synchronised, Request
<1>3. ASSUME NEW t \in Tenants, NEW m \in Materials, StartImport(r, t, m) PROVE FALSE
  <2>1. req'[r] = [req[r] EXCEPT !.pc = "validating"]
    BY <1>0, <1>3 DEF StartImport
  <2>2. req'[r].jtis = req[r].jtis /\ req'[r].doc = req[r].doc
    BY <1>0, <2>1 DEF Request
  <2> QED
    BY <1>3, <2>2 DEF StartImport, Idle, Unsynchronised, Synchronised
<1>4. ASSUME NEW t \in Tenants, NEW j \in Jtis, StartValidate(r, t, j) PROVE FALSE
  <2>1. req'[r] = [req[r] EXCEPT !.pc = "validating"]
    BY <1>0, <1>4 DEF StartValidate
  <2>2. req'[r].jtis = req[r].jtis /\ req'[r].doc = req[r].doc
    BY <1>0, <2>1 DEF Request
  <2> QED
    BY <1>4, <2>2 DEF StartValidate, Idle, Unsynchronised, Synchronised
<1>5. ASSUME NEW t \in Tenants, NEW a \in Apps, NEW j \in Jtis, CheckSelectable(r, t, a, j)
      PROVE  FALSE
  BY <1>0, <1>5 DEF CheckSelectable, Request, Synchronised
<1> QED
  BY <1>1, <1>2, <1>3, <1>4, <1>5, RequestMoves DEF Synchronised

(* While it is one, it validates, and nothing else writes rows.            *)
LEMMA RefreshMoves ==
  ASSUME Serial, TypeOK, [Next]_vars, UNCHANGED req,
         NEW r \in Requests, Synchronised(req[r])
  PROVE  \/ \E k \in Jtis : TaskStep(r, k)
         \/ UNCHANGED <<lic, status>> /\ (UNCHANGED task \/ RevocationsChange)
<1> DEFINE Goal == \/ \E k \in Jtis : TaskStep(r, k)
                   \/ UNCHANGED <<lic, status>> /\ (UNCHANGED task \/ RevocationsChange)
<1>0. req[r] \in Request /\ req \in [Requests -> Request] /\ req[r].pc = "validating"
  BY DEF TypeOK, Synchronised
<1>1. ASSUME NEW s \in Requests, RequestStep(s) PROVE Goal
  <2>1. s = r
    BY DEF Serial
  <2>2. ~StoreRevocations(r) /\ ~StoreTrust(r) /\ ~StartRefresh(r) /\ ~StoreSelection(r)
    BY <1>0 DEF StoreRevocations, StoreTrust, StartRefresh, StoreSelection
  <2>3. ~Reply(r)
    BY <1>0 DEF Reply, IdleRequest
  <2> QED
    BY <1>1, <2>1, <2>2, <2>3 DEF RequestStep
<1>2. ASSUME NEW s \in Requests, RequestArrives(s) PROVE FALSE
  <2>1. s = r
    BY DEF Serial
  <2>2. Idle(r)
    BY <1>2, <2>1 DEF RequestArrives, StartImport, StartValidate, FetchRevocations,
       FetchTrust, CheckSelectable
  <2> QED
    BY <1>0, <2>2 DEF Idle
<1>3. ASSUME Environment PROVE Goal
  <2>1. ~(faults < MaxFaults)
    BY DEF Serial, TypeOK
  <2> QED
    BY <1>3, <2>1
    DEF Environment, storeVars, QueryFails, RequestFails, ClearSelection,
        RevokeLocally, IssuerRevokes, RegistryRevokes, RegistryRotatesRoots, Tick, Restart
<1>4. Goal
  BY <1>1, <1>2, <1>3 DEF Next, vars
<1> QED
  BY <1>4

(* One step of the validation of a row keeps what the refresh relies on,   *)
(* of this row and of the others.                                          *)
LEMMA ValidationStep ==
  ASSUME TypeOK, FiledByJti, [Next]_vars, UNCHANGED <<trust, snapshot>>,
         NEW r \in Requests, NEW k \in Jtis, TaskStep(r, k),
         NEW j \in Jtis, Refreshing(task[r][j], j), Refreshing(task[r][k], k)
  PROVE  Refreshing(task[r][j], j)'
<1>1. PICK x : x = task[r][j]
  OBVIOUS
<1>2. PICK y : y = task'[r][j]
  OBVIOUS
<1>3. x \in Task /\ trust.revoked \in SUBSET AllRegistryKeys
  BY <1>1 DEF TypeOK, TrustDocs
<1>4. SUFFICES
      /\ y.phase = "idle" => (status'[j] = "active" => Trusted(lic'[j]))
      /\ y.phase # "idle" => y.dest = "status" /\ Stored(j)' /\ y.tenant = lic'[j].tenant
      /\ y.phase \in {"load", "local", "issuer", "write"} => y.mat = lic'[j]
      /\ y.phase \in {"local", "issuer"} =>
           y.mat.root \in trust.roots /\ y.revoked = trust.revoked
      /\ y.phase = "write" => (y.verdict = "active" => Trusted(y.mat))
  BY <1>2 DEF Refreshing, Trusted, IssuerRevoked, RegistryRevoked
<1>5. /\ x.phase = "idle" => (status[j] = "active" => Trusted(lic[j]))
      /\ x.phase # "idle" => x.dest = "status" /\ Stored(j) /\ x.tenant = lic[j].tenant
      /\ x.phase \in {"load", "local", "issuer", "write"} => x.mat = lic[j]
      /\ x.phase \in {"local", "issuer"} =>
           x.mat.root \in trust.roots /\ x.revoked = trust.revoked
      /\ x.phase = "write" => (x.verdict = "active" => Trusted(x.mat))
  BY <1>1 DEF Refreshing
<1>6. ~WriteImport(r, k)
  BY DEF WriteImport, Running, Refreshing
<1>7. CASE j # k
  <2>1. x = y
    BY <1>1, <1>2, <1>7, <1>6 DEF TaskStep, ReadStored, LoadTrust, CheckLocal, CheckIssuers,
       WriteStatus, SetTask, TypeOK
  <2>2. status'[j] = status[j] /\ lic' = lic
    BY <1>6, <1>7 DEF TaskStep, ReadStored, LoadTrust, CheckLocal, CheckIssuers,
       WriteStatus, storeVars, TypeOK
  <2> QED
    BY <1>5, <2>1, <2>2 DEF Stored
<1>8. CASE j = k /\ ReadStored(r, k)
  <2>1. y = IF Stored(j) /\ lic[j].tenant = x.tenant
            THEN [x EXCEPT !.phase = "load", !.mat = lic[j]] ELSE IdleTask
    BY <1>1, <1>2, <1>8 DEF ReadStored, SetTask, TypeOK
  <2>2. x.phase = "read" /\ UNCHANGED <<lic, status>>
    BY <1>1, <1>8 DEF ReadStored, Running, storeVars
  <2>3. y = [x EXCEPT !.phase = "load", !.mat = lic[j]]
    BY <1>5, <2>1, <2>2
  <2>4. y.phase = "load" /\ y.mat = lic[j] /\ y.dest = x.dest /\ y.tenant = x.tenant
    BY <1>3, <2>3 DEF Task
  <2> QED
    BY <1>5, <2>2, <2>4 DEF Stored
<1>9. CASE j = k /\ LoadTrust(r, k)
  <2>1. y = IF ChainVerifies(x.mat) /\ x.mat.claimsOk /\ x.mat.tenant = x.tenant
            THEN [x EXCEPT !.phase = "local", !.revoked = trust.revoked, !.fresh = TRUE]
            ELSE Thrown(x, TRUE)
    BY <1>1, <1>2, <1>9 DEF LoadTrust, SetTask, TypeOK
  <2>2. x.phase = "load" /\ UNCHANGED <<lic, status>>
    BY <1>1, <1>9 DEF LoadTrust, Running, storeVars
  <2>3. CASE ChainVerifies(x.mat) /\ y = [x EXCEPT !.phase = "local", !.revoked = trust.revoked,
                                                   !.fresh = TRUE]
    <3>1. /\ y.phase = "local" /\ y.mat = x.mat /\ y.dest = x.dest /\ y.tenant = x.tenant
          /\ y.revoked = trust.revoked
      BY <1>3, <2>3 DEF Task
    <3> QED
      BY <1>5, <2>2, <2>3, <3>1 DEF Stored, ChainVerifies
  <2>4. CASE y = Thrown(x, TRUE)
    <3>1. y = [x EXCEPT !.phase = "write", !.verdict = "invalid", !.fresh = TRUE]
      BY <1>5, <2>2, <2>4 DEF Thrown
    <3>2. /\ y.phase = "write" /\ y.mat = x.mat /\ y.dest = x.dest /\ y.tenant = x.tenant
          /\ y.verdict = "invalid"
      BY <1>3, <3>1 DEF Task
    <3> QED
      BY <1>5, <2>2, <3>2 DEF Stored
  <2> QED
    BY <2>1, <2>3, <2>4
<1>10. CASE j = k /\ CheckLocal(r, k)
  <2>1. y = IF LocallyRevoked(x.mat) THEN [x EXCEPT !.phase = "write", !.verdict = "revoked"]
            ELSE [x EXCEPT !.phase = "issuer"]
    BY <1>1, <1>2, <1>10 DEF CheckLocal, SetTask, TypeOK
  <2>2. x.phase = "local" /\ UNCHANGED <<lic, status>>
    BY <1>1, <1>10 DEF CheckLocal, Running, storeVars
  <2>3. /\ y.mat = x.mat /\ y.dest = x.dest /\ y.tenant = x.tenant /\ y.revoked = x.revoked
        /\ y.phase = "issuer" \/ (y.phase = "write" /\ y.verdict = "revoked")
    BY <1>3, <2>1 DEF Task
  <2> QED
    BY <1>5, <2>2, <2>3 DEF Stored
<1>11. CASE j = k /\ CheckIssuers(r, k)
  <2> DEFINE v == IF RegistryRevoked(x.mat, x.revoked) \/ IssuerRevoked(x.mat)
                  THEN "revoked" ELSE StatusByClock(x.mat)
  <2>1. y = [x EXCEPT !.phase = "write", !.verdict = v]
    BY <1>1, <1>2, <1>11 DEF CheckIssuers, SetTask, TypeOK
  <2>2. x.phase = "issuer" /\ UNCHANGED <<lic, status>>
    BY <1>1, <1>11 DEF CheckIssuers, Running, storeVars
  <2>3. v = "active" => Trusted(x.mat)
    BY <1>5, <2>2 DEF Trusted
  <2>4. /\ y.mat = x.mat /\ y.dest = x.dest /\ y.tenant = x.tenant
        /\ y.phase = "write" /\ y.verdict = v
    BY <1>3, <2>1 DEF Task
  <2> HIDE DEF v
  <2> QED
    BY <1>5, <2>2, <2>3, <2>4 DEF Stored
<1>12. CASE j = k /\ WriteStatus(r, k)
  <2>1. y = IdleTask /\ y.phase = "idle"
    BY <1>2, <1>12 DEF WriteStatus, SetTask, TypeOK, IdleTask
  <2>2. x.phase = "write" /\ lic' = lic
    BY <1>1, <1>12 DEF WriteStatus, Running
  <2>3. status'[j] = x.verdict
    BY <1>1, <1>5, <1>12, <2>2 DEF WriteStatus, TypeOK
  <2> QED
    BY <1>5, <2>1, <2>2, <2>3
<1> QED
  BY <1>6, <1>7, <1>8, <1>9, <1>10, <1>11, <1>12 DEF TaskStep

LEMMA RefreshStep ==
  ASSUME Serial, TypeOK, FiledByJti, ActiveStored, Unsynchronised, RefreshFollows,
         [Next]_vars
  PROVE  RefreshFollows'
<1> SUFFICES ASSUME NEW r \in Requests, Synchronised(req'[r]), NEW j \in Jtis
             PROVE  Refreshing(task[r][j], j)'
  BY DEF RefreshFollows, Synchronised, ConfiguredTrust
<1>1. CASE StartRefresh(r)
  <2>1. UNCHANGED <<lic, status>>
    BY <1>1 DEF StartRefresh, storeVars
  <2>2. CASE Stored(j)
    <3>1. task'[r][j] = [IdleTask EXCEPT !.phase = "read", !.tenant = lic[j].tenant]
      BY <1>1, <2>2 DEF StartRefresh, TypeOK
    <3>2. /\ task'[r][j].phase = "read" /\ task'[r][j].dest = "status"
          /\ task'[r][j].tenant = lic[j].tenant
      BY <3>1 DEF IdleTask
    <3> QED
      BY <2>1, <2>2, <3>2 DEF Refreshing, Stored
  <2>3. CASE ~Stored(j)
    <3>1. task'[r][j].phase = "idle"
      BY <1>1, <2>3 DEF StartRefresh, TypeOK, IdleTask
    <3>2. status'[j] # "active"
      BY <2>1, <2>3 DEF ActiveStored
    <3> QED
      BY <3>1, <3>2 DEF Refreshing
  <2> QED
    BY <2>2, <2>3
<1>2. CASE Synchronised(req[r]) /\ UNCHANGED <<req, trust, snapshot>>
  <2>1. \A k \in Jtis : Refreshing(task[r][k], k)
    BY <1>2 DEF RefreshFollows
  <2>2. ASSUME NEW k \in Jtis, TaskStep(r, k) PROVE Refreshing(task[r][j], j)'
    BY <1>2, <2>1, <2>2, ValidationStep
  <2>3. CASE UNCHANGED <<lic, status>> /\ UNCHANGED task
    BY <1>2, <2>1, <2>3 DEF Refreshing, Trusted, IssuerRevoked, RegistryRevoked, Stored
  <2>4. CASE UNCHANGED <<lic, status>> /\ RevocationsChange
    <3>1. PICK x : x = task[r][j]
      OBVIOUS
    <3>2. PICK y : y = task'[r][j]
      OBVIOUS
    <3>3. x \in Task /\ y = [x EXCEPT !.fresh = FALSE]
      BY <2>4, <3>1, <3>2 DEF RevocationsChange, TypeOK
    <3>4. /\ y.phase = x.phase /\ y.dest = x.dest /\ y.tenant = x.tenant /\ y.mat = x.mat
          /\ y.revoked = x.revoked /\ y.verdict = x.verdict
      BY <3>3 DEF Task
    <3>5. Refreshing(x, j)
      BY <2>1, <3>1
    <3>6. Refreshing(y, j)
      BY <3>4, <3>5 DEF Refreshing
    <3> QED
      BY <1>2, <2>4, <3>2, <3>6
      DEF Refreshing, Trusted, IssuerRevoked, RegistryRevoked, Stored
  <2> QED
    BY <1>2, <2>2, <2>3, <2>4, RefreshMoves
<1> QED
  BY <1>1, <1>2, RefreshFrom

LEMMA SerialInvHolds == ASSUME Serial PROVE Spec => []SerialInv
<1>1. Init => SerialInv
  <2> SUFFICES ASSUME Init PROVE SerialInv
    OBVIOUS
  <2>1. ActiveStored
    BY DEF Init, ActiveStored
  <2>2. \A r \in Requests : req[r] = IdleRequest
    BY DEF Init
  <2>3. IdleRequest.pc = "idle" /\ IdleRequest.jtis = {} /\ IdleRequest.doc = ConfiguredTrust
    BY DEF IdleRequest
  <2>4. Unsynchronised /\ RefreshFollows
    BY <2>2, <2>3 DEF Unsynchronised, RefreshFollows, Synchronised
  <2> QED
    BY <2>1, <2>4, InvInit DEF SerialInv
<1>2. SerialInv /\ [Next]_vars => SerialInv'
  BY InvStep, ActiveStep, UnsynchronisedStep, RefreshStep DEF SerialInv, IInv
<1> QED
  BY <1>1, <1>2, PTL DEF Spec

(***************************************************************************)
(* With one request at a time, and no query that fails in it: when         *)
(* POST /licensing/revocations/sync or the registry's sync-trust answers,  *)
(* every license that is still active verifies under a root that is        *)
(* trusted now and is revoked neither by an issuer's snapshot nor by the   *)
(* registry's document.                                                    *)
(***************************************************************************)
THEOREM SynchronizationsSettle == ASSUME Serial PROVE Spec => SyncSettlesAll
<1>1. SerialInv /\ [Next]_vars =>
        \A r \in Requests : Synchronised(req[r]) /\ req'[r].pc = "idle" =>
          \A j \in Jtis : status[j] = "active" =>
            /\ lic[j].root \in trust.roots
            /\ ~IssuerRevoked(lic[j]) /\ ~RegistryRevoked(lic[j], trust.revoked)
  <2> SUFFICES ASSUME SerialInv, [Next]_vars, NEW r \in Requests,
                      Synchronised(req[r]), req'[r].pc = "idle",
                      NEW j \in Jtis, status[j] = "active"
               PROVE  Trusted(lic[j])
    BY DEF Trusted
  <2>1. TypeOK /\ RefreshFollows
    BY DEF SerialInv, IInv
  <2>2. req \in [Requests -> Request] /\ req[r].pc = "validating"
    BY <2>1 DEF TypeOK, Synchronised
  <2>3. Reply(r)
    <3>1. ~UNCHANGED req /\ ~StartRefresh(r) /\ ~StoreSelection(r)
      BY <2>2 DEF StartRefresh, StoreSelection
    <3>2. ~Idle(r)
      BY <2>2 DEF Idle
    <3> QED
      BY <2>1, <3>1, <3>2, RequestMoves DEF StartImport, StartValidate, CheckSelectable
  <2>4. task[r][j].phase = "idle"
    BY <2>3 DEF Reply, TasksDone, Running
  <2>5. Refreshing(task[r][j], j)
    BY <2>1 DEF RefreshFollows
  <2> QED
    BY <2>4, <2>5 DEF Refreshing
<1> QED
  BY <1>1, SerialInvHolds, PTL DEF Spec, SyncSettlesAll
=============================================================================
