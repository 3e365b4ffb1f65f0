-------------------------- MODULE TenantAppsProofs --------------------------
(***************************************************************************)
(* Enabling, for every set of tenants, applications, requests and          *)
(* connections and every number of migrations.  Two facts are proved:      *)
(* whatever overlaps, an application is enabled only after its service has *)
(* accepted the installation; and a request that nothing overlaps reports  *)
(* the application ready only when its migrations are committed in its     *)
(* schema.  For the second the invariant follows the transaction that the  *)
(* queries of such a request leave on the one connection they all get.     *)
(***************************************************************************)
EXTENDS TenantApps, TLAPS

(* What a request has behind it, whatever else is under way. *)
Sound(x) ==
    /\ x.step \in {"path", "sql", "commit"} => x.next <= Migrations
    /\ x.step \in {"ready", "upsert"} => <<x.tenant, x.app>> \in informed

RequestsSound == \A q \in Requests : req[q] # None => Sound(req[q])

PublicExists == schema[Public] # None

(* What a request that nothing has overlapped finds as it left it: all     *)
(* connections but its own are idle, its own is in the transaction of the  *)
(* migration it is at, and the migrations before that one are committed.   *)
AsLeft(x) ==
    /\ \A c \in Conns : c # x.conn => tx[c] = None
    /\ x.step \in {"resolved", "installing"} => x.next = 1
    /\ x.step \notin {"path", "sql", "commit", "rollback"} => tx[x.conn] = None
    /\ x.step = "path" => tx[x.conn] = NewTransaction
    /\ x.step = "sql" => tx[x.conn] = [path |-> x.app, done |-> {}, aborted |-> FALSE]
    /\ x.step = "commit" =>
         tx[x.conn] = [path |-> x.app, done |-> {<<x.app, <<x.app, x.next>>>>}, aborted |-> FALSE]
    /\ x.step \notin {"resolved", "installing", "failed"} =>
         schema[x.app] # None /\ \A n \in 1..(x.next - 1) : <<x.app, n>> \in schema[x.app]
    /\ x.step \in {"role", "create", "grant", "notify", "ready", "upsert"} =>
         x.next = Migrations + 1
    /\ x.step \in {"grant", "notify", "ready", "upsert"} => x.app \in role

Undisturbed ==
    \A q \in Requests : req[q] # None /\ req[q].alone =>
      AsLeft(req[q]) /\ \A p \in Requests \ {q} : req[p] = None

IInv == TypeOK /\ RequestsSound /\ PublicExists /\ EnabledWasInformed /\ Undisturbed

-----------------------------------------------------------------------------
(* Requests *)

LEMMA RequestFields ==
    ASSUME NoneIsNothing, NEW x \in Request
    PROVE  /\ x # None /\ x.tenant \in Tenants /\ x.app \in Apps /\ x.step \in Steps
           /\ x.next \in 1..(Migrations + 1) /\ x.conn \in Conns /\ x.alone \in BOOLEAN
  BY DEF Request, NoneIsNothing

(* A request at step s, whose last query used c and whose next migration   *)
(* is n, that is the same otherwise.                                       *)
Moved(q, s, c, n) ==
    /\ req'[q] # None
    /\ req'[q].step = s /\ req'[q].conn = c /\ req'[q].next = n
    /\ req'[q].tenant = req[q].tenant /\ req'[q].app = req[q].app
    /\ req'[q].alone = req[q].alone
    /\ \A p \in Requests : p # q => req'[p] = req[p]

LEMMA GotoMoves ==
    ASSUME NoneIsNothing, req \in [Requests -> Request \cup {None}], NEW q \in Requests,
           req[q] # None, NEW s \in Steps, Goto(q, s)
    PROVE  /\ req' \in [Requests -> Request \cup {None}]
           /\ Moved(q, s, req[q].conn, req[q].next)
  <1>1. req[q] \in Request
    OBVIOUS
  <1>2. req'[q] = [req[q] EXCEPT !.step = s]
    BY DEF Goto
  <1>3. [req[q] EXCEPT !.step = s] \in Request
    BY <1>1 DEF Request
  <1>4. [req[q] EXCEPT !.step = s] # None
    BY <1>3, RequestFields
  <1> QED BY <1>1, <1>2, <1>3, <1>4 DEF Goto, Moved, Request

LEMMA QueriedMoves ==
    ASSUME NoneIsNothing, req \in [Requests -> Request \cup {None}], NEW q \in Requests,
           req[q] # None, NEW s \in Steps, NEW c \in Conns, Queried(q, c, s)
    PROVE  /\ req' \in [Requests -> Request \cup {None}]
           /\ Moved(q, s, c, req[q].next)
  <1>1. req[q] \in Request
    OBVIOUS
  <1>2. req'[q] = [req[q] EXCEPT !.step = s, !.conn = c]
    BY DEF Queried
  <1>3. [req[q] EXCEPT !.step = s, !.conn = c] \in Request
    BY <1>1 DEF Request
  <1>4. [req[q] EXCEPT !.step = s, !.conn = c] # None
    BY <1>3, RequestFields
  <1> QED BY <1>1, <1>2, <1>3, <1>4 DEF Queried, Moved, Request

LEMMA CommitMoves ==
    ASSUME NoneIsNothing, Migrations \in Nat, req \in [Requests -> Request \cup {None}],
           NEW q \in Requests, RequestsSound, NEW c \in Conns, Commit(q, c)
    PROVE  /\ req' \in [Requests -> Request \cup {None}]
           /\ Moved(q, "begin", c, req[q].next + 1)
           /\ req[q].next + 1 \in 1..(Migrations + 1)
  <1> DEFINE new == [req[q] EXCEPT !.conn = c, !.next = @ + 1, !.step = "begin"]
  <1>1. req[q] # None /\ req[q] \in Request /\ req[q].step = "commit"
    BY DEF Commit, At
  <1>2. req[q].next + 1 \in 1..(Migrations + 1)
    <2>1. req[q].next \in 1..(Migrations + 1)
      BY <1>1, RequestFields
    <2>2. req[q].next <= Migrations
      BY <1>1 DEF RequestsSound, Sound
    <2> QED BY <2>1, <2>2
  <1>3. new \in Request
    BY <1>1, <1>2 DEF Request, Steps
  <1>4. new # None
    BY <1>3, RequestFields
  <1>5. req'[q] = new
    BY <1>1 DEF Commit
  <1>6. req' \in [Requests -> Request \cup {None}] /\ \A p \in Requests : p # q => req'[p] = req[p]
    BY <1>3 DEF Commit
  <1>7. /\ new.step = "begin" /\ new.conn = c /\ new.next = req[q].next + 1
        /\ new.tenant = req[q].tenant /\ new.app = req[q].app /\ new.alone = req[q].alone
    BY <1>1 DEF Request
  <1> QED BY <1>2, <1>4, <1>5, <1>6, <1>7 DEF Moved

(* A request that begins, while the others are found to be overlapped. *)
LEMMA EnableBegins ==
    ASSUME NoneIsNothing, TypeOK, Migrations \in Nat, NEW q \in Requests,
           NEW i \in Tenants \X Apps, NEW c \in Conns, EnableApp(q, i, c)
    PROVE  /\ req' \in [Requests -> Request \cup {None}]
           /\ req'[q].step = "resolved" /\ req'[q].conn = c /\ req'[q].next = 1
           /\ req'[q].alone => /\ \A p \in Requests \ {q} : req'[p] = None
                               /\ \A d \in Conns : tx[d] = None
           /\ \A p \in Requests \ {q} : req'[p] # None =>
                ~req'[p].alone /\ req[p] # None /\ Sound(req[p])' = Sound(req[p])
  <1> USE DEF TypeOK
  <1> DEFINE new == [tenant |-> i[1], app |-> i[2], step |-> "resolved", next |-> 1, conn |-> c,
                     alone |-> Others(q) = {} /\ \A d \in Conns : tx[d] = None]
  <1>1. new \in Request
    <2>1. (Others(q) = {} /\ \A d \in Conns : tx[d] = None) \in BOOLEAN
      OBVIOUS
    <2>2. i[1] \in Tenants /\ i[2] \in Apps /\ 1 \in 1..(Migrations + 1)
      OBVIOUS
    <2> QED BY <2>1, <2>2 DEF Request, Steps
  <1>2. req'[q] = new
    BY DEF EnableApp
  <1>3. ASSUME NEW p \in Requests \ {q}, req[p] = None PROVE req'[p] = None
    BY <1>3 DEF EnableApp
  <1>4. ASSUME NEW p \in Requests \ {q}, req[p] # None
        PROVE  /\ req'[p] \in Request /\ ~req'[p].alone /\ Sound(req[p])' = Sound(req[p])
    <2>1. req[p] \in Request /\ req'[p] = [req[p] EXCEPT !.alone = FALSE]
      BY <1>4 DEF EnableApp
    <2>2. informed' = informed
      BY DEF EnableApp
    <2>3. /\ req'[p] \in Request /\ ~req'[p].alone
          /\ req'[p].step = req[p].step /\ req'[p].next = req[p].next
          /\ req'[p].tenant = req[p].tenant /\ req'[p].app = req[p].app
      BY <2>1 DEF Request
    <2> QED BY <2>2, <2>3 DEF Sound
  <1>5. req' \in [Requests -> Request \cup {None}]
    <2>1. \A p \in Requests : req'[p] \in Request \cup {None}
      BY <1>1, <1>2, <1>3, <1>4
    <2>2. req' = [p \in Requests |-> req'[p]]
      BY DEF EnableApp
    <2> QED BY <2>1, <2>2
  <1>6. ASSUME req'[q].alone
        PROVE  (\A p \in Requests \ {q} : req[p] = None) /\ \A d \in Conns : tx[d] = None
    <2>1. new.alone = (Others(q) = {} /\ \A d \in Conns : tx[d] = None)
      OBVIOUS
    <2>2. new.alone
      BY <1>2, <1>6
    <2>3. Others(q) = {} /\ \A d \in Conns : tx[d] = None
      BY <2>1, <2>2
    <2> QED BY <2>3 DEF Others
  <1>7. req'[q].step = "resolved" /\ req'[q].conn = c /\ req'[q].next = 1
    BY <1>2
  <1>8. ASSUME NEW p \in Requests \ {q}, req'[p] # None
        PROVE  ~req'[p].alone /\ req[p] # None /\ Sound(req[p])' = Sound(req[p])
    BY <1>3, <1>4, <1>8
  <1> HIDE DEF new
  <1> QED BY <1>3, <1>5, <1>6, <1>7, <1>8

-----------------------------------------------------------------------------
(* The tables and the connections *)

Assumptions == NoneIsNothing /\ Migrations \in Nat /\ MaxChanges \in Nat

TablesTyped ==
    /\ schema \in [Schemas -> (SUBSET Applied) \cup {None}]
    /\ tx \in [Conns -> Transaction \cup {None}]
    /\ role \subseteq Apps
    /\ state \in [Tenants \X Apps -> States \cup {None}]
    /\ enabled \subseteq Tenants \X Apps
    /\ disabling \subseteq Tenants \X Apps
    /\ informed \subseteq Tenants \X Apps
    /\ changes \in 0..MaxChanges

TablesOK == TablesTyped /\ PublicExists /\ EnabledWasInformed

LEMMA TransactionIs ==
    ASSUME NoneIsNothing, NEW p \in Schemas, NEW D \in SUBSET (Schemas \X Applied), NEW b \in BOOLEAN
    PROVE  LET t == [path |-> p, done |-> D, aborted |-> b] IN t \in Transaction /\ t # None
  BY DEF Transaction, NoneIsNothing

LEMMA TransactionFields ==
    ASSUME NoneIsNothing, NEW t \in Transaction
    PROVE  /\ t # None /\ t.path \in Schemas /\ t.done \in SUBSET (Schemas \X Applied)
           /\ t.aborted \in BOOLEAN
           /\ t = [path |-> t.path, done |-> t.done, aborted |-> t.aborted]
  BY DEF Transaction, NoneIsNothing

(* The steps of a request that is under way. *)
RequestStep(q) ==
    \/ \E c \in Conns : Query(q, c)
    \/ SetInstalling(q) \/ FetchMigrations(q) \/ FinishMigrations(q)
    \/ FindRole(q) \/ CreateRole(q) \/ GrantRole(q) \/ NotifyInstallationComplete(q)
    \/ SetReady(q) \/ SetFailed(q) \/ UpsertTenantApp(q)

LEMMA UnderWay ==
    ASSUME NoneIsNothing, TypeOK, NEW q \in Requests, RequestStep(q)
    PROVE  /\ req[q] # None /\ req[q] \in Request /\ req[q].app \in Apps
           /\ Installation(q) \in Tenants \X Apps
  <1>1. req[q] # None
    BY DEF RequestStep, Query, At, Begin, SetPath, RunMigration, Commit, Rollback, SetInstalling,
           FetchMigrations, FinishMigrations, FindRole, CreateRole, GrantRole,
           NotifyInstallationComplete, SetReady, SetFailed, UpsertTenantApp
  <1>2. req[q] \in Request
    BY <1>1 DEF TypeOK
  <1> QED BY <1>1, <1>2, RequestFields DEF Installation

(* Committing adds to the schemas, and removes none. *)
LEMMA EndedTyped ==
    ASSUME NoneIsNothing, TablesTyped, PublicExists, NEW t \in Transaction \cup {None}
    PROVE  Ended(t) \in [Schemas -> (SUBSET Applied) \cup {None}] /\ Ended(t)[Public] # None
  <1> USE DEF TablesTyped
  <1>1. CASE t = None \/ t.aborted
    BY <1>1 DEF Ended, PublicExists
  <1>2. CASE ~(t = None \/ t.aborted)
    <2> DEFINE Work(s) == {d[2] : d \in {e \in t.done : e[1] = s}}
    <2>1. t.done \in SUBSET (Schemas \X Applied)
      BY <1>2, TransactionFields
    <2>2. ASSUME NEW s \in Schemas PROVE Work(s) \in SUBSET Applied
      BY <2>1
    <2>3. Ended(t) = [s \in Schemas |-> IF schema[s] = None THEN None ELSE schema[s] \cup Work(s)]
      BY <1>2 DEF Ended
    <2> HIDE DEF Work
    <2>4. \A s \in Schemas : schema[s] # None => schema[s] \cup Work(s) \in SUBSET Applied
      BY <2>2
    <2>5. Ended(t) \in [Schemas -> (SUBSET Applied) \cup {None}]
      BY <2>3, <2>4
    <2>6. Public \in Schemas /\ schema[Public] # None
      BY DEF Schemas, PublicExists
    <2>7. Ended(t)[Public] \in SUBSET Applied
      BY <2>3, <2>4, <2>6
    <2> QED BY <2>5, <2>7 DEF NoneIsNothing
  <1> QED BY <1>1, <1>2

LEMMA QueryTables ==
    ASSUME Assumptions, TypeOK, RequestsSound, TablesOK, NEW q \in Requests, NEW c \in Conns,
           Query(q, c)
    PROVE  TablesOK'
  <1> USE DEF TablesOK, TablesTyped, Assumptions
  <1>0. req[q] # None /\ req[q] \in Request /\ req[q].app \in Apps
    BY UnderWay DEF RequestStep
  <1>1. tx[c] \in Transaction \cup {None}
    OBVIOUS
  <1>2. ASSUME tx' \in [Conns -> Transaction \cup {None}], UNCHANGED <<schema, role, state, enabled,
               informed, disabling, changes>>
        PROVE  TablesOK'
    BY <1>2 DEF PublicExists, EnabledWasInformed
  <1>3. CASE Begin(q, c)
    <2>1. NewTransaction \in Transaction
      BY TransactionIs DEF NewTransaction, Schemas
    <2> QED BY <1>1, <1>2, <1>3, <2>1 DEF Begin
  <1>4. CASE SetPath(q, c)
    <2>1. tx[c] # None => [tx[c] EXCEPT !.path = req[q].app] \in Transaction
      BY <1>0, <1>1 DEF Transaction, Schemas
    <2>2. CASE UNCHANGED tx
      BY <1>2, <1>4, <2>2 DEF SetPath
    <2> QED BY <1>1, <1>2, <1>4, <2>1, <2>2 DEF SetPath
  <1>5. CASE RunMigration(q, c)
    <2> DEFINE work == <<req[q].app, req[q].next>>
    <2>0. work \in Applied
      <3>1. req[q].next \in 1..(Migrations + 1) /\ req[q].next <= Migrations
        BY <1>0, <1>5, RequestFields DEF RunMigration, At, RequestsSound, Sound
      <3> QED BY <1>0, <3>1 DEF Applied
    <2>1. CASE tx[c] = None /\ schema' = [schema EXCEPT ![Public] = @ \cup {work}] /\ UNCHANGED tx
      <3>1. Public \in Schemas /\ schema[Public] \in SUBSET Applied
        BY DEF Schemas, PublicExists
      <3>2. schema[Public] \cup {work} \in SUBSET Applied
        BY <2>0, <3>1
      <3>3. schema' \in [Schemas -> (SUBSET Applied) \cup {None}] /\ schema'[Public] \in SUBSET Applied
        BY <2>1, <3>1, <3>2
      <3> QED BY <1>5, <2>1, <3>3 DEF RunMigration, PublicExists, EnabledWasInformed, NoneIsNothing
    <2>2. CASE /\ tx[c] # None /\ UNCHANGED schema
               /\ tx' = [tx EXCEPT ![c].done = @ \cup {<<tx[c].path, work>>}]
      <3>1. [tx[c] EXCEPT !.done = @ \cup {<<tx[c].path, work>>}] \in Transaction
        <4>1. tx[c].path \in Schemas /\ tx[c].done \in SUBSET (Schemas \X Applied)
          BY <1>1, <2>2, TransactionFields
        <4>2. tx[c].done \cup {<<tx[c].path, work>>} \in SUBSET (Schemas \X Applied)
          BY <2>0, <4>1
        <4> QED BY <1>1, <2>2, <4>2 DEF Transaction
      <3> QED BY <1>2, <1>5, <2>2, <3>1 DEF RunMigration
    <2>3. CASE /\ UNCHANGED schema
               /\ tx' = [tx EXCEPT ![c] = IF @ = None THEN None ELSE [@ EXCEPT !.aborted = TRUE]]
      <3>1. tx[c] # None => [tx[c] EXCEPT !.aborted = TRUE] \in Transaction
        BY <1>1 DEF Transaction
      <3> QED BY <1>1, <1>2, <1>5, <2>3, <3>1 DEF RunMigration
    <2> QED BY <1>5, <2>1, <2>2, <2>3 DEF RunMigration
  <1>6. CASE Commit(q, c)
    <2>1. schema' \in [Schemas -> (SUBSET Applied) \cup {None}] /\ schema'[Public] # None
      BY <1>1, <1>6, EndedTyped DEF Commit
    <2> QED BY <1>6, <2>1 DEF Commit, PublicExists, EnabledWasInformed
  <1>7. CASE Rollback(q, c)
    BY <1>2, <1>7 DEF Rollback
  <1> QED BY <1>3, <1>4, <1>5, <1>6, <1>7 DEF Query

LEMMA StepTables ==
    ASSUME Assumptions, TypeOK, RequestsSound, TablesOK, NEW q \in Requests, RequestStep(q)
    PROVE  TablesOK' /\ informed \subseteq informed'
  <1> USE DEF TablesOK, TablesTyped, Assumptions, PublicExists, EnabledWasInformed
  <1>0. /\ req[q] # None /\ req[q] \in Request /\ req[q].app \in Apps
        /\ Installation(q) \in Tenants \X Apps
    BY UnderWay
  <1>1. ASSUME NEW c \in Conns, Query(q, c) PROVE TablesOK' /\ informed \subseteq informed'
    BY <1>1, QueryTables DEF Query, Begin, SetPath, RunMigration, Commit, Rollback
  <1>2. CASE SetInstalling(q) \/ SetReady(q) \/ SetFailed(q)
    BY <1>0, <1>2 DEF SetInstalling, SetReady, SetFailed, SetState, States
  <1>3. CASE FetchMigrations(q)
    <2>1. state' \in [Tenants \X Apps -> States \cup {None}]
      BY <1>0, <1>3 DEF FetchMigrations, SetState, States
    <2>2. schema' \in [Schemas -> (SUBSET Applied) \cup {None}] /\ schema'[Public] # None
      <3>1. CASE UNCHANGED schema
        BY <3>1
      <3>2. CASE schema' = [schema EXCEPT ![req[q].app] = IF @ = None THEN {} ELSE @]
        <4>1. {} \in SUBSET Applied /\ {} # None
          BY DEF NoneIsNothing
        <4>2. Public \in Schemas /\ req[q].app \in Schemas
          BY <1>0 DEF Schemas
        <4>3. schema'[Public] # None
          BY <3>2, <4>1, <4>2
        <4> QED BY <3>2, <4>1, <4>3
      <3> QED BY <1>3, <3>1, <3>2 DEF FetchMigrations
    <2> QED BY <1>3, <2>1, <2>2 DEF FetchMigrations
  <1>4. CASE FinishMigrations(q) \/ FindRole(q) \/ GrantRole(q)
    BY <1>4 DEF FinishMigrations, FindRole, GrantRole
  <1>5. CASE CreateRole(q)
    BY <1>0, <1>5 DEF CreateRole
  <1>6. CASE NotifyInstallationComplete(q)
    BY <1>0, <1>6 DEF NotifyInstallationComplete
  <1>7. CASE UpsertTenantApp(q)
    <2>1. Installation(q) \in informed
      BY <1>0, <1>7 DEF UpsertTenantApp, At, RequestsSound, Sound, Installation
    <2> QED BY <1>0, <1>7, <2>1 DEF UpsertTenantApp
  <1> QED BY <1>1, <1>2, <1>3, <1>4, <1>5, <1>6, <1>7 DEF RequestStep

-----------------------------------------------------------------------------
(* Requests and their steps *)

(* A request that has gone on, where the step it is at asks for no more    *)
(* than is there, keeps every request sound.                               *)
LEMMA MovedSound ==
    ASSUME RequestsSound, NEW q \in Requests, req[q] # None, NEW s, NEW c, NEW n,
           Moved(q, s, c, n), informed \subseteq informed',
           s \in {"path", "sql", "commit"} => n <= Migrations,
           s \in {"ready", "upsert"} => Installation(q) \in informed'
    PROVE  RequestsSound'
  BY DEF RequestsSound, Sound, Moved, Installation

LEMMA EndedSound ==
    ASSUME RequestsSound, Undisturbed, NEW q \in Requests, req[q] # None,
           req' = [req EXCEPT ![q] = None], req \in [Requests -> Request \cup {None}],
           informed \subseteq informed'
    PROVE  RequestsSound' /\ Undisturbed' /\ req' \in [Requests -> Request \cup {None}]
  <1>1. req'[q] = None /\ \A p \in Requests : p # q => req'[p] = req[p]
    OBVIOUS
  <1>2. \A p \in Requests : p # q => req'[p] = None \/ ~req'[p].alone
    BY <1>1 DEF Undisturbed
  <1> QED BY <1>1, <1>2 DEF RequestsSound, Sound, Undisturbed

LEMMA MovedUndisturbed ==
    ASSUME Undisturbed, NEW q \in Requests, req[q] # None, NEW s, NEW c, NEW n,
           Moved(q, s, c, n), req[q].alone => AsLeft(req[q])'
    PROVE  Undisturbed'
  <1> SUFFICES ASSUME NEW p \in Requests, req'[p] # None, req'[p].alone
               PROVE  AsLeft(req[p])' /\ \A o \in Requests \ {p} : req'[o] = None
    BY DEF Undisturbed
  <1>1. p = q
    BY DEF Moved, Undisturbed
  <1> QED BY <1>1 DEF Moved, Undisturbed

LEMMA MovesSound ==
    ASSUME Assumptions, TypeOK, RequestsSound, NEW q \in Requests, RequestStep(q),
           informed \subseteq informed'
    PROVE  \/ req' = [req EXCEPT ![q] = None]
           \/ req' \in [Requests -> Request \cup {None}] /\ RequestsSound'
  <1> DEFINE Goal == req' \in [Requests -> Request \cup {None}] /\ RequestsSound'
  <1>0. /\ req[q] # None /\ req[q] \in Request /\ NoneIsNothing
        /\ req \in [Requests -> Request \cup {None}] /\ req[q].next \in 1..(Migrations + 1)
        /\ Sound(req[q])
    BY UnderWay, RequestFields DEF Assumptions, TypeOK, RequestsSound
  <1>1. ASSUME NEW s \in Steps, Goto(q, s), s \notin {"path", "sql", "commit"},
               s \in {"ready", "upsert"} => Installation(q) \in informed'
        PROVE  Goal
    BY <1>0, <1>1, GotoMoves, MovedSound
  <1>2. ASSUME NEW s \in Steps, NEW c \in Conns, Queried(q, c, s), s \notin {"ready", "upsert"},
               s \in {"path", "sql", "commit"} => req[q].next <= Migrations
        PROVE  Goal
    BY <1>0, <1>2, QueriedMoves, MovedSound
  <1> HIDE DEF Goal
  <1>3. ASSUME NEW c \in Conns, Commit(q, c) PROVE Goal
    <2>1. req' \in [Requests -> Request \cup {None}] /\ Moved(q, "begin", c, req[q].next + 1)
      BY <1>0, <1>3, CommitMoves DEF Assumptions
    <2> QED BY <1>0, <2>1, MovedSound DEF Goal
  <1>4. ASSUME NEW c \in Conns, Begin(q, c) \/ SetPath(q, c) \/ RunMigration(q, c) \/ Rollback(q, c)
        PROVE  Goal
    BY <1>0, <1>2, <1>4 DEF Begin, SetPath, RunMigration, Rollback, At, Sound, Steps
  <1>5. ASSUME SetInstalling(q) \/ FetchMigrations(q) \/ FinishMigrations(q) \/ FindRole(q)
               \/ CreateRole(q) \/ GrantRole(q)
        PROVE  Goal
    BY <1>1, <1>5 DEF SetInstalling, FetchMigrations, FinishMigrations, FindRole, CreateRole,
                      GrantRole, Steps
  <1>6. ASSUME NotifyInstallationComplete(q) PROVE Goal
    BY <1>1, <1>6 DEF NotifyInstallationComplete, Steps
  <1>7. ASSUME SetReady(q) PROVE Goal
    <2>1. Installation(q) \in informed'
      BY <1>0, <1>7 DEF SetReady, At, Sound, Installation
    <2> QED BY <1>1, <1>7, <2>1 DEF SetReady, Steps
  <1>8. CASE SetFailed(q) \/ UpsertTenantApp(q)
    BY <1>8 DEF SetFailed, UpsertTenantApp
  <1> QED
    BY <1>3, <1>4, <1>5, <1>6, <1>7, <1>8 DEF RequestStep, Query, Goal

(* A query of a request that is alone is given the connection of the last. *)
LEMMA SameConnection ==
    ASSUME Undisturbed, NEW q \in Requests, req[q] # None, req[q].alone, NEW c, Given(q, c)
    PROVE  c = req[q].conn
  BY DEF Given, Others, Undisturbed

(* What a request that is alone finds after a step of its own. *)
LEMMA QueryLeaves ==
    ASSUME Assumptions, TypeOK, RequestsSound, Undisturbed, NEW q \in Requests, NEW c \in Conns,
           Query(q, c), req[q].alone
    PROVE  AsLeft(req[q])' /\ \E s, n : Moved(q, s, c, n)
  <1> DEFINE x == req[q]
  <1>0. /\ x # None /\ x \in Request /\ NoneIsNothing /\ req \in [Requests -> Request \cup {None}]
        /\ x.next \in 1..(Migrations + 1) /\ x.app \in Apps /\ x.conn \in Conns
        /\ tx \in [Conns -> Transaction \cup {None}]
        /\ schema \in [Schemas -> (SUBSET Applied) \cup {None}]
    BY UnderWay, RequestFields DEF Assumptions, TypeOK, RequestStep
  <1>1. AsLeft(x)
    BY <1>0 DEF Undisturbed
  <1>2. c = x.conn
    BY <1>0, SameConnection DEF Query, Begin, SetPath, RunMigration, Commit, Rollback
  <1>3. ASSUME NEW s \in Steps, Queried(q, c, s) PROVE Moved(q, s, c, x.next)
    BY <1>0, <1>3, QueriedMoves
  <1>4. x.app \in Schemas
    BY <1>0 DEF Schemas
  <1>5. CASE Begin(q, c)
    <2>1. Moved(q, "path", c, x.next)
      BY <1>3, <1>5 DEF Begin, Steps
    <2>2. tx'[c] = NewTransaction /\ \A d \in Conns : d # c => tx'[d] = None
      BY <1>0, <1>1, <1>2, <1>5 DEF Begin, At, AsLeft
    <2>3. AsLeft(req[q])'
      BY <1>1, <1>2, <1>5, <2>1, <2>2 DEF Begin, At, Moved, AsLeft
    <2> QED BY <2>1, <2>3
  <1>6. CASE SetPath(q, c)
    <2>1. tx[c] = NewTransaction /\ NewTransaction # None /\ ~NewTransaction.aborted
      <3>1. NewTransaction # None
        BY <1>0, TransactionIs DEF NewTransaction, Schemas
      <3> QED BY <1>1, <1>2, <1>6, <3>1 DEF SetPath, At, AsLeft, NewTransaction
    <2>2. Moved(q, "sql", c, x.next)
      BY <1>3, <1>6, <2>1 DEF SetPath, Steps
    <2>3. /\ tx'[c] = [path |-> x.app, done |-> {}, aborted |-> FALSE]
          /\ \A d \in Conns : d # c => tx'[d] = None
      <3>1. tx' = [tx EXCEPT ![c] = [tx[c] EXCEPT !.path = x.app]]
        BY <1>6, <2>1 DEF SetPath
      <3>2. tx'[c] = [NewTransaction EXCEPT !.path = x.app]
        BY <1>0, <2>1, <3>1
      <3>3. \A d \in Conns : d # c => tx'[d] = None
        BY <1>0, <1>1, <1>2, <3>1 DEF AsLeft
      <3> QED BY <3>2, <3>3 DEF NewTransaction
    <2>4. AsLeft(req[q])'
      BY <1>1, <1>2, <1>6, <2>2, <2>3 DEF SetPath, At, Moved, AsLeft
    <2> QED BY <2>2, <2>4
  <1>7. CASE RunMigration(q, c)
    <2> DEFINE t == [path |-> x.app, done |-> {}, aborted |-> FALSE]
    <2>1. tx[c] = t /\ t # None
      BY <1>0, <1>1, <1>2, <1>4, <1>7, TransactionIs DEF RunMigration, At, AsLeft
    <2>2. \A d \in Conns : d # c => tx'[d] = None
      BY <1>0, <1>1, <1>2, <1>7 DEF RunMigration, AsLeft
    <2>3. CASE Queried(q, c, "commit") /\ UNCHANGED schema
               /\ tx' = [tx EXCEPT ![c].done = @ \cup {<<tx[c].path, <<x.app, x.next>>>>}]
      <3>1. Moved(q, "commit", c, x.next)
        BY <1>3, <2>3 DEF Steps
      <3>2. tx'[c] = [path |-> x.app, done |-> {<<x.app, <<x.app, x.next>>>>}, aborted |-> FALSE]
        <4>1. tx'[c] = [t EXCEPT !.done = t.done \cup {<<t.path, <<x.app, x.next>>>>}]
          BY <1>0, <2>1, <2>3
        <4>2. t.done \cup {<<t.path, <<x.app, x.next>>>>} = {<<x.app, <<x.app, x.next>>>>}
          OBVIOUS
        <4> QED BY <4>1, <4>2
      <3>3. AsLeft(req[q])'
        BY <1>1, <1>2, <1>7, <2>2, <2>3, <3>1, <3>2 DEF RunMigration, At, Moved, AsLeft
      <3> QED BY <3>1, <3>3
    <2>4. CASE Queried(q, c, "rollback") /\ UNCHANGED schema
      <3>1. Moved(q, "rollback", c, x.next)
        BY <1>3, <2>4 DEF Steps
      <3>2. AsLeft(req[q])'
        BY <1>1, <1>2, <1>7, <2>2, <2>4, <3>1 DEF RunMigration, At, Moved, AsLeft
      <3> QED BY <3>1, <3>2
    <2> QED BY <1>7, <2>1, <2>3, <2>4 DEF RunMigration
  <1>8. CASE Commit(q, c)
    <2> DEFINE t == [path |-> x.app, done |-> {<<x.app, <<x.app, x.next>>>>}, aborted |-> FALSE]
    <2>1. Moved(q, "begin", c, x.next + 1)
      BY <1>0, <1>8, CommitMoves DEF Assumptions
    <2>2. tx[c] = t /\ t # None /\ ~t.aborted
      <3>1. x.next <= Migrations
        BY <1>0, <1>8 DEF Commit, At, RequestsSound, Sound
      <3>2. <<x.app, x.next>> \in Applied
        BY <1>0, <3>1 DEF Applied
      <3>3. t # None
        <4>1. t \in Transaction
          BY <1>4, <3>2 DEF Transaction
        <4> QED BY <1>0, <4>1 DEF NoneIsNothing
      <3> QED BY <1>1, <1>2, <1>8, <3>3 DEF Commit, At, AsLeft
    <2>3. schema[x.app] # None /\ \A n \in 1..(x.next - 1) : <<x.app, n>> \in schema[x.app]
      BY <1>1, <1>8 DEF Commit, At, AsLeft
    <2>4. schema'[x.app] = schema[x.app] \cup {d[2] : d \in {e \in t.done : e[1] = x.app}}
      BY <1>4, <1>8, <2>2, <2>3 DEF Commit, Ended
    <2>5. {d[2] : d \in {e \in t.done : e[1] = x.app}} = {<<x.app, x.next>>}
      <3> DEFINE only == <<x.app, <<x.app, x.next>>>>
      <3>1. t.done = {only} /\ only[1] = x.app /\ only[2] = <<x.app, x.next>>
        OBVIOUS
      <3> HIDE DEF only, t
      <3>2. {e \in t.done : e[1] = x.app} = {only}
        BY <3>1
      <3> QED BY <3>1, <3>2
    <2>6. schema'[x.app] # None
      <3>1. x.next <= Migrations
        BY <1>0, <1>8 DEF Commit, At, RequestsSound, Sound
      <3>2. schema[x.app] \in SUBSET Applied /\ <<x.app, x.next>> \in Applied
        BY <1>0, <1>4, <2>3, <3>1 DEF Applied
      <3>3. schema'[x.app] \in SUBSET Applied
        BY <2>4, <2>5, <3>2
      <3> QED BY <1>0, <3>3 DEF NoneIsNothing
    <2>7. \A n \in 1..(x.next + 1 - 1) : <<x.app, n>> \in schema'[x.app]
      BY <1>0, <2>3, <2>4, <2>5
    <2>8. \A d \in Conns : tx'[d] = None
      BY <1>0, <1>1, <1>2, <1>8 DEF Commit, AsLeft
    <2>9. AsLeft(req[q])'
      BY <1>0, <1>2, <1>8, <2>1, <2>6, <2>7, <2>8 DEF Commit, Moved, AsLeft
    <2> QED BY <2>1, <2>9
  <1>9. CASE Rollback(q, c)
    <2>1. Moved(q, "failed", c, x.next)
      BY <1>3, <1>9 DEF Rollback, Steps
    <2>2. \A d \in Conns : tx'[d] = None
      BY <1>0, <1>1, <1>2, <1>9 DEF Rollback, AsLeft
    <2>3. AsLeft(req[q])'
      BY <1>0, <1>2, <2>1, <2>2 DEF Moved, AsLeft
    <2> QED BY <2>1, <2>3
  <1> QED BY <1>5, <1>6, <1>7, <1>8, <1>9 DEF Query

LEMMA StepLeaves ==
    ASSUME Assumptions, TypeOK, RequestsSound, Undisturbed, NEW q \in Requests, RequestStep(q),
           req' # [req EXCEPT ![q] = None]
    PROVE  Undisturbed'
  <1> DEFINE x == req[q]
  <1>0. /\ x # None /\ x \in Request /\ NoneIsNothing /\ req \in [Requests -> Request \cup {None}]
        /\ x.next \in 1..(Migrations + 1) /\ x.app \in Apps /\ x.conn \in Conns
        /\ schema \in [Schemas -> (SUBSET Applied) \cup {None}]
    BY UnderWay, RequestFields DEF Assumptions, TypeOK
  <1>1. x.alone => AsLeft(x)
    BY <1>0 DEF Undisturbed
  <1>2. ASSUME NEW s \in Steps, Goto(q, s), x.alone => AsLeft(req[q])'
        PROVE  Undisturbed'
    BY <1>0, <1>2, GotoMoves, MovedUndisturbed
  <1>3. ASSUME NEW s \in Steps, Goto(q, s)
        PROVE  /\ req'[q].step = s /\ req'[q].conn = x.conn /\ req'[q].next = x.next
               /\ req'[q].app = x.app
    BY <1>0, <1>3, GotoMoves DEF Moved
  <1>4. ASSUME NEW c \in Conns, Query(q, c) PROVE Undisturbed'
    <2>1. CASE x.alone
      BY <1>0, <1>4, <2>1, QueryLeaves, MovedUndisturbed
    <2>2. CASE ~x.alone
      <3>1. \E s, n : Moved(q, s, c, n)
        BY <1>0, <1>4, QueriedMoves, CommitMoves
        DEF Query, Begin, SetPath, RunMigration, Rollback, Steps, Assumptions
      <3> QED BY <1>0, <2>2, <3>1, MovedUndisturbed
    <2> QED BY <2>1, <2>2
  <1>5. CASE SetInstalling(q)
    <2>1. x.alone => AsLeft(req[q])'
      BY <1>1, <1>3, <1>5 DEF SetInstalling, At, AsLeft, Steps
    <2> QED BY <1>2, <1>5, <2>1 DEF SetInstalling, Steps
  <1>6. CASE FetchMigrations(q)
    <2>1. ASSUME Goto(q, "begin"), schema' = [schema EXCEPT ![x.app] = IF @ = None THEN {} ELSE @],
                 x.alone
          PROVE  AsLeft(req[q])'
      <3>1. schema'[x.app] # None
        BY <1>0, <2>1 DEF Schemas, NoneIsNothing
      <3>2. x.next = 1
        BY <1>1, <1>6, <2>1 DEF FetchMigrations, At, AsLeft
      <3> QED BY <1>1, <1>3, <1>6, <2>1, <3>1, <3>2 DEF FetchMigrations, At, AsLeft, Steps
    <2>2. ASSUME Goto(q, "failed"), x.alone PROVE AsLeft(req[q])'
      BY <1>1, <1>3, <1>6, <2>2 DEF FetchMigrations, At, AsLeft, Steps
    <2> QED BY <1>2, <1>6, <2>1, <2>2 DEF FetchMigrations, Steps
  <1>7. CASE FinishMigrations(q)
    <2>1. x.next = Migrations + 1
      BY <1>0, <1>7 DEF FinishMigrations, Assumptions
    <2>2. x.alone => AsLeft(req[q])'
      BY <1>1, <1>3, <1>7, <2>1 DEF FinishMigrations, At, AsLeft, Steps
    <2> QED BY <1>2, <1>7, <2>2 DEF FinishMigrations, Steps
  <1>8. CASE FindRole(q)
    <2>1. x.alone => AsLeft(req[q])'
      BY <1>1, <1>3, <1>8 DEF FindRole, At, AsLeft, Steps
    <2> QED BY <1>2, <1>8, <2>1 DEF FindRole, Steps
  <1>9. CASE CreateRole(q)
    <2>1. x.alone => AsLeft(req[q])'
      BY <1>1, <1>3, <1>9 DEF CreateRole, At, AsLeft, Steps
    <2> QED BY <1>2, <1>9, <2>1 DEF CreateRole, Steps
  <1>10. CASE GrantRole(q)
    <2>1. x.alone => AsLeft(req[q])'
      BY <1>1, <1>3, <1>10 DEF GrantRole, At, AsLeft, Steps
    <2> QED BY <1>2, <1>10, <2>1 DEF GrantRole, Steps
  <1>11. CASE NotifyInstallationComplete(q)
    <2>1. x.alone => AsLeft(req[q])'
      BY <1>1, <1>3, <1>11 DEF NotifyInstallationComplete, At, AsLeft, Steps
    <2> QED BY <1>2, <1>11, <2>1 DEF NotifyInstallationComplete, Steps
  <1>12. CASE SetReady(q)
    <2>1. x.alone => AsLeft(req[q])'
      BY <1>1, <1>3, <1>12 DEF SetReady, At, AsLeft, Steps
    <2> QED BY <1>2, <1>12, <2>1 DEF SetReady, Steps
  <1>13. ~(SetFailed(q) \/ UpsertTenantApp(q))
    BY DEF SetFailed, UpsertTenantApp
  <1> QED
    BY <1>4, <1>5, <1>6, <1>7, <1>8, <1>9, <1>10, <1>11, <1>12, <1>13 DEF RequestStep

-----------------------------------------------------------------------------
(* The invariant *)

LEMMA IInvInit == ASSUME Assumptions, Init PROVE IInv
  BY DEF Assumptions, NoneIsNothing, Init, IInv, TypeOK, RequestsSound, PublicExists,
         EnabledWasInformed, Undisturbed, Schemas

LEMMA RequestStepKeeps ==
    ASSUME Assumptions, IInv, NEW q \in Requests, RequestStep(q)
    PROVE  IInv'
  <1>1. TablesOK
    BY DEF IInv, TypeOK, TablesOK, TablesTyped
  <1>2. TablesOK' /\ informed \subseteq informed'
    BY <1>1, StepTables DEF IInv
  <1>3. req[q] # None
    BY UnderWay DEF Assumptions, IInv
  <1>4. req' \in [Requests -> Request \cup {None}] /\ RequestsSound' /\ Undisturbed'
    <2>1. CASE req' = [req EXCEPT ![q] = None]
      BY <1>2, <1>3, <2>1, EndedSound DEF IInv, TypeOK
    <2>2. CASE req' # [req EXCEPT ![q] = None]
      BY <1>2, <2>2, MovesSound, StepLeaves DEF IInv
    <2> QED BY <2>1, <2>2
  <1> QED BY <1>2, <1>4 DEF IInv, TypeOK, TablesOK, TablesTyped

LEMMA OthersKeep ==
    ASSUME Assumptions, IInv,
           \/ \E i \in Tenants \X Apps : DisableTenantApp(i) \/ SetDisabled(i)
           \/ Restart
           \/ UNCHANGED vars
    PROVE  IInv'
  <1> USE DEF IInv, TypeOK, Assumptions
  <1>1. ASSUME NEW i \in Tenants \X Apps, DisableTenantApp(i) \/ SetDisabled(i) PROVE IInv'
    <2>1. UNCHANGED <<schema, tx, role, informed, req>>
      BY <1>1 DEF DisableTenantApp, SetDisabled
    <2>2. RequestsSound' /\ PublicExists' /\ Undisturbed'
      BY <2>1 DEF RequestsSound, Sound, PublicExists, Undisturbed, AsLeft
    <2>3. enabled' \subseteq enabled /\ disabling' \subseteq Tenants \X Apps
      BY <1>1 DEF DisableTenantApp, SetDisabled
    <2>4. state' \in [Tenants \X Apps -> States \cup {None}] /\ changes' \in 0..MaxChanges
      BY <1>1 DEF DisableTenantApp, SetDisabled, SetState, States
    <2> QED BY <2>1, <2>2, <2>3, <2>4 DEF EnabledWasInformed
  <1>2. CASE Restart
    BY <1>2 DEF Restart, RequestsSound, PublicExists, Undisturbed, EnabledWasInformed
  <1>3. CASE UNCHANGED vars
    BY <1>3 DEF vars, RequestsSound, Sound, PublicExists, Undisturbed, AsLeft, EnabledWasInformed
  <1> QED BY <1>1, <1>2, <1>3

LEMMA EnableKeeps ==
    ASSUME Assumptions, IInv, NEW q \in Requests, NEW i \in Tenants \X Apps, NEW c \in Conns,
           EnableApp(q, i, c)
    PROVE  IInv'
  <1> USE DEF IInv, TypeOK, Assumptions
  <1>1. UNCHANGED <<schema, tx, role, state, enabled, informed, disabling>>
    BY DEF EnableApp
  <1>2. changes' \in 0..MaxChanges
    BY DEF EnableApp
  <1>3. /\ req' \in [Requests -> Request \cup {None}]
        /\ req'[q].step = "resolved" /\ req'[q].conn = c /\ req'[q].next = 1
        /\ req'[q].alone => /\ \A p \in Requests \ {q} : req'[p] = None
                            /\ \A d \in Conns : tx[d] = None
        /\ \A p \in Requests \ {q} : req'[p] # None =>
             ~req'[p].alone /\ req[p] # None /\ Sound(req[p])' = Sound(req[p])
    BY EnableBegins
  <1>4. RequestsSound'
    BY <1>3 DEF RequestsSound, Sound
  <1>5. Undisturbed'
    <2>1. req'[q].alone => AsLeft(req[q])'
      BY <1>1, <1>3 DEF AsLeft
    <2> QED BY <1>3, <2>1 DEF Undisturbed
  <1> QED BY <1>1, <1>2, <1>3, <1>4, <1>5 DEF PublicExists, EnabledWasInformed

LEMMA IInvStep == ASSUME Assumptions, IInv, [Next]_vars PROVE IInv'
  BY RequestStepKeeps, OthersKeep, EnableKeeps DEF Next, RequestStep

LEMMA Inductive == ASSUME Assumptions PROVE Spec => []IInv
  <1>1. Init => IInv
    BY IInvInit
  <1>2. IInv /\ [Next]_vars => IInv'
    BY IInvStep
  <1> QED BY <1>1, <1>2, PTL DEF Spec

-----------------------------------------------------------------------------
(* The theorems *)

(* Schemas, transactions, tables and requests stay well-formed, however    *)
(* the pool deals out its connections.                                     *)
THEOREM TypeCorrect == ASSUME Assumptions PROVE Spec => []TypeOK
  BY Inductive, PTL DEF IInv

(* No interleaving of enabling, disabling, failures and restarts enables   *)
(* an application that was not told of the installation.                   *)
THEOREM EnabledAreInformed == ASSUME Assumptions PROVE Spec => []EnabledWasInformed
  BY Inductive, PTL DEF IInv

(* A request that nothing overlaps reports ready only what has all its     *)
(* migrations committed in its own schema, its role, and no transaction    *)
(* left open.                                                              *)
THEOREM ReadyAreMigrated == ASSUME Assumptions PROVE Spec => []ReadyIsMigrated
  <1>1. ASSUME Assumptions, IInv PROVE ReadyIsMigrated
    <2> SUFFICES ASSUME NEW q \in Requests, At(q, "ready"), req[q].alone
                 PROVE  /\ {req[q].app} \X (1..Migrations) \subseteq schema[req[q].app]
                        /\ req[q].app \in role /\ \A c \in Conns : tx[c] = None
      BY DEF ReadyIsMigrated
    <2>1. AsLeft(req[q])
      BY <1>1 DEF IInv, Undisturbed, At
    <2>2. req[q].next = Migrations + 1 /\ req[q].app \in role
      BY <2>1 DEF AsLeft, At
    <2>3. \A n \in 1..Migrations : <<req[q].app, n>> \in schema[req[q].app]
      BY <1>1, <2>1, <2>2 DEF AsLeft, At, Assumptions
    <2>4. \A c \in Conns : tx[c] = None
      BY <2>1 DEF AsLeft, At
    <2> QED BY <2>2, <2>3, <2>4
  <1> QED BY <1>1, Inductive, PTL
=============================================================================
