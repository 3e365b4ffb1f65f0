------------------------------ MODULE TenantApps ------------------------------
(***************************************************************************)
(* Enabling and disabling an application for a tenant                      *)
(* (apps/app-registry-service.ts, web/routes/apps.ts).  Enabling runs the  *)
(* application's SQL migrations in the schema of the application, creates  *)
(* its database role, tells its service and records the outcome in two     *)
(* tables, core.app_installations and core.tenant_apps.                    *)
(*                                                                         *)
(* A migration is "begin", "set local search_path", its text and "commit", *)
(* each a query of its own of the pool, which gives a query the connection *)
(* it got back last, if only one request is asking, and any connection     *)
(* otherwise.  So a transaction may be opened on one connection and ended  *)
(* on another, and the text may run in whatever transaction and schema the *)
(* connection is in.  What has been applied is recorded nowhere.  The      *)
(* other statements are taken to find a connection without a transaction.  *)
(*                                                                         *)
(* registerApp is not here: its second query names a column core.apps does *)
(* not have, so it ends with an error before it stores anything.           *)
(***************************************************************************)
EXTENDS Naturals

CONSTANTS
    Tenants, Apps,
    Requests,       \* slots for enable requests
    Conns,          \* connections of the pool
    Public,         \* the schema a connection works in unless told
    None,
    Migrations,     \* the number of migrations of an application
    MaxChanges      \* bound of the model: enable and disable requests in all

Schemas == Apps \cup {Public}
Applied == Apps \X (1..Migrations)
Transaction == [path : Schemas, done : SUBSET (Schemas \X Applied), aborted : BOOLEAN]
NewTransaction == [path |-> Public, done |-> {}, aborted |-> FALSE]
States == {"installing", "migrating", "ready", "failed", "disabled"}
Steps == {"resolved", "installing", "begin", "path", "sql", "commit", "rollback",
          "role", "create", "grant", "notify", "ready", "failed", "upsert"}
Request == [tenant : Tenants, app : Apps, step : Steps, next : 1..(Migrations + 1),
            conn : Conns,           \* the connection its last query used
            alone : BOOLEAN]        \* history: no other request, nor a transaction of one,
                                    \* was under way since it began

NoneIsNothing ==
    /\ None \notin Request \cup Transaction \cup States
    /\ \A done \in SUBSET Applied : done # None

VARIABLES
    schema,     \* what has been committed in each schema, None before it exists
    tx,         \* the open transaction of each connection
    role,       \* the applications whose database role exists
    state,      \* core.app_installations
    enabled,    \* core.tenant_apps
    disabling,  \* disable requests between their two statements
    informed,   \* history: the installations an application's service accepted
    req,        \* the enable requests under way
    changes     \* requests so far

vars == <<schema, tx, role, state, enabled, disabling, informed, req, changes>>

TypeOK ==
    /\ schema \in [Schemas -> (SUBSET Applied) \cup {None}]
    /\ tx \in [Conns -> Transaction \cup {None}]
    /\ role \subseteq Apps
    /\ state \in [Tenants \X Apps -> States \cup {None}]
    /\ enabled \subseteq Tenants \X Apps
    /\ disabling \subseteq Tenants \X Apps
    /\ informed \subseteq Tenants \X Apps
    /\ req \in [Requests -> Request \cup {None}]
    /\ changes \in 0..MaxChanges

Init ==
    /\ schema = [s \in Schemas |-> IF s = Public THEN {} ELSE None]
    /\ tx = [c \in Conns |-> None]
    /\ role = {}
    /\ state = [i \in Tenants \X Apps |-> None]
    /\ enabled = {}
    /\ disabling = {}
    /\ informed = {}
    /\ req = [q \in Requests |-> None]
    /\ changes = 0

-----------------------------------------------------------------------------
(* Requests and queries *)

At(q, step) == req[q] # None /\ req[q].step = step
Installation(q) == <<req[q].tenant, req[q].app>>

Others(q) == {p \in Requests \ {q} : req[p] # None}

(* The connection the pool gives to the next query of a request. *)
Given(q, c) == Others(q) # {} \/ c = req[q].conn

(* A query has used connection c, and the request goes on. *)
Queried(q, c, step) == req' = [req EXCEPT ![q].step = step, ![q].conn = c]
Goto(q, step) == req' = [req EXCEPT ![q].step = step]
SetState(i, s) == state' = [state EXCEPT ![i] = s]

(* base_url is read from core.installed_apps; without it nothing begins.   *)
EnableApp(q, i, c) ==
    /\ req[q] = None /\ changes < MaxChanges
    /\ changes' = changes + 1
    /\ req' = [p \in Requests |->
         IF p = q THEN [tenant |-> i[1], app |-> i[2], step |-> "resolved", next |-> 1,
                        conn |-> c, alone |-> Others(q) = {} /\ \A d \in Conns : tx[d] = None]
         ELSE IF req[p] = None THEN None ELSE [req[p] EXCEPT !.alone = FALSE]]
    /\ UNCHANGED <<schema, tx, role, state, enabled, informed, disabling>>

SetInstalling(q) ==
    /\ At(q, "resolved")
    /\ SetState(Installation(q), "installing") /\ Goto(q, "installing")
    /\ UNCHANGED <<schema, tx, role, enabled, informed, disabling, changes>>

(* "migrating", the migrations fetched and their hashes compared, and      *)
(* create schema if not exists.                                            *)
FetchMigrations(q) ==
    LET a == req[q].app IN
    /\ At(q, "installing")
    /\ SetState(Installation(q), "migrating")
    /\ \/ /\ schema' = [schema EXCEPT ![a] = IF @ = None THEN {} ELSE @]
          /\ Goto(q, "begin")
       \/ Goto(q, "failed") /\ UNCHANGED schema
    /\ UNCHANGED <<tx, role, enabled, informed, disabling, changes>>

-----------------------------------------------------------------------------
(* One migration *)

(* Inside a transaction "begin" is a warning. *)
Begin(q, c) ==
    /\ At(q, "begin") /\ Given(q, c) /\ req[q].next <= Migrations
    /\ tx' = [tx EXCEPT ![c] = IF @ = None THEN NewTransaction ELSE @]
    /\ Queried(q, c, "path")
    /\ UNCHANGED <<schema, role, state, enabled, informed, disabling, changes>>

(* Outside a transaction "set local" is a warning. *)
SetPath(q, c) ==
    /\ At(q, "path") /\ Given(q, c)
    /\ IF tx[c] # None /\ tx[c].aborted
       THEN Queried(q, c, "rollback") /\ UNCHANGED tx
       ELSE /\ tx' = [tx EXCEPT ![c] = IF @ = None THEN None ELSE [@ EXCEPT !.path = req[q].app]]
            /\ Queried(q, c, "sql")
    /\ UNCHANGED <<schema, role, state, enabled, informed, disabling, changes>>

(* The text runs where the connection is.  It may fail, and does in an     *)
(* aborted transaction.                                                    *)
RunMigration(q, c) ==
    LET work == <<req[q].app, req[q].next>> IN
    /\ At(q, "sql") /\ Given(q, c)
    /\ \/ /\ tx[c] = None
          /\ schema' = [schema EXCEPT ![Public] = @ \cup {work}]
          /\ UNCHANGED tx /\ Queried(q, c, "commit")
       \/ /\ tx[c] # None /\ ~tx[c].aborted
          /\ tx' = [tx EXCEPT ![c].done = @ \cup {<<tx[c].path, work>>}]
          /\ UNCHANGED schema /\ Queried(q, c, "commit")
       \/ /\ tx' = [tx EXCEPT ![c] = IF @ = None THEN None ELSE [@ EXCEPT !.aborted = TRUE]]
          /\ UNCHANGED schema /\ Queried(q, c, "rollback")
    /\ UNCHANGED <<role, state, enabled, informed, disabling, changes>>

(* What a transaction has done reaches its schemas at commit; an aborted   *)
(* one is rolled back by it, without an error.                             *)
Ended(t) ==
    IF t = None \/ t.aborted THEN schema
    ELSE [s \in Schemas |->
           IF schema[s] = None THEN None ELSE schema[s] \cup {d[2] : d \in {e \in t.done : e[1] = s}}]

(* Mutant: the next migration begins without a commit of the last. *)
CommitForgotten(q, c) ==
    /\ At(q, "commit") /\ Given(q, c)
    /\ req' = [req EXCEPT ![q].conn = c, ![q].next = @ + 1, ![q].step = "begin"]
    /\ UNCHANGED <<schema, tx, role, state, enabled, informed, disabling, changes>>

Commit(q, c) ==
    /\ At(q, "commit") /\ Given(q, c)
    /\ schema' = Ended(tx[c])
    /\ tx' = [tx EXCEPT ![c] = None]
    /\ req' = [req EXCEPT ![q].conn = c, ![q].next = @ + 1, ![q].step = "begin"]
    /\ UNCHANGED <<role, state, enabled, informed, disabling, changes>>

Rollback(q, c) ==
    /\ At(q, "rollback") /\ Given(q, c)
    /\ tx' = [tx EXCEPT ![c] = None]
    /\ Queried(q, c, "failed")
    /\ UNCHANGED <<schema, role, state, enabled, informed, disabling, changes>>

-----------------------------------------------------------------------------
(* The role of the application, its service and the outcome *)

FinishMigrations(q) ==
    /\ At(q, "begin") /\ req[q].next > Migrations
    /\ Goto(q, "role")
    /\ UNCHANGED <<schema, tx, role, state, enabled, informed, disabling, changes>>

FindRole(q) ==
    /\ At(q, "role")
    /\ Goto(q, IF req[q].app \in role THEN "grant" ELSE "create")
    /\ UNCHANGED <<schema, tx, role, state, enabled, informed, disabling, changes>>

(* Another request may have created the role since. *)
CreateRole(q) ==
    /\ At(q, "create")
    /\ Goto(q, IF req[q].app \in role THEN "failed" ELSE "grant")
    /\ role' = role \cup {req[q].app}
    /\ UNCHANGED <<schema, tx, state, enabled, informed, disabling, changes>>

(* The grants and the upsert of core.app_db_roles, done or failed. *)
GrantRole(q) ==
    /\ At(q, "grant")
    /\ Goto(q, "notify") \/ Goto(q, "failed")
    /\ UNCHANGED <<schema, tx, role, state, enabled, informed, disabling, changes>>

(* The service may accept and its answer be lost. *)
NotifyInstallationComplete(q) ==
    /\ At(q, "notify")
    /\ \/ informed' = informed \cup {Installation(q)} /\ (Goto(q, "ready") \/ Goto(q, "failed"))
       \/ Goto(q, "failed") /\ UNCHANGED informed
    /\ UNCHANGED <<schema, tx, role, state, enabled, disabling, changes>>

SetReady(q) ==
    /\ At(q, "ready")
    /\ SetState(Installation(q), "ready") /\ Goto(q, "upsert")
    /\ UNCHANGED <<schema, tx, role, enabled, informed, disabling, changes>>

(* Mutant: the error is recorded and not thrown again. *)
SetFailedAndGoOn(q) ==
    /\ At(q, "failed")
    /\ SetState(Installation(q), "failed") /\ Goto(q, "upsert")
    /\ UNCHANGED <<schema, tx, role, enabled, informed, disabling, changes>>

SetFailed(q) ==
    /\ At(q, "failed")
    /\ SetState(Installation(q), "failed")
    /\ req' = [req EXCEPT ![q] = None]
    /\ UNCHANGED <<schema, tx, role, enabled, informed, disabling, changes>>

UpsertTenantApp(q) ==
    /\ At(q, "upsert")
    /\ enabled' = enabled \cup {Installation(q)}
    /\ req' = [req EXCEPT ![q] = None]
    /\ UNCHANGED <<schema, tx, role, state, informed, disabling, changes>>

(* disableAppForTenant: an update and an upsert, whatever is under way.    *)
DisableTenantApp(i) ==
    /\ i \notin disabling /\ changes < MaxChanges
    /\ changes' = changes + 1
    /\ enabled' = enabled \ {i}
    /\ disabling' = disabling \cup {i}
    /\ UNCHANGED <<schema, tx, role, state, informed, req>>

SetDisabled(i) ==
    /\ i \in disabling
    /\ SetState(i, "disabled")
    /\ disabling' = disabling \ {i}
    /\ UNCHANGED <<schema, tx, role, enabled, informed, req, changes>>

(* The process ends: its connections are closed, their transactions lost.  *)
Restart ==
    /\ disabling # {} \/ \E q \in Requests : req[q] # None
    /\ tx' = [c \in Conns |-> None]
    /\ req' = [q \in Requests |-> None]
    /\ disabling' = {}
    /\ UNCHANGED <<schema, role, state, enabled, informed, changes>>

-----------------------------------------------------------------------------

Query(q, c) == Begin(q, c) \/ SetPath(q, c) \/ RunMigration(q, c) \/ Commit(q, c) \/ Rollback(q, c)

Next ==
    \/ \E q \in Requests :
         \/ \E i \in Tenants \X Apps, c \in Conns : EnableApp(q, i, c)
         \/ \E c \in Conns : Query(q, c)
         \/ SetInstalling(q) \/ FetchMigrations(q) \/ FinishMigrations(q)
         \/ FindRole(q) \/ CreateRole(q) \/ GrantRole(q) \/ NotifyInstallationComplete(q)
         \/ SetReady(q) \/ SetFailed(q) \/ UpsertTenantApp(q)
    \/ \E i \in Tenants \X Apps : DisableTenantApp(i) \/ SetDisabled(i)
    \/ Restart

Spec == Init /\ [][Next]_vars

-----------------------------------------------------------------------------
(* Whatever overlaps: an application is enabled for a tenant only after    *)
(* its service has accepted the installation of that tenant.               *)
EnabledWasInformed == enabled \subseteq informed

(* Of a request that no other one overlaps: when it reports the            *)
(* application ready, every migration is committed in the application's    *)
(* own schema, its role exists, and no transaction is left open.           *)
ReadyIsMigrated ==
    \A q \in Requests :
      At(q, "ready") /\ req[q].alone
        => /\ {req[q].app} \X (1..Migrations) \subseteq schema[req[q].app]
           /\ req[q].app \in role
           /\ \A c \in Conns : tx[c] = None
=============================================================================
