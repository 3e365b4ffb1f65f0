----------------------------- MODULE Applications -----------------------------
(***************************************************************************)
(* What is done to an application: installing it from its own service      *)
(* (AppInstall) or as a Compose runtime (ComposeInstall) and enabling it   *)
(* for a tenant (TenantApps).  No step of one reads what another one       *)
(* keeps, so a behaviour uses one of them and leaves the others as they    *)
(* began: a checker explores the sum of the state spaces, not the product. *)
(***************************************************************************)
EXTENDS AppInstall

CONSTANTS
    Tenants, Enableable, Enablers, Conns, Public, Migrations, MaxEnablements,
    Deployable, Installers, Services, Packages, Manifests, AppOf, ManifestOf, Refused, Offers,
    MaxInstalls

VARIABLES
    schema, tx, role, state, enabled, disabling, informed, enabling, enablements,
    entry, base, confirmed, token, container, runtime, deployed, task, installs

Enabling == INSTANCE TenantApps WITH
    Apps <- Enableable, Requests <- Enablers, MaxChanges <- MaxEnablements,
    req <- enabling, changes <- enablements
Deploying == INSTANCE ComposeInstall WITH
    Apps <- Deployable, Requests <- Installers, MaxChanges <- MaxInstalls,
    serves <- base, row <- runtime, installed <- deployed, changes <- installs

ASSUME EnablingAssumption ==
    Enabling!NoneIsNothing /\ Migrations \in Nat /\ MaxEnablements \in Nat
ASSUME DeployingAssumption ==
    /\ Deploying!PackagesAssumption /\ Deploying!OffersAssumption /\ Deploying!NoneIsNothing
    /\ MaxInstalls \in Nat

enablingVars == <<schema, tx, role, state, enabled, disabling, informed, enabling, enablements>>
deployingVars ==
    <<entry, base, confirmed, token, container, runtime, deployed, task, installs>>

allVars == <<vars, enablingVars, deployingVars>>

(* Each as it began: the first step of an enabling and of a deployment is  *)
(* counted.  One initial state of each, for the behaviours of the others.  *)
AnyManifest == CHOOSE m \in Manifests : TRUE
InstallingAtRest == Init /\ \A u, w \in Urls : served[u] = served[w]
EnablingAtRest == enablements = 0
DeployingAtRest == installs = 0 /\ \A a \in Deployable : base[a] = AnyManifest

AllInit == Init /\ Enabling!Init /\ Deploying!Init

AllNext ==
    \/ /\ EnablingAtRest /\ DeployingAtRest
       /\ Next
       /\ UNCHANGED <<enablingVars, deployingVars>>
    \/ /\ InstallingAtRest /\ DeployingAtRest
       /\ Enabling!Next
       /\ UNCHANGED <<vars, deployingVars>>
    \/ /\ InstallingAtRest /\ EnablingAtRest
       /\ Deploying!Next
       /\ UNCHANGED <<vars, enablingVars>>

AllSpec == AllInit /\ [][AllNext]_allVars

AllTypeOK == TypeOK /\ Enabling!TypeOK /\ Deploying!TypeOK

EnabledWasInformed == Enabling!EnabledWasInformed
ReadyIsMigrated == Enabling!ReadyIsMigrated
RuntimesWereApproved == Deploying!RuntimesWereApproved
InstallsWhatWasOffered == Deploying!InstallsWhatWasOffered
=============================================================================
