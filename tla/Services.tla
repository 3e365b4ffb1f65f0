------------------------------- MODULE Services -------------------------------
(***************************************************************************)
(* Three services of their own: the delivery of events (EventLog), the     *)
(* catalog with its automatic refresh (AppCatalog) and the authorization   *)
(* of licenses (LicenseOAuth).  They share nothing, so a behaviour uses    *)
(* one of them and leaves the others as they began: a checker explores the *)
(* sum of the state spaces, not the product.                               *)
(***************************************************************************)
EXTENDS EventLog

CONSTANTS
    Flows, Callbacks, Clients, Licensed,
    Sources, Apps, Admins, Timer, Modes, Claims, MaxRelease, Validity, MaxRequests, MaxOutages

VARIABLES
    conn, owner, flow, store, callback, imported,
    serves, feed, listed, source, entry, signed, installed, task, todo, requests, outages

OAuth == INSTANCE LicenseOAuth WITH Apps <- Licensed

Catalog == INSTANCE AppCatalog WITH
    Requests <- Admins, MaxChanges <- MaxRequests, MaxFaults <- MaxOutages,
    changes <- requests, faults <- outages

ASSUME AuthorizationAssumption == OAuth!OAuthAssumption
ASSUME CatalogAssumption == Catalog!CatalogAssumption

oauthVars == <<conn, owner, flow, store, callback, imported>>
catalogVars ==
    <<serves, feed, listed, source, entry, signed, installed, task, todo, requests, outages>>

allVars == <<vars, oauthVars, catalogVars>>

EventsAtRest == Init
OAuthAtRest == OAuth!Init
CatalogAtRest == Catalog!Init

AllInit == Init /\ OAuth!Init /\ Catalog!Init

AllNext ==
    \/ /\ OAuthAtRest /\ CatalogAtRest
       /\ Next
       /\ UNCHANGED <<oauthVars, catalogVars>>
    \/ /\ EventsAtRest /\ CatalogAtRest
       /\ OAuth!Next
       /\ UNCHANGED <<vars, catalogVars>>
    \/ /\ EventsAtRest /\ OAuthAtRest
       /\ Catalog!Next
       /\ UNCHANGED <<vars, oauthVars>>

AllSpec == AllInit /\ [][AllNext]_allVars /\ Fairness /\ Catalog!Fairness

AllTypeOK == TypeOK /\ OAuth!TypeOK /\ Catalog!TypeOK

OneImportPerFlow == OAuth!OneImportPerFlow
CodesGoHome == OAuth!CodesGoHome
FeedEntriesWereListed == Catalog!FeedEntriesWereListed
TimerTrustsSource == Catalog!TimerTrustsSource
EntriesCatchUp == Catalog!EntriesCatchUp
=============================================================================
