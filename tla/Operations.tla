------------------------------ MODULE Operations ------------------------------
(***************************************************************************)
(* What the operators of the platform look after: the admission of authors *)
(* (AuthorOnboarding) and the health of applications (RuntimeHealth).  No  *)
(* step of one reads what the other keeps, so a behaviour uses one of them *)
(* and leaves the other as it began: a checker explores the sum of the     *)
(* state spaces, not the product.                                          *)
(***************************************************************************)
EXTENDS AuthorOnboarding

CONSTANTS
    Apps, Diagnosers, Stoppers, Monitor, Threshold, CountCap, MaxFaults, MaxChurn

VARIABLES
    installed, mem, row, answers, up, mon, check, streak, faults, churn

Health == INSTANCE RuntimeHealth WITH NoRow <- None, task <- check

ASSUME MonitoringAssumption == Health!HealthAssumption

healthVars == <<installed, mem, row, answers, up, mon, check, streak, faults, churn>>
allVars == <<vars, healthVars>>

AdmissionAtRest == changes = 0 /\ \A r \in Requests : content[r] = None
HealthAtRest == churn = 0 /\ mon = "load" /\ Health!Init

(* The reviews of the bound are used up; nothing else ends a behaviour. *)
AdmissionEnds == changes = MaxChanges /\ UNCHANGED allVars

AllInit == Init /\ Health!Init

AllNext ==
    \/ /\ AdmissionAtRest
       /\ Health!Next
       /\ UNCHANGED vars
    \/ /\ HealthAtRest
       /\ Next
       /\ UNCHANGED healthVars
    \/ AdmissionEnds

AllSpec == AllInit /\ [][AllNext]_allVars

AdmissionTypeOK == AdmissionAtRest \/ TypeOK
CountsAreReal == Health!CountsAreReal
=============================================================================
