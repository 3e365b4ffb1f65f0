--------------------------- MODULE MCTenantAccess ---------------------------
(***************************************************************************)
(* Instances of TenantAccess for TLC.  The privileges of the system roles  *)
(* (SYSTEM_TENANT_ROLES in identity/tenant-rbac.ts) are reduced to two: to *)
(* read and to manage.                                                     *)
(***************************************************************************)
EXTENDS TenantAccess, TLC

CONSTANTS Read, Manage, t1

TwoPrivileges == {Read, Manage}
ReadAndManage ==
    [tenant_member |-> {}, tenant_admin |-> {Read, Manage}, tenant_auditor |-> {Read}]

(* Memberships with their roles, the versioned updates of one membership   *)
(* and the replacements of a user's grants are explored one at a time:     *)
(* they write different tables, and an update reads nothing but its own,   *)
(* so what the others do in between shows nothing new.                     *)
RolesOnly ==
    /\ serial = 0 /\ audits = {}
    /\ \A m \in MembershipIds : memb[m] # None => memb[m].version = 1
    /\ \A r \in CustomRoles : role[r] # None => role[r].version = 1
    /\ \A p \in Patchers : patch[p] = None
    /\ \A x \in Replacers : replace[x] = None

MemberOnly ==
    /\ tenants = {t1} /\ Cardinality(issued) = 1 /\ issued \subseteq MembershipIds
    /\ serial = 0
    /\ \A j \in Joiners : join[j] = None
    /\ \A x \in Removers : removal[x] = None
    /\ \A x \in Replacers : replace[x] = None

GrantsOnly ==
    /\ tenants \subseteq {t1} /\ issued = {}
    /\ \A j \in Joiners : join[j] = None
    /\ \A x \in Removers : removal[x] = None

(* ReplaceStep, with what may be granted at the first tenant only. *)
ReplaceStepAtOne ==
    \E x \in Replacers, u \in Users :
        \/ \E wanted \in SUBSET ({Platform, t1} \X Privileges) : StartReplace(x, u, Scopes, wanted)
        \/ \E privileges \in SUBSET Privileges : StartReplace(x, u, {t1}, {t1} \X privileges)
        \/ CommitReplace(x) \/ RollBackReplace(x)

AccessNext ==
    \/ RolesOnly /\ (TenantStep \/ JoinStep \/ RoleStep)
    \/ MemberOnly /\ PatchStep
    \/ (RolesOnly \/ MemberOnly) /\ \E m \in MembershipIds : DeleteMembership(m)
    \/ GrantsOnly /\ ReplaceStepAtOne

AccessSpec == Init /\ [][AccessNext]_vars

AccessSymmetry == Permutations(MembershipIds) \cup Permutations(Replacers)
====
