------------------------- MODULE TenantAccessProofs -------------------------
(***************************************************************************)
(* Proofs about TenantAccess.  The invariants hold together with what      *)
(* requests in flight know: a join holds a fresh membership id and roles   *)
(* of its tenant, a removal never names a base role, and the row an update *)
(* read is no newer than the one in the table, or the one it replaced.     *)
(***************************************************************************)
EXTENDS TenantAccess, TLAPS

USE AccessAssumption, AbsenceAssumption

(* Roles belong to tenants that exist; a tenant has all its system roles. *)
RoleTables ==
    /\ \A r \in Roles : role[r] # None => role[r].tenant \in tenants
    /\ \A t \in Tenants, k \in SystemKeys :
         /\ t \in tenants <=> role[<<k, t>>] # None
         /\ role[<<k, t>>] # None => role[<<k, t>>].tenant = t
    /\ \A r \in CustomRoles : role[r] # None => r \in issued

(* A join in flight holds an id of its own and roles of its tenant. *)
JoinFits(j) ==
    /\ join[j].m \in issued /\ memb[join[j].m] = None
    /\ join[j].tenant \in tenants /\ Base(join[j].tenant) \in join[j].roles
    /\ \A r \in join[j].roles :
         /\ (r \in CustomRoles /\ r \in issued) \/ (r \in SystemRoles /\ role[r] # None)
         /\ role[r] # None => role[r].tenant = join[j].tenant
JoinsFit ==
    /\ \A m \in MembershipIds : memb[m] # None => m \in issued /\ memb[m].tenant \in tenants
    /\ \A j \in Joiners : join[j] # None => JoinFits(j)
    /\ \A i, j \in Joiners :
         join[i] # None /\ join[j] # None /\ join[i].m = join[j].m => i = j

RemovalsSpareBase ==
    \A x \in Removers, t \in Tenants : removal[x] # None => removal[x].role # Base(t)

Assigned == AssignmentsSound /\ BaseRoleKept /\ RemovalsSpareBase

PrivilegesFit ==
    /\ SystemRolesFixed
    /\ \A rp \in rolePriv : role[rp[1]] # None

(* What an update that was applied knows of the row it replaced: it had    *)
(* the version the client sent, and was the row read or a later one.       *)
Replaced(q) ==
    /\ q.replaced # None
    /\ q.replaced.version = q.version /\ q.after.version = q.replaced.version + 1
    /\ q.before.version <= q.replaced.version
    /\ q.before.version = q.replaced.version => q.before = q.replaced

(* What an update that is under way knows of the row. *)
PatchFits(p) ==
    /\ \A j \in Joiners : join[j] # None => join[j].m # patch[p].m
    /\ patch[p].m \in issued
    /\ patch[p].after = None /\ memb[patch[p].m] # None =>
         /\ patch[p].before.version <= memb[patch[p].m].version
         /\ patch[p].before.version = memb[patch[p].m].version =>
              patch[p].before = memb[patch[p].m]
    /\ patch[p].after # None => Replaced(patch[p])
PatchesFit == AuditExact /\ \A p \in Patchers : patch[p] # None => PatchFits(p)

-----------------------------------------------------------------------------
LEMMA RolesTyped ==
    /\ SystemRoles \subseteq Roles /\ CustomRoles \subseteq Roles
    /\ \A t \in Tenants : Base(t) \in Roles /\ RolesAt(t) \subseteq SystemRoles
    /\ \A t \in Tenants : Base(t) \in RolesAt(t)
    /\ \A t \in Tenants, k \in SystemKeys : <<k, t>> \in RolesAt(t) /\ <<k, t>> \in Roles
    /\ \A k \in SystemKeys, t \in Tenants : <<k, t>> \notin CustomRoles
  BY DEF Roles, SystemRoles, SystemKeys, RolesAt, Base

LEMMA ProvisionTyped ==
    ASSUME TypeOK, NEW t \in Tenants, Provision(t)
    PROVE  /\ tenants' \subseteq Tenants
           /\ role' \in [Roles -> RoleRow \cup {None}]
           /\ rolePriv' \subseteq Roles \X Privileges
  <1>1. [tenant |-> t, version |-> 1] \in RoleRow
    BY DEF RoleRow
  <1>2. role' \in [Roles -> RoleRow \cup {None}]
    BY <1>1 DEF Provision, TypeOK
  <1>3. \A k \in SystemKeys : {<<k, t>>} \X SystemPrivileges[k] \subseteq Roles \X Privileges
    BY DEF Roles, SystemRoles
  <1>4. rolePriv' \subseteq Roles \X Privileges
    BY <1>3 DEF Provision, TypeOK
  <1> QED BY <1>2, <1>4 DEF Provision, TypeOK

LEMMA NewMembershipTyped ==
    ASSUME NEW t \in Tenants, NEW u \in Users, NEW s \in {"active", "inactive"}
    PROVE  NewMembership(t, u, s) \in Membership
  BY DEF NewMembership, Membership

LEMMA TypeTenants ==
    ASSUME TypeOK, TenantStep
    PROVE  TypeOK'
  <1>1. ASSUME NEW t \in Tenants, CreateTenant(t) PROVE TypeOK'
    BY <1>1, ProvisionTyped DEF TypeOK, CreateTenant
  <1>2. ASSUME NEW t \in Tenants, NEW u \in Users, NEW m \in MembershipIds,
               CreateTenantWithAdmin(t, u, m)
        PROVE  TypeOK'
    <2>1. memb' \in [MembershipIds -> Membership \cup {None}]
      BY <1>2, NewMembershipTyped DEF TypeOK, CreateTenantWithAdmin
    <2>2. <<m, Base(t)>> \in MembershipIds \X Roles
          /\ <<m, <<"tenant_admin", t>>>> \in MembershipIds \X Roles
      BY RolesTyped DEF SystemKeys
    <2> QED BY <1>2, <2>1, <2>2, ProvisionTyped DEF TypeOK, CreateTenantWithAdmin
  <1> QED BY <1>1, <1>2 DEF TenantStep

LEMMA TypeJoins ==
    ASSUME TypeOK, JoinStep
    PROVE  TypeOK'
  <1>1. ASSUME NEW j \in Joiners, NEW m \in MembershipIds, NEW t \in Tenants,
               NEW u \in Users, NEW s \in {"active", "inactive"},
               NEW asked \in SUBSET Roles, StartJoin(j, m, t, u, s, asked)
        PROVE  TypeOK'
    <2>1. SelectedRoles(t, asked) \subseteq Roles
      BY RolesTyped DEF SelectedRoles
    <2>2. [m |-> m, tenant |-> t, user |-> u, status |-> s,
           roles |-> SelectedRoles(t, asked)] \in Join
      BY <2>1 DEF Join
    <2>3. join' \in [Joiners -> Join \cup {None}]
      BY <1>1, <2>2 DEF TypeOK, StartJoin
    <2> QED BY <1>1, <2>3 DEF TypeOK, StartJoin
  <1>2. ASSUME NEW j \in Joiners, CommitJoin(j) PROVE TypeOK'
    <2>1. join[j] \in Join
      BY <1>2 DEF TypeOK, CommitJoin
    <2>2. memb' \in [MembershipIds -> Membership \cup {None}]
      BY <1>2, <2>1, NewMembershipTyped DEF TypeOK, CommitJoin, Join
    <2>3. holds' \subseteq MembershipIds \X Roles /\ users' \subseteq Users
      BY <1>2, <2>1 DEF TypeOK, CommitJoin, Join
    <2> QED BY <1>2, <2>2, <2>3 DEF TypeOK, CommitJoin
  <1>3. ASSUME NEW j \in Joiners, RollBackJoin(j) PROVE TypeOK'
    BY <1>3 DEF TypeOK, RollBackJoin, tables
  <1> QED BY <1>1, <1>2, <1>3 DEF JoinStep

LEMMA TypePatches ==
    ASSUME TypeOK, PatchStep
    PROVE  TypeOK'
  <1>1. ASSUME NEW p \in Patchers, NEW m \in MembershipIds,
               NEW s \in {"active", "inactive"}, NEW v \in 1..MaxVersion,
               StartPatch(p, m, s, v)
        PROVE  TypeOK'
    <2>1. memb[m] \in Membership
      BY <1>1 DEF TypeOK, StartPatch
    <2>2. [m |-> m, status |-> s, version |-> v, before |-> memb[m], replaced |-> None,
          after |-> None] \in Patch
      BY <2>1 DEF Patch
    <2> QED BY <1>1, <2>2 DEF TypeOK, StartPatch, tables
  <1>2. ASSUME NEW p \in Patchers, ApplyPatch(p) PROVE TypeOK'
    <2>1. patch[p] \in Patch
      BY <1>2 DEF TypeOK, ApplyPatch
    <2> DEFINE after == [memb[patch[p].m] EXCEPT !.status = patch[p].status, !.version = @ + 1]
    <2>2. memb[patch[p].m] \in Membership
      BY <1>2, <2>1 DEF TypeOK, ApplyPatch, Patch
    <2>3. after \in Membership
      <3>1. memb[patch[p].m].version + 1 \in Nat \ {0} /\ patch[p].status \in {"active", "inactive"}
        BY <2>1, <2>2 DEF Membership, Patch
      <3> QED BY <2>2, <3>1 DEF Membership
    <2>4. [patch[p] EXCEPT !.replaced = memb[patch[p].m], !.after = after] \in Patch
      <3> HIDE DEF after
      <3> QED BY <2>1, <2>2, <2>3 DEF Patch
    <2>5. /\ memb' = [memb EXCEPT ![patch[p].m] = after]
          /\ patch' = [patch EXCEPT ![p] = [patch[p] EXCEPT !.replaced = memb[patch[p].m],
                                                            !.after = after]]
      BY <1>2 DEF ApplyPatch
    <2> HIDE DEF after
    <2>6. /\ memb' \in [MembershipIds -> Membership \cup {None}]
          /\ patch' \in [Patchers -> Patch \cup {None}]
      BY <2>1, <2>3, <2>4, <2>5 DEF TypeOK, Patch
    <2> QED BY <1>2, <2>6 DEF TypeOK, ApplyPatch
  <1>3. ASSUME NEW p \in Patchers, AuditPatch(p) PROVE TypeOK'
    <2>1. patch[p] \in Patch
      BY <1>3 DEF TypeOK, AuditPatch
    <2>2. patch[p].after \in Membership
      BY <1>3, <2>1 DEF AuditPatch, Patch
    <2>3. [m |-> patch[p].m, sent |-> patch[p].version, before |-> patch[p].before,
           replaced |-> patch[p].replaced, after |-> patch[p].after] \in Audit
      BY <2>1, <2>2 DEF Patch, Audit
    <2> QED BY <1>3, <2>3 DEF TypeOK, AuditPatch
  <1>4. ASSUME NEW p \in Patchers, DropPatch(p) PROVE TypeOK'
    BY <1>4 DEF TypeOK, DropPatch, tables
  <1> QED BY <1>1, <1>2, <1>3, <1>4 DEF PatchStep

LEMMA TypeRoles ==
    ASSUME TypeOK, RoleStep
    PROVE  TypeOK'
  <1> USE DEF TypeOK
  <1>1. ASSUME NEW m \in MembershipIds, NEW r \in Roles, AssignRole(m, r) PROVE TypeOK'
    BY <1>1 DEF AssignRole
  <1>2. ASSUME NEW x \in Removers, NEW m \in MembershipIds, NEW r \in Roles,
               StartRemoval(x, m, r)
        PROVE  TypeOK'
    <2>1. [m |-> m, role |-> r] \in Removal
      BY DEF Removal
    <2> QED BY <1>2, <2>1 DEF StartRemoval, tables
  <1>3. ASSUME NEW x \in Removers, RemoveRole(x) PROVE TypeOK'
    BY <1>3 DEF RemoveRole
  <1>4. ASSUME NEW r \in CustomRoles, NEW t \in Tenants, NEW vs \in SUBSET Privileges,
               CreateRole(r, t, vs)
        PROVE  TypeOK'
    <2>1. [tenant |-> t, version |-> 1] \in RoleRow
      BY DEF RoleRow
    <2> QED BY <1>4, <2>1, RolesTyped DEF CreateRole
  <1>5. ASSUME NEW r \in Roles, PatchRole(r) PROVE TypeOK'
    <2>1. role[r] \in RoleRow
      BY <1>5 DEF PatchRole
    <2>2. [role[r] EXCEPT !.version = @ + 1] \in RoleRow
      BY <2>1 DEF RoleRow
    <2>3. role' = [role EXCEPT ![r] = [role[r] EXCEPT !.version = @ + 1]]
      BY <1>5 DEF PatchRole
    <2> QED BY <1>5, <2>2, <2>3 DEF PatchRole
  <1>6. ASSUME NEW r \in Roles, DeleteRole(r) PROVE TypeOK'
    BY <1>6 DEF DeleteRole
  <1>7. ASSUME NEW r \in Roles, NEW v \in Privileges,
               AddRolePrivilege(r, v) \/ RemoveRolePrivilege(r, v)
        PROVE  TypeOK'
    BY <1>7 DEF AddRolePrivilege, RemoveRolePrivilege
  <1> QED BY <1>1, <1>2, <1>3, <1>4, <1>5, <1>6, <1>7 DEF RoleStep

LEMMA TypeGrants ==
    ASSUME TypeOK, ReplaceStep
    PROVE  TypeOK'
  <1>1. ASSUME NEW x \in Replacers, NEW u \in Users, NEW scopes \in SUBSET Scopes,
               NEW wanted \in SUBSET (Scopes \X Privileges),
               StartReplace(x, u, scopes, wanted)
        PROVE  TypeOK'
    <2>1. GrantsIn(u, scopes) \subseteq Grant
      BY DEF GrantsIn, TypeOK
    <2>2. [user |-> u, scopes |-> scopes, wanted |-> wanted,
           seen |-> GrantsIn(u, scopes), undisturbed |-> TRUE] \in Replace
      BY <2>1 DEF Replace
    <2> QED BY <1>1, <2>2 DEF TypeOK, StartReplace, tables
  <1>2. ASSUME NEW x \in Replacers, CommitReplace(x) PROVE TypeOK'
    <2>1. replace[x] \in Replace
      BY <1>2 DEF TypeOK, CommitReplace
    <2>2. NewGrants(x) \subseteq Grant
      BY <2>1 DEF NewGrants, Grant, Replace, TypeOK
    <2>3. \A y \in Replacers : replace[y] # None =>
            [replace[y] EXCEPT !.undisturbed = FALSE] \in Replace
      <3>1. \A z \in Replace : [z EXCEPT !.undisturbed = FALSE] \in Replace
        BY DEF Replace
      <3>2. \A y \in Replacers : replace[y] # None => replace[y] \in Replace
        BY DEF TypeOK
      <3> QED BY <3>1, <3>2
    <2>4. replace' \in [Replacers -> Replace \cup {None}]
      BY <1>2, <2>3 DEF TypeOK, CommitReplace
    <2>5. grants' \subseteq Grant /\ serial' \in Nat
      BY <1>2, <2>2 DEF TypeOK, CommitReplace
    <2> QED BY <1>2, <2>4, <2>5 DEF TypeOK, CommitReplace
  <1>3. ASSUME NEW x \in Replacers, RollBackReplace(x) PROVE TypeOK'
    BY <1>3 DEF TypeOK, RollBackReplace, tables
  <1>4. ASSUME NEW x \in Replacers, NEW u \in Users, NEW t \in Tenants,
               NEW privileges \in SUBSET Privileges,
               StartReplace(x, u, {t}, {t} \X privileges)
        PROVE  TypeOK'
    <2>1. {t} \in SUBSET Scopes /\ {t} \X privileges \in SUBSET (Scopes \X Privileges)
      BY DEF Scopes
    <2> QED BY <1>1, <1>4, <2>1
  <1>5. Scopes \in SUBSET Scopes
    OBVIOUS
  <1> QED BY <1>1, <1>2, <1>3, <1>4, <1>5 DEF ReplaceStep

LEMMA TypeStep ==
    ASSUME TypeOK, [Next]_vars
    PROVE  TypeOK'
  <1>1. ASSUME NEW m \in MembershipIds, DeleteMembership(m) PROVE TypeOK'
    BY <1>1 DEF TypeOK, DeleteMembership
  <1>2. CASE UNCHANGED vars
    BY <1>2 DEF TypeOK, vars
  <1> QED
    BY <1>1, <1>2, TypeTenants, TypeJoins, TypePatches, TypeRoles, TypeGrants DEF Next

(* Every row and every request stays well-formed (the tables of            *)
(* migration 040 and the handlers of web/routes/identity.ts).              *)
THEOREM TypeCorrect == Spec => []TypeOK
  <1>1. Init => TypeOK
    BY DEF Init, TypeOK
  <1>2. TypeOK /\ [Next]_vars => TypeOK'
    BY TypeStep
  <1> QED BY <1>1, <1>2, PTL DEF Spec

-----------------------------------------------------------------------------
(* Steps that leave the roles alone leave RoleTables alone. *)
LEMMA RoleTablesStep ==
    ASSUME TypeOK, RoleTables, [Next]_vars
    PROVE  RoleTables'
  <1> USE DEF RoleTables
  <1>1. ASSUME NEW t \in Tenants, Provision(t), issued \subseteq issued' PROVE RoleTables'
    <2>1. \A r \in Roles : role'[r] = IF r \in RolesAt(t) THEN [tenant |-> t, version |-> 1]
                                      ELSE role[r]
      BY <1>1 DEF Provision
    <2>2. [tenant |-> t, version |-> 1] # None
      BY DEF RoleRow
    <2>3. \A u \in Tenants, k \in SystemKeys : <<k, u>> \in RolesAt(t) <=> u = t
      BY DEF RolesAt
    <2>4. \A r \in CustomRoles : r \notin RolesAt(t)
      BY DEF RolesAt, SystemRoles
    <2>5. tenants' = tenants \cup {t}
      BY <1>1 DEF Provision
    <2>6. \A u \in Tenants, k \in SystemKeys : <<k, u>> \in Roles
      BY RolesTyped
    <2> QED BY <1>1, <2>1, <2>2, <2>3, <2>4, <2>5, <2>6, RolesTyped
  <1>2. ASSUME UNCHANGED <<role, tenants>>, issued \subseteq issued' PROVE RoleTables'
    BY <1>2
  <1>3. CASE TenantStep
    BY <1>1, <1>3 DEF TenantStep, CreateTenant, CreateTenantWithAdmin
  <1>4. CASE JoinStep
    BY <1>2, <1>4 DEF JoinStep, StartJoin, CommitJoin, RollBackJoin, tables
  <1>5. CASE PatchStep
    BY <1>2, <1>5 DEF PatchStep, StartPatch, ApplyPatch, AuditPatch, DropPatch, tables
  <1>6. CASE ReplaceStep
    BY <1>2, <1>6 DEF ReplaceStep, StartReplace, CommitReplace, RollBackReplace, tables
  <1>7. CASE \E m \in MembershipIds : DeleteMembership(m)
    BY <1>2, <1>7 DEF DeleteMembership
  <1>8. CASE UNCHANGED vars
    BY <1>2, <1>8 DEF vars
  <1>9. CASE RoleStep
    <2>1. ASSUME NEW r \in CustomRoles, NEW t \in Tenants, NEW vs \in SUBSET Privileges,
                 CreateRole(r, t, vs)
          PROVE  RoleTables'
      <3>1. [tenant |-> t, version |-> 1] # None
        BY DEF RoleRow
      <3> QED BY <2>1, <3>1, RolesTyped DEF CreateRole, TypeOK
    <2>2. ASSUME NEW r \in Roles, PatchRole(r) PROVE RoleTables'
      <3>1. role[r] \in RoleRow
        BY <2>2 DEF PatchRole, TypeOK
      <3>2. [role[r] EXCEPT !.version = @ + 1] \in RoleRow
        BY <3>1 DEF RoleRow
      <3>3. role' = [role EXCEPT ![r] = [role[r] EXCEPT !.version = @ + 1]]
        BY <2>2 DEF PatchRole
      <3>4. [role[r] EXCEPT !.version = @ + 1].tenant = role[r].tenant
        BY <3>1 DEF RoleRow
      <3> QED BY <2>2, <3>2, <3>3, <3>4, RolesTyped DEF PatchRole, TypeOK
    <2>3. ASSUME NEW r \in Roles, DeleteRole(r) PROVE RoleTables'
      BY <2>3, RolesTyped DEF DeleteRole, TypeOK
    <2>4. ASSUME NEW m \in MembershipIds, NEW r \in Roles, AssignRole(m, r) PROVE RoleTables'
      BY <1>2, <2>4 DEF AssignRole
    <2>5. ASSUME NEW x \in Removers, RemoveRole(x) PROVE RoleTables'
      BY <1>2, <2>5 DEF RemoveRole
    <2>6. ASSUME NEW x \in Removers, NEW m \in MembershipIds, NEW r \in Roles,
                 StartRemoval(x, m, r)
          PROVE  RoleTables'
      BY <1>2, <2>6 DEF StartRemoval, tables
    <2>7. ASSUME NEW r \in Roles, NEW v \in Privileges,
                 AddRolePrivilege(r, v) \/ RemoveRolePrivilege(r, v)
          PROVE  RoleTables'
      BY <1>2, <2>7 DEF AddRolePrivilege, RemoveRolePrivilege
    <2> QED BY <1>9, <2>1, <2>2, <2>3, <2>4, <2>5, <2>6, <2>7 DEF RoleStep
  <1> QED BY <1>3, <1>4, <1>5, <1>6, <1>7, <1>8, <1>9 DEF Next

(* No step moves a role to another tenant or gives its id to a second one. *)
LEMMA RolesMove ==
    ASSUME TypeOK, RoleTables, [Next]_vars
    PROVE  /\ tenants \subseteq tenants' /\ issued \subseteq issued'
           /\ \A r \in Roles : role[r] # None /\ role'[r] # None =>
                                role'[r].tenant = role[r].tenant
           /\ \A r \in SystemRoles : role[r] # None => role'[r] # None
           /\ \A r \in CustomRoles : r \in issued /\ role[r] = None => role'[r] = None
  <1> DEFINE Goal == /\ tenants \subseteq tenants' /\ issued \subseteq issued'
                     /\ \A r \in Roles : role[r] # None /\ role'[r] # None =>
                                          role'[r].tenant = role[r].tenant
                     /\ \A r \in SystemRoles : role[r] # None => role'[r] # None
                     /\ \A r \in CustomRoles : r \in issued /\ role[r] = None => role'[r] = None
  <1>1. ASSUME NEW t \in Tenants, Provision(t), issued \subseteq issued' PROVE Goal
    <2>1. \A r \in RolesAt(t) : role[r] = None
      BY <1>1 DEF Provision, RoleTables, RolesAt
    <2>2. \A r \in Roles : role'[r] = IF r \in RolesAt(t) THEN [tenant |-> t, version |-> 1]
                                      ELSE role[r]
      BY <1>1 DEF Provision
    <2>3. \A r \in CustomRoles : r \notin RolesAt(t)
      BY DEF RolesAt, SystemRoles
    <2> QED BY <1>1, <2>1, <2>2, <2>3, RolesTyped DEF Provision
  <1>2. ASSUME UNCHANGED <<role, tenants>>, issued \subseteq issued' PROVE Goal
    BY <1>2
  <1>3. CASE TenantStep
    BY <1>1, <1>3 DEF TenantStep, CreateTenant, CreateTenantWithAdmin
  <1>4. CASE JoinStep
    BY <1>2, <1>4 DEF JoinStep, StartJoin, CommitJoin, RollBackJoin, tables
  <1>5. CASE PatchStep
    BY <1>2, <1>5 DEF PatchStep, StartPatch, ApplyPatch, AuditPatch, DropPatch, tables
  <1>6. CASE ReplaceStep
    BY <1>2, <1>6 DEF ReplaceStep, StartReplace, CommitReplace, RollBackReplace, tables
  <1>7. CASE \E m \in MembershipIds : DeleteMembership(m)
    BY <1>2, <1>7 DEF DeleteMembership
  <1>8. CASE UNCHANGED vars
    BY <1>2, <1>8 DEF vars
  <1>9. CASE RoleStep
    <2>1. ASSUME NEW r \in CustomRoles, NEW t \in Tenants, NEW vs \in SUBSET Privileges,
                 CreateRole(r, t, vs)
          PROVE  Goal
      <3>1. role[r] = None
        BY <2>1 DEF CreateRole, RoleTables
      <3> QED BY <2>1, <3>1, RolesTyped DEF CreateRole, TypeOK
    <2>2. ASSUME NEW r \in Roles, PatchRole(r) PROVE Goal
      <3>1. role[r] \in RoleRow
        BY <2>2 DEF PatchRole, TypeOK
      <3>2. [role[r] EXCEPT !.version = @ + 1] \in RoleRow
        BY <3>1 DEF RoleRow
      <3>3. role' = [role EXCEPT ![r] = [role[r] EXCEPT !.version = @ + 1]]
        BY <2>2 DEF PatchRole
      <3>4. [role[r] EXCEPT !.version = @ + 1].tenant = role[r].tenant
        BY <3>1 DEF RoleRow
      <3> QED BY <2>2, <3>2, <3>3, <3>4, RolesTyped DEF PatchRole, TypeOK
    <2>3. ASSUME NEW r \in Roles, DeleteRole(r) PROVE Goal
      BY <2>3, RolesTyped DEF DeleteRole, TypeOK
    <2>4. ASSUME NEW m \in MembershipIds, NEW r \in Roles, AssignRole(m, r) PROVE Goal
      BY <1>2, <2>4 DEF AssignRole
    <2>5. ASSUME NEW x \in Removers, RemoveRole(x) PROVE Goal
      BY <1>2, <2>5 DEF RemoveRole
    <2>6. ASSUME NEW x \in Removers, NEW m \in MembershipIds, NEW r \in Roles,
                 StartRemoval(x, m, r)
          PROVE  Goal
      BY <1>2, <2>6 DEF StartRemoval, tables
    <2>7. ASSUME NEW r \in Roles, NEW v \in Privileges,
                 AddRolePrivilege(r, v) \/ RemoveRolePrivilege(r, v)
          PROVE  Goal
      BY <1>2, <2>7 DEF AddRolePrivilege, RemoveRolePrivilege
    <2> QED BY <1>9, <2>1, <2>2, <2>3, <2>4, <2>5, <2>6, <2>7 DEF RoleStep
  <1> QED BY <1>3, <1>4, <1>5, <1>6, <1>7, <1>8, <1>9 DEF Next

(* A join that a step leaves alone still fits, whatever happens to roles. *)
LEMMA JoinKept ==
    ASSUME TypeOK, RoleTables, [Next]_vars, NEW j \in Joiners, join[j] # None, JoinFits(j),
           join'[j] = join[j], memb'[join[j].m] = None
    PROVE  JoinFits(j)'
  <1>1. join[j] \in Join
    BY DEF TypeOK
  <1>2. join[j].roles \subseteq Roles
    BY <1>1 DEF Join
  <1>3. ASSUME NEW r \in join[j].roles
        PROVE  /\ (r \in CustomRoles /\ r \in issued') \/ (r \in SystemRoles /\ role'[r] # None)
               /\ role'[r] # None => role'[r].tenant = join[j].tenant
    <2>1. /\ (r \in CustomRoles /\ r \in issued) \/ (r \in SystemRoles /\ role[r] # None)
          /\ role[r] # None => role[r].tenant = join[j].tenant
          /\ r \in Roles
      BY <1>2 DEF JoinFits
    <2>2. CASE role[r] # None
      <3>1. r \in CustomRoles => r \in issued
        BY <2>1, RolesTyped DEF SystemRoles
      <3> QED BY <2>1, <2>2, <3>1, RolesMove
    <2>3. CASE role[r] = None
      BY <2>1, <2>3, RolesMove
    <2> QED BY <2>2, <2>3
  <1> QED BY <1>3, RolesMove DEF JoinFits

LEMMA JoinsFitStep ==
    ASSUME TypeOK, RoleTables, JoinsFit, [Next]_vars
    PROVE  JoinsFit'
  <1>0. tenants \subseteq tenants' /\ issued \subseteq issued'
    BY RolesMove
  <1>1. ASSUME UNCHANGED <<memb, join>> PROVE JoinsFit'
    <2>1. ASSUME NEW j \in Joiners, join'[j] # None PROVE JoinFits(j)'
      BY <1>1, <2>1, JoinKept DEF JoinsFit, JoinFits
    <2> QED BY <1>0, <1>1, <2>1 DEF JoinsFit
  <1>2. CASE TenantStep
    <2>1. ASSUME NEW t \in Tenants, NEW u \in Users, NEW m \in MembershipIds,
                 CreateTenantWithAdmin(t, u, m)
          PROVE  JoinsFit'
      <3>1. memb' = [memb EXCEPT ![m] = NewMembership(t, u, "active")] /\ join' = join
            /\ m \notin issued /\ m \in issued' /\ t \in tenants'
        BY <2>1 DEF CreateTenantWithAdmin, Provision
      <3>2. ASSUME NEW j \in Joiners, join'[j] # None PROVE JoinFits(j)'
        <4>1. memb'[join[j].m] = None
          BY <3>1, <3>2 DEF JoinsFit, JoinFits, TypeOK
        <4> QED BY <3>1, <3>2, <4>1, JoinKept DEF JoinsFit
      <3>3. NewMembership(t, u, "active").tenant = t
        BY DEF NewMembership
      <3> QED BY <1>0, <3>1, <3>2, <3>3 DEF JoinsFit, TypeOK
    <2> QED BY <1>1, <1>2, <2>1 DEF TenantStep, CreateTenant
  <1>3. CASE JoinStep
    <2>1. ASSUME NEW j \in Joiners, NEW m \in MembershipIds, NEW t \in Tenants,
                 NEW u \in Users, NEW s \in {"active", "inactive"},
                 NEW asked \in SUBSET Roles, StartJoin(j, m, t, u, s, asked)
          PROVE  JoinsFit'
      <3> DEFINE new == [m |-> m, tenant |-> t, user |-> u, status |-> s,
                         roles |-> SelectedRoles(t, asked)]
      <3>1. /\ join' = [join EXCEPT ![j] = new] /\ join[j] = None
            /\ issued' = issued \cup {m} /\ m \notin issued
            /\ t \in tenants /\ UNCHANGED <<memb, tenants, role>>
        BY <2>1 DEF StartJoin
      <3>2. /\ new.m = m /\ new.tenant = t /\ new.roles = SelectedRoles(t, asked)
        OBVIOUS
      <3>3. /\ Base(t) \in SelectedRoles(t, asked)
            /\ \A r \in SelectedRoles(t, asked) :
                 /\ role[r] # None /\ role[r].tenant = t
                 /\ (r \in CustomRoles /\ r \in issued) \/ r \in SystemRoles
        <4>1. role[Base(t)] # None /\ role[Base(t)].tenant = t
          BY <3>1 DEF RoleTables, Base, SystemKeys
        <4>2. \A r \in asked \cup {Base(t)} : r \in Roles
          BY RolesTyped
        <4> QED BY <4>1, <4>2 DEF SelectedRoles, RoleTables, Roles
      <3> HIDE DEF new
      <3>4. JoinFits(j)'
        BY <3>1, <3>2, <3>3 DEF JoinFits, JoinsFit, TypeOK
      <3>5. ASSUME NEW i \in Joiners, join'[i] # None PROVE JoinFits(i)'
        <4>1. CASE i = j
          BY <3>4, <4>1
        <4>2. CASE i # j
          <5>1. join'[i] = join[i] /\ join[i] # None
            BY <3>1, <3>5, <4>2 DEF TypeOK
          <5> QED BY <3>1, <5>1, JoinKept DEF JoinsFit, JoinFits
        <4> QED BY <4>1, <4>2
      <3>6. \A i, k \in Joiners :
              join'[i] # None /\ join'[k] # None /\ join'[i].m = join'[k].m => i = k
        BY <3>1, <3>2 DEF JoinsFit, JoinFits, TypeOK
      <3> QED BY <3>1, <3>5, <3>6 DEF JoinsFit
    <2>2. ASSUME NEW j \in Joiners, CommitJoin(j) PROVE JoinsFit'
      <3> DEFINE new == NewMembership(join[j].tenant, join[j].user, join[j].status)
      <3>1. /\ memb' = [memb EXCEPT ![join[j].m] = new]
            /\ join' = [join EXCEPT ![j] = None] /\ join[j] # None
            /\ UNCHANGED <<issued, tenants, role>>
        BY <2>2 DEF CommitJoin
      <3>2. new.tenant = join[j].tenant
        BY DEF NewMembership
      <3> HIDE DEF new
      <3>3. ASSUME NEW i \in Joiners, join'[i] # None PROVE JoinFits(i)'
        <4>1. i # j /\ join'[i] = join[i] /\ join[i] # None
          BY <3>1, <3>3 DEF TypeOK
        <4>2. join[i].m # join[j].m
          BY <3>1, <4>1 DEF JoinsFit
        <4>3. memb'[join[i].m] = None
          BY <3>1, <4>1, <4>2 DEF JoinsFit, JoinFits, TypeOK
        <4> QED BY <4>1, <4>3, JoinKept DEF JoinsFit
      <3>4. \A m \in MembershipIds : memb'[m] # None =>
              m \in issued' /\ memb'[m].tenant \in tenants'
        BY <3>1, <3>2 DEF JoinsFit, JoinFits, TypeOK
      <3>5. \A i \in Joiners : join'[i] # None => join'[i] = join[i] /\ join[i] # None
        BY <3>1 DEF TypeOK
      <3> QED BY <3>3, <3>4, <3>5 DEF JoinsFit
    <2>3. ASSUME NEW j \in Joiners, RollBackJoin(j) PROVE JoinsFit'
      <3>1. /\ UNCHANGED <<memb, issued, tenants>>
            /\ \A i \in Joiners : join'[i] # None => join'[i] = join[i] /\ join[i] # None
        BY <2>3 DEF RollBackJoin, TypeOK, tables
      <3>2. ASSUME NEW i \in Joiners, join'[i] # None PROVE JoinFits(i)'
        BY <3>1, <3>2, JoinKept DEF JoinsFit, JoinFits
      <3> QED BY <3>1, <3>2 DEF JoinsFit
    <2> QED BY <1>3, <2>1, <2>2, <2>3 DEF JoinStep
  <1>4. CASE PatchStep
    <2>1. ASSUME NEW p \in Patchers, ApplyPatch(p) PROVE JoinsFit'
      <3>1. patch[p] \in Patch
        BY <2>1 DEF ApplyPatch, TypeOK
      <3>2. memb[patch[p].m] \in Membership /\ patch[p].m \in MembershipIds
        BY <2>1, <3>1 DEF ApplyPatch, TypeOK, Patch
      <3> DEFINE after == [memb[patch[p].m] EXCEPT !.status = patch[p].status, !.version = @ + 1]
      <3>3. memb' = [memb EXCEPT ![patch[p].m] = after] /\ join' = join
            /\ memb[patch[p].m] # None
        BY <2>1 DEF ApplyPatch
      <3>4. after.tenant = memb[patch[p].m].tenant
        BY <3>2 DEF Membership
      <3> HIDE DEF after
      <3>5. ASSUME NEW j \in Joiners, join'[j] # None PROVE JoinFits(j)'
        <4>1. memb'[join[j].m] = None
          BY <3>2, <3>3, <3>5 DEF JoinsFit, JoinFits, TypeOK
        <4> QED BY <3>3, <3>5, <4>1, JoinKept DEF JoinsFit
      <3>6. \A m \in MembershipIds : memb'[m] # None =>
              m \in issued' /\ memb'[m].tenant \in tenants'
        BY <1>0, <3>2, <3>3, <3>4 DEF JoinsFit, TypeOK
      <3> QED BY <3>3, <3>5, <3>6 DEF JoinsFit
    <2> QED BY <1>1, <1>4, <2>1 DEF PatchStep, StartPatch, AuditPatch, DropPatch, tables
  <1>5. CASE ReplaceStep
    BY <1>1, <1>5 DEF ReplaceStep, StartReplace, CommitReplace, RollBackReplace, tables
  <1>6. ASSUME NEW m \in MembershipIds, DeleteMembership(m) PROVE JoinsFit'
    <2>1. memb' = [memb EXCEPT ![m] = None] /\ join' = join
      BY <1>6 DEF DeleteMembership
    <2>2. \A n \in MembershipIds : memb'[n] # None => memb'[n] = memb[n] /\ memb[n] # None
      BY <2>1 DEF TypeOK
    <2>3. ASSUME NEW j \in Joiners, join'[j] # None PROVE JoinFits(j)'
      <3>1. join[j].m \in MembershipIds
        BY <2>1, <2>3 DEF TypeOK, Join
      <3> QED BY <2>1, <2>2, <2>3, <3>1, JoinKept DEF JoinsFit, JoinFits
    <2> QED BY <1>0, <2>1, <2>2, <2>3 DEF JoinsFit
  <1>7. CASE RoleStep
    <2>1. UNCHANGED <<memb, join>>
      BY <1>7 DEF RoleStep, AssignRole, StartRemoval, RemoveRole, CreateRole, PatchRole,
                  DeleteRole, AddRolePrivilege, RemoveRolePrivilege, tables
    <2> QED BY <1>1, <2>1
  <1>8. CASE UNCHANGED vars
    BY <1>1, <1>8 DEF vars
  <1> QED BY <1>2, <1>3, <1>4, <1>5, <1>6, <1>7, <1>8 DEF Next

-----------------------------------------------------------------------------
(* Steps that touch neither memberships nor assignments keep both sound,   *)
(* if they delete no role that is assigned.                                *)
LEMMA AssignedFrame ==
    ASSUME TypeOK, RoleTables, Assigned, [Next]_vars,
           UNCHANGED <<memb, holds>>, RemovalsSpareBase',
           \A h \in holds : role'[h[2]] # None
    PROVE  Assigned'
  <1>1. ASSUME NEW h \in holds
        PROVE  memb[h[1]] # None /\ role'[h[2]] # None
               /\ memb[h[1]].tenant = role'[h[2]].tenant
    BY RolesMove DEF Assigned, AssignmentsSound, TypeOK
  <1> QED BY <1>1 DEF Assigned, AssignmentsSound, BaseRoleKept

LEMMA AssignedStep ==
    ASSUME TypeOK, RoleTables, JoinsFit, Assigned, [Next]_vars
    PROVE  Assigned'
  <1>1. ASSUME UNCHANGED <<memb, holds, role, removal>> PROVE Assigned'
    BY <1>1 DEF Assigned, AssignmentsSound, BaseRoleKept, RemovalsSpareBase
  <1>2. ASSUME NEW t \in Tenants, NEW u \in Users, NEW m \in MembershipIds,
               CreateTenantWithAdmin(t, u, m)
        PROVE  Assigned'
    <2>1. /\ memb' = [memb EXCEPT ![m] = NewMembership(t, u, "active")]
          /\ holds' = holds \cup {<<m, Base(t)>>, <<m, <<"tenant_admin", t>>>>}
          /\ m \notin issued /\ UNCHANGED removal /\ t \notin tenants
          /\ role' = [r \in Roles |-> IF r \in RolesAt(t) THEN [tenant |-> t, version |-> 1]
                                                          ELSE role[r]]
      BY <1>2 DEF CreateTenantWithAdmin, Provision
    <2>2. NewMembership(t, u, "active").tenant = t /\ NewMembership(t, u, "active") # None
      BY NewMembershipTyped DEF NewMembership
    <2>3. \A h \in holds : h[1] # m /\ h[1] \in MembershipIds /\ h[2] \in Roles
      BY <2>1 DEF Assigned, AssignmentsSound, JoinsFit, TypeOK
    <2>4. \A h \in holds : h[2] \notin RolesAt(t)
      BY <2>1, <2>3 DEF Assigned, AssignmentsSound, RoleTables, RolesAt
    <2>5. [tenant |-> t, version |-> 1] # None
      BY DEF RoleRow
    <2>6. \A h \in {<<m, Base(t)>>, <<m, <<"tenant_admin", t>>>>} :
            h[1] = m /\ h[2] \in RolesAt(t) /\ h[2] \in Roles
      <3>1. Base(t) \in RolesAt(t) /\ <<"tenant_admin", t>> \in RolesAt(t)
        BY DEF RolesAt, SystemKeys, Base
      <3>2. Base(t) \in Roles /\ <<"tenant_admin", t>> \in Roles
        BY <3>1, RolesTyped
      <3> QED BY <3>1, <3>2
    <2>7. AssignmentsSound'
      <3>1. ASSUME NEW h \in holds
            PROVE  memb'[h[1]] # None /\ role'[h[2]] # None
                   /\ memb'[h[1]].tenant = role'[h[2]].tenant
        BY <2>1, <2>3, <2>4 DEF Assigned, AssignmentsSound, TypeOK
      <3>2. ASSUME NEW h \in {<<m, Base(t)>>, <<m, <<"tenant_admin", t>>>>}
            PROVE  memb'[h[1]] # None /\ role'[h[2]] # None
                   /\ memb'[h[1]].tenant = role'[h[2]].tenant
        BY <2>1, <2>2, <2>5, <2>6 DEF TypeOK
      <3> QED BY <2>1, <3>1, <3>2 DEF AssignmentsSound
    <2>8. BaseRoleKept'
      <3>1. ASSUME NEW n \in MembershipIds, memb'[n] # None
            PROVE  <<n, Base(memb'[n].tenant)>> \in holds'
        BY <2>1, <2>2, <3>1 DEF Assigned, BaseRoleKept, TypeOK
      <3> QED BY <3>1 DEF BaseRoleKept
    <2> QED BY <2>1, <2>7, <2>8 DEF Assigned, RemovalsSpareBase
  <1>3. ASSUME NEW t \in Tenants, CreateTenant(t) PROVE Assigned'
    <2>1. \A h \in holds : role'[h[2]] # None
      BY <1>3, RolesMove DEF Assigned, AssignmentsSound, TypeOK, CreateTenant, Provision, RoleRow
    <2> QED BY <1>3, <2>1, AssignedFrame DEF CreateTenant, Assigned, RemovalsSpareBase
  <1>4. ASSUME NEW j \in Joiners, CommitJoin(j) PROVE Assigned'
    <2> DEFINE new == NewMembership(join[j].tenant, join[j].user, join[j].status)
    <2>0. join[j] \in Join /\ join[j] # None
      BY <1>4 DEF TypeOK, CommitJoin
    <2>1. /\ memb' = [memb EXCEPT ![join[j].m] = new]
          /\ holds' = holds \cup ({join[j].m} \X join[j].roles)
          /\ UNCHANGED <<role, removal>> /\ \A r \in join[j].roles : role[r] # None
          /\ memb[join[j].m] = None /\ join[j].m \in MembershipIds
      BY <1>4, <2>0 DEF CommitJoin, Joinable, JoinsFit, JoinFits, Join
    <2>2. new.tenant = join[j].tenant /\ new # None
      <3>1. new \in Membership
        BY <2>0, NewMembershipTyped DEF Join
      <3>2. new.tenant = join[j].tenant
        BY DEF NewMembership
      <3> HIDE DEF new
      <3> QED BY <3>1, <3>2
    <2> HIDE DEF new
    <2>3. AssignmentsSound'
      <3>1. ASSUME NEW h \in holds
            PROVE  memb'[h[1]] # None /\ role'[h[2]] # None
                   /\ memb'[h[1]].tenant = role'[h[2]].tenant
        BY <2>1 DEF Assigned, AssignmentsSound, TypeOK
      <3>2. ASSUME NEW r \in join[j].roles
            PROVE  memb'[join[j].m] # None /\ role'[r] # None
                   /\ memb'[join[j].m].tenant = role'[r].tenant
        BY <2>0, <2>1, <2>2 DEF TypeOK, JoinsFit, JoinFits
      <3> QED BY <2>1, <3>1, <3>2 DEF AssignmentsSound
    <2>4. ASSUME NEW n \in MembershipIds, memb'[n] # None
          PROVE  <<n, Base(memb'[n].tenant)>> \in holds'
      <3>1. CASE n = join[j].m
        <4>1. memb'[n].tenant = join[j].tenant
          BY <2>1, <2>2, <3>1 DEF TypeOK
        <4>2. Base(join[j].tenant) \in join[j].roles
          BY <2>0 DEF JoinsFit, JoinFits
        <4> QED BY <2>1, <3>1, <4>1, <4>2
      <3>2. CASE n # join[j].m
        BY <2>1, <2>4, <3>2 DEF Assigned, BaseRoleKept, TypeOK
      <3> QED BY <3>1, <3>2
    <2> QED BY <2>1, <2>3, <2>4 DEF Assigned, BaseRoleKept, RemovalsSpareBase
  <1>5. ASSUME NEW p \in Patchers, ApplyPatch(p) PROVE Assigned'
    <2>1. patch[p] \in Patch
      BY <1>5 DEF ApplyPatch, TypeOK
    <2>2. memb[patch[p].m] \in Membership /\ patch[p].m \in MembershipIds
      BY <1>5, <2>1 DEF ApplyPatch, TypeOK, Patch
    <2> DEFINE after == [memb[patch[p].m] EXCEPT !.status = patch[p].status, !.version = @ + 1]
    <2>3. /\ memb' = [memb EXCEPT ![patch[p].m] = after]
          /\ memb[patch[p].m] # None /\ UNCHANGED <<role, holds, removal>>
      BY <1>5 DEF ApplyPatch
    <2>4. after.tenant = memb[patch[p].m].tenant /\ after # None
      <3>1. memb[patch[p].m].version + 1 \in Nat \ {0} /\ patch[p].status \in {"active", "inactive"}
        BY <2>1, <2>2 DEF Membership, Patch
      <3>2. after \in Membership
        BY <2>2, <3>1 DEF Membership
      <3>3. after # None
        <4> HIDE DEF after
        <4> QED BY <3>2
      <3> QED BY <2>2, <3>3 DEF Membership
    <2> HIDE DEF after
    <2>5. \A n \in MembershipIds :
            /\ memb'[n] # None <=> memb[n] # None
            /\ memb[n] # None => memb'[n].tenant = memb[n].tenant
      BY <2>2, <2>3, <2>4 DEF TypeOK
    <2> QED BY <2>3, <2>5 DEF Assigned, AssignmentsSound, BaseRoleKept, RemovalsSpareBase, TypeOK
  <1>6. ASSUME NEW m \in MembershipIds, DeleteMembership(m) PROVE Assigned'
    BY <1>6 DEF DeleteMembership, Assigned, AssignmentsSound, BaseRoleKept,
                RemovalsSpareBase, TypeOK
  <1>7. CASE RoleStep
    <2>1. ASSUME NEW r \in CustomRoles, NEW t \in Tenants, NEW vs \in SUBSET Privileges,
                 CreateRole(r, t, vs)
          PROVE  Assigned'
      <3>1. [tenant |-> t, version |-> 1] # None
        BY DEF RoleRow
      <3>2. \A h \in holds : role'[h[2]] # None
        BY <2>1, <3>1, RolesTyped DEF CreateRole, Assigned, AssignmentsSound, TypeOK
      <3> QED BY <2>1, <3>2, AssignedFrame DEF CreateRole, Assigned, RemovalsSpareBase
    <2>2. ASSUME NEW r \in Roles, PatchRole(r) PROVE Assigned'
      <3>1. role[r] \in RoleRow
        BY <2>2 DEF PatchRole, TypeOK
      <3>2. [role[r] EXCEPT !.version = @ + 1] \in RoleRow
        BY <3>1 DEF RoleRow
      <3>3. role' = [role EXCEPT ![r] = [role[r] EXCEPT !.version = @ + 1]]
        BY <2>2 DEF PatchRole
      <3>4. \A h \in holds : role'[h[2]] # None
        BY <3>2, <3>3 DEF Assigned, AssignmentsSound, TypeOK
      <3> QED BY <2>2, <3>4, AssignedFrame DEF PatchRole, Assigned, RemovalsSpareBase
    <2>3. ASSUME NEW r \in Roles, DeleteRole(r) PROVE Assigned'
      <3>1. \A h \in holds : h[2] # r
        BY <2>3 DEF DeleteRole, TypeOK
      <3>2. \A h \in holds : role'[h[2]] # None
        BY <2>3, <3>1 DEF DeleteRole, Assigned, AssignmentsSound, TypeOK
      <3> QED BY <2>3, <3>2, AssignedFrame DEF DeleteRole, Assigned, RemovalsSpareBase
    <2>4. ASSUME NEW m \in MembershipIds, NEW r \in Roles, AssignRole(m, r) PROVE Assigned'
      BY <2>4 DEF AssignRole, Assigned, AssignmentsSound, BaseRoleKept, RemovalsSpareBase
    <2>5. ASSUME NEW x \in Removers, RemoveRole(x) PROVE Assigned'
      <3>1. \A t \in Tenants : removal[x].role # Base(t)
        BY <2>5 DEF RemoveRole, Assigned, RemovalsSpareBase
      <3>2. /\ holds' = holds \ {<<removal[x].m, removal[x].role>>} /\ UNCHANGED <<memb, role>>
            /\ removal' = [removal EXCEPT ![x] = None]
        BY <2>5 DEF RemoveRole
      <3>3. \A n \in MembershipIds : memb[n] # None => memb[n].tenant \in Tenants
        BY DEF TypeOK, Membership
      <3>4. BaseRoleKept'
        BY <3>1, <3>2, <3>3 DEF Assigned, BaseRoleKept
      <3>5. RemovalsSpareBase'
        BY <3>2 DEF Assigned, RemovalsSpareBase, TypeOK
      <3> QED BY <3>2, <3>4, <3>5 DEF Assigned, AssignmentsSound
    <2>6. ASSUME NEW x \in Removers, NEW m \in MembershipIds, NEW r \in Roles,
                 StartRemoval(x, m, r)
          PROVE  Assigned'
      <3>1. \A t \in Tenants : r # Base(t)
        BY <2>6 DEF StartRemoval, RoleTables, Base, SystemKeys
      <3>2. removal' = [removal EXCEPT ![x] = [m |-> m, role |-> r]]
            /\ UNCHANGED <<memb, role, holds>>
        BY <2>6 DEF StartRemoval, tables
      <3>3. RemovalsSpareBase'
        BY <3>1, <3>2 DEF Assigned, RemovalsSpareBase, TypeOK
      <3> QED BY <3>2, <3>3 DEF Assigned, AssignmentsSound, BaseRoleKept
    <2>7. ASSUME NEW r \in Roles, NEW v \in Privileges,
                 AddRolePrivilege(r, v) \/ RemoveRolePrivilege(r, v)
          PROVE  Assigned'
      BY <1>1, <2>7 DEF AddRolePrivilege, RemoveRolePrivilege
    <2> QED BY <1>7, <2>1, <2>2, <2>3, <2>4, <2>5, <2>6, <2>7 DEF RoleStep
  <1>8. CASE UNCHANGED vars
    BY <1>1, <1>8 DEF vars
  <1>9. ASSUME NEW j \in Joiners, NEW m \in MembershipIds, NEW t \in Tenants,
               NEW u \in Users, NEW s \in {"active", "inactive"},
               NEW asked \in SUBSET Roles, StartJoin(j, m, t, u, s, asked)
        PROVE  Assigned'
    BY <1>1, <1>9 DEF StartJoin
  <1>10. ASSUME NEW j \in Joiners, RollBackJoin(j) PROVE Assigned'
    BY <1>1, <1>10 DEF RollBackJoin, tables
  <1>11. CASE PatchStep
    BY <1>1, <1>5, <1>11 DEF PatchStep, StartPatch, AuditPatch, DropPatch, tables
  <1>12. CASE ReplaceStep
    BY <1>1, <1>12 DEF ReplaceStep, StartReplace, CommitReplace, RollBackReplace, tables
  <1>13. CASE TenantStep
    BY <1>2, <1>3, <1>13 DEF TenantStep
  <1>14. CASE JoinStep
    BY <1>4, <1>9, <1>10, <1>14 DEF JoinStep
  <1> QED BY <1>6, <1>7, <1>8, <1>11, <1>12, <1>13, <1>14 DEF Next

-----------------------------------------------------------------------------
(* The memberships that a step leaves unchanged, moves or adds. *)
LEMMA PatchedMembership ==
    ASSUME TypeOK, NEW p \in Patchers, ApplyPatch(p)
    PROVE  /\ patch[p] \in Patch /\ patch[p].m \in MembershipIds
           /\ memb[patch[p].m] \in Membership
           /\ memb' = [memb EXCEPT ![patch[p].m] =
                [memb[patch[p].m] EXCEPT !.status = patch[p].status, !.version = @ + 1]]
           /\ memb'[patch[p].m] \in Membership
           /\ memb'[patch[p].m].tenant = memb[patch[p].m].tenant
           /\ memb'[patch[p].m].user = memb[patch[p].m].user
           /\ memb'[patch[p].m].version = memb[patch[p].m].version + 1
  <1>1. patch[p] \in Patch
    BY DEF ApplyPatch, TypeOK
  <1>2. memb[patch[p].m] \in Membership /\ patch[p].m \in MembershipIds
    BY <1>1 DEF ApplyPatch, TypeOK, Patch
  <1> DEFINE after == [memb[patch[p].m] EXCEPT !.status = patch[p].status, !.version = @ + 1]
  <1>3. memb' = [memb EXCEPT ![patch[p].m] = after]
    BY DEF ApplyPatch
  <1>4. memb[patch[p].m].version + 1 \in Nat \ {0} /\ patch[p].status \in {"active", "inactive"}
    BY <1>1, <1>2 DEF Membership, Patch
  <1>5. /\ after \in Membership /\ after.tenant = memb[patch[p].m].tenant
        /\ after.user = memb[patch[p].m].user
        /\ after.version = memb[patch[p].m].version + 1
    BY <1>2, <1>4 DEF Membership
  <1>6. memb'[patch[p].m] = after
    BY <1>2, <1>3 DEF TypeOK
  <1> QED BY <1>1, <1>2, <1>3, <1>5, <1>6

LEMMA OneMembershipStep ==
    ASSUME TypeOK, JoinsFit, OneMembership, [Next]_vars,
           \A t \in Tenants \ tenants : \A m \in MembershipIds :
              memb[m] # None => memb[m].tenant # t
    PROVE  OneMembership'
  <1>1. ASSUME UNCHANGED memb PROVE OneMembership'
    BY <1>1 DEF OneMembership
  <1>2. CASE TenantStep
    <2>1. ASSUME NEW t \in Tenants, NEW u \in Users, NEW m \in MembershipIds,
                 CreateTenantWithAdmin(t, u, m)
          PROVE  OneMembership'
      BY <2>1 DEF CreateTenantWithAdmin, Provision, OneMembership, TypeOK, NewMembership
    <2> QED BY <1>1, <1>2, <2>1 DEF TenantStep, CreateTenant
  <1>3. CASE JoinStep
    <2>1. ASSUME NEW j \in Joiners, CommitJoin(j) PROVE OneMembership'
      BY <2>1 DEF CommitJoin, Joinable, OneMembership, TypeOK, NewMembership
    <2> QED BY <1>1, <1>3, <2>1 DEF JoinStep, StartJoin, RollBackJoin, tables
  <1>4. CASE PatchStep
    <2>1. ASSUME NEW p \in Patchers, ApplyPatch(p) PROVE OneMembership'
      <3>1. \A n \in MembershipIds : memb'[n] # None =>
              /\ memb[n] # None
              /\ memb'[n].tenant = memb[n].tenant /\ memb'[n].user = memb[n].user
        <4>1. /\ patch[p].m \in MembershipIds /\ memb[patch[p].m] # None
              /\ \A n \in MembershipIds : n # patch[p].m => memb'[n] = memb[n]
              /\ memb'[patch[p].m].tenant = memb[patch[p].m].tenant
              /\ memb'[patch[p].m].user = memb[patch[p].m].user
          BY <2>1, PatchedMembership DEF ApplyPatch, TypeOK
        <4> QED BY <4>1
      <3> QED BY <3>1 DEF OneMembership
    <2> QED BY <1>1, <1>4, <2>1 DEF PatchStep, StartPatch, AuditPatch, DropPatch, tables
  <1>5. CASE ReplaceStep
    BY <1>1, <1>5 DEF ReplaceStep, StartReplace, CommitReplace, RollBackReplace, tables
  <1>6. ASSUME NEW m \in MembershipIds, DeleteMembership(m) PROVE OneMembership'
    BY <1>6 DEF DeleteMembership, OneMembership, TypeOK
  <1>7. CASE RoleStep
    <2>1. UNCHANGED memb
      BY <1>7 DEF RoleStep, AssignRole, StartRemoval, RemoveRole, CreateRole, PatchRole,
                  DeleteRole, AddRolePrivilege, RemoveRolePrivilege, tables
    <2> QED BY <1>1, <2>1
  <1>8. CASE UNCHANGED vars
    BY <1>1, <1>8 DEF vars
  <1> QED BY <1>2, <1>3, <1>4, <1>5, <1>6, <1>7, <1>8 DEF Next

-----------------------------------------------------------------------------
LEMMA PrivilegesFitStep ==
    ASSUME TypeOK, RoleTables, PrivilegesFit, [Next]_vars
    PROVE  PrivilegesFit'
  <1> USE DEF PrivilegesFit
  <1>1. ASSUME UNCHANGED <<rolePriv, tenants, role>> PROVE PrivilegesFit'
    BY <1>1 DEF SystemRolesFixed
  <1>2. ASSUME NEW t \in Tenants, Provision(t) PROVE PrivilegesFit'
    <2> DEFINE added == UNION {{<<k, t>>} \X SystemPrivileges[k] : k \in SystemKeys}
    <2>1. /\ tenants' = tenants \cup {t} /\ t \notin tenants
          /\ rolePriv' = rolePriv \cup added
          /\ \A r \in Roles : role'[r] = IF r \in RolesAt(t) THEN [tenant |-> t, version |-> 1]
                                         ELSE role[r]
      BY <1>2 DEF Provision
    <2>2. \A u \in Tenants, k \in SystemKeys, v \in Privileges :
            <<<<k, u>>, v>> \in added <=> u = t /\ v \in SystemPrivileges[k]
      OBVIOUS
    <2>3. \A rp \in added : rp[1] \in RolesAt(t) /\ rp[1] \in Roles
      BY RolesTyped DEF RolesAt
    <2>4. \A rp \in rolePriv : rp[1] \in Roles /\ rp[1] \notin RolesAt(t)
      BY <2>1 DEF TypeOK, RoleTables, RolesAt
    <2>5. [tenant |-> t, version |-> 1] # None
      BY DEF RoleRow
    <2> HIDE DEF added
    <2>6. ASSUME NEW u \in tenants', NEW k \in SystemKeys, NEW v \in Privileges
          PROVE  <<<<k, u>>, v>> \in rolePriv' <=> v \in SystemPrivileges[k]
      <3>1. CASE u = t
        <4>1. <<k, t>> \in RolesAt(t)
          BY DEF RolesAt
        <4>2. <<<<k, t>>, v>> \notin rolePriv
          BY <2>4, <4>1
        <4> QED BY <2>1, <2>2, <3>1, <4>2
      <3>2. CASE u # t
        BY <2>1, <2>2, <3>2 DEF SystemRolesFixed, TypeOK
      <3> QED BY <3>1, <3>2
    <2>7. \A rp \in rolePriv' : role'[rp[1]] # None
      BY <2>1, <2>3, <2>4, <2>5
    <2> QED BY <2>6, <2>7 DEF SystemRolesFixed
  <1>3. CASE TenantStep
    BY <1>2, <1>3 DEF TenantStep, CreateTenant, CreateTenantWithAdmin
  <1>4. CASE JoinStep
    BY <1>1, <1>4 DEF JoinStep, StartJoin, CommitJoin, RollBackJoin, tables
  <1>5. CASE PatchStep
    BY <1>1, <1>5 DEF PatchStep, StartPatch, ApplyPatch, AuditPatch, DropPatch, tables
  <1>6. CASE ReplaceStep
    BY <1>1, <1>6 DEF ReplaceStep, StartReplace, CommitReplace, RollBackReplace, tables
  <1>7. ASSUME NEW m \in MembershipIds, DeleteMembership(m) PROVE PrivilegesFit'
    BY <1>1, <1>7 DEF DeleteMembership
  <1>8. CASE UNCHANGED vars
    BY <1>1, <1>8 DEF vars
  <1>9. CASE RoleStep
    <2>0. \A t \in Tenants, k \in SystemKeys, r \in CustomRoles : <<k, t>> # r
      BY RolesTyped
    <2>1. ASSUME NEW r \in CustomRoles, NEW t \in Tenants, NEW vs \in SUBSET Privileges,
                 CreateRole(r, t, vs)
          PROVE  PrivilegesFit'
      <3>1. [tenant |-> t, version |-> 1] # None
        BY DEF RoleRow
      <3>2. /\ rolePriv' = rolePriv \cup ({r} \X vs) /\ UNCHANGED tenants
            /\ role' = [role EXCEPT ![r] = [tenant |-> t, version |-> 1]]
        BY <2>1 DEF CreateRole
      <3>3. SystemRolesFixed'
        <4>1. \A u \in Tenants, k \in SystemKeys, v \in Privileges :
                <<<<k, u>>, v>> \notin {r} \X vs
          BY <2>0
        <4> QED BY <3>2, <4>1 DEF SystemRolesFixed, TypeOK
      <3>4. \A rp \in rolePriv' : role'[rp[1]] # None
        BY <3>1, <3>2, RolesTyped DEF TypeOK
      <3> QED BY <3>3, <3>4
    <2>2. ASSUME NEW r \in Roles, PatchRole(r) PROVE PrivilegesFit'
      <3>1. role[r] \in RoleRow
        BY <2>2 DEF PatchRole, TypeOK
      <3>2. [role[r] EXCEPT !.version = @ + 1] \in RoleRow
        BY <3>1 DEF RoleRow
      <3>3. role' = [role EXCEPT ![r] = [role[r] EXCEPT !.version = @ + 1]]
        BY <2>2 DEF PatchRole
      <3> QED BY <2>2, <3>2, <3>3 DEF PatchRole, SystemRolesFixed, TypeOK
    <2>3. ASSUME NEW r \in Roles, DeleteRole(r) PROVE PrivilegesFit'
      <3>1. /\ rolePriv' = {rp \in rolePriv : rp[1] # r} /\ UNCHANGED tenants
            /\ role' = [role EXCEPT ![r] = None] /\ r \in CustomRoles
        BY <2>3 DEF DeleteRole
      <3>2. SystemRolesFixed'
        BY <2>0, <3>1 DEF SystemRolesFixed, TypeOK
      <3>3. \A rp \in rolePriv' : role'[rp[1]] # None
        BY <3>1 DEF TypeOK
      <3> QED BY <3>2, <3>3
    <2>4. ASSUME NEW m \in MembershipIds, NEW r \in Roles, AssignRole(m, r) PROVE PrivilegesFit'
      BY <1>1, <2>4 DEF AssignRole
    <2>5. ASSUME NEW x \in Removers, RemoveRole(x) PROVE PrivilegesFit'
      BY <1>1, <2>5 DEF RemoveRole
    <2>6. ASSUME NEW x \in Removers, NEW m \in MembershipIds, NEW r \in Roles,
                 StartRemoval(x, m, r)
          PROVE  PrivilegesFit'
      BY <1>1, <2>6 DEF StartRemoval, tables
    <2>7. ASSUME NEW r \in Roles, NEW v \in Privileges, AddRolePrivilege(r, v)
          PROVE  PrivilegesFit'
      BY <2>0, <2>7 DEF AddRolePrivilege, SystemRolesFixed, TypeOK
    <2>8. ASSUME NEW r \in Roles, NEW v \in Privileges, RemoveRolePrivilege(r, v)
          PROVE  PrivilegesFit'
      BY <2>0, <2>8 DEF RemoveRolePrivilege, SystemRolesFixed, TypeOK
    <2> QED BY <1>9, <2>1, <2>2, <2>3, <2>4, <2>5, <2>6, <2>7, <2>8 DEF RoleStep
  <1> QED BY <1>3, <1>4, <1>5, <1>6, <1>7, <1>8, <1>9 DEF Next

-----------------------------------------------------------------------------
(* An update under way keeps knowing the row when the row only gains       *)
(* versions, or goes.                                                      *)
LEMMA PatchKept ==
    ASSUME TypeOK, NEW p \in Patchers, patch[p] # None, PatchFits(p),
           patch'[p] = patch[p], issued \subseteq issued',
           \A j \in Joiners : join'[j] # None => join'[j].m # patch[p].m,
           \/ memb'[patch[p].m] = None
           \/ memb[patch[p].m] # None /\ memb'[patch[p].m] = memb[patch[p].m]
           \/ memb[patch[p].m] # None
              /\ memb'[patch[p].m].version = memb[patch[p].m].version + 1
    PROVE  PatchFits(p)'
  <1>1. patch[p] \in Patch
    BY DEF TypeOK
  <1>2. /\ patch[p].m \in MembershipIds /\ patch[p].version \in Nat
        /\ patch[p].before.version \in Nat
    BY <1>1 DEF Patch, Membership
  <1>3. CASE memb'[patch[p].m] = None
    BY <1>3 DEF PatchFits
  <1>4. CASE memb[patch[p].m] # None /\ memb'[patch[p].m] = memb[patch[p].m]
    BY <1>4 DEF PatchFits
  <1>5. CASE /\ memb[patch[p].m] # None
             /\ memb'[patch[p].m].version = memb[patch[p].m].version + 1
    <2>1. memb[patch[p].m].version \in Nat
      BY <1>2, <1>5 DEF TypeOK, Membership
    <2>2. patch[p].after = None =>
            /\ patch[p].before.version <= memb'[patch[p].m].version
            /\ patch[p].before.version # memb'[patch[p].m].version
      BY <1>2, <1>5, <2>1 DEF PatchFits
    <2> QED BY <2>2 DEF PatchFits
  <1> QED BY <1>3, <1>4, <1>5

LEMMA PatchesFitStep ==
    ASSUME TypeOK, JoinsFit, PatchesFit, [Next]_vars
    PROVE  PatchesFit'
  <1>1. ASSUME UNCHANGED <<memb, patch, audits>>, issued \subseteq issued',
               \A j \in Joiners : join'[j] # None =>
                 join'[j] = join[j] \/ join'[j].m \notin issued
        PROVE  PatchesFit'
    <2>1. ASSUME NEW p \in Patchers, patch[p] # None PROVE PatchFits(p)'
      <3>1. patch[p].m \in issued /\ PatchFits(p)
        BY <2>1 DEF PatchesFit, PatchFits
      <3>2. \A j \in Joiners : join'[j] # None => join'[j].m # patch[p].m
        BY <1>1, <3>1 DEF PatchFits
      <3>3. \/ memb'[patch[p].m] = None
            \/ memb[patch[p].m] # None /\ memb'[patch[p].m] = memb[patch[p].m]
        BY <1>1
      <3> QED BY <1>1, <2>1, <3>1, <3>2, <3>3, PatchKept
    <2> QED BY <1>1, <2>1 DEF PatchesFit, AuditExact
  <1>2. CASE TenantStep
    <2>1. ASSUME NEW t \in Tenants, NEW u \in Users, NEW m \in MembershipIds,
                 CreateTenantWithAdmin(t, u, m)
          PROVE  PatchesFit'
      <3>1. /\ memb' = [memb EXCEPT ![m] = NewMembership(t, u, "active")] /\ m \notin issued
            /\ UNCHANGED <<join, patch, audits>> /\ issued \subseteq issued'
        BY <2>1 DEF CreateTenantWithAdmin
      <3>2. ASSUME NEW p \in Patchers, patch[p] # None PROVE PatchFits(p)'
        <4>1. PatchFits(p) /\ patch[p].m # m
          BY <3>1, <3>2 DEF PatchesFit, PatchFits
        <4>2. patch[p].m \in MembershipIds
          BY <3>2 DEF TypeOK, Patch
        <4>3. memb'[patch[p].m] = memb[patch[p].m]
          BY <3>1, <4>1, <4>2 DEF TypeOK
        <4>4. \A j \in Joiners : join'[j] # None => join'[j].m # patch[p].m
          BY <3>1, <4>1 DEF PatchFits
        <4> QED BY <3>1, <3>2, <4>1, <4>3, <4>4, PatchKept
      <3> QED BY <3>1, <3>2 DEF PatchesFit, AuditExact
    <2> QED BY <1>1, <1>2, <2>1 DEF TenantStep, CreateTenant
  <1>3. CASE JoinStep
    <2>1. ASSUME NEW j \in Joiners, NEW m \in MembershipIds, NEW t \in Tenants,
                 NEW u \in Users, NEW s \in {"active", "inactive"},
                 NEW asked \in SUBSET Roles, StartJoin(j, m, t, u, s, asked)
          PROVE  PatchesFit'
      <3>1. \A i \in Joiners : join'[i] # None =>
              join'[i] = join[i] \/ join'[i].m \notin issued
        BY <2>1 DEF StartJoin, TypeOK
      <3>2. UNCHANGED <<memb, patch, audits>> /\ issued \subseteq issued'
        BY <2>1 DEF StartJoin
      <3> QED BY <1>1, <3>1, <3>2
    <2>2. ASSUME NEW j \in Joiners, CommitJoin(j) PROVE PatchesFit'
      <3>1. join[j] # None /\ join[j] \in Join
        BY <2>2 DEF CommitJoin, TypeOK
      <3>2. /\ \A m \in MembershipIds : m # join[j].m => memb'[m] = memb[m]
            /\ UNCHANGED <<patch, audits, issued>>
            /\ \A i \in Joiners : join'[i] # None => join'[i] = join[i]
        BY <2>2 DEF CommitJoin, TypeOK
      <3>3. ASSUME NEW p \in Patchers, patch[p] # None PROVE PatchFits(p)'
        <4>1. PatchFits(p) /\ patch[p].m # join[j].m
          BY <3>1, <3>3 DEF PatchesFit, PatchFits
        <4>2. patch[p].m \in MembershipIds
          BY <3>3 DEF TypeOK, Patch
        <4>3. memb'[patch[p].m] = memb[patch[p].m]
          BY <3>2, <4>1, <4>2
        <4>4. \A i \in Joiners : join'[i] # None => join'[i].m # patch[p].m
          BY <3>2, <4>1 DEF PatchFits
        <4> QED BY <3>2, <3>3, <4>1, <4>3, <4>4, PatchKept
      <3> QED BY <3>2, <3>3 DEF PatchesFit, AuditExact
    <2>3. ASSUME NEW j \in Joiners, RollBackJoin(j) PROVE PatchesFit'
      BY <1>1, <2>3 DEF RollBackJoin, tables, TypeOK
    <2> QED BY <1>3, <2>1, <2>2, <2>3 DEF JoinStep
  <1>4. CASE PatchStep
    <2>1. ASSUME NEW p \in Patchers, NEW m \in MembershipIds,
                 NEW s \in {"active", "inactive"}, NEW v \in 1..MaxVersion,
                 StartPatch(p, m, s, v)
          PROVE  PatchesFit'
      <3> DEFINE new == [m |-> m, status |-> s, version |-> v, before |-> memb[m],
                         replaced |-> None, after |-> None]
      <3>1. /\ patch' = [patch EXCEPT ![p] = new] /\ memb[m] # None
            /\ UNCHANGED <<memb, issued, join, audits>>
        BY <2>1 DEF StartPatch, tables
      <3>2. /\ new.m = m /\ new.version = v /\ new.before = memb[m] /\ new.after = None
            /\ memb[m].version \in Nat
        BY <3>1 DEF TypeOK, Membership
      <3> HIDE DEF new
      <3>3. PatchFits(p)'
        <4>1. patch'[p] = new
          BY <3>1 DEF TypeOK
        <4>2. m \in issued /\ \A j \in Joiners : join[j] # None => join[j].m # m
          BY <3>1 DEF JoinsFit, JoinFits
        <4> QED BY <3>1, <3>2, <4>1, <4>2 DEF PatchFits
      <3>4. ASSUME NEW q \in Patchers, patch'[q] # None PROVE PatchFits(q)'
        <4>1. CASE q = p
          BY <3>3, <4>1
        <4>2. CASE q # p
          <5>1. patch'[q] = patch[q] /\ patch[q] # None
            BY <3>1, <3>4, <4>2 DEF TypeOK
          <5> QED BY <3>1, <5>1, PatchKept DEF PatchesFit, PatchFits
        <4> QED BY <4>1, <4>2
      <3> QED BY <3>1, <3>4 DEF PatchesFit, AuditExact
    <2>2. ASSUME NEW p \in Patchers, ApplyPatch(p) PROVE PatchesFit'
      <3>1. /\ patch[p] # None /\ patch[p].after = None /\ memb[patch[p].m] # None
            /\ memb[patch[p].m].version = patch[p].version
            /\ UNCHANGED <<join, issued, audits>>
            /\ memb' = [memb EXCEPT ![patch[p].m] =
                 [memb[patch[p].m] EXCEPT !.status = patch[p].status, !.version = @ + 1]]
            /\ patch' = [patch EXCEPT ![p] = [patch[p] EXCEPT !.replaced = memb[patch[p].m],
                                                              !.after = memb'[patch[p].m]]]
        BY <2>2, PatchedMembership DEF ApplyPatch, TypeOK
      <3>2. /\ patch[p] \in Patch /\ patch[p].m \in MembershipIds
            /\ memb[patch[p].m] \in Membership /\ memb'[patch[p].m] \in Membership
            /\ memb'[patch[p].m].version = memb[patch[p].m].version + 1
        BY <2>2, PatchedMembership
      <3>3. PatchFits(p)'
        <4>1. PatchFits(p)
          BY <3>1 DEF PatchesFit
        <4>2. PICK q : q = patch'[p]
          OBVIOUS
        <4>3. q = [patch[p] EXCEPT !.replaced = memb[patch[p].m],
                                   !.after = memb'[patch[p].m]]
          BY <3>1, <4>2 DEF TypeOK
        <4>4. /\ q.m = patch[p].m /\ q.before = patch[p].before
              /\ q.version = patch[p].version /\ q.replaced = memb[patch[p].m]
              /\ q.after = memb'[patch[p].m]
          BY <3>2, <4>3 DEF Patch
        <4>5. Replaced(q) /\ q.after # None
          BY <3>1, <3>2, <4>1, <4>4 DEF PatchFits, Replaced
        <4>6. /\ \A j \in Joiners : join'[j] # None => join'[j].m # q.m
              /\ q.m \in issued'
          BY <3>1, <4>1, <4>4 DEF PatchFits
        <4> QED BY <4>2, <4>5, <4>6 DEF PatchFits, Replaced
      <3>4. ASSUME NEW q \in Patchers, patch'[q] # None PROVE PatchFits(q)'
        <4>1. CASE q = p
          BY <3>3, <4>1
        <4>2. CASE q # p
          <5>1. patch'[q] = patch[q] /\ patch[q] # None /\ PatchFits(q)
            BY <3>1, <3>4, <4>2 DEF TypeOK, PatchesFit
          <5>2. patch[q].m \in MembershipIds
            BY <5>1 DEF TypeOK, Patch
          <5>3. \/ memb'[patch[q].m] = None
                \/ memb[patch[q].m] # None /\ memb'[patch[q].m] = memb[patch[q].m]
                \/ memb[patch[q].m] # None
                   /\ memb'[patch[q].m].version = memb[patch[q].m].version + 1
            <6>1. CASE patch[q].m = patch[p].m
              BY <3>1, <3>2, <6>1
            <6>2. CASE patch[q].m # patch[p].m
              BY <3>1, <3>2, <5>2, <6>2 DEF TypeOK
            <6> QED BY <6>1, <6>2
          <5>4. \A j \in Joiners : join'[j] # None => join'[j].m # patch[q].m
            BY <3>1, <5>1 DEF PatchFits
          <5> QED BY <3>1, <5>1, <5>3, <5>4, PatchKept
        <4> QED BY <4>1, <4>2
      <3> QED BY <3>1, <3>4 DEF PatchesFit, AuditExact
    <2>3. ASSUME NEW p \in Patchers, AuditPatch(p) \/ DropPatch(p) PROVE PatchesFit'
      <3>1. /\ UNCHANGED <<memb, issued, join>>
            /\ \A q \in Patchers : patch'[q] # None => patch'[q] = patch[q]
        BY <2>3 DEF AuditPatch, DropPatch, TypeOK, tables
      <3>2. ASSUME NEW q \in Patchers, patch'[q] # None PROVE PatchFits(q)'
        BY <3>1, <3>2, PatchKept DEF PatchesFit, PatchFits
      <3>3. AuditExact'
        <4>1. CASE AuditPatch(p)
          <5> DEFINE e == [m |-> patch[p].m, sent |-> patch[p].version,
                           before |-> patch[p].before, replaced |-> patch[p].replaced,
                           after |-> patch[p].after]
          <5>1. audits' = audits \cup {e} /\ patch[p] # None /\ patch[p].after # None
            BY <4>1 DEF AuditPatch
          <5>2. /\ e.sent = patch[p].version /\ e.before = patch[p].before
                /\ e.replaced = patch[p].replaced /\ e.after = patch[p].after
            OBVIOUS
          <5> HIDE DEF e
          <5>3. Replaced(patch[p]) /\ patch[p] \in Patch
            BY <5>1 DEF PatchesFit, PatchFits, TypeOK
          <5>4. /\ e.before.version \in Nat /\ e.replaced.version \in Nat
                /\ e.replaced.version = e.sent
                /\ e.after.version = e.replaced.version + 1
                /\ e.before.version <= e.replaced.version
                /\ e.before.version = e.replaced.version => e.before = e.replaced
            BY <5>2, <5>3 DEF Replaced, Patch, Membership
          <5>5. e.sent <= e.before.version \/ e.after.version = e.before.version + 1 =>
                  e.replaced = e.before
            BY <5>4
          <5> QED BY <5>1, <5>5 DEF PatchesFit, AuditExact
        <4>2. CASE DropPatch(p)
          BY <4>2 DEF DropPatch, tables, PatchesFit, AuditExact
        <4> QED BY <2>3, <4>1, <4>2
      <3> QED BY <3>2, <3>3 DEF PatchesFit
    <2> QED BY <1>4, <2>1, <2>2, <2>3 DEF PatchStep
  <1>5. CASE ReplaceStep
    BY <1>1, <1>5 DEF ReplaceStep, StartReplace, CommitReplace, RollBackReplace, tables
  <1>6. ASSUME NEW m \in MembershipIds, DeleteMembership(m) PROVE PatchesFit'
    <2>1. /\ memb' = [memb EXCEPT ![m] = None] /\ UNCHANGED <<join, issued, patch, audits>>
      BY <1>6 DEF DeleteMembership
    <2>2. ASSUME NEW p \in Patchers, patch[p] # None PROVE PatchFits(p)'
      <3>1. memb'[patch[p].m] = None \/ memb'[patch[p].m] = memb[patch[p].m]
        BY <2>1, <2>2 DEF TypeOK, Patch
      <3> QED BY <2>1, <2>2, <3>1, PatchKept DEF PatchesFit, PatchFits
    <2> QED BY <2>1, <2>2 DEF PatchesFit, AuditExact
  <1>7. CASE RoleStep
    <2>1. UNCHANGED <<memb, patch, audits, join>> /\ issued \subseteq issued'
      BY <1>7 DEF RoleStep, AssignRole, StartRemoval, RemoveRole, CreateRole, PatchRole,
                  DeleteRole, AddRolePrivilege, RemoveRolePrivilege, tables
    <2> QED BY <1>1, <2>1
  <1>8. CASE UNCHANGED vars
    BY <1>1, <1>8 DEF vars
  <1> QED BY <1>2, <1>3, <1>4, <1>5, <1>6, <1>7, <1>8 DEF Next

-----------------------------------------------------------------------------
(* A replacement has seen rows of its user only and, unless another one of *)
(* that user committed meanwhile, all those it is to replace.              *)
ReplacesFit ==
    /\ GrantsDistinct
    /\ \A x \in Replacers : replace[x] # None =>
         /\ \A g \in replace[x].seen : g.user = replace[x].user
         /\ \A w \in replace[x].wanted : w[1] \in replace[x].scopes
         /\ replace[x].undisturbed =>
              replace[x].seen = GrantsIn(replace[x].user, replace[x].scopes)

LEMMA NewGrantsAre ==
    ASSUME TypeOK, NEW x \in Replacers, replace[x] # None, NEW g \in NewGrants(x)
    PROVE  /\ g.id = serial /\ g.user = replace[x].user
           /\ <<g.scope, g.privilege>> \in replace[x].wanted
           /\ g = [id |-> serial, user |-> g.user, scope |-> g.scope, privilege |-> g.privilege]
  <1>0. replace[x].wanted \subseteq Scopes \X Privileges
    BY DEF TypeOK, Replace
  <1>1. PICK w \in replace[x].wanted :
          g = [id |-> serial, user |-> replace[x].user, scope |-> w[1], privilege |-> w[2]]
    BY DEF NewGrants
  <1>2. w = <<w[1], w[2]>>
    BY <1>0
  <1> QED BY <1>1, <1>2

LEMMA ReplacesFitStep ==
    ASSUME TypeOK, ReplacesFit, [Next]_vars
    PROVE  ReplacesFit'
  <1>1. ASSUME UNCHANGED <<grants, replace>> PROVE ReplacesFit'
    BY <1>1 DEF ReplacesFit, GrantsDistinct, GrantsIn
  <1>2. ASSUME NEW x \in Replacers, NEW u \in Users, NEW scopes \in SUBSET Scopes,
               NEW wanted \in SUBSET (scopes \X Privileges),
               StartReplace(x, u, scopes, wanted)
        PROVE  ReplacesFit'
    <2> DEFINE new == [user |-> u, scopes |-> scopes, wanted |-> wanted,
                       seen |-> GrantsIn(u, scopes), undisturbed |-> TRUE]
    <2>1. replace' = [replace EXCEPT ![x] = new] /\ UNCHANGED grants
      BY <1>2 DEF StartReplace, tables
    <2>2. /\ new.user = u /\ new.scopes = scopes /\ new.wanted = wanted
          /\ new.seen = GrantsIn(u, scopes)
      OBVIOUS
    <2>3. \A g \in GrantsIn(u, scopes) : g.user = u
      BY DEF GrantsIn
    <2> HIDE DEF new
    <2>4. GrantsIn(u, scopes)' = GrantsIn(u, scopes)
      BY <2>1 DEF GrantsIn
    <2>5. ASSUME NEW y \in Replacers, replace'[y] # None
          PROVE  /\ \A g \in replace'[y].seen : g.user = replace'[y].user
                 /\ \A w \in replace'[y].wanted : w[1] \in replace'[y].scopes
                 /\ replace'[y].undisturbed =>
                      replace'[y].seen
                        = {g \in grants : g.user = replace'[y].user /\ g.scope \in replace'[y].scopes}
      <3>1. CASE y = x
        <4>1. replace'[y] = new
          BY <2>1, <3>1 DEF TypeOK
        <4> QED BY <2>2, <2>3, <4>1 DEF GrantsIn
      <3>2. CASE y # x
        <4>1. replace'[y] = replace[y] /\ replace[y] # None
          BY <2>1, <2>5, <3>2 DEF TypeOK
        <4> QED BY <4>1 DEF ReplacesFit, GrantsIn
      <3> QED BY <3>1, <3>2
    <2> QED BY <2>1, <2>5 DEF ReplacesFit, GrantsDistinct, GrantsIn
  <1>3. ASSUME NEW x \in Replacers, CommitReplace(x) PROVE ReplacesFit'
    <2>1. /\ replace[x] # None /\ grants' = (grants \ replace[x].seen) \cup NewGrants(x)
          /\ ~Clashes(x)
          /\ replace' = [y \in Replacers |->
               IF y = x THEN None
               ELSE IF replace[y] # None /\ replace[y].user = replace[x].user
                    THEN [replace[y] EXCEPT !.undisturbed = FALSE] ELSE replace[y]]
      BY <1>3 DEF CommitReplace
    <2>2. GrantsDistinct'
      <3>1. ASSUME NEW g \in grants', NEW h \in grants', g.user = h.user,
                   g.scope = h.scope, g.privilege = h.privilege
            PROVE  g = h
        <4>1. CASE g \in NewGrants(x) /\ h \in NewGrants(x)
          BY <2>1, <3>1, <4>1, NewGrantsAre
        <4>2. CASE g \in NewGrants(x) /\ h \in grants \ replace[x].seen
          BY <2>1, <3>1, <4>2, NewGrantsAre DEF Clashes
        <4>3. CASE h \in NewGrants(x) /\ g \in grants \ replace[x].seen
          BY <2>1, <3>1, <4>3, NewGrantsAre DEF Clashes
        <4>4. CASE g \in grants /\ h \in grants
          BY <3>1, <4>4 DEF ReplacesFit, GrantsDistinct
        <4> QED BY <2>1, <4>1, <4>2, <4>3, <4>4
      <3> QED BY <3>1 DEF GrantsDistinct
    <2>3. ASSUME NEW y \in Replacers, replace'[y] # None
          PROVE  /\ \A g \in replace'[y].seen : g.user = replace'[y].user
                 /\ \A w \in replace'[y].wanted : w[1] \in replace'[y].scopes
                 /\ replace'[y].undisturbed =>
                      replace'[y].seen
                        = {g \in grants' : g.user = replace'[y].user
                                            /\ g.scope \in replace'[y].scopes}
      <3>0. replace[y] # None /\ replace[y] \in Replace
        BY <2>1, <2>3 DEF TypeOK
      <3>1. CASE replace[y].user = replace[x].user
        <4>1. replace'[y] = [replace[y] EXCEPT !.undisturbed = FALSE]
          BY <2>1, <2>3, <3>0, <3>1
        <4>2. /\ replace'[y].user = replace[y].user /\ replace'[y].seen = replace[y].seen
              /\ replace'[y].wanted = replace[y].wanted
              /\ replace'[y].scopes = replace[y].scopes /\ ~replace'[y].undisturbed
          BY <3>0, <4>1 DEF Replace
        <4> QED BY <3>0, <4>2 DEF ReplacesFit
      <3>2. CASE replace[y].user # replace[x].user
        <4>1. replace'[y] = replace[y]
          BY <2>1, <2>3, <3>0, <3>2
        <4>2. \A g \in NewGrants(x) : g.user # replace[y].user
          BY <2>1, <3>2, NewGrantsAre
        <4>3. \A g \in replace[x].seen : g.user # replace[y].user
          BY <2>1, <3>2 DEF ReplacesFit
        <4>4. \A g : g.user = replace[y].user => (g \in grants <=> g \in grants')
          BY <2>1, <4>2, <4>3
        <4> QED BY <3>0, <4>1, <4>4 DEF ReplacesFit, GrantsIn
      <3> QED BY <3>1, <3>2
    <2> QED BY <2>2, <2>3 DEF ReplacesFit, GrantsIn
  <1>4. ASSUME NEW x \in Replacers, RollBackReplace(x) PROVE ReplacesFit'
    <2>1. UNCHANGED grants /\ \A y \in Replacers : replace'[y] # None => replace'[y] = replace[y]
      BY <1>4 DEF RollBackReplace, tables, TypeOK
    <2> QED BY <2>1 DEF ReplacesFit, GrantsDistinct, GrantsIn
  <1>5. CASE ReplaceStep
    <2>1. ASSUME NEW t \in Tenants, NEW privileges \in SUBSET Privileges
          PROVE  {t} \in SUBSET Scopes /\ {t} \X privileges \in SUBSET ({t} \X Privileges)
      BY DEF Scopes
    <2>2. Scopes \in SUBSET Scopes
      OBVIOUS
    <2>3. ASSUME NEW x \in Replacers, NEW u \in Users, NEW t \in Tenants,
                 NEW privileges \in SUBSET Privileges,
                 StartReplace(x, u, {t}, {t} \X privileges)
          PROVE  ReplacesFit'
      BY <1>2, <2>1, <2>3
    <2>4. ASSUME NEW x \in Replacers, NEW u \in Users,
                 NEW wanted \in SUBSET (Scopes \X Privileges),
                 StartReplace(x, u, Scopes, wanted)
          PROVE  ReplacesFit'
      BY <1>2, <2>2, <2>4
    <2> QED BY <1>3, <1>4, <1>5, <2>3, <2>4 DEF ReplaceStep
  <1>6. CASE TenantStep
    BY <1>1, <1>6 DEF TenantStep, CreateTenant, CreateTenantWithAdmin
  <1>7. CASE JoinStep
    BY <1>1, <1>7 DEF JoinStep, StartJoin, CommitJoin, RollBackJoin, tables
  <1>8. CASE PatchStep
    BY <1>1, <1>8 DEF PatchStep, StartPatch, ApplyPatch, AuditPatch, DropPatch, tables
  <1>9. CASE RoleStep
    BY <1>1, <1>9 DEF RoleStep, AssignRole, StartRemoval, RemoveRole, CreateRole, PatchRole,
                      DeleteRole, AddRolePrivilege, RemoveRolePrivilege, tables
  <1>10. CASE \E m \in MembershipIds : DeleteMembership(m)
    BY <1>1, <1>10 DEF DeleteMembership
  <1>11. CASE UNCHANGED vars
    BY <1>1, <1>11 DEF vars
  <1> QED BY <1>5, <1>6, <1>7, <1>8, <1>9, <1>10, <1>11 DEF Next

-----------------------------------------------------------------------------
IInv == /\ TypeOK /\ RoleTables /\ JoinsFit /\ Assigned /\ OneMembership
        /\ PrivilegesFit /\ PatchesFit /\ ReplacesFit

LEMMA InvInit == Init => IInv
  <1> SUFFICES ASSUME Init PROVE IInv
    OBVIOUS
  <1>1. TypeOK
    BY DEF Init, TypeOK
  <1>2. RoleTables
    BY RolesTyped DEF Init, RoleTables
  <1>3. JoinsFit /\ OneMembership
    BY DEF Init, JoinsFit, OneMembership
  <1>4. Assigned
    BY DEF Init, Assigned, AssignmentsSound, BaseRoleKept, RemovalsSpareBase
  <1>5. PrivilegesFit
    BY DEF Init, PrivilegesFit, SystemRolesFixed
  <1>6. PatchesFit /\ ReplacesFit
    BY DEF Init, PatchesFit, AuditExact, ReplacesFit, GrantsDistinct
  <1> QED BY <1>1, <1>2, <1>3, <1>4, <1>5, <1>6 DEF IInv

LEMMA InvStep == IInv /\ [Next]_vars => IInv'
  <1> SUFFICES ASSUME IInv, [Next]_vars PROVE IInv'
    OBVIOUS
  <1> USE DEF IInv
  <1>1. \A t \in Tenants \ tenants : \A m \in MembershipIds :
          memb[m] # None => memb[m].tenant # t
    BY DEF JoinsFit
  <1> QED
    BY <1>1, TypeStep, RoleTablesStep, JoinsFitStep, AssignedStep, OneMembershipStep,
       PrivilegesFitStep, PatchesFitStep, ReplacesFitStep

LEMMA Invariance == Spec => []IInv
  BY InvInit, InvStep, PTL DEF Spec

(* No interleaving of joins, role removals and role deletions leaves a     *)
(* membership without the base role (the check of the key and the delete   *)
(* in DELETE /tenant/memberships/:id/roles/:roleId are separate queries).  *)
THEOREM BaseRolesKept == Spec => []BaseRoleKept
  <1>1. IInv => BaseRoleKept
    BY DEF IInv, Assigned
  <1> QED BY <1>1, Invariance, PTL

(* Assignments join an existing membership and an existing role of the     *)
(* same tenant, although createTenantMembership reads the roles before it  *)
(* assigns them.                                                           *)
THEOREM AssignmentsAreSound == Spec => []AssignmentsSound
  <1>1. IInv => AssignmentsSound
    BY DEF IInv, Assigned
  <1> QED BY <1>1, Invariance, PTL

(* A user is a member of a tenant at most once. *)
THEOREM MembershipsUnique == Spec => []OneMembership
  <1>1. IInv => OneMembership
    BY DEF IInv
  <1> QED BY <1>1, Invariance, PTL

LEMMA RolesOfMember == IInv => MembersGetTheirRoles
  <1> SUFFICES ASSUME IInv, NEW m \in MembershipIds, memb[m] # None,
                      {h[2] : h \in {g \in holds : g[1] = m}} \subseteq SystemRoles
               PROVE  RoleGrants(memb[m].user, memb[m].tenant)
                        = IF memb[m].status = "active"
                            THEN UNION {SystemPrivileges[k] : k \in SystemKeysOf(m)} ELSE {}
    BY DEF MembersGetTheirRoles
  <1> USE DEF IInv
  <1> DEFINE t == memb[m].tenant
  <1>0. t \in Tenants /\ t \in tenants /\ memb[m].status \in {"active", "inactive"}
    BY DEF TypeOK, JoinsFit, Membership
  <1>1. \A n \in MembershipIds :
          memb[n] # None /\ memb[n].user = memb[m].user /\ memb[n].tenant = t => n = m
    BY DEF OneMembership
  <1>2. ASSUME NEW r \in Roles, <<m, r>> \in holds, role[r].tenant = t
        PROVE  \E k \in SystemKeysOf(m) : r = <<k, t>>
    <2>1. r \in SystemRoles
      BY <1>2
    <2>2. PICK k \in SystemKeys, u \in Tenants : r = <<k, u>>
      BY <2>1 DEF SystemRoles
    <2>3. u = t
      BY <1>2, <2>2 DEF RoleTables, Assigned, AssignmentsSound
    <2> QED BY <1>2, <2>2, <2>3 DEF SystemKeysOf
  <1>3. \A k \in SystemKeys, v \in Privileges :
          <<<<k, t>>, v>> \in rolePriv <=> v \in SystemPrivileges[k]
    BY <1>0 DEF PrivilegesFit, SystemRolesFixed
  <1>4. \A k \in SystemKeysOf(m) : /\ k \in SystemKeys /\ <<k, t>> \in Roles
                                   /\ <<m, <<k, t>>>> \in holds
                                   /\ role[<<k, t>>] # None /\ role[<<k, t>>].tenant = t
    BY <1>0, RolesTyped DEF SystemKeysOf, RoleTables
  <1>5. CASE memb[m].status = "active"
    <2>1. ASSUME NEW v \in RoleGrants(memb[m].user, t)
          PROVE  v \in UNION {SystemPrivileges[k] : k \in SystemKeysOf(m)}
      <3>1. v \in Privileges /\ \E r \in Roles : <<m, r>> \in holds /\ role[r].tenant = t
                                                /\ <<r, v>> \in rolePriv
        BY <1>1 DEF RoleGrants
      <3>2. PICK k \in SystemKeysOf(m) : <<<<k, t>>, v>> \in rolePriv
        BY <1>2, <3>1
      <3>3. v \in SystemPrivileges[k]
        BY <1>3, <1>4, <3>1, <3>2
      <3> QED BY <3>3
    <2>2. ASSUME NEW k \in SystemKeysOf(m), NEW v \in SystemPrivileges[k]
          PROVE  v \in RoleGrants(memb[m].user, t)
      <3>1. v \in Privileges
        BY <1>4
      <3>2. <<<<k, t>>, v>> \in rolePriv
        BY <1>3, <1>4, <3>1
      <3> QED BY <1>4, <1>5, <3>1, <3>2 DEF RoleGrants
    <2> QED BY <1>5, <2>1, <2>2
  <1>6. CASE memb[m].status # "active"
    <2>1. RoleGrants(memb[m].user, t) = {}
      BY <1>1, <1>6 DEF RoleGrants
    <2> QED BY <1>6, <2>1
  <1> QED BY <1>5, <1>6

(* Someone who holds system roles only has exactly what those roles were   *)
(* provisioned with, and nothing while inactive.                           *)
THEOREM SystemRolesExact == Spec => []MembersGetTheirRoles
  BY Invariance, RolesOfMember, PTL

(* PATCH /tenant/memberships/:id reads the row it audits in a query of its *)
(* own.  Whatever versions clients send and however updates, deletions and *)
(* joins overlap: an entry of a client that was not ahead of the row it    *)
(* found names the row that was replaced, and so does every entry whose    *)
(* versions are consecutive.                                               *)
THEOREM AuditsExact == Spec => []AuditExact
  <1>1. IInv => AuditExact
    BY DEF IInv, PatchesFit
  <1> QED BY <1>1, Invariance, PTL

(* No grant is stored twice. *)
THEOREM GrantsAreDistinct == Spec => []GrantsDistinct
  <1>1. IInv => GrantsDistinct
    BY DEF IInv, ReplacesFit
  <1> QED BY <1>1, Invariance, PTL

LEMMA ReplaceStepExact ==
    ASSUME IInv, NEW x \in Replacers, CommitReplace(x), replace[x].undisturbed
    PROVE  {<<g.scope, g.privilege>> :
              g \in {h \in grants' : h.user = replace[x].user
                                       /\ h.scope \in replace[x].scopes}}
             = replace[x].wanted
  <1> DEFINE kept == {h \in grants' : h.user = replace[x].user
                                       /\ h.scope \in replace[x].scopes}
  <1>1. /\ replace[x] # None
        /\ grants' = (grants \ replace[x].seen) \cup NewGrants(x)
        /\ replace[x].seen = GrantsIn(replace[x].user, replace[x].scopes)
        /\ \A w \in replace[x].wanted : w[1] \in replace[x].scopes
        /\ replace[x].wanted \subseteq Scopes \X Privileges
    BY DEF IInv, TypeOK, ReplacesFit, CommitReplace, Replace
  <1>2. kept \subseteq NewGrants(x)
    BY <1>1 DEF GrantsIn
  <1>3. \A g \in kept : <<g.scope, g.privilege>> \in replace[x].wanted
    BY <1>1, <1>2, NewGrantsAre DEF IInv
  <1>4. ASSUME NEW w \in replace[x].wanted
        PROVE  \E g \in kept : w = <<g.scope, g.privilege>>
    <2> DEFINE g == [id |-> serial, user |-> replace[x].user, scope |-> w[1], privilege |-> w[2]]
    <2>1. g \in NewGrants(x)
      BY DEF NewGrants
    <2>2. g \in kept /\ w = <<g.scope, g.privilege>>
      BY <1>1, <2>1
    <2> QED BY <2>2
  <1> QED BY <1>3, <1>4

(* A replacement that none of the same user overlapped leaves exactly what *)
(* it asked for (PUT .../privileges).                                      *)
THEOREM ReplacementsExact == Spec => ReplaceExact
  <1>1. IInv /\ [Next]_vars => [ReplacedExactly]_vars
    BY ReplaceStepExact DEF ReplacedExactly
  <1> QED BY <1>1, Invariance, PTL DEF Spec, ReplaceExact
=============================================================================
