---------------------------- MODULE TenantAccess ----------------------------
(***************************************************************************)
(* Who may do what in a tenant (web/routes/identity.ts,                    *)
(* identity/tenant-rbac.ts, access/privilege-evaluator.ts): tenants with   *)
(* their system roles, memberships, custom roles, role assignments and     *)
(* direct grants, as several administrators change them at once.           *)
(*                                                                         *)
(* PostgreSQL runs the transactions at read committed: a statement sees    *)
(* the rows committed when it starts, constraints are checked against the  *)
(* rows committed when it ends.  So a transaction of the model has a step  *)
(* that reads and a step that commits or rolls back; a handler that makes  *)
(* two statements without a transaction has a step for each.               *)
(***************************************************************************)
EXTENDS Naturals, FiniteSets

CONSTANTS
    Tenants, Users, Privileges, CustomRoles,
    SystemPrivileges,                       \* what each system role grants
    MembershipIds,                          \* like CustomRoles uuids, never issued twice
    Joiners, Patchers, Removers, Replacers, \* slots for requests in flight
    Platform,                               \* the scope of a grant without a tenant
    None,
    \* Bounds of the model, not of the code.
    MaxVersion, MaxSerial

SystemKeys == {"tenant_member", "tenant_admin", "tenant_auditor"}
SystemRoles == SystemKeys \X Tenants
Roles == SystemRoles \cup CustomRoles
Base(t) == <<"tenant_member", t>>
RolesAt(t) == SystemKeys \X {t}
Scopes == Tenants \cup {Platform}

ASSUME AccessAssumption ==
    /\ SystemRoles \cap CustomRoles = {}
    /\ SystemPrivileges \in [SystemKeys -> SUBSET Privileges]
    /\ SystemPrivileges["tenant_member"] = {}
    /\ Platform \notin Tenants
    /\ MaxVersion \in Nat /\ MaxSerial \in Nat

VARIABLES
    tenants, users,  \* core.tenants, core.users: those that exist
    memb,            \* core.tenant_memberships, by id
    issued,          \* uuids of memberships and custom roles drawn so far
    role,            \* core.tenant_roles, by id
    holds,           \* core.tenant_member_roles: pairs of membership and role
    rolePriv,        \* core.role_privileges: pairs of role and privilege
    grants,          \* core.user_privileges: rows
    serial,          \* transactions that inserted rows of grants so far
    audits,          \* audit records of membership changes; "sent" and "replaced" are history
    join, patch, removal, replace   \* requests in flight

tables == <<tenants, users, memb, issued, role, holds, rolePriv, grants, serial, audits>>
vars == <<tenants, users, memb, issued, role, holds, rolePriv, grants, serial,
          audits, join, patch, removal, replace>>

Membership == [tenant : Tenants, user : Users, status : {"active", "inactive"},
               version : Nat \ {0}]
RoleRow == [tenant : Tenants, version : Nat \ {0}]
Grant == [id : Nat, user : Users, scope : Scopes, privilege : Privileges]

Join == [m : MembershipIds, tenant : Tenants, user : Users,
         status : {"active", "inactive"}, roles : SUBSET Roles]
Patch == [m : MembershipIds, status : {"active", "inactive"}, version : Nat,
          before : Membership, replaced : Membership \cup {None},
          after : Membership \cup {None}]
Audit == [m : MembershipIds, sent : Nat, before : Membership,
          replaced : Membership \cup {None}, after : Membership]
Removal == [m : MembershipIds, role : Roles]
Replace == [user : Users, scopes : SUBSET Scopes, wanted : SUBSET (Scopes \X Privileges),
            seen : SUBSET Grant, undisturbed : BOOLEAN]

ASSUME AbsenceAssumption ==
    /\ None \notin Membership /\ None \notin RoleRow /\ None \notin Join
    /\ None \notin Patch /\ None \notin Removal /\ None \notin Replace

TypeOK ==
    /\ tenants \subseteq Tenants /\ users \subseteq Users
    /\ memb \in [MembershipIds -> Membership \cup {None}]
    /\ issued \subseteq MembershipIds \cup CustomRoles
    /\ role \in [Roles -> RoleRow \cup {None}]
    /\ holds \subseteq MembershipIds \X Roles
    /\ rolePriv \subseteq Roles \X Privileges
    /\ grants \subseteq Grant /\ serial \in Nat
    /\ audits \subseteq Audit
    /\ join \in [Joiners -> Join \cup {None}]
    /\ patch \in [Patchers -> Patch \cup {None}]
    /\ removal \in [Removers -> Removal \cup {None}]
    /\ replace \in [Replacers -> Replace \cup {None}]

Init ==
    /\ tenants = {} /\ users \in SUBSET Users
    /\ memb = [m \in MembershipIds |-> None] /\ issued = {}
    /\ role = [r \in Roles |-> None]
    /\ holds = {} /\ rolePriv = {} /\ grants = {} /\ serial = 0 /\ audits = {}
    /\ join = [j \in Joiners |-> None] /\ patch = [p \in Patchers |-> None]
    /\ removal = [r \in Removers |-> None] /\ replace = [x \in Replacers |-> None]

-----------------------------------------------------------------------------
(* POST /identity/tenants: the tenant, its system roles and, if asked for, *)
(* its first administrator, in one transaction.                            *)
Provision(t) ==
    /\ t \notin tenants
    /\ tenants' = tenants \cup {t}
    /\ role' = [r \in Roles |-> IF r \in RolesAt(t) THEN [tenant |-> t, version |-> 1]
                                                    ELSE role[r]]
    /\ rolePriv' = rolePriv \cup UNION {{<<k, t>>} \X SystemPrivileges[k] : k \in SystemKeys}

CreateTenant(t) ==
    /\ Provision(t)
    /\ UNCHANGED <<users, memb, issued, holds, grants, serial, audits,
                   join, patch, removal, replace>>

NewMembership(t, u, status) == [tenant |-> t, user |-> u, status |-> status, version |-> 1]

CreateTenantWithAdmin(t, u, m) ==
    /\ Provision(t)
    /\ u \in users /\ m \notin issued
    /\ memb' = [memb EXCEPT ![m] = NewMembership(t, u, "active")]
    /\ issued' = issued \cup {m}
    /\ holds' = holds \cup {<<m, Base(t)>>, <<m, <<"tenant_admin", t>>>>}
    /\ UNCHANGED <<users, grants, serial, audits, join, patch, removal, replace>>

-----------------------------------------------------------------------------
(* Memberships *)

(* createTenantMembership reads the tenant's roles among those asked for.  *)
SelectedRoles(t, asked) ==
    {r \in asked \cup {Base(t)} : role[r] # None /\ role[r].tenant = t}

StartJoin(j, m, t, u, status, asked) ==
    /\ join[j] = None
    /\ m \notin issued /\ t \in tenants
    /\ issued' = issued \cup {m}
    /\ join' = [join EXCEPT ![j] = [m |-> m, tenant |-> t, user |-> u, status |-> status,
                                    roles |-> SelectedRoles(t, asked)]]
    /\ UNCHANGED <<tenants, users, memb, role, holds, rolePriv, grants, serial,
                   audits, patch, removal, replace>>

(* The unique index and the foreign key of the assignments. *)
Joinable(j) ==
    /\ \A m \in MembershipIds : memb[m] # None =>
         ~(memb[m].tenant = join[j].tenant /\ memb[m].user = join[j].user)
    /\ \A r \in join[j].roles : role[r] # None

(* The commit; a user created by the same request exists from here on.     *)
CommitJoin(j) ==
    /\ join[j] # None /\ Joinable(j)
    /\ memb' = [memb EXCEPT ![join[j].m] =
                  NewMembership(join[j].tenant, join[j].user, join[j].status)]
    /\ holds' = holds \cup ({join[j].m} \X join[j].roles)
    /\ users' = users \cup {join[j].user}
    /\ join' = [join EXCEPT ![j] = None]
    /\ UNCHANGED <<tenants, issued, role, rolePriv, grants, serial, audits,
                   patch, removal, replace>>

(* A constraint or the database refuses. *)
RollBackJoin(j) ==
    /\ join[j] # None
    /\ join' = [join EXCEPT ![j] = None]
    /\ UNCHANGED <<tables, patch, removal, replace>>

(* PATCH /tenant/memberships/:id, with any version, one the row does not   *)
(* have yet included, reads the row, ...                                   *)
StartPatch(p, m, status, version) ==
    /\ patch[p] = None /\ memb[m] # None
    /\ patch' = [patch EXCEPT ![p] = [m |-> m, status |-> status, version |-> version,
                                      before |-> memb[m], replaced |-> None,
                                      after |-> None]]
    /\ UNCHANGED <<tables, join, removal, replace>>

(* Mutant: the update does not compare versions. *)
ApplyPatchBlindly(p) ==
    LET m == patch[p].m
        after == [memb[m] EXCEPT !.status = patch[p].status, !.version = @ + 1]
    IN
    /\ patch[p] # None /\ patch[p].after = None
    /\ memb[m] # None
    /\ memb[m].version < MaxVersion
    /\ memb' = [memb EXCEPT ![m] = after]
    /\ patch' = [patch EXCEPT ![p].replaced = memb[m], ![p].after = after]
    /\ UNCHANGED <<tenants, users, issued, role, holds, rolePriv, grants, serial,
                   audits, join, removal, replace>>

(* ... updates it if it has the version its client sent, ... *)
ApplyPatch(p) ==
    LET m == patch[p].m
        after == [memb[m] EXCEPT !.status = patch[p].status, !.version = @ + 1]
    IN
    /\ patch[p] # None /\ patch[p].after = None
    /\ memb[m] # None /\ memb[m].version = patch[p].version
    /\ memb[m].version < MaxVersion
    /\ memb' = [memb EXCEPT ![m] = after]
    /\ patch' = [patch EXCEPT ![p].replaced = memb[m], ![p].after = after]
    /\ UNCHANGED <<tenants, users, issued, role, holds, rolePriv, grants, serial,
                   audits, join, removal, replace>>

(* ... and records what it replaced by what. *)
AuditPatch(p) ==
    /\ patch[p] # None /\ patch[p].after # None
    /\ audits' = audits \cup {[m |-> patch[p].m, sent |-> patch[p].version,
                               before |-> patch[p].before, replaced |-> patch[p].replaced,
                               after |-> patch[p].after]}
    /\ patch' = [patch EXCEPT ![p] = None]
    /\ UNCHANGED <<tenants, users, memb, issued, role, holds, rolePriv, grants, serial,
                   join, removal, replace>>

(* The row has another version or is gone, or a query fails. *)
DropPatch(p) ==
    /\ patch[p] # None
    /\ patch' = [patch EXCEPT ![p] = None]
    /\ UNCHANGED <<tables, join, removal, replace>>

DeleteMembership(m) ==
    /\ memb[m] # None
    /\ memb' = [memb EXCEPT ![m] = None]
    /\ holds' = {h \in holds : h[1] # m}
    /\ UNCHANGED <<tenants, users, issued, role, rolePriv, grants, serial, audits,
                   join, patch, removal, replace>>

-----------------------------------------------------------------------------
(* Roles *)

(* Mutant: the join between membership and role forgets the tenant. *)
AssignAnyRole(m, r) ==
    /\ memb[m] # None /\ role[r] # None
    /\ holds' = holds \cup {<<m, r>>}
    /\ UNCHANGED <<tenants, users, memb, issued, role, rolePriv, grants, serial, audits,
                   join, patch, removal, replace>>

AssignRole(m, r) ==
    /\ memb[m] # None /\ role[r] # None /\ role[r].tenant = memb[m].tenant
    /\ holds' = holds \cup {<<m, r>>}
    /\ UNCHANGED <<tenants, users, memb, issued, role, rolePriv, grants, serial, audits,
                   join, patch, removal, replace>>

(* DELETE /tenant/memberships/:id/roles/:roleId looks the role's key up ... *)
StartRemoval(x, m, r) ==
    /\ removal[x] = None /\ role[r] # None
    /\ r # Base(role[r].tenant)
    /\ removal' = [removal EXCEPT ![x] = [m |-> m, role |-> r]]
    /\ UNCHANGED <<tables, join, patch, replace>>

(* ... and deletes the assignment. *)
RemoveRole(x) ==
    /\ removal[x] # None
    /\ holds' = holds \ {<<removal[x].m, removal[x].role>>}
    /\ removal' = [removal EXCEPT ![x] = None]
    /\ UNCHANGED <<tenants, users, memb, issued, role, rolePriv, grants, serial, audits,
                   join, patch, replace>>

CreateRole(r, t, privileges) ==
    /\ r \in CustomRoles \ issued /\ t \in tenants
    /\ issued' = issued \cup {r}
    /\ role' = [role EXCEPT ![r] = [tenant |-> t, version |-> 1]]
    /\ rolePriv' = rolePriv \cup ({r} \X privileges)
    /\ UNCHANGED <<tenants, users, memb, holds, grants, serial, audits,
                   join, patch, removal, replace>>

PatchRole(r) ==
    /\ r \in CustomRoles /\ role[r] # None /\ role[r].version < MaxVersion
    /\ role' = [role EXCEPT ![r].version = @ + 1]
    /\ UNCHANGED <<tenants, users, memb, issued, holds, rolePriv, grants, serial, audits,
                   join, patch, removal, replace>>

(* Mutant: the foreign key cascades instead of restricting. *)
DeleteAssignedRole(r) ==
    /\ r \in CustomRoles /\ role[r] # None
    /\ role' = [role EXCEPT ![r] = None]
    /\ rolePriv' = {rp \in rolePriv : rp[1] # r}
    /\ UNCHANGED <<tenants, users, memb, issued, holds, grants, serial, audits,
                   join, patch, removal, replace>>

DeleteRole(r) ==
    /\ r \in CustomRoles /\ role[r] # None
    /\ \A m \in MembershipIds : <<m, r>> \notin holds
    /\ role' = [role EXCEPT ![r] = None]
    /\ rolePriv' = {rp \in rolePriv : rp[1] # r}
    /\ UNCHANGED <<tenants, users, memb, issued, holds, grants, serial, audits,
                   join, patch, removal, replace>>

(* Mutant: any role of the tenant is editable. *)
AddAnyRolePrivilege(r, v) ==
    /\ role[r] # None
    /\ rolePriv' = rolePriv \cup {<<r, v>>}
    /\ UNCHANGED <<tenants, users, memb, issued, role, holds, grants, serial, audits,
                   join, patch, removal, replace>>

AddRolePrivilege(r, v) ==
    /\ r \in CustomRoles /\ role[r] # None
    /\ rolePriv' = rolePriv \cup {<<r, v>>}
    /\ UNCHANGED <<tenants, users, memb, issued, role, holds, grants, serial, audits,
                   join, patch, removal, replace>>

RemoveRolePrivilege(r, v) ==
    /\ r \in CustomRoles /\ role[r] # None
    /\ rolePriv' = rolePriv \ {<<r, v>>}
    /\ UNCHANGED <<tenants, users, memb, issued, role, holds, grants, serial, audits,
                   join, patch, removal, replace>>

-----------------------------------------------------------------------------
(* Direct grants *)

GrantsIn(u, scopes) == {g \in grants : g.user = u /\ g.scope \in scopes}

(* Mutant: the platform's replacement leaves tenant-scoped grants. *)
StartReplacePlatform(x, u, scopes, wanted) ==
    /\ replace[x] = None /\ u \in users
    /\ replace' = [replace EXCEPT ![x] =
         [user |-> u, scopes |-> scopes, wanted |-> wanted,
          seen |-> GrantsIn(u, IF Platform \in scopes THEN {Platform} ELSE scopes),
          undisturbed |-> TRUE]]
    /\ UNCHANGED <<tables, join, patch, removal>>

(* PUT .../privileges: the delete statement, in a transaction.  The tenant *)
(* route replaces one tenant's grants, the platform route all of a user.   *)
StartReplace(x, u, scopes, wanted) ==
    /\ replace[x] = None /\ u \in users
    /\ replace' = [replace EXCEPT ![x] =
         [user |-> u, scopes |-> scopes, wanted |-> wanted,
          seen |-> GrantsIn(u, scopes), undisturbed |-> TRUE]]
    /\ UNCHANGED <<tables, join, patch, removal>>

NewGrants(x) ==
    {[id |-> serial, user |-> replace[x].user, scope |-> w[1], privilege |-> w[2]]
       : w \in replace[x].wanted}
Clashes(x) ==
    \E g \in grants \ replace[x].seen :
        g.user = replace[x].user /\ <<g.scope, g.privilege>> \in replace[x].wanted

(* The inserts and the commit, unless the unique index refuses one. *)
CommitReplace(x) ==
    /\ replace[x] # None /\ ~Clashes(x)
    /\ serial < MaxSerial /\ serial' = serial + 1
    /\ grants' = (grants \ replace[x].seen) \cup NewGrants(x)
    /\ replace' = [y \in Replacers |->
         IF y = x THEN None
         ELSE IF replace[y] # None /\ replace[y].user = replace[x].user
              THEN [replace[y] EXCEPT !.undisturbed = FALSE] ELSE replace[y]]
    /\ UNCHANGED <<tenants, users, memb, issued, role, holds, rolePriv, audits,
                   join, patch, removal>>

RollBackReplace(x) ==
    /\ replace[x] # None
    /\ replace' = [replace EXCEPT ![x] = None]
    /\ UNCHANGED <<tables, join, patch, removal>>

-----------------------------------------------------------------------------
TenantStep ==
    \E t \in Tenants :
        \/ CreateTenant(t)
        \/ \E u \in Users, m \in MembershipIds : CreateTenantWithAdmin(t, u, m)

JoinStep ==
    \E j \in Joiners :
        \/ \E m \in MembershipIds, t \in Tenants, u \in Users,
              status \in {"active", "inactive"}, asked \in SUBSET Roles :
             StartJoin(j, m, t, u, status, asked)
        \/ CommitJoin(j) \/ RollBackJoin(j)

PatchStep ==
    \E p \in Patchers :
        \/ \E m \in MembershipIds, status \in {"active", "inactive"}, version \in 1..MaxVersion :
             StartPatch(p, m, status, version)
        \/ ApplyPatch(p) \/ AuditPatch(p) \/ DropPatch(p)

RoleStep ==
    \/ \E m \in MembershipIds, r \in Roles : AssignRole(m, r)
    \/ \E x \in Removers :
         \/ \E m \in MembershipIds, r \in Roles : StartRemoval(x, m, r)
         \/ RemoveRole(x)
    \/ \E r \in CustomRoles, t \in Tenants, privileges \in SUBSET Privileges :
         CreateRole(r, t, privileges)
    \/ \E r \in Roles : PatchRole(r) \/ DeleteRole(r)
    \/ \E r \in Roles, v \in Privileges : AddRolePrivilege(r, v) \/ RemoveRolePrivilege(r, v)

ReplaceStep ==
    \E x \in Replacers :
        \/ \E u \in Users, wanted \in SUBSET (Scopes \X Privileges) :
             StartReplace(x, u, Scopes, wanted)
        \/ \E u \in Users, t \in Tenants, privileges \in SUBSET Privileges :
             StartReplace(x, u, {t}, {t} \X privileges)
        \/ CommitReplace(x) \/ RollBackReplace(x)

Next ==
    \/ TenantStep \/ JoinStep \/ PatchStep \/ RoleStep \/ ReplaceStep
    \/ \E m \in MembershipIds : DeleteMembership(m)

Spec == Init /\ [][Next]_vars

-----------------------------------------------------------------------------
(* What loadPrivilegesForUser adds to the direct grants. *)
RoleGrants(u, t) ==
    {v \in Privileges : \E m \in MembershipIds, r \in Roles :
        /\ memb[m] # None /\ memb[m].user = u /\ memb[m].tenant = t
        /\ memb[m].status = "active"
        /\ <<m, r>> \in holds /\ role[r] # None /\ role[r].tenant = t
        /\ <<r, v>> \in rolePriv}

(***************************************************************************)
(* Every member keeps the base role: no order of joins, role removals and  *)
(* role deletions leaves a membership without tenant_member.               *)
(***************************************************************************)
BaseRoleKept ==
    \A m \in MembershipIds : memb[m] # None => <<m, Base(memb[m].tenant)>> \in holds

(***************************************************************************)
(* Assignments are sound: an assignment belongs to a membership and a role *)
(* that exist, both of the same tenant.                                    *)
(***************************************************************************)
AssignmentsSound ==
    \A h \in holds :
        /\ memb[h[1]] # None /\ role[h[2]] # None
        /\ memb[h[1]].tenant = role[h[2]].tenant

(***************************************************************************)
(* A user is a member of a tenant once. *)
(***************************************************************************)
OneMembership ==
    \A m, n \in MembershipIds :
        /\ memb[m] # None /\ memb[n] # None
        /\ memb[m].tenant = memb[n].tenant /\ memb[m].user = memb[n].user
        => m = n

(* A system role grants what it was provisioned with. *)
SystemRolesFixed ==
    \A t \in tenants, k \in SystemKeys, v \in Privileges :
        <<<<k, t>>, v>> \in rolePriv <=> v \in SystemPrivileges[k]

SystemKeysOf(m) == {k \in SystemKeys : <<m, <<k, memb[m].tenant>>>> \in holds}

(***************************************************************************)
(* Members get their roles: one who holds system roles only has, besides   *)
(* direct grants, exactly the privileges those roles were provisioned      *)
(* with, and none while inactive.  The base role "intentionally grants no  *)
(* administrative privileges".                                             *)
(***************************************************************************)
MembersGetTheirRoles ==
    \A m \in MembershipIds :
        memb[m] # None /\ {h[2] : h \in {g \in holds : g[1] = m}} \subseteq SystemRoles =>
          RoleGrants(memb[m].user, memb[m].tenant)
            = IF memb[m].status = "active"
                THEN UNION {SystemPrivileges[k] : k \in SystemKeysOf(m)} ELSE {}

(***************************************************************************)
(* The audit trail of a membership never misleads: the row and its update  *)
(* are separate statements, and the row read may not be the row replaced,  *)
(* but only if the client sent a version ahead of the row it found, and    *)
(* then the versions of the entry show that an update is missing.          *)
(***************************************************************************)
AuditExact ==
    \A e \in audits :
        e.sent <= e.before.version \/ e.after.version = e.before.version + 1 =>
            e.replaced = e.before

(***************************************************************************)
(* No grant is stored twice, whatever replacements overlap. *)
(***************************************************************************)
GrantsDistinct ==
    \A g, h \in grants :
        g.user = h.user /\ g.scope = h.scope /\ g.privilege = h.privilege => g = h

(***************************************************************************)
(* A replacement that no other one overlapped leaves the user with exactly *)
(* the grants it asked for in the scopes it replaces.                      *)
(***************************************************************************)
ReplacedExactly ==
    \A x \in Replacers :
        CommitReplace(x) /\ replace[x].undisturbed =>
          {<<g.scope, g.privilege>> :
             g \in {h \in grants' : h.user = replace[x].user
                                      /\ h.scope \in replace[x].scopes}}
            = replace[x].wanted
ReplaceExact == [][ReplacedExactly]_vars
=============================================================================
