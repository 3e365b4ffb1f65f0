SPECIFICATION AccessSpec
CONSTANTS
  t1 = t1
  Tenants = {t1, t2}
  Users = {u1}
  Read = Read
  Manage = Manage
  Privileges <- TwoPrivileges
  SystemPrivileges <- ReadAndManage
  CustomRoles = {c1}
  MembershipIds = {m1, m2}
  Joiners = {j1}
  Patchers = {p1, p2}
  Removers = {x1}
  Replacers = {y1, y2}
  Platform = Platform
  None = None
  MaxVersion = 3
  MaxSerial = 3
SYMMETRY AccessSymmetry
INVARIANTS AssignmentsSound MembersGetTheirRoles AuditExact
PROPERTIES ReplaceExact
CHECK_DEADLOCK FALSE
