SPECIFICATION FairSpec
CONSTANTS
  t1 = t1
  t2 = t2
  a1 = a1
  j1 = j1
  j2 = j2
  author = author
  k1 = k1
  k2 = k2
  root = root
  NoMaterial = NoMaterial
  NoJti = NoJti
  Tenants = {t1, t2}
  Apps = {a1}
  Jtis = {j1, j2}
  Issuers = {i1}
  Roots = {root}
  Authors = {author}
  Kids = {k1, k2}
  InitialRoots = {root}
  Requests = {r1}
  Materials <- TwoTenants
  Skew = 0
  MaxTime = 0
  MaxFaults = 0
  LocalRevocable <- RevokeKidLocally
  RegistryRevocable <- RevokeKid
  IssuerRevocable = {j1, j2}
  RegistryRootSets = {{}}
PROPERTIES SyncSettlesAll RevocationTakesEffect
