SPECIFICATION AllSpec
CONSTANTS
    None = None
    Apps = {a1, a2}
    Slugs = {s1}
    Urls = {u1, u2}
    Requests = {q1, q2}
    MaxRev = 2
    Reported = {2}
    Blank = Blank
    Torn = Torn
    Tenants = {t1, t2}
    Enableable = {e1, e2}
    Enablers = {r1, r2}
    Conns = {d1, d2}
    Public = Public
    Migrations = 1
    MaxEnablements = 2
    o1 = o1
    o2 = o2
    v1 = v1
    p1 = p1
    p2 = p2
    p3 = p3
    p4 = p4
    Deployable = {o1, o2}
    Installers = {n1, n2}
    Services = {v1}
    Packages = {p1, p2, p3, p4}
    Manifests = {1, 2}
    AppOf <- PackageApp
    ManifestOf <- PackageManifest
    Refused = {p4}
    Offers <- EntriesOffered
    MaxInstalls = 4
SYMMETRY ApplicationSymmetry
INVARIANTS
    AllTypeOK
    BundleNotOlder
    EnabledWasInformed
    ReadyIsMigrated
    RuntimesWereApproved
    InstallsWhatWasOffered
PROPERTIES
    RefreshesStayHome
    StoresServeTheirUi
    ClearsFollowInstalls
CHECK_DEADLOCK FALSE
