SPECIFICATION AllSpec
CONSTANTS
    None = None
    t1 = t1
    c1 = c1
    w1 = w1
    w2 = w2
    Tenants = {t1, t2}
    Consumers = {c1}
    Workers = {w1, w2}
    ConsumerOf <- BothForC1
    TenantOf <- BothInT1
    Unhandled = {1}
    Max = 2
    MaxEvents = 3
    MaxFaults = 1
    Flows = {f1, f2}
    Callbacks = {b1, b2}
    Clients = {i1, i2}
    Licensed = {l1, l2}
    Sources = {s1}
    Apps = {a1}
    Admins = {r1}
    Timer = Timer
    Modes = {"manual", "official"}
    Claims = {"manual"}
    MaxRelease = 2
    Validity = 3
    MaxRequests = 3
    MaxOutages = 1
INVARIANTS
    AllTypeOK
    OneImportPerFlow
    CodesGoHome
    FeedEntriesWereListed
PROPERTIES
    TimerTrustsSource
    EntriesCatchUp
    DeliversAtLeastOnce
    EventsSettle
CHECK_DEADLOCK FALSE
