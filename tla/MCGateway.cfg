SPECIFICATION MCSpec
CONSTANTS
    r1 = r1
    r2 = r2
    r3 = r3
    Requests = {r1, r2, r3}
    Slugs = {fmx, acme}
    DefaultSlug = fmx
    Limit = 1
    Window = 1
    AccessTTL = 1
    RefreshTTL = 2
    QueueSize = 1
    MaxTime = 3
    None = None
CHECK_DEADLOCK FALSE
INVARIANTS
    BurstBounded
    EntitledOnly
    CreatedOwnsSlug
    AuditKept
PROPERTIES
    ShutdownEnds
