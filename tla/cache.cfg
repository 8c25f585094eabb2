\* Two viewers and a read-ahead task on one segment.
SPECIFICATION FairSpec
CONSTANTS
    a = a
    b = b
    p = p
    s1 = s1
    NoSegment = NoSegment
    Viewers = {a, b}
    Prefetches = {p}
    Segments = {s1}
    MaxRestarts = 1
    Faults = {"client", "telegram", "disk"}
INVARIANTS
    CacheInv
    OneFetch
    FetchedOnce
PROPERTIES
    ImplementsStore
    RequestAnswered
