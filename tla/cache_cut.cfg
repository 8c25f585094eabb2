\* A client that hangs up while its segment is written, and a crash.
SPECIFICATION Spec
CONSTANTS
    a = a
    b = b
    p = p
    s1 = s1
    NoSegment = NoSegment
    Viewers = {a}
    Prefetches = {b}
    Segments = {s1}
    MaxRestarts = 1
    Faults = {"client"}
INVARIANTS
    NeverTruncated
