\* Two uploads, two transcoders, which claim_job says it allows for, and two
\* deletions that may be of the same video.
SPECIFICATION Spec
CONSTANTS
    v1 = v1
    v2 = v2
    w1 = w1
    w2 = w2
    d1 = d1
    d2 = d2
    Nobody = Nobody
    Videos = {v1, v2}
    Workers = {w1, w2}
    Deleters = {d1, d2}
    NumRungs = 1
    NumSegments = 1
    UploadConcurrency = 2
    MaxRestarts = 1
    Faults = {"telegram"}
SYMMETRY Symmetry
INVARIANTS
    NoJobIsStranded
    ClaimedOncePerBoot
    UnsettledHasSource
PROPERTIES
    ImplementsQueue
