\* A deletion while the transcoder sends segments; no fault, no crash.
SPECIFICATION Spec
CONSTANTS
    v1 = v1
    v2 = v2
    w1 = w1
    w2 = w2
    d1 = d1
    d2 = d2
    Nobody = Nobody
    Videos = {v1}
    Workers = {w1}
    Deleters = {d1}
    NumRungs = 2
    NumSegments = 2
    UploadConcurrency = 2
    MaxRestarts = 0
    Faults = {}
INVARIANTS
    DeleteSyncs
