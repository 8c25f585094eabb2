\* One upload with every fault the environment may produce and a crash.
SPECIFICATION Spec
CONSTANTS
    v1 = v1
    v2 = v2
    w1 = w1
    w2 = w2
    d1 = d1
    d2 = d2
    Nobody = Nobody
    Videos = {v1}
    Workers = {w1}
    Deleters = {d1}
    NumRungs = 2
    NumSegments = 2
    UploadConcurrency = 2
    MaxRestarts = 1
    Faults = {"encoder", "telegram", "database", "client"}
SYMMETRY Symmetry
INVARIANTS
    IInv
    ReadyComplete
    ReadyMatchesChat
    ReadyPlayable
PROPERTIES
    ImplementsRows
    DeleteSyncsReady
    ReadyStays
