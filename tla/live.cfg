\* Two uploads, one restart; UPLOAD_CONCURRENCY is configured as 0.
SPECIFICATION FairSpec
CONSTANTS
    v1 = v1
    v2 = v2
    w1 = w1
    w2 = w2
    d1 = d1
    d2 = d2
    Nobody = Nobody
    Videos = {v1, v2}
    Workers = {w1}
    Deleters = {d1}
    NumRungs = 1
    NumSegments = 1
    UploadConcurrency = 0
    MaxRestarts = 1
    Faults = {"encoder", "telegram", "client"}
PROPERTIES
    JobsDrain
    VideoSettles
    SourceReclaimed
