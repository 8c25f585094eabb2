\* Sources with one rung and with two, a stderr that may fill its pipe, a first
\* attempt and one after an attempt that died while it encoded or uploaded.
SPECIFICATION FairSpec
CONSTANTS
    Heights = {240, 720}
    Times <- MCTimes
    NoTime = NoTime
    PipeCap = 1
    MaxReports = 2
    MaxComplaints = 2
    MaxSegments = 3
    MaxRows = 2
    OldBars = {60, 93}
    Faults = {"probe", "spawn", "read", "telegram", "db"}
CHECK_DEADLOCK FALSE
INVARIANTS
    EncodeInv
    BarIsTrue
    ReadyHasEveryRow
    EncodedBeforeSent
PROPERTIES
    EncodeEnds
