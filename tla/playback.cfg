\* A player of a video of two renditions of three segments, with a read-ahead of
\* one, so that a segment may be too far from what was answered.
SPECIFICATION Spec
CONSTANTS
    a = a
    t1 = t1
    Viewers = {a}
    Tasks = {t1}
    NumRungs = 2
    NumSegments = 3
    PREFETCH_AHEAD = 1
    MaxAdrift = 1
    MaxTroubles = 2
    Faults = {"telegram", "db", "disk", "client"}
CHECK_DEADLOCK FALSE
INVARIANTS
    PlayInv
    PlaylistsAreWhole
    LostOnlyIfWithdrawn
PROPERTIES
    ReadAheadIsNear
