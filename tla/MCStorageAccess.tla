--------------------------- MODULE MCStorageAccess ---------------------------
EXTENDS StorageAccess, TLC

CONSTANTS su, a, b, s1, s2, c1, r1, r2

=============================================================================
