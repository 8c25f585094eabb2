--------------------------- MODULE MCSegmentCache ---------------------------
EXTENDS SegmentCacheStore, SegmentCacheInv, TLC

CONSTANTS a, b, p, s1

=============================================================================
