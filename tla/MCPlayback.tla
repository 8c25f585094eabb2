----------------------------- MODULE MCPlayback -----------------------------
EXTENDS PlaybackInv, TLC

CONSTANTS a, t1

=============================================================================
