-------------------------- MODULE MCTokenScheduler --------------------------
EXTENDS TokenSchedulerInv, TLC

CONSTANTS c1, c2, b1, u1, u2, u3, u4

=============================================================================
