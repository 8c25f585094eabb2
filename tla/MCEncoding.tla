----------------------------- MODULE MCEncoding -----------------------------
EXTENDS EncodingInv, TLC

\* Times before the start and past the probed duration: clamped, they are the
\* two ends of a rung's slice.
MCTimes == {-10, 120}

=============================================================================
