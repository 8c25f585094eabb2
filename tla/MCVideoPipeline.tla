-------------------------- MODULE MCVideoPipeline --------------------------
EXTENDS VideoPipelineJobs, VideoPipelineRows, VideoPipelineInv, TLC

CONSTANTS v1, v2, w1, w2, d1, d2

\* Uploads, transcoders and deletions are interchangeable; the liveness runs,
\* where symmetry is unsound, do not use this.
Symmetry ==
    Permutations(Videos) \cup Permutations(Workers) \cup Permutations(Deleters)

=============================================================================
