------------------------- MODULE VideoPipelineJobs -------------------------
(***************************************************************************)
(* VideoPipeline implements JobQueue.  A worker holds its job from the     *)
(* claim to the statement that settles it; what it does afterwards, the    *)
(* status of the video and the removal of files, is no affair of the queue.*)
(***************************************************************************)
EXTENDS VideoPipeline

Settled == {"idle", "setFailed", "clean", "wipe"}

HeldJob == [w \in Workers |-> IF pc[w] \in Settled THEN Nobody ELSE cur[w]]

Queue == INSTANCE JobQueue WITH
    Jobs <- Videos, Holders <- Workers, Nobody <- Nobody,
    Reliable <- "database" \notin Faults,
    state <- job, stamp <- created, now <- clock, holder <- HeldJob

\* Every step of the pipeline is a step of the job queue or leaves it alone:
\* jobs are claimed oldest first, by one worker each, settled only by that
\* worker, and requeued by nothing but a restart, whatever fails.
ImplementsQueue == Queue!Spec

\* While Postgres is up no job is left running without a transcoder that will
\* settle it, after any number of failures and restarts (transcoder.rs:44-74,
\* requeue_orphaned_jobs).
NoJobIsStranded == Queue!RunningIsHeld

=============================================================================
