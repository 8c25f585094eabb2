-------------------------- MODULE SegmentCacheInv --------------------------
(***************************************************************************)
(* The inductive invariant of the segment cache: why one lock per segment  *)
(* is enough, and exactly which files a dropped request can still touch.   *)
(***************************************************************************)
EXTENDS SegmentCache

\* Whoever waits for a lock or holds it has the one that is in the map now: an
\* entry is never replaced while somebody has it.
LockInv ==
    \A r \in Requests :
        /\ pc[r] # "idle" => seg[r] \in Segments
        /\ pc[r] \in {"wait"} \cup Locked =>
              lock[r] # 0 /\ lock[r] = inflight[seg[r]]
        /\ pc[r] \notin {"wait"} \cup Locked => lock[r] = 0

\* One guard per segment.
MutexInv ==
    \A r, q \in Requests :
        /\ pc[r] \in Locked
        /\ pc[q] \in Locked
        /\ seg[r] = seg[q]
        => r = q

\* A file operation belongs to a step of write, or to a request that is gone,
\* and then its segment is torn.
WriteInv ==
    \A r \in Requests :
        /\ pc[r] = "write" => io[r] \in {"create", "fill"}
        /\ pc[r] = "rename" => io[r] = "rename"
        /\ io[r] # "none" => pc[r] \in {"write", "rename", "gone"}
        /\ io[r] \in {"create", "fill"} => bytes[r] \in Complete
        /\ fd[r] # "none" => io[r] = "fill"
        /\ pc[r] = "gone" => seg[r] \in torn

\* Outside torn segments the temporary file is complete before its rename, or
\* was swept away meanwhile, and no file is written under its final name.
WholeInv ==
    /\ \A s \in Segments \ torn : file[s] # "cut"
    /\ \A r \in Requests :
          pc[r] # "idle" /\ seg[r] \notin torn =>
              /\ fd[r] # "file"
              /\ io[r] = "fill" /\ fd[r] = "none" => tmp[seg[r]] = "none"
              /\ io[r] = "rename" => tmp[seg[r]] # "cut"

\* Outside torn segments a download that was paid for is in the cache or on
\* its way there, and whoever is about to download finds none paid for.
CostInv ==
    /\ \A s \in Segments \ torn :
          /\ cost[s] <= 1
          /\ cost[s] # 0 => file[s] # "none" \/ Writing(s)
    /\ \A r \in Requests :
          pc[r] = "fetch" /\ seg[r] \notin torn => cost[seg[r]] = 0

\* Outside torn segments nobody fetches what is there and can be read, and a
\* request that writes is the one that paid.
CommitInv ==
    \A r \in Requests :
        pc[r] \in {"fetch", "write", "rename"} /\ seg[r] \notin torn =>
            /\ file[seg[r]] = "none" \/ seg[r] \in misread
            /\ pc[r] # "fetch" => cost[seg[r]] # 0

CacheInv ==
    /\ TypeOK
    /\ LockInv
    /\ MutexInv
    /\ WriteInv
    /\ WholeInv
    /\ CostInv
    /\ CommitInv

=============================================================================
