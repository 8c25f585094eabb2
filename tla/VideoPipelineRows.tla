------------------------- MODULE VideoPipelineRows --------------------------
(***************************************************************************)
(* VideoPipeline implements VideoRows for each of its videos.              *)
(***************************************************************************)
EXTENDS VideoPipeline

\* A worker past the first rendition of its claim: the only one who adds rows.
Filling(w) ==
    \/ pc[w] = "create" /\ rung[w] > 1
    \/ pc[w] \in {"send", "publish"}

\* Rows that nobody is filling are closed, a video without rows is still open.
Phase(v) ==
    IF status[v] = "deleted" THEN "gone"
    ELSE IF status[v] = "ready" THEN "ready"
    ELSE IF rends[v] = {} \/ \E w \in Workers : cur[w] = v /\ Filling(w)
         THEN "open" ELSE "closed"

PositionsOf(v) ==
    [r \in Rungs |-> {m.pos : m \in {n \in rows : n.video = v /\ n.rung = r}}]

RowsOf(v) == INSTANCE VideoRows WITH
    Positions <- Segments,
    phase <- Phase(v), rends <- rends[v], rows <- PositionsOf(v)

RowsInit == \A v \in Videos : RowsOf(v)!Init
RowsNext == \A v \in Videos : [RowsOf(v)!Next]_(RowsOf(v)!vars)

\* To its readers every video is a behaviour of VideoRows: whatever fails, is
\* deleted, retried or restarted, rungs become whole one after the other, a video
\* is published whole and once, and what is deleted stays without rows
\* (transcoder.rs:107-196, repositories/videos.rs:164-262).
ImplementsRows == RowsInit /\ [][RowsNext]_vars

=============================================================================
