----------------------------- MODULE VideoRows ------------------------------
(***************************************************************************)
(* What the tables videos, renditions and segments promise the readers of  *)
(* one video: rungs appear from the first up, each with all its segments   *)
(* at once before the next, the video is published when nothing is missing *)
(* and at most once, and everything disappears together.  A transcode that *)
(* was broken off leaves its rows, and nobody goes on with them.           *)
(* VideoPipeline implements it for every video, Playback relies on it.     *)
(***************************************************************************)
EXTENDS Integers

CONSTANTS
    NumRungs,
    Positions   \* of the segments of a rung

VARIABLES
    phase,      \* "open" to the transcode that fills it, "ready", "closed", "gone"
    rends,      \* the rungs that have a row in renditions
    rows        \* the positions each rung has rows in segments for

vars == <<phase, rends, rows>>

Rungs == 1 .. NumRungs

NoRows == [r \in Rungs |-> {}]

TypeOK ==
    /\ phase \in {"open", "ready", "closed", "gone"}
    /\ rends \subseteq Rungs
    /\ rows \in [Rungs -> SUBSET Positions]

Whole(r) == r \in rends /\ rows[r] = Positions

\* Every rendition exists and has every segment.
Complete == \A r \in Rungs : Whole(r)

Init ==
    /\ phase = "open"
    /\ rends = {}
    /\ rows = NoRows

\* What holds of the rows whenever they are read: a rung has all its segments or
\* none, a published video is complete, and a removed one leaves nothing.
Consistent ==
    /\ \A r \in Rungs : rows[r] = {} \/ Whole(r)
    /\ phase = "ready" => Complete
    /\ phase = "gone" => rends = {}

\* INSERT INTO renditions, once the rungs below are whole.
AddRendition(r) ==
    /\ phase = "open"
    /\ r \notin rends
    /\ \A q \in Rungs : q < r => Whole(q)
    /\ rends' = rends \cup {r}
    /\ UNCHANGED <<phase, rows>>

\* create_segments_batch: the segments of a rung, all in one statement.
Fill(r) ==
    /\ phase = "open"
    /\ r \in rends
    /\ rows[r] = {}
    /\ rows' = [rows EXCEPT ![r] = Positions]
    /\ UNCHANGED <<phase, rends>>

\* A wrong variant of Publish: with whatever there is.
PublishEarly ==
    /\ phase = "open"
    /\ rends # {}
    /\ phase' = "ready"
    /\ UNCHANGED <<rends, rows>>

\* set_status(Ready)
Publish ==
    /\ phase = "open"
    /\ Complete
    /\ phase' = "ready"
    /\ UNCHANGED <<rends, rows>>

\* A transcode fails or dies with the process, or a later one takes back what
\* was published before a crash: no retry passes the renditions that exist.
Close ==
    /\ phase \in {"open", "ready"}
    /\ phase' = "closed"
    /\ UNCHANGED <<rends, rows>>

\* A wrong variant of Delete: rows of segments, and only later their video.
DeleteSegmentsFirst ==
    /\ phase # "gone"
    /\ rows' = NoRows
    /\ UNCHANGED <<phase, rends>>

\* One DELETE, from which renditions and segments cascade.
Delete ==
    /\ phase # "gone"
    /\ phase' = "gone"
    /\ rends' = {}
    /\ rows' = NoRows

Next ==
    \/ \E r \in Rungs : AddRendition(r) \/ Fill(r)
    \/ Publish \/ Close \/ Delete

Spec == Init /\ [][Next]_vars

=============================================================================
