---------------------------- MODULE PlaybackInv ----------------------------
(***************************************************************************)
(* The inductive invariant of Playback: what a player that was once        *)
(* answered may rely on.                                                   *)
(***************************************************************************)
EXTENDS Playback

\* Once a player has seen the video ready nothing is added to its rows, and
\* nothing publishes it another time.
OpenInv ==
    \A v \in Viewers :
        pc[v] \notin {"closed", "master"} =>
            \/ phase = "gone"
            \/ Rows!Complete /\ phase \in {"ready", "closed"}

\* The segment that is asked for is in the playlist.
AtInv ==
    \A v \in Viewers :
        pc[v] \in {"segment", "itsRendition", "itsRow", "load", "answer"} =>
            at[v] \in DOMAIN list[v]

\* A task follows a segment that was answered, and what it loads exists.
TaskInv ==
    \A t \in Tasks :
        /\ task[t] # "idle" => near[t] \in answered
        /\ task[t] \in {"contains", "load"} => Ahead(t) \in Segments

PlayInv ==
    /\ TypeOK
    /\ Rows!Consistent
    /\ OpenInv
    /\ MasterIsWhole
    /\ MediaIsWhole
    /\ LostOnlyIfWithdrawn
    /\ AtInv
    /\ TaskInv

=============================================================================
