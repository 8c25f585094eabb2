------------------------------ MODULE Playback ------------------------------
(***************************************************************************)
(* Public playback of one video. Players read the master playlist, then    *)
(* the playlist of a rendition, then its segments; each of these requests  *)
(* is several statements to Postgres, without a transaction. Meanwhile the *)
(* rows change as VideoRows says: VideoPipeline implements it for every    *)
(* video, so what holds here holds whatever the transcoders, the deletions *)
(* and the crashes modelled there do. Read-ahead tasks warm the cache,      *)
(* statements fail, players hang up, and the process may be killed.        *)
(*                                                                         *)
(* Of get_or_fetch only the commit of the file, the answer after it and    *)
(* the failures are left, the removal of files is one step (SegmentCache   *)
(* opens both).                                                            *)
(*                                                                         *)
(* A definition marked "wrong variant" is a plausible mistake in the one   *)
(* after it, and is used by nothing.                                       *)
(***************************************************************************)
EXTENDS Integers, FiniteSets

CONSTANTS
    Viewers,        \* players, one request at a time each
    Tasks,          \* bound: read-ahead tasks that may run together
    NumRungs,       \* renditions of the video
    NumSegments,    \* segments of each
    PREFETCH_AHEAD, \* 2 in the code
    MaxAdrift,      \* bound: renames under way that nobody waits for
    MaxTroubles,    \* bound: failures, hang-ups, sweeps and crashes explored
    Faults          \* which kinds of error the environment may produce

ASSUME CountsAssumption ==
    NumRungs \in Nat \ {0} /\ NumSegments \in Nat \ {0}
ASSUME AheadAssumption == PREFETCH_AHEAD \in Nat \ {0}
ASSUME PlaybackBoundsAssumption == MaxTroubles \in Nat /\ MaxAdrift \in Nat
ASSUME PlaybackFaultsAssumption ==
    Faults \subseteq {"telegram", "db", "disk", "client"}

VARIABLES
    \* the rows of the video, as VideoRows has them
    phase,
    rends,
    rows,
    cached,         \* segments in the cache directory
    adrift,         \* those whose request was dropped in the rename
    \* players
    pc,
    variants,       \* renditions of the master playlist, in its order
    on,             \* the rendition being played
    list,           \* positions of its playlist, in order
    at,             \* index of the next segment in list
    \* read-ahead tasks
    task,           \* "idle" or the step it is at
    near,           \* the segment it was spawned for
    offset,
    troubles,
    \* history that only properties read
    answered        \* segments that some player was given

rowVars == <<phase, rends, rows>>
playerVars == <<pc, variants, on, list, at>>
taskVars == <<task, near, offset>>

fileVars == <<cached, adrift>>

vars == <<rowVars, fileVars, playerVars, taskVars, troubles, answered>>

-----------------------------------------------------------------------------

\* Renditions from the lowest bandwidth up, and positions.
Rungs == 1 .. NumRungs
Positions == 0 .. NumSegments - 1
Segments == Rungs \X Positions

Rows == INSTANCE VideoRows

\* What a SELECT ... ORDER BY returns of rows with these keys.
InOrder(S) ==
    CHOOSE s \in [1 .. Cardinality(S) -> S] :
        \A i, j \in 1 .. Cardinality(S) : i < j => s[i] < s[j]

Empty == InOrder({})

\* Where a player is between requests, and the statements of its requests:
\* master, media and segment each begin with get_public. At "answer" the segment
\* is loaded, and its handler has yet to go on.
Between == {"closed", "opened", "playing", "stalled", "lost", "watched"}
Steps == Between \cup
    {"master", "renditions", "media", "rendition", "segments",
     "segment", "itsRendition", "itsRow", "load", "answer"}

Lists(S) == UNION {[1 .. n -> S] : n \in 0 .. Cardinality(S)}

TypeOK ==
    /\ Rows!TypeOK
    /\ cached \subseteq Segments
    /\ adrift \subseteq Segments
    /\ pc \in [Viewers -> Steps]
    /\ variants \in [Viewers -> Lists(Rungs)]
    /\ on \in [Viewers -> Rungs]
    /\ list \in [Viewers -> Lists(Positions)]
    /\ at \in [Viewers -> 1 .. NumSegments + 1]
    /\ task \in [Tasks -> {"idle", "row", "contains", "load"}]
    /\ near \in [Tasks -> Segments]
    /\ offset \in [Tasks -> 1 .. PREFETCH_AHEAD]
    /\ troubles \in 0 .. MaxTroubles
    /\ answered \subseteq Segments

Init ==
    /\ Rows!Init
    /\ cached = {}
    /\ adrift = {}
    /\ pc = [v \in Viewers |-> "closed"]
    /\ variants = [v \in Viewers |-> Empty]
    /\ on = [v \in Viewers |-> 1]
    /\ list = [v \in Viewers |-> Empty]
    /\ at = [v \in Viewers |-> 1]
    /\ task = [t \in Tasks |-> "idle"]
    /\ near = [t \in Tasks |-> <<1, 0>>]
    /\ offset = [t \in Tasks |-> 1]
    /\ troubles = 0
    /\ answered = {}

-----------------------------------------------------------------------------
\* The transcoder and the deletion change the rows, and nothing else seen here.
OwnerStep ==
    /\ Rows!Next
    /\ UNCHANGED <<fileVars, playerVars, taskVars, answered>>

-----------------------------------------------------------------------------
(* A player's requests *)

Moves(v, step) == pc' = [pc EXCEPT ![v] = step]

\* A statement of a request: rows are read, the player does not see anything.
Reads(v, step) ==
    /\ Moves(v, step)
    /\ UNCHANGED <<rowVars, fileVars, variants, on, list, at,
                   taskVars, answered>>

\* The page, an external player by /s/<id>.m3u8, or the same link again.
AskMaster(v) == pc[v] = "closed" /\ Reads(v, "master")

\* get_public: 404 without a row, 409 unless it is ready. Either ends a playback
\* that was under way.
GetPublic(v, step) == Reads(v, IF phase = "ready" THEN step ELSE "lost")

MasterVideo(v) ==
    /\ pc[v] = "master"
    /\ Reads(v, IF phase = "ready" THEN "renditions" ELSE "closed")

\* master answers, unless the list is empty.
MasterRenditions(v) ==
    /\ pc[v] = "renditions"
    /\ IF rends = {} THEN Moves(v, "closed") /\ UNCHANGED variants
       ELSE /\ Moves(v, "opened")
            /\ variants' = [variants EXCEPT ![v] = InOrder(rends)]
    /\ UNCHANGED <<rowVars, fileVars, on, list, at, taskVars, answered>>

\* The player picks a rendition, at first together with a place to begin, then
\* as its bandwidth changes and at the place it has reached.
AskMedia(v) ==
    /\ pc[v] \in {"opened", "playing", "stalled"}
    /\ \E i \in DOMAIN variants[v] : on' = [on EXCEPT ![v] = variants[v][i]]
    /\ IF pc[v] = "opened"
       THEN \E i \in 1 .. NumSegments : at' = [at EXCEPT ![v] = i]
       ELSE UNCHANGED at
    /\ Moves(v, "media")
    /\ UNCHANGED <<rowVars, fileVars, variants, list, taskVars, answered>>

MediaVideo(v) == pc[v] = "media" /\ GetPublic(v, "rendition")

MediaRendition(v) ==
    /\ pc[v] = "rendition"
    /\ Reads(v, IF on[v] \in rends THEN "segments" ELSE "lost")

\* media answers whatever list_segments returns.
MediaSegments(v) ==
    /\ pc[v] = "segments"
    /\ list' = [list EXCEPT ![v] = InOrder(rows[on[v]])]
    /\ Moves(v, "playing")
    /\ UNCHANGED <<rowVars, fileVars, variants, on, at, taskVars, answered>>

\* The next segment of the playlist, or the same again after an error.
AskSegment(v) ==
    /\ pc[v] \in {"playing", "stalled"} /\ at[v] \in DOMAIN list[v]
    /\ Reads(v, "segment")

EndOfList(v) ==
    /\ pc[v] = "playing" /\ at[v] \notin DOMAIN list[v]
    /\ Reads(v, "watched")

SegmentVideo(v) == pc[v] = "segment" /\ GetPublic(v, "itsRendition")

SegmentRendition(v) ==
    /\ pc[v] = "itsRendition"
    /\ Reads(v, IF on[v] \in rends THEN "itsRow" ELSE "lost")

SegmentRow(v) ==
    /\ pc[v] = "itsRow"
    /\ Reads(v, IF list[v][at[v]] \in rows[on[v]] THEN "load" ELSE "lost")

\* spawn_prefetch after the segment was loaded. The bound: no task more than
\* Tasks has, a read-ahead beyond them is not made.
SpawnPrefetch(s) ==
    LET idle == {t \in Tasks : task[t] = "idle"}
    IN  IF idle = {} THEN UNCHANGED taskVars
        ELSE \E t \in idle :
                /\ task' = [task EXCEPT ![t] = "row"]
                /\ near' = [near EXCEPT ![t] = s]
                /\ offset' = [offset EXCEPT ![t] = 1]

\* The segment a request is for.
Asked(v) == <<on[v], list[v][at[v]]>>

\* load_segment, from the cache or from Telegram.
Load(v) ==
    /\ pc[v] = "load"
    /\ cached' = cached \cup {Asked(v)}
    /\ Moves(v, "answer")
    /\ UNCHANGED <<rowVars, adrift, variants, on, list, at, taskVars, answered>>

\* The read-ahead is spawned and the bytes are answered.
Answer(v) ==
    /\ pc[v] = "answer"
    /\ answered' = answered \cup {Asked(v)}
    /\ SpawnPrefetch(Asked(v))
    /\ at' = [at EXCEPT ![v] = @ + 1]
    /\ Moves(v, "playing")
    /\ UNCHANGED <<rowVars, fileVars, variants, on, list>>

PlayerStep(v) ==
    \/ AskMaster(v) \/ MasterVideo(v) \/ MasterRenditions(v)
    \/ AskMedia(v) \/ MediaVideo(v) \/ MediaRendition(v) \/ MediaSegments(v)
    \/ AskSegment(v) \/ SegmentVideo(v) \/ SegmentRendition(v) \/ SegmentRow(v)
    \/ Load(v) \/ Answer(v) \/ EndOfList(v)

-----------------------------------------------------------------------------
(* Read-ahead *)

\* The segment a task looks at.
Ahead(t) == <<near[t][1], near[t][2] + offset[t]>>

TaskMoves(t, step) ==
    /\ task' = [task EXCEPT ![t] = step]
    /\ UNCHANGED near

\* A task that has ended knows nothing any more.
TaskEnds(t) ==
    /\ task' = [task EXCEPT ![t] = "idle"]
    /\ near' = [near EXCEPT ![t] = <<1, 0>>]
    /\ offset' = [offset EXCEPT ![t] = 1]

\* A wrong variant of NextTurn: one turn more than PREFETCH_AHEAD.
NextTurnOnceMore(t) ==
    IF offset[t] > PREFETCH_AHEAD THEN TaskEnds(t)
    ELSE offset' = [offset EXCEPT ![t] = @ + 1] /\ TaskMoves(t, "row")

\* The next offset of the loop, or its end.
NextTurn(t) ==
    IF offset[t] = PREFETCH_AHEAD THEN TaskEnds(t)
    ELSE offset' = [offset EXCEPT ![t] = @ + 1] /\ TaskMoves(t, "row")

\* get_segment by the id of the rendition; nothing there ends the task.
PrefetchRow(t) ==
    /\ task[t] = "row"
    /\ IF Ahead(t)[2] \in rows[Ahead(t)[1]]
       THEN TaskMoves(t, "contains") /\ UNCHANGED offset
       ELSE TaskEnds(t)
    /\ UNCHANGED cached

PrefetchContains(t) ==
    /\ task[t] = "contains"
    /\ IF Ahead(t) \in cached THEN NextTurn(t)
       ELSE TaskMoves(t, "load") /\ UNCHANGED offset
    /\ UNCHANGED cached

\* A wrong variant of PrefetchLoad: a segment that was loaded ahead starts a
\* read-ahead of its own, as one that was asked for does.
PrefetchLoadFeeds(t) ==
    /\ task[t] = "load"
    /\ cached' = cached \cup {Ahead(t)}
    /\ task' = [task EXCEPT ![t] = "row"]
    /\ near' = [near EXCEPT ![t] = Ahead(t)]
    /\ offset' = [offset EXCEPT ![t] = 1]

PrefetchLoad(t) ==
    /\ task[t] = "load"
    /\ cached' = cached \cup {Ahead(t)}
    /\ NextTurn(t)

TaskStep(t) ==
    /\ PrefetchRow(t) \/ PrefetchContains(t) \/ PrefetchLoad(t)
    /\ UNCHANGED <<rowVars, adrift, playerVars, answered>>

-----------------------------------------------------------------------------

(* What goes wrong, or is nobody's next statement *)

\* A download fails, of a segment that is not there or cannot be read.
LoadFails(v) ==
    /\ "telegram" \in Faults
    /\ pc[v] = "load" /\ (Asked(v) \notin cached \/ "disk" \in Faults)
    /\ Reads(v, "stalled")

\* The segment is there and is not written, which is let go.
WriteFails(v) ==
    /\ "disk" \in Faults
    /\ pc[v] = "load" /\ Reads(v, "answer")

\* Where a player is when its request is gone.
Interrupted(step) ==
    CASE step \in {"master", "renditions"} -> "closed"
      [] step \in {"media", "rendition", "segments"} -> "opened"
      [] step \in {"segment", "itsRendition", "itsRow", "load", "answer"} ->
             "stalled"
      [] OTHER -> step

\* A statement of a request fails: 500, which the player tells from a 404.
StatementFails(v) ==
    /\ "db" \in Faults
    /\ pc[v] \notin Between \cup {"load", "answer"}
    /\ Reads(v, Interrupted(pc[v]))

\* The player closes its connection and the handler is dropped where it waits. A
\* rename that was under way goes on without it.
HangUp(v) ==
    /\ "client" \in Faults
    /\ pc[v] \notin Between
    /\ Moves(v, Interrupted(pc[v]))
    /\ \/ UNCHANGED adrift
       \/ /\ pc[v] = "load" /\ Cardinality(adrift) < MaxAdrift
          /\ adrift' = adrift \cup {Asked(v)}
    /\ UNCHANGED <<rowVars, cached, variants, on, list, at, taskVars, answered>>

PlayerTrouble(v) ==
    LoadFails(v) \/ WriteFails(v) \/ StatementFails(v) \/ HangUp(v)

\* An error in place of the row ends the task, one in place of the metadata is a
\* file that is not there, and let _ = load_segment drops the rest.
TaskFails(t) ==
    /\ \/ "db" \in Faults /\ task[t] = "row" /\ TaskEnds(t)
       \/ /\ "disk" \in Faults /\ task[t] = "contains"
          /\ TaskMoves(t, "load") /\ UNCHANGED offset
       \/ /\ Faults \cap {"telegram", "disk"} # {} /\ task[t] = "load"
          /\ NextTurn(t)
    /\ UNCHANGED <<rowVars, fileVars, playerVars, answered>>

\* The sweeper trims the directory, or a deletion drops a file from it.
Evict ==
    /\ \E s \in cached : cached' = cached \ {s}
    /\ UNCHANGED <<rowVars, adrift, playerVars, taskVars, answered>>

\* The process is killed and boots again. What that means for the transcode is a
\* step of the rows.
Restart ==
    /\ pc' = [v \in Viewers |-> Interrupted(pc[v])]
    /\ adrift' = {}
    /\ task' = [t \in Tasks |-> "idle"]
    /\ near' = [t \in Tasks |-> <<1, 0>>]
    /\ offset' = [t \in Tasks |-> 1]
    /\ UNCHANGED <<rowVars, cached, variants, on, list, at, answered>>

Trouble ==
    /\ troubles < MaxTroubles
    /\ troubles' = troubles + 1
    /\ \/ \E v \in Viewers : PlayerTrouble(v)
       \/ \E t \in Tasks : TaskFails(t)
       \/ Evict
       \/ Restart

\* A rename that nobody waits for is done. One that fails may as well not have
\* been under way.
RenameEnds ==
    /\ \E s \in adrift :
        /\ adrift' = adrift \ {s}
        /\ cached' = cached \cup {s}
    /\ UNCHANGED <<rowVars, playerVars, taskVars, answered>>

Smooth ==
    /\ \/ OwnerStep
       \/ \E v \in Viewers : PlayerStep(v)
       \/ \E t \in Tasks : TaskStep(t)
       \/ RenameEnds
    /\ UNCHANGED troubles

Next == Smooth \/ Trouble

Spec == Init /\ [][Next]_vars

-----------------------------------------------------------------------------
(* Properties *)

\* Players that hold a playlist of a rendition.
Playing == {"playing", "stalled", "watched", "segment", "itsRendition",
            "itsRow", "load", "answer"}

\* A master playlist names every rendition of the video, the cheapest first,
\* whatever happened between get_public and list_renditions; there is none of an
\* unfinished video. stream.rs:49-56, repositories/videos.rs:164-177.
MasterIsWhole ==
    \A v \in Viewers :
        pc[v] \in Steps \ {"closed", "master", "renditions"} =>
            variants[v] = [i \in Rungs |-> i]

\* The playlist of a rendition has all its segments in playback order: it says
\* VOD and ENDLIST, so a player takes it for the whole video. The one exception
\* is an empty list, answered when the video was deleted between get_rendition
\* and list_segments. stream.rs:64-71, services/playlist.rs:30-55.
MediaIsWhole ==
    \A v \in Viewers :
        pc[v] \in Playing =>
            \/ list[v] = [i \in 1 .. NumSegments |-> i - 1]
            \/ list[v] = Empty /\ phase = "gone"

\* No player is ever given a part of a video for the whole of it.
\* stream.rs:49-56, 64-71.
PlaylistsAreWhole == MasterIsWhole /\ MediaIsWhole

\* A player that follows its playlists gets a 404 or 409 only for a video that
\* was deleted, or taken back by a crash before its job was settled.
\* stream.rs:64-68, 84-87.
LostOnlyIfWithdrawn ==
    \A v \in Viewers : pc[v] = "lost" => phase # "ready"

\* A segment enters the cache because a player asks for it, or asked and hung up
\* in the middle, or because it is at most PREFETCH_AHEAD past one that a player
\* was given: read-ahead does not feed itself, and a segment that was loaded and
\* never answered starts none. stream.rs:23-29, 89-91, 135-159.
ReadAheadIsNear ==
    [][\A s \in cached' \ cached :
           \/ \E v \in Viewers : pc[v] = "load" /\ s = Asked(v)
           \/ s \in adrift
           \/ \E p \in answered :
                  p[1] = s[1] /\ s[2] - p[2] \in 1 .. PREFETCH_AHEAD]_vars

=============================================================================
