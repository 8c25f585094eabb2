------------------------------ MODULE Encoding ------------------------------
(***************************************************************************)
(* One job inside the transcoder: probe, the ladder, an ffmpeg child per   *)
(* rung with its two pipes, the playlist it leaves, the renditions and the *)
(* progress bar. VideoPipeline shows jobs among uploads, deletions and     *)
(* restarts; this module opens the step "encode" and the numbers.          *)
(*                                                                         *)
(* Two things run beside the transcoder: the child, which blocks when a    *)
(* pipe is full, and the writes of the progress bar that on_progress       *)
(* spawns and nobody awaits.                                               *)
(*                                                                         *)
(* The job may have been claimed before, by a process that died: neither   *)
(* the requeue nor the claim resets what that attempt left in the tables,  *)
(* so the bar begins where it stood and the renditions may be there.       *)
(*                                                                         *)
(* A definition marked "wrong variant" is a plausible mistake in the one   *)
(* after it, and is used by nothing.                                       *)
(***************************************************************************)
EXTENDS Integers, Sequences, FiniteSets

CONSTANTS
    Heights,        \* heights of the sources explored
    Times,          \* what out_time_us reports, in percent of the duration
    NoTime,         \* a line that is not a time: another key, or N/A
    PipeCap,        \* lines a pipe holds
    MaxReports,     \* bound: lines a child writes to stdout
    MaxComplaints,  \* bound: lines a child writes to stderr
    MaxSegments,    \* bound: segments of a rung
    MaxRows,        \* rows one INSERT may have: 65535 parameters, 7 a row
    OldBars,        \* bars that an earlier attempt is explored to leave
    Faults          \* which kinds of error the environment may produce

ASSUME HeightsAssumption == Heights \subseteq Nat \ {0}
ASSUME TimesAssumption == Times \subseteq Int /\ NoTime \notin Times
ASSUME PipeAssumption ==
    PipeCap \in Nat \ {0} /\ MaxReports \in Nat /\ MaxComplaints \in Nat
ASSUME SegmentCountAssumption == MaxSegments \in Nat /\ MaxRows \in Nat
ASSUME OldBarsAssumption == OldBars \subseteq 0 .. 100
ASSUME EncodingFaultsAssumption ==
    Faults \subseteq {"probe", "spawn", "read", "telegram", "db"}

VARIABLES
    \* the row of the video
    status,
    progress,
    stale,          \* the bar is what an earlier attempt left
    taken,          \* the first rendition is there from an earlier attempt
    \* the transcoder
    pc,
    height,         \* SourceInfo, 0 before the probe
    rung,           \* the rung of either loop
    last,           \* last_reported
    encoded,        \* segments parse_playlist found for each rung
    uploaded,       \* uploaded_so_far
    \* spawned set_progress calls on their way, how many for each value
    late,
    \* the child of the current rung
    child,
    want,           \* its next system call
    reports,        \* lines written to stdout
    complaints,     \* lines written to stderr
    made,           \* segments in its playlist
    outPipe,
    errPipe,
    \* what the rungs have become: messages in the chat, rows
    sent,
    rows

barVars == <<progress, stale, last, late>>
childVars == <<child, want, reports, complaints, made, outPipe, errPipe>>
resultVars == <<encoded, uploaded, sent, rows>>

vars == <<status, taken, pc, height, rung, barVars, childVars, resultVars>>

-----------------------------------------------------------------------------
(* The ladder and the bar *)

LADDER == <<360, 720, 1080>>

Rungs == 1 .. 3

\* ladder_for: the rungs no taller than the source, and always the first. As
\* LADDER ascends they are the first few of it.
LadderFor(h) ==
    LET fitting == {r \in Rungs : LADDER[r] <= h}
    IN  IF fitting = {} THEN {1} ELSE fitting

Ladder == LadderFor(height)

\* f64::round of a / b.
Round(a, b) == (2 * a + b) \div (2 * b)

\* A wrong variant of Clamp: times past the probed duration count.
NoClamp(t) == t

Clamp(t) == IF t < 0 THEN 0 ELSE IF t > 100 THEN 100 ELSE t

\* The bar when done percent of rung r are encoded: rungs share 80 equally.
Overall(r, done) == Round(4 * (100 * (r - 1) + done), 5 * Cardinality(Ladder))

Total == encoded[1] + encoded[2] + encoded[3]

UploadBar == 80 + (20 * uploaded) \div Total

Least(a, b) == IF a < b THEN a ELSE b

-----------------------------------------------------------------------------

\* The statements of process and transcode_rung that are not merged.
Steps == {"probe", "start", "spawn", "read", "wait", "parse", "uploading",
          "rendition", "send", "insert", "bar", "hundred", "publish",
          "fail", "over"}

Percent == 0 .. 100

TypeOK ==
    /\ status \in {"queued", "transcoding", "uploading", "ready", "failed"}
    /\ progress \in Percent
    /\ stale \in BOOLEAN
    /\ taken \in BOOLEAN
    /\ pc \in Steps
    /\ height \in Heights \cup {0}
    /\ rung \in Rungs
    /\ last \in Percent \cup {-1}
    /\ encoded \in [Rungs -> 0 .. MaxSegments]
    /\ uploaded \in Nat
    /\ late \in [Percent -> Nat]
    /\ child \in {"none", "running", "done", "crashed", "orphan"}
    /\ want \in {"out", "err", "exit"}
    /\ reports \in 0 .. MaxReports
    /\ complaints \in 0 .. MaxComplaints
    /\ made \in 0 .. MaxSegments
    /\ outPipe \in Seq(Times \cup {NoTime})
    /\ errPipe \in 0 .. PipeCap
    /\ sent \in [Rungs -> 0 .. MaxSegments]
    /\ rows \in [Rungs -> 0 .. MaxSegments]

\* What create left.
FirstAttempt ==
    /\ status = "queued"
    /\ progress = 0
    /\ stale = FALSE
    /\ taken = FALSE

\* What a process left that died in this job, at any of its statements. The bar
\* is past 80 only behind create_rendition, and so is the end of the job.
Retry ==
    /\ status \in {"transcoding", "uploading", "ready", "failed"}
    /\ progress \in OldBars
    /\ stale = TRUE
    /\ taken \in BOOLEAN
    /\ progress > 80 \/ status = "ready" => taken

\* A job that was just claimed: requeue_orphaned_jobs and claim_job change its
\* state and leave the row of the video as it is.
Init ==
    /\ FirstAttempt \/ Retry
    /\ pc = "probe"
    /\ height = 0
    /\ rung = 1
    /\ last = -1
    /\ encoded = [r \in Rungs |-> 0]
    /\ uploaded = 0
    /\ late = [v \in Percent |-> 0]
    /\ child = "none"
    /\ want = "exit"
    /\ reports = 0
    /\ complaints = 0
    /\ made = 0
    /\ outPipe = <<>>
    /\ errPipe = 0
    /\ sent = [r \in Rungs |-> 0]
    /\ rows = [r \in Rungs |-> 0]

-----------------------------------------------------------------------------
(* ffmpeg. It writes to its pipes in an order of its own, and a write to a *)
(* full pipe blocks it. It exits when it has no more to say.               *)

NextWants(out, err) ==
    {w \in {"out", "err", "exit"} :
        /\ w = "out" => out < MaxReports
        /\ w = "err" => err < MaxComplaints}

ChildReport ==
    /\ child = "running" /\ want = "out"
    /\ Len(outPipe) < PipeCap
    /\ \E line \in Times \cup {NoTime} : outPipe' = Append(outPipe, line)
    /\ reports' = reports + 1
    /\ want' \in NextWants(reports + 1, complaints)
    /\ UNCHANGED <<status, taken, pc, height, rung, barVars, resultVars, child,
                   complaints, made, errPipe>>

ChildComplain ==
    /\ child = "running" /\ want = "err"
    /\ errPipe < PipeCap
    /\ errPipe' = errPipe + 1
    /\ complaints' = complaints + 1
    /\ want' \in NextWants(reports, complaints + 1)
    /\ UNCHANGED <<status, taken, pc, height, rung, barVars, resultVars, child,
                   reports, made, outPipe>>

\* Exit code 0 with a playlist, which may be empty, or another code.
ChildExit ==
    /\ child = "running" /\ want = "exit"
    /\ \/ child' = "done" /\ made' \in 0 .. MaxSegments
       \/ child' = "crashed" /\ UNCHANGED made
    /\ UNCHANGED <<status, taken, pc, height, rung, barVars, resultVars, want,
                   reports, complaints, outPipe, errPipe>>

ChildStep == ChildReport \/ ChildComplain \/ ChildExit

-----------------------------------------------------------------------------
(* process, first loop: every rung is encoded before anything is sent *)

\* Every ? of process and transcode_rung.
Fails ==
    /\ pc' = "fail"
    /\ UNCHANGED <<status, taken, height, rung, barVars, childVars, resultVars>>

Goes(step) ==
    /\ pc' = step
    /\ UNCHANGED <<taken, height, childVars>>

\* The source is gone, or ffprobe cannot be run, refuses it, or finds no video.
ProbeFails ==
    /\ "probe" \in Faults
    /\ pc = "probe"
    /\ Fails

Probe ==
    /\ pc = "probe"
    /\ height' \in Heights
    /\ pc' = "start"
    /\ UNCHANGED <<status, taken, rung, barVars, childVars, resultVars>>

\* set_duration, set_status, create_dir_all.
Start ==
    /\ pc = "start"
    /\ status' = "transcoding"
    /\ Goes("spawn")
    /\ UNCHANGED <<rung, barVars, resultVars>>

SpawnFails ==
    /\ "spawn" \in Faults
    /\ pc = "spawn"
    /\ Fails

\* The next turn of the loop, up to the child that runs.
Spawn ==
    /\ pc = "spawn"
    /\ pc' = "read"
    /\ last' = -1
    /\ child' = "running"
    /\ want' \in NextWants(0, 0)
    /\ reports' = 0
    /\ complaints' = 0
    /\ made' = 0
    /\ outPipe' = <<>>
    /\ errPipe' = 0
    /\ UNCHANGED <<status, taken, progress, stale, late, height, rung,
                   resultVars>>

\* on_progress: a changed number of percent is written by a task of its own.
OnProgress(done) ==
    LET overall == Overall(rung, done)
    IN  /\ last' = overall
        /\ late' = IF overall = last THEN late
                   ELSE [late EXCEPT ![overall] = @ + 1]
        /\ UNCHANGED <<progress, stale>>

\* A wrong variant of ReadLine: wait for the child, then read what it wrote.
ReadLineAfterExit ==
    /\ pc = "read" /\ outPipe # <<>> /\ child # "running"
    /\ outPipe' = Tail(outPipe)
    /\ IF Head(outPipe) = NoTime THEN UNCHANGED barVars
       ELSE OnProgress(Clamp(Head(outPipe)))
    /\ UNCHANGED <<status, taken, pc, height, rung, resultVars, child, want,
                   reports, complaints, made, errPipe>>

ReadLine ==
    /\ pc = "read" /\ outPipe # <<>>
    /\ outPipe' = Tail(outPipe)
    /\ IF Head(outPipe) = NoTime THEN UNCHANGED barVars
       ELSE OnProgress(Clamp(Head(outPipe)))
    /\ UNCHANGED <<status, taken, pc, height, rung, resultVars, child, want,
                   reports, complaints, made, errPipe>>

\* next_line()? returns: nobody kills the child, it just loses its readers.
ReadFails ==
    /\ "read" \in Faults
    /\ pc = "read" /\ child = "running"
    /\ pc' = "fail"
    /\ child' = "orphan"
    /\ UNCHANGED <<status, taken, height, rung, barVars, resultVars, want, reports,
                   complaints, made, outPipe, errPipe>>

\* stdout is at its end once the child has exited and the pipe is empty.
EndOfOutput ==
    /\ pc = "read" /\ outPipe = <<>> /\ child # "running"
    /\ Goes("wait")
    /\ UNCHANGED <<status, rung, barVars, resultVars>>

\* wait_with_output drains stderr; the exit code decides.
Wait ==
    /\ pc = "wait"
    /\ errPipe' = 0
    /\ IF child = "done" THEN pc' = "parse" /\ OnProgress(100)
       ELSE pc' = "fail" /\ UNCHANGED barVars
    /\ UNCHANGED <<status, taken, height, rung, resultVars, child, want, reports,
                   complaints, made, outPipe>>

\* A wrong variant of ParsePlaylist: each rung is sent as soon as it is encoded.
ParsePlaylistThenSend ==
    /\ pc = "parse"
    /\ IF made = 0 THEN Fails
       ELSE /\ encoded' = [encoded EXCEPT ![rung] = made]
            /\ Goes("uploading")
            /\ UNCHANGED <<status, rung, barVars, uploaded, sent, rows>>

\* parse_playlist, and the end of the turn.
ParsePlaylist ==
    /\ pc = "parse"
    /\ IF made = 0 THEN Fails
       ELSE /\ encoded' = [encoded EXCEPT ![rung] = made]
            /\ IF rung + 1 \in Ladder THEN rung' = rung + 1 /\ Goes("spawn")
               ELSE UNCHANGED rung /\ Goes("uploading")
            /\ UNCHANGED <<status, barVars, uploaded, sent, rows>>

-----------------------------------------------------------------------------
(* process, second loop: rendition, segments, rows, bar *)

SetUploading ==
    /\ pc = "uploading"
    /\ status' = "uploading"
    /\ rung' = 1
    /\ Goes("rendition")
    /\ UNCHANGED <<barVars, resultVars>>

\* A rendition's name is unique within its video.
CreateRendition ==
    /\ pc = "rendition"
    /\ IF taken THEN Fails
       ELSE /\ Goes("send")
            /\ UNCHANGED <<status, rung, barVars, resultVars>>

\* upload_segments waits for all uploads of the rung, then looks for an error.
UploadSegments ==
    /\ pc = "send"
    /\ \/ /\ sent' = [sent EXCEPT ![rung] = encoded[rung]]
          /\ Goes("insert")
       \/ /\ "telegram" \in Faults
          /\ \E n \in 0 .. encoded[rung] : sent' = [sent EXCEPT ![rung] = n]
          /\ Goes("fail")
    /\ UNCHANGED <<status, rung, barVars, encoded, uploaded, rows>>

\* A wrong variant of CreateSegmentsBatch: what does not fit is dropped.
CreateSegmentsBatchCut ==
    /\ pc = "insert"
    /\ rows' = [rows EXCEPT ![rung] = Least(encoded[rung], MaxRows)]
    /\ uploaded' = uploaded + encoded[rung]
    /\ Goes("bar")
    /\ UNCHANGED <<status, rung, barVars, encoded, sent>>

\* One statement for the rung, which Postgres refuses beyond MaxRows.
CreateSegmentsBatch ==
    /\ pc = "insert"
    /\ IF encoded[rung] > MaxRows THEN Fails
       ELSE /\ rows' = [rows EXCEPT ![rung] = encoded[rung]]
            /\ uploaded' = uploaded + encoded[rung]
            /\ Goes("bar")
            /\ UNCHANGED <<status, rung, barVars, encoded, sent>>

SetUploadProgress ==
    /\ pc = "bar"
    /\ progress' = Least(UploadBar, 99)
    /\ stale' = FALSE
    /\ IF rung + 1 \in Ladder THEN rung' = rung + 1 /\ Goes("rendition")
       ELSE UNCHANGED rung /\ Goes("hundred")
    /\ UNCHANGED <<status, last, late, resultVars>>

\* A wrong variant of SetHundred: the bar of the last rung will do.
SetNothing ==
    /\ pc = "hundred"
    /\ Goes("publish")
    /\ UNCHANGED <<status, rung, barVars, resultVars>>

SetHundred ==
    /\ pc = "hundred"
    /\ progress' = 100
    /\ stale' = FALSE
    /\ Goes("publish")
    /\ UNCHANGED <<status, rung, last, late, resultVars>>

Publish ==
    /\ pc = "publish"
    /\ status' = "ready"
    /\ Goes("over")
    /\ UNCHANGED <<rung, barVars, resultVars>>

\* A statement of process fails, without effect.
StatementFails ==
    /\ "db" \in Faults
    /\ pc \in {"start", "uploading", "rendition", "insert", "bar", "hundred",
               "publish"}
    /\ Fails

\* fail_job and set_failed; an error of theirs is dropped.
SetFailed ==
    /\ pc = "fail"
    /\ \/ status' = "failed"
       \/ "db" \in Faults /\ UNCHANGED status
    /\ Goes("over")
    /\ UNCHANGED <<rung, barVars, resultVars>>

TranscoderStep ==
    \/ Probe \/ Start \/ Spawn
    \/ ReadLine \/ EndOfOutput \/ Wait \/ ParsePlaylist
    \/ SetUploading \/ CreateRendition \/ UploadSegments
    \/ CreateSegmentsBatch \/ SetUploadProgress \/ SetHundred \/ Publish
    \/ SetFailed

\* What may go wrong at any time and never has to.
Fault == ProbeFails \/ SpawnFails \/ ReadFails \/ StatementFails

\* A spawned set_progress runs at last; an error of its own is dropped.
LateProgress ==
    \E v \in Percent :
        /\ late[v] > 0
        /\ late' = [late EXCEPT ![v] = @ - 1]
        /\ \/ progress' = v /\ stale' = FALSE
           \/ "db" \in Faults /\ UNCHANGED <<progress, stale>>
        /\ UNCHANGED <<status, taken, pc, height, rung, last, childVars,
                       resultVars>>

Next == TranscoderStep \/ Fault \/ ChildStep \/ LateProgress

Spec == Init /\ [][Next]_vars

\* tokio polls what is ready, ffmpeg works on unless a pipe blocks it. No fault
\* is owed to anybody.
FairSpec ==
    /\ Spec
    /\ WF_vars(TranscoderStep)
    /\ WF_vars(ChildStep)
    /\ WF_vars(LateProgress)

-----------------------------------------------------------------------------
(* Properties *)

\* The child waits for room on stderr, the transcoder for the end of stdout,
\* ffmpeg.rs:222-237.
StderrBlocks ==
    /\ pc = "read" /\ child = "running"
    /\ want = "err" /\ errPipe = PipeCap

\* transcode_rung reads stdout to its end before it looks at stderr
\* (ffmpeg.rs:222-237), and process has no timeout. Still every job ends, unless
\* a child says more on stderr than a pipe holds: that alone can block it.
EncodeEnds == <>(pc = "over" \/ StderrBlocks)

\* Once this attempt has written the bar, it never runs ahead of the work: while
\* rungs are encoded it is within the slices of the rungs begun, while they are
\* uploaded within what is sent, and only the end of the job shows 100; whatever
\* times ffmpeg reports and whenever a spawned write commits. Before that a job
\* claimed again shows the bar of the attempt that died. transcoder.rs:129-136,
\* 183-187, repositories/videos.rs:321-330, 371-378.
BarNotAhead ==
    ~stale =>
        /\ progress > Overall(rung, 100) => pc \notin {"read", "wait", "parse"}
        /\ progress > 80 => uploaded > 0 /\ progress <= UploadBar
        /\ progress = 100 => pc \in {"publish", "fail", "over"}

\* What the table shows for a video that this attempt has published is 100, or
\* the value of a spawned write that came after set_progress(100): never the 99
\* of the last rung, a number of the upload, or what an earlier attempt left.
\* tests/sweep.sh:68-69 expects 100. transcoder.rs:135, 187.
ReadyBar ==
    status = "ready" /\ ~taken => ~stale /\ (progress = 100 \/ progress <= 80)

\* What the table shows is never more than was done by this attempt once it has
\* written it, and for a published video it is the end of the bar or what a late
\* write left. transcoder.rs:129-136, 183-188.
BarIsTrue == BarNotAhead /\ ReadyBar

\* The bar goes backwards by spawned writes only: uploads count up, over all
\* rungs. transcoder.rs:133-137, 182-184.
OnlyLateWritesLower == [][progress' < progress => late' # late]_vars

\* A video that this attempt has published has, for each rung of its ladder and
\* for no other, as many rows as its playlist has segments, and as many messages:
\* no rung is empty, or cut to what one INSERT takes. transcoder.rs:114-185,
\* ffmpeg.rs:277-281, repositories/videos.rs:196-241.
ReadyHasEveryRow ==
    status = "ready" /\ ~taken =>
        \A r \in Rungs :
            /\ rows[r] = encoded[r] /\ sent[r] = encoded[r]
            /\ encoded[r] > 0 <=> r \in Ladder

\* Nothing is sent before the last rung is encoded: "a rung that fails to encode
\* never leaves half its segments on Telegram", transcoder.rs:112-113.
EncodedBeforeSent ==
    (\E r \in Rungs : sent[r] > 0) => \A r \in Ladder : encoded[r] > 0

=============================================================================
