--------------------------- MODULE VideoPipeline ---------------------------
(***************************************************************************)
(* The life of a video in XenovraStream: the upload handler writes the     *)
(* source to disk and registers it, the transcoder claims the job, encodes *)
(* every rung, sends the segments to the Telegram chat, records them and   *)
(* publishes the video, the delete handler removes all of it again.  The   *)
(* parts share Postgres rows, files on disk and the chat; the process may  *)
(* be killed at any step, and boots again with whatever was persisted.     *)
(*                                                                         *)
(* A statement sent to Postgres is one atomic step, and no two statements  *)
(* that change what is modelled are atomic together: the code opens no     *)
(* transaction here.  A segment's Telegram message is identified by the    *)
(* video, rung, position and claim attempt that sent it.                   *)
(*                                                                         *)
(* A definition marked "wrong variant" is a plausible mistake in the one   *)
(* after it: nothing uses it, and replacing the definition by it must      *)
(* break the property that guards it.                                      *)
(***************************************************************************)
EXTENDS Integers

CONSTANTS
    Videos,             \* the uploads, each of which may become a video
    Workers,            \* transcoders; main.rs spawns one
    Deleters,           \* delete requests that may be in flight together
    NumRungs,           \* renditions ffmpeg::ladder_for chooses
    NumSegments,        \* segments of each rendition
    UploadConcurrency,  \* Config.upload_concurrency, as configured
    MaxRestarts,        \* bound: crashes explored
    Faults,             \* which kinds of error the environment may produce
    Nobody              \* no video: an idle worker or deleter

ASSUME NumRungsAssumption == NumRungs \in Nat \ {0}
ASSUME NumSegmentsAssumption == NumSegments \in Nat \ {0}
ASSUME UploadConcurrencyAssumption == UploadConcurrency \in Nat
ASSUME MaxRestartsAssumption == MaxRestarts \in Nat
ASSUME FaultsAssumption ==
    Faults \subseteq {"encoder", "telegram", "database", "client"}
ASSUME NobodyAssumption == Nobody \notin Videos

VARIABLES
    \* the upload handler, one per upload
    reg,        \* where the handler of each upload is
    source,     \* uploads whose file is in uploads_dir
    \* Postgres
    status,     \* videos.status; "unregistered" before the row, "deleted" after
    job,        \* transcode_jobs.state; "none" when there is no row
    created,    \* transcode_jobs.created_at
    attempts,   \* transcode_jobs.attempts
    clock,      \* NOW() of the next job
    rends,      \* the rungs that have a row in renditions
    rows,       \* the messages the rows of segments point at
    \* Telegram
    chat,       \* messages in the storage's chat
    \* each transcoder
    pc,
    cur,        \* the video of the claimed job
    rung,       \* loop index over the ladder
    sent,       \* what became of each segment of the rung being sent
    scratch,    \* videos with a directory in transcode_dir
    \* each delete request
    delPc,
    delVideo,
    delMsgs,    \* messages listed and not handled yet
    delReady,   \* whether the row it loaded was ready
    \* crashes, and history that only properties read
    restarts,
    touched,    \* videos on which a deletion began
    refused     \* messages Telegram would not delete

uploadVars == <<reg, source>>
tableVars == <<status, job, created, attempts, clock, rends, rows>>
workerVars == <<pc, cur, rung, sent, scratch>>
deleteVars == <<delPc, delVideo, delMsgs, delReady>>
historyVars == <<restarts, touched, refused>>

vars == <<uploadVars, tableVars, chat, workerVars, deleteVars, historyVars>>

-----------------------------------------------------------------------------

Rungs == 1..NumRungs
Segments == 1..NumSegments

\* How many segments are in flight at once: a configured 0 still uploads.
ConcurrencyRaw == UploadConcurrency                        \* wrong variant
Concurrency == IF UploadConcurrency > 1 THEN UploadConcurrency ELSE 1

Message == [video : Videos, rung : Rungs, pos : Segments, attempt : Nat]

MessageOf(v, r, p) ==
    [video |-> v, rung |-> r, pos |-> p, attempt |-> attempts[v]]

MessagesOf(S, v) == {m \in S : m.video = v}

UploadStates ==
    {"new", "body", "onDisk", "row", "drop", "done", "rejected", "lost"}
\* The handler is still running: it dies with the process or the connection.
UploadRunning == {"body", "onDisk", "row", "drop"}

VideoStatus == {"queued", "transcoding", "uploading", "ready", "failed"}
JobState == {"pending", "running", "done", "failed"}

\* The steps of Transcoder.run and Transcoder.process, in source order.
Steps == {"idle", "load", "begin", "encode", "stage", "create", "send",
          "publish", "finish", "fail", "setFailed", "clean", "wipe"}

UploadTypeOK ==
    /\ reg \in [Videos -> UploadStates]
    /\ source \subseteq Videos

TableTypeOK ==
    /\ status \in [Videos -> VideoStatus \cup {"unregistered", "deleted"}]
    /\ job \in [Videos -> JobState \cup {"none"}]
    /\ created \in [Videos -> Nat]
    /\ attempts \in [Videos -> Nat]
    /\ clock \in Nat
    /\ rends \in [Videos -> SUBSET Rungs]

\* A row of segments points at a message, whatever became of the message.
MessageTypeOK == rows \subseteq Message /\ chat \subseteq Message

WorkerTypeOK ==
    /\ pc \in [Workers -> Steps]
    /\ cur \in [Workers -> Videos \cup {Nobody}]
    /\ rung \in [Workers -> Rungs]
    /\ sent \in [Workers -> [Segments -> {"waiting", "sent", "lost"}]]
    /\ scratch \subseteq Videos

DeleteTypeOK ==
    /\ delPc \in [Deleters -> {"idle", "messages"}]
    /\ delVideo \in [Deleters -> Videos \cup {Nobody}]
    /\ delMsgs \in [Deleters -> SUBSET Message]
    /\ delReady \in [Deleters -> BOOLEAN]

HistoryTypeOK ==
    /\ restarts \in Nat
    /\ touched \subseteq Videos
    /\ refused \subseteq Message

TypeOK ==
    /\ UploadTypeOK
    /\ TableTypeOK
    /\ MessageTypeOK
    /\ WorkerTypeOK
    /\ DeleteTypeOK
    /\ HistoryTypeOK

Unsent == [p \in Segments |-> "waiting"]

Init ==
    /\ reg = [v \in Videos |-> "new"]
    /\ source = {}
    /\ status = [v \in Videos |-> "unregistered"]
    /\ job = [v \in Videos |-> "none"]
    /\ created = [v \in Videos |-> 0]
    /\ attempts = [v \in Videos |-> 0]
    /\ clock = 1
    /\ rends = [v \in Videos |-> {}]
    /\ rows = {}
    /\ chat = {}
    /\ pc = [w \in Workers |-> "idle"]
    /\ cur = [w \in Workers |-> Nobody]
    /\ rung = [w \in Workers |-> 1]
    /\ sent = [w \in Workers |-> Unsent]
    /\ scratch = {}
    /\ delPc = [d \in Deleters |-> "idle"]
    /\ delVideo = [d \in Deleters |-> Nobody]
    /\ delMsgs = [d \in Deleters |-> {}]
    /\ delReady = [d \in Deleters |-> FALSE]
    /\ restarts = 0
    /\ touched = {}
    /\ refused = {}

-----------------------------------------------------------------------------
(* Statements on rows that may be gone.  UPDATE ... WHERE id = $1 on a row *)
(* a deletion removed touches nothing and is no error.                     *)

SetStatus(v, s) ==
    status' = IF status[v] = "deleted" THEN status
                                       ELSE [status EXCEPT ![v] = s]

SetJobRetry(v, s) ==                      \* wrong variant: tries again
    job' = IF job[v] = "none" THEN job
           ELSE [job EXCEPT ![v] = IF s = "failed" THEN "pending" ELSE s]
SetJob(v, s) ==
    job' = IF job[v] = "none" THEN job ELSE [job EXCEPT ![v] = s]

-----------------------------------------------------------------------------
(* The upload handler: routers/videos.rs upload, VideosService.register_upload *)

\* remove_file(source_path): a missing file is no error.
SourceKept(v) == source                                    \* wrong variant
SourceRemoved(v) == source \ {v}

\* File::create: the source exists from the first chunk on.
ReceiveFile(v) ==
    /\ reg[v] = "new"
    /\ reg' = [reg EXCEPT ![v] = "body"]
    /\ source' = source \cup {v}
    /\ UNCHANGED <<tableVars, chat, workerVars, deleteVars, historyVars>>

\* The last chunk arrives and is flushed.
FlushFile(v) ==
    /\ reg[v] = "body"
    /\ reg' = [reg EXCEPT ![v] = "onDisk"]
    /\ UNCHANGED <<source, tableVars, chat, workerVars, deleteVars, historyVars>>

\* An empty upload, or one register_upload refuses (no write access, a
\* storage without workers): no row is written and the file goes.
RejectUpload(v) ==
    /\ reg[v] = "onDisk"
    /\ reg' = [reg EXCEPT ![v] = "drop"]
    /\ UNCHANGED <<source, tableVars, chat, workerVars, deleteVars, historyVars>>

CreateVideo(v) ==
    /\ reg[v] = "onDisk"
    /\ reg' = [reg EXCEPT ![v] = "row"]
    /\ status' = [status EXCEPT ![v] = "queued"]
    /\ UNCHANGED <<source, job, created, attempts, clock, rends, rows,
                   chat, workerVars, deleteVars, historyVars>>

\* The job row references the video: once the video is deleted it is an error.
CreateJob(v) ==
    /\ reg[v] = "row"
    /\ status[v] # "deleted"
    /\ reg' = [reg EXCEPT ![v] = "done"]
    /\ job' = [job EXCEPT ![v] = "pending"]
    /\ created' = [created EXCEPT ![v] = clock]
    /\ clock' = clock + 1
    /\ UNCHANGED <<source, status, attempts, rends, rows,
                   chat, workerVars, deleteVars, historyVars>>

CreateFails(v) ==
    /\ \/ reg[v] = "row" /\ status[v] = "deleted"
       \/ reg[v] \in {"onDisk", "row"} /\ "database" \in Faults
    /\ reg' = [reg EXCEPT ![v] = "drop"]
    /\ UNCHANGED <<source, tableVars, chat, workerVars, deleteVars, historyVars>>

\* The Err arm: the file is removed before the error is returned.
DropUpload(v) ==
    /\ reg[v] = "drop"
    /\ reg' = [reg EXCEPT ![v] = "rejected"]
    /\ source' = SourceRemoved(v)
    /\ UNCHANGED <<tableVars, chat, workerVars, deleteVars, historyVars>>

\* The body breaks off (the ? of field.chunk), or the client hangs up and the
\* server drops the handler's future: what it had done so far stays.
AbandonUpload(v) ==
    /\ "client" \in Faults
    /\ reg[v] \in UploadRunning
    /\ reg' = [reg EXCEPT ![v] = "lost"]
    /\ UNCHANGED <<source, tableVars, chat, workerVars, deleteVars, historyVars>>

\* What the handler does by itself once it has the whole body.
UploadStep(v) ==
    \/ RejectUpload(v) \/ CreateVideo(v) \/ CreateJob(v)
    \/ CreateFails(v) \/ DropUpload(v)

-----------------------------------------------------------------------------
(* Transcoder.run *)

\* ORDER BY created_at LIMIT 1 over the pending rows.
OldestNewest(v) ==                                         \* wrong variant
    /\ job[v] = "pending"
    /\ \A u \in Videos : job[u] = "pending" => created[v] >= created[u]
Oldest(v) ==
    /\ job[v] = "pending"
    /\ \A u \in Videos : job[u] = "pending" => created[v] <= created[u]

\* FOR UPDATE SKIP LOCKED makes the claim one atomic step.
Claim(w, v) ==
    /\ pc[w] = "idle"
    /\ Oldest(v)
    /\ job' = [job EXCEPT ![v] = "running"]
    /\ attempts' = [attempts EXCEPT ![v] = @ + 1]
    /\ pc' = [pc EXCEPT ![w] = "load"]
    /\ cur' = [cur EXCEPT ![w] = v]
    /\ UNCHANGED <<uploadVars, status, created, clock, rends, rows, chat,
                   rung, sent, scratch, deleteVars, historyVars>>

\* Nothing is pending: sleep(IDLE_POLL) and ask again.
IdlePoll(w) ==
    /\ pc[w] = "idle"
    /\ \A v \in Videos : job[v] # "pending"
    /\ UNCHANGED vars

\* The Ok arm.  The result of finish_job is dropped.
FinishJob(w) ==
    /\ pc[w] = "finish"
    /\ \/ SetJob(cur[w], "done")
       \/ "database" \in Faults /\ UNCHANGED job
    /\ pc' = [pc EXCEPT ![w] = "clean"]
    /\ UNCHANGED <<uploadVars, status, created, attempts, clock, rends, rows,
                   chat, cur, rung, sent, scratch, deleteVars, historyVars>>

\* The Err arm: first the job, then the video; both results are dropped.
AfterFailJobClean == "clean"                               \* wrong variant
AfterFailJob == "setFailed"

FailJob(w) ==
    /\ pc[w] = "fail"
    /\ \/ SetJob(cur[w], "failed")
       \/ "database" \in Faults /\ UNCHANGED job
    /\ pc' = [pc EXCEPT ![w] = AfterFailJob]
    /\ UNCHANGED <<uploadVars, status, created, attempts, clock, rends, rows,
                   chat, cur, rung, sent, scratch, deleteVars, historyVars>>

SetFailed(w) ==
    /\ pc[w] = "setFailed"
    /\ \/ SetStatus(cur[w], "failed")
       \/ "database" \in Faults /\ UNCHANGED status
    /\ pc' = [pc EXCEPT ![w] = "clean"]
    /\ UNCHANGED <<uploadVars, job, created, attempts, clock, rends, rows,
                   chat, cur, rung, sent, scratch, deleteVars, historyVars>>

\* remove_file(source_path), whatever process returned: after the job is
\* settled, never before.
SourceDueEarly(w) == pc[w] \in {"finish", "clean"}         \* wrong variant
SourceDue(w) == pc[w] = "clean"

DropSource(w) ==
    /\ SourceDue(w)
    /\ source' = SourceRemoved(cur[w])
    /\ pc' = [pc EXCEPT ![w] = "wipe"]
    /\ UNCHANGED <<reg, tableVars, chat, cur, rung, sent, scratch,
                   deleteVars, historyVars>>

\* remove_dir_all(job_dir), and the next turn of the loop.
DropScratch(w) ==
    /\ pc[w] = "wipe"
    /\ scratch' = scratch \ {cur[w]}
    /\ pc' = [pc EXCEPT ![w] = "idle"]
    /\ cur' = [cur EXCEPT ![w] = Nobody]
    /\ rung' = [rung EXCEPT ![w] = 1]
    /\ sent' = [sent EXCEPT ![w] = Unsent]
    /\ UNCHANGED <<uploadVars, tableVars, chat, deleteVars, historyVars>>

-----------------------------------------------------------------------------
(* Transcoder.process *)

\* The job's video row and its source file must still be there.
Load(w) ==
    /\ pc[w] = "load"
    /\ pc' = [pc EXCEPT ![w] =
                IF status[cur[w]] # "deleted" /\ cur[w] \in source
                THEN "begin" ELSE "fail"]
    /\ UNCHANGED <<uploadVars, tableVars, chat, cur, rung, sent, scratch,
                   deleteVars, historyVars>>

\* probe, set_duration, set_status(Transcoding), create_dir_all(job_dir)
Begin(w) ==
    /\ pc[w] = "begin"
    /\ SetStatus(cur[w], "transcoding")
    /\ scratch' = scratch \cup {cur[w]}
    /\ pc' = [pc EXCEPT ![w] = "encode"]
    /\ UNCHANGED <<uploadVars, job, created, attempts, clock, rends, rows,
                   chat, cur, rung, sent, deleteVars, historyVars>>

\* One turn of the encoding loop: every rung is encoded before any is sent.
Encode(w) ==
    /\ pc[w] = "encode"
    /\ \/ /\ rung[w] < NumRungs
          /\ rung' = [rung EXCEPT ![w] = @ + 1]
          /\ UNCHANGED pc
       \/ /\ rung[w] = NumRungs
          /\ rung' = [rung EXCEPT ![w] = 1]
          /\ pc' = [pc EXCEPT ![w] = "stage"]
    /\ UNCHANGED <<uploadVars, tableVars, chat, cur, sent, scratch,
                   deleteVars, historyVars>>

\* set_status(Uploading) and the storage's chat_id
BeginUpload(w) ==
    /\ pc[w] = "stage"
    /\ SetStatus(cur[w], "uploading")
    /\ pc' = [pc EXCEPT ![w] = "create"]
    /\ UNCHANGED <<uploadVars, job, created, attempts, clock, rends, rows,
                   chat, cur, rung, sent, scratch, deleteVars, historyVars>>

\* renditions.video_id references the video; UNIQUE (video_id, name).
RenditionAcceptedAgain(v, r) == status[v] # "deleted"      \* wrong variant
RenditionAcceptedOrphan(v, r) == r \notin rends[v]         \* wrong variant
RenditionAccepted(v, r) == status[v] # "deleted" /\ r \notin rends[v]

CreateRendition(w) ==
    /\ pc[w] = "create"
    /\ IF RenditionAccepted(cur[w], rung[w])
       THEN /\ rends' = [rends EXCEPT ![cur[w]] = @ \cup {rung[w]}]
            /\ sent' = [sent EXCEPT ![w] = Unsent]
            /\ pc' = [pc EXCEPT ![w] = "send"]
       ELSE /\ pc' = [pc EXCEPT ![w] = "fail"]
            /\ UNCHANGED <<rends, sent>>
    /\ UNCHANGED <<uploadVars, status, job, created, attempts, clock, rows,
                   chat, cur, rung, scratch, deleteVars, historyVars>>

\* buffered(n) starts a segment once fewer than n lie between it and the
\* first that is not finished.
InWindow(w, p) ==
    \A q \in Segments : sent[w][q] = "waiting" => p < q + Concurrency

\* One upload completes.  It fails when Telegram never got the segment, and
\* as well when the answer is lost after the message is in the chat.
Send(w, p) ==
    /\ pc[w] = "send"
    /\ sent[w][p] = "waiting"
    /\ InWindow(w, p)
    /\ LET m == MessageOf(cur[w], rung[w], p) IN
       \/ /\ sent' = [sent EXCEPT ![w][p] = "sent"]
          /\ chat' = chat \cup {m}
       \/ /\ "telegram" \in Faults
          /\ sent' = [sent EXCEPT ![w][p] = "lost"]
          /\ chat' \in {chat, chat \cup {m}}
    /\ UNCHANGED <<uploadVars, tableVars, pc, cur, rung, scratch,
                   deleteVars, historyVars>>

\* results.into_iter().collect(): one failed upload fails the rung, and what
\* the others sent is forgotten.
DeliveredOrLost(w) == {p \in Segments : sent[w][p] # "waiting"}  \* wrong variant
Delivered(w) == {p \in Segments : sent[w][p] = "sent"}
RungSentAny(w) == Delivered(w) # {}                        \* wrong variant
RungSent(w) == Delivered(w) = Segments

\* create_segments_batch is one INSERT; its rows reference the rendition.
InsertSegments(w) ==
    /\ pc[w] = "send"
    /\ \A p \in Segments : sent[w][p] # "waiting"
    /\ IF RungSent(w) /\ status[cur[w]] # "deleted"
       THEN /\ rows' = rows \cup
                        {MessageOf(cur[w], rung[w], p) : p \in Delivered(w)}
            /\ rung' = [rung EXCEPT ![w] = IF @ < NumRungs THEN @ + 1 ELSE @]
            /\ pc' = [pc EXCEPT ![w] =
                        IF rung[w] < NumRungs THEN "create" ELSE "publish"]
       ELSE /\ pc' = [pc EXCEPT ![w] = "fail"]
            /\ UNCHANGED <<rows, rung>>
    /\ UNCHANGED <<uploadVars, status, job, created, attempts, clock, rends,
                   chat, cur, sent, scratch, deleteVars, historyVars>>

\* set_progress(100), set_status(Ready)
Publish(w) ==
    /\ pc[w] = "publish"
    /\ SetStatus(cur[w], "ready")
    /\ pc' = [pc EXCEPT ![w] = "finish"]
    /\ UNCHANGED <<uploadVars, job, created, attempts, clock, rends, rows,
                   chat, cur, rung, sent, scratch, deleteVars, historyVars>>

\* Where a ? of process may return the error of a statement, of ffmpeg, or
\* of a file: nothing that was done before it is undone.
ErrorPointsLate == {"load", "begin", "publish", "finish"}  \* wrong variant
ErrorPoints ==
    (IF "database" \in Faults
        THEN {"load", "begin", "stage", "create", "publish"} ELSE {})
    \cup (IF "encoder" \in Faults THEN {"begin", "encode"} ELSE {})

ProcessFails(w) ==
    /\ \/ pc[w] \in ErrorPoints
       \/ /\ "database" \in Faults
          /\ pc[w] = "send"
          /\ \A p \in Segments : sent[w][p] # "waiting"
    /\ pc' = [pc EXCEPT ![w] = "fail"]
    /\ UNCHANGED <<uploadVars, tableVars, chat, cur, rung, sent, scratch,
                   deleteVars, historyVars>>

WorkerStep(w) ==
    \/ \E v \in Videos : Claim(w, v)
    \/ FinishJob(w) \/ FailJob(w) \/ SetFailed(w)
    \/ DropSource(w) \/ DropScratch(w)
    \/ Load(w) \/ Begin(w) \/ Encode(w) \/ BeginUpload(w)
    \/ CreateRendition(w) \/ InsertSegments(w) \/ Publish(w)
    \/ \E p \in Segments : Send(w, p)

-----------------------------------------------------------------------------
(* VideosService.delete *)

\* Loads the row and lists the messages its segment rows point at.
DelBegin(d, v) ==
    /\ delPc[d] = "idle"
    /\ status[v] \notin {"unregistered", "deleted"}
    /\ delPc' = [delPc EXCEPT ![d] = "messages"]
    /\ delVideo' = [delVideo EXCEPT ![d] = v]
    /\ delMsgs' = [delMsgs EXCEPT ![d] = MessagesOf(rows, v)]
    /\ delReady' = [delReady EXCEPT ![d] = status[v] = "ready"]
    /\ touched' = touched \cup {v}
    /\ UNCHANGED <<uploadVars, tableVars, chat, workerVars, restarts, refused>>

\* delete_message: a message that is already gone is no error, and an error
\* is only logged.
DelMessage(d, m) ==
    /\ delPc[d] = "messages"
    /\ m \in delMsgs[d]
    /\ delMsgs' = [delMsgs EXCEPT ![d] = @ \ {m}]
    /\ \/ /\ chat' = chat \ {m}
          /\ UNCHANGED refused
       \/ /\ "telegram" \in Faults
          /\ refused' = refused \cup {m}
          /\ UNCHANGED chat
    /\ UNCHANGED <<uploadVars, tableVars, workerVars, delPc, delVideo,
                   delReady, restarts, touched>>

ResetDelete(d) ==
    /\ delPc' = [delPc EXCEPT ![d] = "idle"]
    /\ delVideo' = [delVideo EXCEPT ![d] = Nobody]
    /\ delMsgs' = [delMsgs EXCEPT ![d] = {}]
    /\ delReady' = [delReady EXCEPT ![d] = FALSE]

\* Renditions, segments and the job cascade from the video's row.  The
\* source file and the transcode directory are not looked at.
DelRowEarly(d) == delPc[d] = "messages"                    \* wrong variant
DelRowDue(d) == delPc[d] = "messages" /\ delMsgs[d] = {}

DelRow(d) ==
    /\ DelRowDue(d)
    /\ LET v == delVideo[d] IN
       /\ status' = [status EXCEPT ![v] = "deleted"]
       /\ job' = [job EXCEPT ![v] = "none"]
       /\ rends' = [rends EXCEPT ![v] = {}]
       /\ rows' = {m \in rows : m.video # v}
    /\ ResetDelete(d)
    /\ UNCHANGED <<uploadVars, created, attempts, clock, chat, workerVars,
                   historyVars>>

\* The client hangs up or a statement fails: the row stays, and what was
\* removed from the chat stays removed.
DelAbort(d) ==
    /\ delPc[d] = "messages"
    /\ Faults \cap {"client", "database"} # {}
    /\ ResetDelete(d)
    /\ UNCHANGED <<uploadVars, tableVars, chat, workerVars, historyVars>>

DeleteStep(d) ==
    \/ \E m \in delMsgs[d] : DelMessage(d, m)
    \/ DelRow(d)

-----------------------------------------------------------------------------
(* The process is killed and main runs again. *)

\* requeue_orphaned_jobs: UPDATE ... SET state = 'pending' WHERE state = 'running'
RequeuedNone(j) == j                                           \* wrong variant
Requeued(j) == IF j = "running" THEN "pending" ELSE j

\* Rows, files and messages survive; handlers, claims and cursors do not.
\* An error of the requeue is only logged, and the server starts anyway.
Restart ==
    /\ restarts < MaxRestarts
    /\ restarts' = restarts + 1
    /\ \/ job' = [v \in Videos |-> Requeued(job[v])]
       \/ "database" \in Faults /\ UNCHANGED job
    /\ reg' = [v \in Videos |-> IF reg[v] \in UploadRunning THEN "lost" ELSE reg[v]]
    /\ pc' = [w \in Workers |-> "idle"]
    /\ cur' = [w \in Workers |-> Nobody]
    /\ rung' = [w \in Workers |-> 1]
    /\ sent' = [w \in Workers |-> Unsent]
    /\ delPc' = [d \in Deleters |-> "idle"]
    /\ delVideo' = [d \in Deleters |-> Nobody]
    /\ delMsgs' = [d \in Deleters |-> {}]
    /\ delReady' = [d \in Deleters |-> FALSE]
    /\ UNCHANGED <<source, status, created, attempts, clock, rends, rows,
                   chat, scratch, touched, refused>>

-----------------------------------------------------------------------------

Next ==
    \/ \E v \in Videos :
          ReceiveFile(v) \/ FlushFile(v) \/ UploadStep(v) \/ AbandonUpload(v)
    \/ \E w \in Workers : WorkerStep(w) \/ IdlePoll(w) \/ ProcessFails(w)
    \/ \E d \in Deleters :
          \/ \E v \in Videos : DelBegin(d, v)
          \/ DeleteStep(d)
          \/ DelAbort(d)
    \/ Restart

Spec == Init /\ [][Next]_vars

\* tokio polls every task that can go on, and ffmpeg, Postgres and Telegram
\* answer, if only with an error.  Nothing obliges a client to upload, to go on
\* sending a body it began, or to delete, nor the environment to fail or crash.
FairSpec ==
    /\ Spec
    /\ \A v \in Videos : WF_vars(UploadStep(v))
    /\ \A w \in Workers : WF_vars(WorkerStep(w))
    /\ \A d \in Deleters : WF_vars(DeleteStep(d))

-----------------------------------------------------------------------------
(* Safety *)

\* A video that a player can open is whole: Publish comes after every rung
\* has its rendition row and every segment of it exactly one row, whatever
\* crashed, failed or was retried before (process, create_segments_batch).
ReadyComplete ==
    \A v \in Videos : status[v] = "ready" =>
        /\ rends[v] = Rungs
        /\ \A r \in Rungs, p \in Segments :
              \E m \in MessagesOf(rows, v) :
                 /\ m.rung = r
                 /\ m.pos = p
                 /\ \A n \in MessagesOf(rows, v) :
                       n.rung = r /\ n.pos = p => n = m

\* Behind a published video the chat holds nothing the rows do not know of:
\* no half-sent rung of an earlier attempt stays where delete cannot find it.
ReadyMatchesChat ==
    \A v \in Videos : status[v] = "ready" => MessagesOf(chat, v) \subseteq rows

\* Until somebody deletes it, a published video can be fetched: every message
\* its rows point at is in the chat, even when upload answers were lost.
ReadyPlayable ==
    \A v \in Videos : status[v] = "ready" /\ v \notin touched =>
        MessagesOf(rows, v) \subseteq chat

\* claim_job's promise: two transcoders never work on the same video, across
\* restarts and requeues too (repositories/videos.rs:315-317).
ClaimExclusive ==
    \A w, x \in Workers : w # x /\ cur[w] # Nobody => cur[w] # cur[x]

\* A job is claimed at most once each time the program runs, whatever fails:
\* "we do not retry automatically" (transcoder.rs:64-66), so what cannot be
\* transcoded is not tried in a loop, and attempts counts the boots that tried.
ClaimedOncePerBoot == \A v \in Videos : attempts[v] <= restarts + 1

\* Whenever a restart may hand a job out again its source is still on disk:
\* the job is settled before the file is removed.  Postgres is up here: a
\* finish_job that fails is ignored and the file removed all the same.
UnsettledHasSource ==
    \A v \in Videos : job[v] \in {"pending", "running"} => v \in source

\* A job is only done when its video is published.
DoneMeansReady == \A v \in Videos : job[v] = "done" => status[v] = "ready"

\* No late step of a transcoder or of the upload handler gives a deleted video
\* rows again: the foreign keys refuse them, so nothing is left without owner.
DeletedLeavesNoRows ==
    \A v \in Videos : status[v] = "deleted" =>
        /\ job[v] = "none"
        /\ rends[v] = {}
        /\ MessagesOf(rows, v) = {}

\* A deletion that listed a published video leaves none of its messages in
\* the chat except those Telegram refused to delete: the snapshot it took
\* before the first delete_message was complete and stays complete.
DeleteSyncsReady ==
    [][\A d \in Deleters : \A v \in Videos :
          /\ delVideo[d] = v
          /\ delReady[d]
          /\ delPc'[d] = "idle"
          /\ status[v] # "deleted"
          /\ status'[v] = "deleted"
          => MessagesOf(chat', v) \subseteq refused]_vars

\* What a player has opened does not go away under it: a published video
\* stays published until it is deleted, at any time once its job is done, and
\* without a restart even before: no error can reach the Err arm of run once
\* process has set the status to ready.
ReadyStays ==
    [][\A v \in Videos :
          status[v] = "ready" /\ (job[v] = "done" \/ restarts = 0) =>
             status'[v] \in {"ready", "deleted"}]_vars

-----------------------------------------------------------------------------
(* Liveness, under FairSpec *)

\* Every queued job is settled or removed, whatever the segments sent do and
\* however often (up to MaxRestarts) the process dies over it.
JobsDrain ==
    \A v \in Videos :
        job[v] \in {"pending", "running"} ~> job[v] \in {"done", "failed", "none"}

\* An upload that was accepted ends as a published, failed or deleted video,
\* if the process stays up.
VideoSettles ==
    \A v \in Videos :
        reg[v] = "done" ~>
            status[v] \in {"ready", "failed", "deleted"} \/ restarts > 0

\* A refused, transcoded or failed upload gives its disk space back, unless
\* somebody deletes the video, the client hangs up, or the process is killed
\* (run's remove_file, the Err arm of upload).
SourceReclaimed ==
    \A v \in Videos :
        v \in source /\ reg[v] # "body" ~>
            v \notin source \/ reg[v] = "lost" \/ v \in touched \/ restarts > 0

-----------------------------------------------------------------------------
(* What the documentation says and the code does not keep *)

\* README.md:24-26: "A restart mid-transcode re-queues the job instead of
\* losing the upload."  With no error of the environment, nothing fails.
NothingFails == \A v \in Videos : status[v] # "failed"

\* README.md:32-33: "Delete syncs to Telegram - removing a video removes every
\* segment message from the chat", once nobody works on the video any more.
DeleteSyncs ==
    \A v \in Videos :
        /\ status[v] = "deleted"
        /\ \A w \in Workers : cur[w] # v
        /\ \A d \in Deleters : delVideo[d] # v
        => MessagesOf(chat, v) = {}

=============================================================================
