# XenovraStream in TLA+

XenovraStream takes a video upload, encodes it into HLS renditions, keeps the
segments as documents in a Telegram channel and plays them from there through
an on-disk cache. It is one Rust process (tokio, axum, sqlx) with a Postgres
database, some directories and a Telegram chat as its memory. Nearly everything
that can go wrong lies between two of those: at run time the code opens a
transaction in one place only (`get_token`), handlers are dropped when a client hangs up, and the
process may be killed at any step.

This directory holds TLA+ modules of the parts where that matters, TLC
configurations that check them on small instances, and TLAPS proofs for every
value of the constants. Paths below are relative to
`src/xenovrastream/src/` unless they begin with `src/`.

## 1. Inventory

| part | state | operations | hard to test because |
|---|---|---|---|
| Upload handler (`routers/videos.rs`, `services/videos.rs`) | a file in `uploads_dir`, rows of `videos` and `transcode_jobs` | receive the parts of the body, truncate the title, check access, insert the video, insert the job, drop the file on error | the client may hang up or the process die between any two of them; a tokio file tells of a failed write later |
| Job queue (`repositories/videos.rs`, `models/jobs.rs`) | `transcode_jobs` | create, claim (`FOR UPDATE SKIP LOCKED`, oldest first), finish, fail, requeue at boot | claims live in memory, rows on disk |
| Transcoder (`services/transcoder.rs`) | the job it is on, the rung, the window of uploads, a scratch directory | load, probe, encode, send segments `buffered(n)`, insert rows, publish, settle the job, remove files | some twenty statements, each of which may fail, interleaved with deletions and a restart |
| Video deletion (`services/videos.rs`) | a list of messages read once | list, one `deleteMessage` each, delete the row (cascade), drop cached files | the list is stale while a transcoder works |
| Ffmpeg driver (`services/ffmpeg.rs`), with the progress bar of `services/transcoder.rs` | a child process and two pipes; spawned writes of the bar | probe, choose the ladder, encode, parse the playlist, report progress | pipes that fill; writes that nobody awaits; boundary values |
| Segment cache (`services/segment_cache.rs`) | a directory, a map of locks | get_or_fetch, write (temporary file and rename), sweep, remove | dropped futures give locks back while their file operation still runs |
| Playback (`routers/stream.rs`, `services/playlist.rs`) | none of its own; a player keeps the playlists it was given | master playlist, media playlist, a segment, read-ahead tasks | each is several statements without a transaction, while the video is published, deleted or taken back |
| Token scheduler (`services/storage_workers_scheduler.rs`, `repositories/storage_workers.rs`) | `storage_workers_usages` | count and take a token in a transaction, sleep, retry | concurrent transactions at READ COMMITTED |
| Telegram client (`common/telegram_api/bot_api.rs`) | none; the chat is outside | upload, delete_message, download, normalize_chat_id | answers that are lost, or are errors with a body |
| Storages and access (`services/storages.rs`, `repositories/{storages,access}.rs`, `common/access.rs`) | `storages`, `access`, `storage_workers`, `users` | create with an undo, grant, restrict, delete, add a bot, register | checks that are stale when used, creates that stop half way |
| Users and authentication, configuration, server, pages | `users`; none | login, tokens, routing, JavaScript | single statements and library calls: not modelled, except registration |

How they interact: the upload handler and the transcoder meet in
`transcode_jobs`, transcoder and deletion in the rows of the video and in the
chat, playback and deletion in the cache directory, and everybody who calls
Telegram in the token scheduler. There is no message passing; the shared state
is rows, files and the chat.

What makes each part correct, in the order of the modules: a video that can be
played is whole and known to the rows; claims are exclusive and no accepted
upload is forgotten; deletion leaves neither rows nor messages; a segment is
fetched once, whole, by one request at a time, and nobody waits for ever; what
is encoded is what is published, and the bar does not run ahead of the attempt that writes it; what is queued is
one part of the body, whole; no player takes a part of a video for all of it; a bot
is used no more than its limit allows, and waiting ends; a storage that exists
can be managed by somebody.

`PROJECT.json` lists every hazard at its line, with the properties that catch it.

## 2. Modules

| module | what it is |
|---|---|
| `VideoPipeline` | upload handler, job table, transcoder, deletion, restart |
| `VideoPipelineInv` | its inductive invariant `IInv`, in named parts |
| `VideoPipelineProofs` | theorems about it |
| `JobQueue` | what `transcode_jobs` promises, as an abstract queue |
| `VideoPipelineJobs` | the refinement mapping from `VideoPipeline` to `JobQueue` |
| `VideoRows` | what the rows of one video promise their readers: rungs become whole one after the other, published once, removed together |
| `VideoPipelineRows` | the refinement mapping from `VideoPipeline` to `VideoRows`, for every video |
| `VideoPipelineViewsProofs` | that both mappings hold, and what needs the order of claims, the count of attempts or the list of a deletion |
| `Encoding`, `EncodingInv`, `EncodingProofs` | one job inside the transcoder: ladder, children, pipes, bar, rows |
| `UploadIntake`, `UploadIntakeInv`, `UploadIntakeProofs` | one upload request, part by part and chunk by chunk |
| `Playback`, `PlaybackInv`, `PlaybackProofs` | playlists, segments and read-ahead of one video, statement by statement |
| `SegmentCache`, `SegmentCacheInv`, `SegmentCacheProofs` | cache, lock map, read-ahead, sweeps, dropped requests |
| `SegmentStore` | what the cache promises for one segment, without locks, temporary files and requests |
| `SegmentCacheStore` | the refinement mapping from `SegmentCache` to `SegmentStore`, for every segment |
| `TokenScheduler`, `TokenSchedulerInv`, `TokenSchedulerProofs` | the transaction of `get_token` and the loop around it |
| `StorageAccess`, `StorageAccessProofs` | storages, who may use them, registration |
| `MC*` | model values and symmetry for TLC |

Three abstract specifications say what a component promises the others.
`VideoPipeline` implements `JobQueue` and `VideoRows`, `SegmentCache` implements
`SegmentStore`. `VideoRows` is where two components meet: `VideoPipeline` is proved to
implement it and `Playback` has it for its environment (`OwnerStep` is a step
of it), so what is proved of players holds beside every transcoder, deletion,
fault and restart that `VideoPipeline` has, and not beside a second, simpler model
of them.

A definition marked *wrong variant* stands before the one it varies. It is a
plausible mistake in the code that definition models, and is used by nothing;
putting it in the place of the definition must break a property, which shows
that the property depends on the code.

### VideoPipeline

| variables | code |
|---|---|
| `reg`, `source` | where `VideosRouter::upload` is, and its file in `uploads_dir` |
| `status`, `job`, `created`, `attempts`, `clock` | `videos.status`, `transcode_jobs.{state, created_at, attempts}`, NOW() |
| `rends`, `rows` | `renditions`, `segments` (a row is the message it points at) |
| `chat` | messages in the channel |
| `pc`, `cur`, `rung`, `sent`, `scratch` | the transcoder: step, claimed video, loop index, outcome of each upload of the rung, scratch directory |
| `delPc`, `delVideo`, `delMsgs`, `delReady` | a delete request and the list it read |

One action is one statement to Postgres, one call to Telegram, or one file
operation, with the code around it; the names follow the code (`Claim`,
`CreateRendition`, `InsertSegments`, `FinishJob`, `SetFailed`, `DelRow`, ...).
`Restart` is a kill and the next boot: memory and handlers are lost, rows, files
and messages stay, running jobs are requeued, scratch directories stay.

Merged or left out, because nothing a property reads tells the difference:
probe, `set_duration`, `set_status(Transcoding)` and `create_dir` are one step
`Begin`; loading the row, the access check and the listing of a deletion are one
step `DelBegin`; encoding and `set_progress` are in `Encoding`, the body of an
upload in `UploadIntake`; a refused upload (no access, no bot) is `RejectUpload`. A statement that fails has no effect. A message that
Telegram accepted although the code sees an error is modelled.

### Encoding

It opens what `VideoPipeline` calls `encode` and adds the numbers. The job is
claimed for the first time (`FirstAttempt`: the row as `create` left it), or again
after a crash (`Retry`): `requeue_orphaned_jobs` and `claim_job` change the job only, and
`process` sets no bar before its first report, so the attempt begins with the status
and the bar the dead one left, and with its first rendition if it had got so far.

| variables | code |
|---|---|
| `status`, `progress` | the row of the video |
| `stale`, `taken` | whether the bar is still that of an attempt that died, and whether the first rendition is there from it |
| `pc`, `height`, `rung`, `last`, `encoded`, `uploaded` | `process`: its statement, `SourceInfo`, the rung of either loop, `last_reported`, the segments `parse_playlist` found, `uploaded_so_far` |
| `late` | the `set_progress` calls `on_progress` has spawned: how many of each value have not run |
| `child`, `want`, `reports`, `complaints`, `made`, `outPipe`, `errPipe` | ffmpeg: its state, the system call it is about to make, the lines and segments it wrote, and the two pipes |
| `sent`, `rows` | messages and `segments` rows of each rung |

The child writes a line to a pipe with room, or waits; the transcoder reads
stdout to its end, waits for the exit, and parses. What `out_time_us` reports is
any of a few percentages of the duration, negative and beyond the end included,
and lines that are no time; rounding is that of the code. ffmpeg's arguments and
the pictures are left out, and so is where a segment is cut.

### UploadIntake

`parts`, `whole` and `ended` are what the client has sent: it decides part by
part and chunk by chunk, and may break off or leave at any point. `title`, `name`,
`size` and `gotFile` are the locals of the handler, `file` the file in
`uploads_dir` (which part it was created for, how much of it is on disk),
`buffer` the chunk a blocking thread still has to write, `fileError` an error the
next call will tell of. `row` and `job` are what was registered. A string is
short or can be cut at byte 255 (`plain`), or has a character across it
(`uncuttable`), where `truncate` panics.

### Playback

`phase`, `rends` and `rows` are the tables as `VideoRows` has them: a video is open to
the transcode that fills it, ready, closed (no transcode goes on with its rows) or
gone. A player keeps what it was given: `variants` (the master playlist),
`on` and `list` (a media playlist), `at` (its place), and its step `pc` in the
request it makes. A read-ahead task has `task`, `near` (the segment that spawned it)
and `offset`. `cached` is the directory, `adrift` the renames under way whose request was
dropped; `Evict` is whatever removes a file from the directory. `answered` is history.

A segment request ends in two steps: `Load` is `load_segment` up to the commit of the
file (`segment_cache.rs:98`), `Answer` spawns the read-ahead and gives the bytes
(`stream.rs:91-108`). Between any two steps the player may hang up or the process die, so a
segment may be cached and never answered. What goes wrong is counted by `troubles`:
a download that fails, of a segment that is missing or cannot be read (`LoadFails`), a
write that fails and is let go (`WriteFails`), a statement to Postgres that fails
(`StatementFails`), a read-ahead that meets any of these (`TaskFails`), `HangUp`, `Evict`,
and `Restart`, which ends the requests and tasks; what it means for the transcode is a
step of `VideoRows` (`Close`). The player is any HLS player, not the one of
`src/ui`: what it asks and when is open.

`SegmentCache` and `Playback` meet in `load_segment`: `Playback` takes from it that a
load ends with the segment in the cache, with the bytes alone, or with an error, and
that a dropped request may leave a rename behind.

### VideoRows and its mapping

In `VideoPipelineRows` a video is open while it has no row of a rendition or while some
transcoder is past its first `create_rendition` (`Filling`): a retry that meets an old
row stops there and never fills one, so rows left by a crash are closed for good. It
is ready or gone when its row says so, and a rung has the positions of its rows.

### JobQueue and its mapping

A worker holds its job from the claim to the statement that settles it
(`HeldJob`). `Reliable` is that no database fault is possible. Without it a statement that
settles a job may fail, which `run` does not look at (`Abandon`), and so may the requeue at
boot, which `main` logs and goes on (`Reboot`): the job stays `running` with nobody on
it until the next boot that requeues.

### SegmentStore and its mapping

`content` is the file under the final name, `paid` whether the segment was downloaded since
its file was lost or could not be written or read, `doubted` whether the file is there and
whoever last had the lock could not read it (`misread`), which has it paid for and
replaced (`Doubt`, and `Confirm` if the next one can read it), `spoiled` whether a client
hung up during a write of it (`torn`), after which nothing is promised.

### SegmentCache

`file` and `tmp` are the two names of a segment in the directory and what is
under them: nothing, a part, the whole, or the body of an error. `inflight` is
the lock map, `lock[r]` the Arc a request holds, `pc[r]` its step in
`get_or_fetch`. `tokio::fs` runs on blocking threads, so a request has an
operation `io[r]` and an open file `fd[r]` that survive when its future is
dropped (`HangUp`): the lock is back at once, the operation still happens.
`Sweep` may remove any file at any time (sizes and times of access are not
kept, so it does more than `evict`), `DropCached` is what a deletion does.
`read` and `contains` end in `ok()`: an error of the disk is a miss like a missing file
(`MayMiss`), and under the lock it leads to a download and a rename over the file that is
there (`RereadFails`).
`served`, `cost`, `misread` and `torn` are history: what was answered, downloads since the
file last went or could not be written or read, segments whose file could not be read, and
segments one of whose writers lost its client.

### TokenScheduler

`rows`, `botOf` and `expired` are `storage_workers_usages`. A caller goes through
the statements of the transaction: `Begin` (NOW() is fixed here: `old`),
`Delete` (waits while another transaction has one of the rows), `Insert` or
`InsertNothing`, `Commit`. It sees committed rows but those it deleted, never
the pending row of another transaction. Row ids are used again once nobody
speaks of them.

### StorageAccess

`chatOf` is the table `storages` (an id without a chat has no row), `access`
the table `access`, `bots` the storages with a `storage_workers` row, `users` the
registered users. A request has a step `pc`, the user `who` and the storage
`sid`. Create is name check, insert, own, and the fallback if that fails;
managing is `Check` and then one of `Grant`, `Restrict`, `Delete`, `Refused`.
`known` is history: storages that have had an admin. Names are left out (whether
a name is taken is open), and so are videos: a storage with videos has bots, and
one with bots cannot be deleted, since `storage_workers` references it without a
cascade. A bot that is refused (its name or token is taken) is `AddBot` not
happening. Requests that only read are left out.

## 3. Runs

| run | question | instance |
|---|---|---|
| `crash` | is what is published whole, playable, known to the rows, does it stay, and do the steps implement `VideoRows`, under every fault, a deletion and a crash at any step? | 1 upload, 1 transcoder, 1 deletion, 2 renditions of 2 segments, window 2, 1 restart; 732k states |
| `claims` | do the steps implement `JobQueue`, is no job stranded or tried twice without a restart, and is a source kept while its job is unsettled? | 2 uploads, 2 transcoders, 2 deletions, 1 rendition of 1 segment, 1 restart; 1.18M states |
| `live` | is every job settled, does every accepted upload end, is every source removed? | 2 uploads, 1 transcoder, 1 restart, `UPLOAD_CONCURRENCY=0`; 138k states |
| `cache` | one fetch at a time, one download until the file goes or cannot be read or written, do the steps implement `SegmentStore`, is everybody answered? | 2 players and a read-ahead task on 1 segment, faults of client, Telegram and disk, 1 restart; 143k states |
| `tokens` | by how much is a limit exceeded, does a usage count for its minute, does waiting end? | 2 tasks, 1 bot, limit 1, 4 row ids, failing statements, 1 restart; 14k states |
| `encode` | is everything encoded before anything is sent, does a published video have every row, is the bar honest, can a job hang? | 1 job, first attempt or retry over a bar at 60 or 93; sources of 1 and 2 rungs, up to 3 segments a rung, pipes of 1 line, 2 lines on each, times before the start and past the end, an INSERT that takes 2 rows, every fault; 266k states |
| `intake` | is what is queued whole and under its own name, does a refusal leave a file? | 1 request, up to 3 parts of up to 2 chunks, every fault; 8.6k states |
| `playback` | does a player ever take a part of the video for all of it, when does it lose the video, how far does read-ahead go? | 1 player, 1 read-ahead task, 2 renditions of 3 segments, `PREFETCH_AHEAD` 1, every fault, 2 troubles (a failure, a hang-up, a sweep or a restart), 1 rename adrift; 1.77M states |
| `access` | is a half-done create undone, who can take the last admin, what happens to a storage without one? | 3 users, 2 ids, 1 chat, 2 requests, 2 failures, 1 hang-up or crash; 463k states |

Why the bounds are enough. Two renditions of two segments are the least for
which a rung can be finished while another is not, and uploads of a rung can
finish out of order. Two uploads and two transcoders are the least for claims to
compete; the code runs one transcoder, but the comment of `claim_job` allows
more. One restart is what separates an attempt from its retry; more restarts
repeat the same situation, and the theorems have no such bound. Three requests
on a segment give a holder, a waiter and somebody between `get` and `lock`;
segments share only the map, whose entries are independent. Two tasks and a limit
of one are the least that overshoot; four row ids always leave a fresh one. Two
managing requests are the least that overtake each other, and two failures
separate a create that is undone from one that is not. In `encode` a child has more
to say than either pipe holds, and one rung may have more segments than an INSERT
takes rows; the ladder has three rungs in the code, and a third repeats what the
second does (the proofs have all heights); times outside the video are clamped to the two
ends of a slice, and between them the bar only repeats; of the old bars 60 is ahead of
the first rung of two, and 93 comes from the uploads, with a rendition. In `intake` three parts allow a `file`
part, a second one and a title between them, two chunks a first write that fails
when the second is handed over. In `playback` three segments and a read-ahead of one (two in
the code) are the least for which a segment exists that is too far: were a read-ahead to
feed another, the third would be cached after the first was answered, and the
mutant of `ReadAheadIsNear` does just that. Two troubles let a hang-up leave a segment in
the cache unanswered and a second failure follow; players do not touch each other's
state. The proofs have any `PREFETCH_AHEAD` and any number of segments and troubles.

In `crash` the constant `Faults` has every fault. `claims` and `live` leave
database faults out: with them a job stays `running` until the next boot
(`transcoder.rs:52-60` drops the results) and its source file is removed, so
`UnsettledHasSource` and the liveness properties do not hold, which is a property of
the code and listed as a hazard. `NoJobIsStranded` says of itself that it is about a
database that answers. `ImplementsQueue` and `ImplementsRows` are proved for every set of
faults.

Deadlock is checked in the runs of the pipeline, the cache, the tokens and the
access table, where some step is always enabled. It is not in `encode`, `intake`
and `playback`, which follow one job, one request and one video, and these end.
That nobody is left waiting is `EncodeEnds` there.

### What a document says and the code does not do

Each of these runs checks one sentence of the repository and ends in a
counterexample.

| run | sentence | what happens |
|---|---|---|
| `requeue_fails` | `src/README.md:24-26` "A restart mid-transcode re-queues the job instead of losing the upload." | the retry starts at the first rung, whose rendition row exists: UNIQUE(video_id, name) fails it, and the source is removed |
| `delete_race` | `src/README.md:32-33` "removing a video removes every segment message from the chat" | the list is read once; segments sent later, or sent but not yet inserted, stay |
| `cache_cut` | `segment_cache.rs:88-89` "a crash mid-write can never leave a truncated segment" | after a hang-up the old rename publishes the temporary file that the next request has just truncated; a crash makes it permanent |

More of the kind is visible in the modules, without a run of its own:

* deleting a queued video cascades to its job, the only place where the path of
  its file was (`SourceReclaimed` is about uploads that are not deleted);
* `download` does not look at the status of the answer, so the body of an error
  may be cached until it is swept or cannot be read, although `stream.rs:97-99` calls segments
  immutable (`Downloads` of `SegmentCache`; the proofs allow such a body, and
  count it as a complete content; the run `cache` leaves it out, for it multiplies the states
  by more than ten);
* a cached file that the disk does not give is downloaded again and renamed over, although
  `segment_cache.rs:17-18` says that a segment costs Telegram "exactly once" (`RereadFails`;
  `FetchedOnce` and `SegmentStore` count from the last time a file could not be read or
  written);
* a job that is claimed again after a crash shows the bar of the attempt that died until it
  writes its own: encoding begins under a bar of, say, 60 (`Retry`; `BarNotAhead`
  excepts a bar that is `stale`);
* a segment that is cached and never answered, because the player hung up or the process
  died in between, starts no read-ahead (`Load` and `Answer` of `Playback`);
* overlapping token transactions do not see each other's rows, so the calls per
  minute of `src/README.md:40,86` are exceeded, by at most one for each other task
  (`OvershootBounded`);
* a `set_progress` spawned before the last 100 may commit after it, and a published
  video then shows 80 or less (`ReadyBar`, a part of `BarIsTrue`);
* a child that fills its stderr pipe blocks itself and the transcoder
  (`EncodeEnds`);
* a body that breaks off, a client that leaves and a title with a character across byte
  255 leave the source file without a job (`AnsweredLeavesNothing`);
* a rung of more segments than one INSERT takes fails after all its messages were sent
  (`CreateSegmentsBatch`; `ReadyHasEveryRow` excludes only that such a video is published);
* a video deleted between `get_rendition` and `list_segments` is answered as a
  playlist that has ended and is empty (`MediaIsWhole`, a part of `PlaylistsAreWhole`).

Three more are in the hazards: a restart between
`fail_job` and `set_failed` leaves a video in status transcoding for ever
(`VideoSettles` excepts restarts for it); one between `set_status(Ready)` and
`finish_job` takes a published video back (`ReadyStays` excepts it); entries of
the lock map are never removed, because `release` runs while its caller still
holds a clone of the Arc. With several bots `getFile` and the download may use
different tokens; whether Telegram accepts that is outside the code.

### Fairness

Safety is checked and proved without any. For liveness:

* every enabled step of a transcoder, an upload handler past its body, a
  deletion and a cache request is taken (weak fairness): tokio polls tasks that
  are ready, and ffmpeg, Postgres and Telegram answer, if only with an error.
  `reqwest` has no timeout in this code, so this is an assumption about the
  outside, and is listed as a hazard;
* strong fairness on `Acquire` of a lock: tokio's `Mutex` is first come, first
  served; and on `Delete` of a token transaction: Postgres serves those who wait
  for a row in turn;
* in `Encoding` the transcoder, the child and the spawned writes (weak fairness): a
  process that is not blocked on a pipe runs, and so does a spawned task;
* `Expire` is fair: a minute passes;
* none on clients (to send a body, to hang up), deletions, sweeps, faults and
  crashes.

## 4. Proofs

All theorems hold for any number of uploads, transcoders, deletions, rungs,
segments, requests, parts, chunks, pipes, players, bots, users, and any number of restarts, from the named
ASSUMEs of the modules: the counts are natural numbers (rungs and segments at
least one), the sets of token tasks and of usages are finite, and the model
values for "none" are outside the sets they extend. `JobsFindTheirSource` and
`NeverTruncatedIfPatient` have one hypothesis more, on which faults there are, and state it.

**VideoPipelineProofs.** `IInv` is inductive (`Inductive`). The properties of
`crash` are not inductive as they stand: that a published video is whole depends
on what the transcoder knew at `Publish`, so the invariant says at every
step what the loop has done so far.

* `RegInv`, `BusyInv`, `DelInv`: who may touch a video: before its job row only
  the handler, an idle worker has no video, a deletion has a row.
* `ClaimInv`: the job of a busy worker is not pending, hence not claimable.
* `RendInv`: renditions are created from the first rung up, so a retry meets an
  old row at the first rung or none at all. This is what keeps the messages of
  two attempts apart.
* `OwnedInv`, `SendInv`: nothing of a rung exists before its rendition; rungs
  behind the loop index are done, and of the one being sent the chat holds this
  attempt's messages only.
* `LiveInv`: messages vanish by deletions only.
* `ReadyInv`: a published video is done on every rung: `ReadyComplete`,
  `ReadyMatchesChat` and (with `LiveInv`) `ReadyPlayable` follow.
* `StepInv` and `SteadyInv`: no error path leads from a published video to
  `set_failed`, which gives `ReadyStays`.

From it: `PublishedIsComplete`, `PublishedHasNoStrays`, `PublishedIsPlayable`,
`ClaimsAreExclusive`, `DoneIsPublished`, `PublishedStays`, `DeletionIsFinal`.

**SegmentCacheProofs.** The lock a request waits for or holds is the one in the
map now (`LockInv`), hence one guard per segment (`MutexInv`), hence
`FetchesAreExclusive`. File operations outlive requests, so everything said about
content excepts `torn` segments: outside them the temporary file is complete
before its rename (`WholeInv`) and a download that was paid for is in the
cache or on its way (`CostInv`). `CommittedIsWhole` and `PaidOnce` follow, and
`NeverTruncatedIfPatient`: if no client hangs up, the sentence that `cache_cut`
refutes does hold. `CommitInv` adds that a request that writes is the one that paid and
that nothing is there yet, or only what could not be read (`misread`); with it a rename is `Commit` of `SegmentStore`, and every
other step one of its steps or a stutter: `CacheIsStore`. From the abstract
specification follows `CachedStays`: bytes under a name do not change while they are
cached and can be read by whoever looks for them under the lock.

**TokenSchedulerProofs.** `CountInv` counts committed usages of the last minute
together with pending ones. A transaction adds one to a count that was below
the limit; what it did not see are the pending rows of the others, at most one
each: `OvershootIsBounded`. `RowInv` says that what a transaction deletes was old
when it began: `UsagesAreKept`. With one task the bound is the limit itself:
`LimitHoldsAlone`.

**StorageAccessProofs.** `StorageInv` is inductive as it stands; it says that a
storage being created belongs to its create alone and that access exists for
known storages only. `CreateUndone` needs in addition that a fallback comes from
a failure (`UndoInv`). `LastAdminByRace` and `StorageLost` are about steps and
follow from the invariant.

**VideoPipelineViewsProofs.** More parts of the invariant, on top of
`IInv`. `SourceInv`: until its job is settled, a video has its file (without
database faults, for else a worker drops a job it could not settle and removes
the file): `JobsFindTheirSource`. `ListedInv`: while a published video is being
deleted, every message of it that is still in the chat is in the list that is
being worked on, or was refused by Telegram: `DeletionEmptiesChat`. `AttemptsInv`: a
job was claimed at most once for each time the process was started, and one less while it
is pending: `NoAutomaticRetry`.

`PipelineIsQueue`: every step is a step of `JobQueue` or a stutter. The mapping needs
`StampInv`, that a video without a job yet was never given a time of creation, so
that the step that creates its job stamps it for the first time; and `ClaimInv`, that
what is claimable is held by nobody. What a claim promises is then proved of the
queue and not of the pipeline: the queue keeps it that a running job has its holder
(`QueueKeepsHolders`), hence `RunningJobsAreHeld`.

`PipelineIsRows`: the same for `VideoRows`, one video at a time. Renditions come in
order and only after the rungs before them are inserted (`RendInv`, `OwnedInv`),
one INSERT fills a rung (`PositionsComplete`: the messages of a rung
whose uploads all came back have every position), `Publish` needs all rungs, and a
step of another video, or of a worker that lost its row, changes nothing
(`PhaseFrame`). The delicate step is a restart: it closes what was being filled,
and the retry of the same job must not open it again (`PhaseCloses`, `RowsClose`).

**EncodingProofs.** `EncodeInv` says what each loop has done: the first has
encoded the rungs behind it and sent nothing (`EncodedInv`, `SentInv`), the second has
sent and inserted them (`CountInv`). The bar needs arithmetic: the slices of the
rungs share 80 percent and follow each other (`OverallBound`, `OverallNext`), the
upload stays within the rest (`UploadBarBound`), and every spawned write is of a
slice that had begun (`LateInv`). All of this is about a bar this attempt has written; what
a dead one left is kept apart by `RetryInv`: while the bar is stale it is past 80 only
with an old rendition (`RetryKeeps`), and then the attempt fails at `CreateRendition` and
publishes nothing. Hence `SentAfterEncoded`,
`PublishedHasEveryRow`, `BarIsHonest`, and `BarGoesBackByLateWrites`, which no run
checks; and `QuietNeverBlocks`: a child that says no more on stderr than the pipe holds is never blocked, which is the safety half of
`EncodeEnds`.

**UploadIntakeProofs.** `FileInv` relates the file to what was sent: chunks on disk
and at the blocking thread are what the part has sent, unless an error is waiting
to be told; past the flush none is (`BufferInv`). `QueuedFilesAreWhole`
follows; `NameInv` keeps the filename that of the part. `SizesCoverFiles` and `RefusalsCleanUp` are
about what else a request leaves.

**PlaybackProofs.** That a list is whole rests on what ORDER BY makes of a set of
positions: `InOrder` is a CHOOSE, and that a growing sequence of n numbers out of
n has no gap is proved by cardinality (`GrowingIsDense`). About the rows it uses
`VideoRows` and nothing else (`PlaybackSeesRows`), whose own invariant
`Consistent` it proves on the way (`RowsKeep`). `PlayInv` says that once a
player has seen the video ready its rows are complete or gone (`OpenInv`), for
what was once published is never open again. `TroubleOfPlayer` says what a failure or
a hang-up leaves: the player where it can ask again, and what it was given.
`PlaylistsStayWhole`, `LostMeansWithdrawn`. `ReadAheadStaysNear` is about steps: whatever
enters the cache was asked for, is a rename whose request was dropped, or is of a
task, whose segment was answered (`TaskInv`).

Checked by TLC only: the liveness properties (`JobsDrain`, `VideoSettles`,
`SourceReclaimed`, `RequestAnswered`, `SomebodyServed`, `EncodeEnds`), which are out
of the prover's reach. Every other property of a passing run is a theorem.

## 5. Not modelled

* `normalize_chat_id`: it works on numbers of thirteen digits, beyond the 32-bit
  integers of TLC, and what number a user means is not in the code.
* `scaled_width`, the arguments of ffmpeg and its codecs, the text of playlists
  (their order and completeness are modelled), range and cache headers, the
  pages: formatting and media, without state.
* Several storages in the pipeline, the cache and the scheduler: they share
  nothing but code. Several jobs in `Encoding`: the transcoder takes one at a time.
* Power loss: a crash is a killed process, what the kernel has is kept.
* Lost answers of Postgres: a statement that fails has no effect.
* Login, tokens, configuration, routing, errors: one statement or a library call
  each. Registration and the superuser are in `StorageAccess`.
* At boot, the creation of the database, tables and directories: it runs once,
  before anything else does.

## 6. Plan

Done: all the modules above, with every safety property proved. Left, in this
order:

1. What an upload request promises, as an abstract specification that `UploadIntake` and the
   upload handler of `VideoPipeline` both implement.
2. A refinement from `VideoPipeline` with one upload to `Encoding`, with the rows as the
   shared state.
3. Several storages: which bots a video may use when its storage changes hands.
4. `normalize_chat_id` as an operator over sequences of digits.

## 7. Running

`tlc -config crash.cfg MCVideoPipeline` and so on (the module of a run is in
`PROJECT.json`), `tlapm VideoPipelineProofs.tla`. Every run ends within three
minutes; the proofs of `VideoPipeline` and of `Encoding` take some minutes, the others
about one.
