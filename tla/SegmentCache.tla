---------------------------- MODULE SegmentCache ----------------------------
(***************************************************************************)
(* The on-disk cache of segments: viewers and read-ahead tasks call        *)
(* get_or_fetch side by side, one lock per segment lets one of them fetch  *)
(* it from Telegram, write copies it to a temporary name and renames it,   *)
(* the sweeper trims the directory, a deletion of a video removes files    *)
(* from it, and the process may be killed at any step.                     *)
(*                                                                         *)
(* tokio's file operations run on threads of their own: a request that is  *)
(* dropped because its client hung up gives its lock back at once, but the *)
(* file operation it was waiting for still happens.                        *)
(*                                                                         *)
(* A definition marked "wrong variant" is a plausible mistake in the one   *)
(* after it, and is used by nothing.                                       *)
(***************************************************************************)
EXTENDS Integers

CONSTANTS
    Viewers,        \* playback requests that may be in flight together
    Prefetches,     \* read-ahead tasks
    Segments,
    MaxRestarts,    \* bound: crashes explored
    Faults,         \* which kinds of error the environment may produce
    NoSegment

Requests == Viewers \cup Prefetches

ASSUME CacheRestartsAssumption == MaxRestarts \in Nat
ASSUME CacheFaultsAssumption ==
    Faults \subseteq {"client", "telegram", "body", "disk"}
ASSUME SegmentsAssumption == NoSegment \notin Segments

VARIABLES
    \* the cache directory: {id}.ts and {id}.tmp of each segment
    file,
    tmp,
    \* the map from segments to locks; a lock is a number, 0 is no entry
    inflight,
    locks,      \* locks made so far
    \* each request
    pc,
    seg,
    lock,       \* the Arc it holds
    bytes,      \* what it is going to answer or write
    io,         \* its file operation on a blocking thread
    fd,         \* the name its open file goes by now
    restarts,
    \* history that only properties read
    served,     \* the complete contents answered for each segment
    cost,       \* downloads of each segment, 2 is many: since its file was
                \* removed, or a write or a reading of it failed
    misread,    \* segments whose file is there, but could not be read by
                \* whoever last had the lock
    torn        \* segments one of whose writers lost its client

diskVars == <<file, tmp>>
lockVars == <<inflight, locks>>
requestVars == <<pc, seg, lock, bytes, io, fd>>
historyVars == <<served, cost, misread, torn>>

vars == <<diskVars, lockVars, requestVars, restarts, historyVars>>

-----------------------------------------------------------------------------

\* The whole segment, a part of it, or the body of an HTTP error.
Complete == {"whole", "wrong"}
Content == Complete \cup {"cut"}

\* The awaits of get_or_fetch and write, in source order; a request whose
\* client hung up is "gone" until its last file operation is over.
Steps == {"idle", "read", "join", "wait", "reread", "fetch", "write",
          "rename", "release", "gone"}

\* Holding the guard of the segment's lock.
Locked == {"reread", "fetch", "write", "rename", "release"}

TypeOK ==
    /\ file \in [Segments -> Content \cup {"none"}]
    /\ tmp \in [Segments -> Content \cup {"none"}]
    /\ inflight \in [Segments -> Nat]
    /\ locks \in Nat
    /\ pc \in [Requests -> Steps]
    /\ seg \in [Requests -> Segments \cup {NoSegment}]
    /\ lock \in [Requests -> Nat]
    /\ bytes \in [Requests -> Content \cup {"none", "error"}]
    /\ io \in [Requests -> {"none", "create", "fill", "rename"}]
    /\ fd \in [Requests -> {"none", "tmp", "file"}]
    /\ restarts \in Nat
    /\ served \in [Segments -> SUBSET Complete]
    /\ cost \in [Segments -> 0..2]
    /\ misread \subseteq Segments
    /\ torn \subseteq Segments

\* An empty directory and nobody watching.
Init ==
    /\ file = [s \in Segments |-> "none"]
    /\ tmp = [s \in Segments |-> "none"]
    /\ inflight = [s \in Segments |-> 0]
    /\ locks = 0
    /\ pc = [r \in Requests |-> "idle"]
    /\ seg = [r \in Requests |-> NoSegment]
    /\ lock = [r \in Requests |-> 0]
    /\ bytes = [r \in Requests |-> "none"]
    /\ io = [r \in Requests |-> "none"]
    /\ fd = [r \in Requests |-> "none"]
    /\ restarts = 0
    /\ served = [s \in Segments |-> {}]
    /\ cost = [s \in Segments |-> 0]
    /\ misread = {}
    /\ torn = {}

-----------------------------------------------------------------------------
(* Names and open files *)

\* A name of segment s goes: writers that had it open keep writing to nothing.
Unlinked(name, s) ==
    [r \in Requests |->
        IF seg[r] = s /\ fd[r] = name THEN "none" ELSE fd[r]]

\* {id}.tmp becomes {id}.ts, and what was {id}.ts before is gone.
Renamed(s) ==
    [r \in Requests |->
        IF seg[r] # s \/ fd[r] = "none" THEN fd[r]
        ELSE IF fd[r] = "tmp" THEN "file" ELSE "none"]

\* The answer of get_or_fetch.
Answered(s, b) ==
    served' = IF b \in Complete THEN [served EXCEPT ![s] = @ \cup {b}] ELSE served

\* Nothing more will be done for the request.
Idle(r) ==
    /\ pc' = [pc EXCEPT ![r] = "idle"]
    /\ seg' = [seg EXCEPT ![r] = NoSegment]
    /\ bytes' = [bytes EXCEPT ![r] = "none"]

-----------------------------------------------------------------------------
(* SegmentCache.get_or_fetch *)

\* read and contains end in ok(): a file the disk does not give is a miss, like
\* one that is not there.
MayMiss(s) == file[s] = "none" \/ "disk" \in Faults

\* A player asks for a segment.  The read-ahead asks for one that contains
\* does not find.
Arrive(r, s) ==
    /\ pc[r] = "idle"
    /\ r \in Viewers \/ MayMiss(s)
    /\ pc' = [pc EXCEPT ![r] = "read"]
    /\ seg' = [seg EXCEPT ![r] = s]
    /\ UNCHANGED <<diskVars, lockVars, lock, bytes, io, fd, restarts,
                   historyVars>>

\* The first read, without the lock.
Read(r) ==
    /\ pc[r] = "read"
    /\ \/ /\ MayMiss(seg[r])
          /\ pc' = [pc EXCEPT ![r] = "join"]
          /\ UNCHANGED <<seg, bytes, served>>
       \/ /\ file[seg[r]] # "none"
          /\ Idle(r)
          /\ Answered(seg[r], file[seg[r]])
    /\ UNCHANGED <<diskVars, lockVars, lock, io, fd, restarts, cost, misread,
                   torn>>

\* inflight.entry(id).or_default().clone()
Join(r) ==
    /\ pc[r] = "join"
    /\ LET s == seg[r]
           l == IF inflight[s] = 0 THEN locks + 1 ELSE inflight[s] IN
       /\ inflight' = [inflight EXCEPT ![s] = l]
       /\ locks' = IF inflight[s] = 0 THEN locks + 1 ELSE locks
       /\ lock' = [lock EXCEPT ![r] = l]
    /\ pc' = [pc EXCEPT ![r] = "wait"]
    /\ UNCHANGED <<diskVars, seg, bytes, io, fd, restarts, historyVars>>

HeldNever(l) == FALSE                                      \* wrong variant
\* wrong variant: the guard lives as long as the Arc
HeldByArc(l) == \E q \in Requests : lock[q] = l
Held(l) == \E q \in Requests : lock[q] = l /\ pc[q] \in Locked

Acquire(r) ==
    /\ pc[r] = "wait"
    /\ ~Held(lock[r])
    /\ pc' = [pc EXCEPT ![r] = "reread"]
    /\ UNCHANGED <<diskVars, lockVars, seg, lock, bytes, io, fd, restarts,
                   historyVars>>

FoundNever(s) == FALSE                                     \* wrong variant
\* Whoever held the lock before may have fetched the segment meanwhile.
Found(s) == file[s] # "none"

Reread(r) ==
    /\ pc[r] = "reread"
    /\ \/ /\ Found(seg[r])
          /\ bytes' = [bytes EXCEPT ![r] = file[seg[r]]]
          /\ pc' = [pc EXCEPT ![r] = "release"]
          /\ misread' = misread \ {seg[r]}
       \/ /\ ~Found(seg[r])
          /\ pc' = [pc EXCEPT ![r] = "fetch"]
          /\ UNCHANGED <<bytes, misread>>
    /\ UNCHANGED <<diskVars, lockVars, seg, lock, io, fd, restarts, served, cost,
                   torn>>

\* The file is there and the disk does not give it: a miss, hence a download and
\* a rename over the file.
RereadFails(r) ==
    /\ "disk" \in Faults
    /\ pc[r] = "reread" /\ file[seg[r]] # "none"
    /\ pc' = [pc EXCEPT ![r] = "fetch"]
    /\ misread' = misread \cup {seg[r]}
    /\ cost' = [cost EXCEPT ![seg[r]] = 0]
    /\ UNCHANGED <<diskVars, lockVars, seg, lock, bytes, io, fd, restarts, served,
                   torn>>

\* What the download may return: its status is not looked at, so the body of
\* an error counts as the segment.
Downloads == {"whole"} \cup (IF "body" \in Faults THEN {"wrong"} ELSE {})

\* getFile and the download, then write with what came.
Fetch(r) ==
    /\ pc[r] = "fetch"
    /\ \E b \in Downloads : bytes' = [bytes EXCEPT ![r] = b]
    /\ pc' = [pc EXCEPT ![r] = "write"]
    /\ io' = [io EXCEPT ![r] = "create"]
    /\ cost' = [cost EXCEPT ![seg[r]] = IF @ < 2 THEN @ + 1 ELSE 2]
    /\ UNCHANGED <<diskVars, lockVars, seg, lock, fd, restarts, served, misread,
                   torn>>

\* getFile or the download is an error, or the token cannot be had.
FetchFails(r) ==
    /\ pc[r] = "fetch"
    /\ "telegram" \in Faults
    /\ bytes' = [bytes EXCEPT ![r] = "error"]
    /\ pc' = [pc EXCEPT ![r] = "release"]
    /\ UNCHANGED <<diskVars, lockVars, seg, lock, io, fd, restarts,
                   historyVars>>

LastReferenceAlways(s) == TRUE                             \* wrong variant
\* strong_count is 1: only the map holds the Arc of the segment.
LastReference(s) == \A q \in Requests : lock[q] # inflight[s]

\* release, while the caller still holds its own clone; then the answer, which
\* drops the guard and the clone.
Release(r) ==
    /\ pc[r] = "release"
    /\ inflight' = IF LastReference(seg[r])
                   THEN [inflight EXCEPT ![seg[r]] = 0] ELSE inflight
    /\ Answered(seg[r], bytes[r])
    /\ Idle(r)
    /\ lock' = [lock EXCEPT ![r] = 0]
    /\ UNCHANGED <<diskVars, locks, io, fd, restarts, cost, misread, torn>>

\* The client hangs up and the request is dropped where it is waiting: its
\* guard and its Arc go, the file operation under way does not.
HangUp(r) ==
    /\ "client" \in Faults
    /\ r \in Viewers
    /\ pc[r] \notin {"idle", "gone"}
    /\ IF io[r] = "none"
       THEN Idle(r) /\ UNCHANGED torn
       ELSE /\ pc' = [pc EXCEPT ![r] = "gone"]
            /\ torn' = torn \cup {seg[r]}
            /\ UNCHANGED <<seg, bytes>>
    /\ lock' = [lock EXCEPT ![r] = 0]
    /\ UNCHANGED <<diskVars, lockVars, io, fd, restarts, served, cost, misread>>

-----------------------------------------------------------------------------
(* SegmentCache.write, on the blocking threads *)

\* The request goes on with the next step and its file operation; if it is
\* gone, that was the last one.
Proceed(r, step, op) ==
    IF pc[r] = "gone"
    THEN Idle(r) /\ io' = [io EXCEPT ![r] = "none"]
    ELSE /\ pc' = [pc EXCEPT ![r] = step]
         /\ io' = [io EXCEPT ![r] = op]
         /\ UNCHANGED <<seg, bytes>>

\* A wrong variant of Create: no temporary name.
CreateInPlace(r) ==
    /\ io[r] = "create"
    /\ file' = [file EXCEPT ![seg[r]] = "cut"]
    /\ fd' = [fd EXCEPT ![r] = "file"]
    /\ io' = [io EXCEPT ![r] = "fill"]
    /\ UNCHANGED <<tmp, lockVars, pc, seg, lock, bytes, restarts, historyVars>>

\* The first half of fs::write: what is under the temporary name is truncated.
Create(r) ==
    /\ io[r] = "create"
    /\ tmp' = [tmp EXCEPT ![seg[r]] = "cut"]
    /\ fd' = [fd EXCEPT ![r] = "tmp"]
    /\ io' = [io EXCEPT ![r] = "fill"]
    /\ UNCHANGED <<file, lockVars, pc, seg, lock, bytes, restarts,
                   historyVars>>

\* The second half, to the file that was opened, whatever its name is now.
Fill(r) ==
    /\ io[r] = "fill"
    /\ LET s == seg[r] IN
       /\ tmp' = IF fd[r] = "tmp" THEN [tmp EXCEPT ![s] = bytes[r]] ELSE tmp
       /\ file' = IF fd[r] = "file" THEN [file EXCEPT ![s] = bytes[r]] ELSE file
    /\ fd' = [fd EXCEPT ![r] = "none"]
    /\ Proceed(r, "rename", "rename")
    /\ UNCHANGED <<lockVars, lock, restarts, historyVars>>

\* The commit.
Rename(r) ==
    /\ io[r] = "rename"
    /\ tmp[seg[r]] # "none"
    /\ file' = [file EXCEPT ![seg[r]] = tmp[seg[r]]]
    /\ tmp' = [tmp EXCEPT ![seg[r]] = "none"]
    /\ fd' = Renamed(seg[r])
    /\ misread' = misread \ {seg[r]}
    /\ Proceed(r, "release", "none")
    /\ UNCHANGED <<lockVars, lock, restarts, served, cost, torn>>

\* An operation fails: the disk is full, or the sweeper has removed the
\* temporary file before the rename.  A request that is still there removes
\* the temporary file, if the disk lets it, and answers what it fetched without
\* caching it.
WriteFails(r) ==
    /\ \/ io[r] # "none" /\ "disk" \in Faults
       \/ io[r] = "rename" /\ tmp[seg[r]] = "none"
    /\ LET s == seg[r] IN
       IF pc[r] = "gone"
       THEN /\ fd' = [fd EXCEPT ![r] = "none"]
            /\ UNCHANGED <<tmp, cost>>
       ELSE /\ \/ /\ tmp' = [tmp EXCEPT ![s] = "none"]
                  /\ fd' = [Unlinked("tmp", s) EXCEPT ![r] = "none"]
               \/ /\ "disk" \in Faults
                  /\ fd' = [fd EXCEPT ![r] = "none"]
                  /\ UNCHANGED tmp
            /\ cost' = [cost EXCEPT ![s] = 0]
    /\ Proceed(r, "release", "none")
    /\ UNCHANGED <<file, lockVars, lock, restarts, served, misread, torn>>

RequestStep(r) ==
    \/ Read(r) \/ Join(r) \/ Reread(r) \/ RereadFails(r) \/ Fetch(r)
    \/ FetchFails(r) \/ Release(r)
    \/ Create(r) \/ Fill(r) \/ Rename(r) \/ WriteFails(r)

-----------------------------------------------------------------------------
(* The sweeper and deletions *)

\* A download of segment s is on its way to the directory.
Writing(s) == \E r \in Requests : seg[r] = s /\ pc[r] \in {"write", "rename"}

\* {id}.ts is removed.
FileRemoved(s) ==
    /\ file' = [file EXCEPT ![s] = "none"]
    /\ fd' = Unlinked("file", s)
    /\ cost' = IF Writing(s) THEN cost ELSE [cost EXCEPT ![s] = 0]
    /\ misread' = misread \ {s}
    /\ UNCHANGED tmp

TmpRemoved(s) ==
    /\ tmp' = [tmp EXCEPT ![s] = "none"]
    /\ fd' = Unlinked("tmp", s)
    /\ UNCHANGED <<file, cost, misread>>

\* evict removes files, those of unfinished writes too, one after the other.
\* Which and how many depends on sizes and times of writing, which the model
\* does not keep: the next one may be any.
Sweep(s) ==
    /\ \/ file[s] # "none" /\ FileRemoved(s)
       \/ tmp[s] # "none" /\ TmpRemoved(s)
    /\ UNCHANGED <<lockVars, pc, seg, lock, bytes, io, restarts, served, torn>>

\* The deletion of a video removes the cached file of each of its segments,
\* the temporary one it does not know.
DropCached(s) ==
    /\ file[s] # "none"
    /\ FileRemoved(s)
    /\ UNCHANGED <<lockVars, pc, seg, lock, bytes, io, restarts, served, torn>>

-----------------------------------------------------------------------------

\* The process is killed and started again: only the directory is left.
Restart ==
    /\ restarts < MaxRestarts
    /\ restarts' = restarts + 1
    /\ inflight' = [s \in Segments |-> 0]
    /\ locks' = 0
    /\ pc' = [r \in Requests |-> "idle"]
    /\ seg' = [r \in Requests |-> NoSegment]
    /\ lock' = [r \in Requests |-> 0]
    /\ bytes' = [r \in Requests |-> "none"]
    /\ io' = [r \in Requests |-> "none"]
    /\ fd' = [r \in Requests |-> "none"]
    /\ cost' = [s \in Segments |-> IF Writing(s) THEN 0 ELSE cost[s]]
    /\ UNCHANGED <<diskVars, served, misread, torn>>

Next ==
    \/ \E r \in Requests :
          \/ \E s \in Segments : Arrive(r, s)
          \/ Acquire(r)
          \/ RequestStep(r)
          \/ HangUp(r)
    \/ \E s \in Segments : Sweep(s) \/ DropCached(s)
    \/ Restart

Spec == Init /\ [][Next]_vars

\* tokio polls what can go on, file operations and Telegram return, and the
\* queue of a tokio Mutex is first come, first served.  Nothing obliges clients,
\* deletions or the clock of the sweeper.
FairSpec ==
    /\ Spec
    /\ \A r \in Requests : WF_vars(RequestStep(r)) /\ SF_vars(Acquire(r))

-----------------------------------------------------------------------------
(* Properties *)

\* Telegram is never asked for one segment by two requests at a time, although
\* clients hang up, entries of the map are released and files are swept in
\* between (get_or_fetch, segment_cache.rs:55-72).
OneFetch ==
    \A r, q \in Requests :
        pc[r] = "fetch" /\ pc[q] = "fetch" /\ seg[r] = seg[q] => r = q

\* A file under its final name is never a part of a segment, whatever is killed
\* or fails on the way: unless a client hung up while its segment was being
\* written (write, segment_cache.rs:88-89).
CachedIsWhole == \A s \in Segments : file[s] = "cut" => s \in torn

\* A segment costs one download, no matter how many people watch: nobody
\* downloads it again unless its file was removed, the one before could not be
\* written, or whoever had the lock could not read it; with the same exception
\* (segment_cache.rs:18, 55-72).
FetchedOnce == \A s \in Segments : cost[s] <= 1 \/ s \in torn

\* Every request is answered or dropped: nobody waits for ever for a lock.
RequestAnswered ==
    \A r \in Requests : pc[r] # "idle" ~> pc[r] = "idle"

\* "a crash mid-write can never leave a truncated segment that would later be
\* served as if it were whole" (segment_cache.rs:88-89): a request that comes to
\* read while nothing is being written finds no part of a segment.
NeverTruncated ==
    \A r \in Requests :
        pc[r] \in {"read", "reread"} /\ (\A q \in Requests : io[q] = "none")
        => file[seg[r]] # "cut"

=============================================================================
