---------------------------- MODULE UploadIntake ----------------------------
(***************************************************************************)
(* One upload request: the parts of its multipart body as they arrive, the *)
(* file in uploads_dir, and what is registered in the end. VideoPipeline   *)
(* takes an upload as a whole; this module opens it.                       *)
(*                                                                         *)
(* A tokio file hands each chunk to a blocking thread and returns at once: *)
(* what is written is on disk later, and an error of a write is told by    *)
(* the next call. The request may be dropped at every await.               *)
(*                                                                         *)
(* A definition marked "wrong variant" is a plausible mistake in the one   *)
(* after it, and is used by nothing.                                       *)
(***************************************************************************)
EXTENDS Integers

CONSTANTS
    MaxParts,       \* bound: parts of a body
    MaxChunks,      \* bound: chunks of a part named file
    Faults          \* which kinds of error the environment may produce

ASSUME PartsAssumption == MaxParts \in Nat /\ MaxChunks \in Nat
ASSUME IntakeFaultsAssumption == Faults \subseteq {"client", "disk", "register"}

VARIABLES
    \* the client
    parts,          \* parts begun so far
    whole,          \* length of each part, in chunks, as far as it was sent
    ended,          \* parts sent to their end
    \* the handler
    pc,
    title,          \* what kind of string it is, "blank" at first
    name,           \* original_filename: the part it is of, and its kind
    size,           \* chunks counted
    gotFile,
    \* the file: the part it was created for and the chunks on disk
    file,
    buffer,         \* chunks at the blocking thread
    fileError,      \* an error not told yet
    \* the rows
    row,
    job

clientVars == <<parts, whole, ended>>
formVars == <<title, name, size, gotFile>>
fileVars == <<file, buffer, fileError>>
rowVars == <<row, job>>

vars == <<pc, clientVars, formVars, fileVars, rowVars>>

-----------------------------------------------------------------------------

\* The strings that truncate(255) tells apart: short or cut at the end of a
\* character, and those it cannot cut.
Strings == {"blank", "plain", "uncuttable"}

\* How a request ends: answered after the body was read, answered by a ? while
\* it was read, dropped with its client, or its task has panicked.
Ends == {"accepted", "refused", "broken", "dropped", "panic"}

\* The statements of upload and register_upload, and the ends.
Steps == {"field", "chunk", "flush", "check", "title", "access", "video",
          "job", "undo"} \cup Ends

Part == 1 .. MaxParts
NoPart == 0

TypeOK ==
    /\ parts \in 0 .. MaxParts
    /\ whole \in [Part -> 0 .. MaxChunks]
    /\ ended \subseteq Part
    /\ pc \in Steps
    /\ title \in Strings
    /\ name \in [part : Part \cup {NoPart}, kind : Strings]
    /\ size \in Nat
    /\ gotFile \in BOOLEAN
    /\ file \in [part : Part \cup {NoPart}, chunks : 0 .. MaxChunks]
    /\ buffer \in 0 .. 1
    /\ fileError \in BOOLEAN
    /\ row \in BOOLEAN
    /\ job \in BOOLEAN

NoFile == [part |-> NoPart, chunks |-> 0]

\* A request whose handler has begun: uploads_dir exists, the path is fresh.
Init ==
    /\ parts = 0
    /\ whole = [p \in Part |-> 0]
    /\ ended = {}
    /\ pc = "field"
    /\ title = "blank"
    /\ name = [part |-> NoPart, kind |-> "blank"]
    /\ size = 0
    /\ gotFile = FALSE
    /\ file = NoFile
    /\ buffer = 0
    /\ fileError = FALSE
    /\ row = FALSE
    /\ job = FALSE

-----------------------------------------------------------------------------
(* The body, part by part *)

\* The text of a title that cannot be read counts as none.
TitlePart ==
    /\ pc = "field" /\ parts < MaxParts
    /\ parts' = parts + 1
    /\ title' \in Strings
    /\ UNCHANGED <<pc, whole, ended, name, size, gotFile, fileVars, rowVars>>

OtherPart ==
    /\ pc = "field" /\ parts < MaxParts
    /\ parts' = parts + 1
    /\ UNCHANGED <<pc, whole, ended, formVars, fileVars, rowVars>>

\* A wrong variant of FilePart: the name of the first part stays.
FilePartFirstName ==
    /\ pc = "field" /\ parts < MaxParts
    /\ parts' = parts + 1
    /\ IF gotFile THEN UNCHANGED name
       ELSE \E kind \in Strings : name' = [part |-> parts + 1, kind |-> kind]
    /\ file' = [part |-> parts + 1, chunks |-> 0]
    /\ pc' = "chunk"
    /\ UNCHANGED <<whole, ended, title, size, gotFile, buffer, fileError, rowVars>>

\* File::create truncates what an earlier part has left. An empty filename is
\* possible, a missing one becomes video.mp4.
FilePart ==
    /\ pc = "field" /\ parts < MaxParts
    /\ parts' = parts + 1
    /\ \E kind \in Strings : name' = [part |-> parts + 1, kind |-> kind]
    /\ file' = [part |-> parts + 1, chunks |-> 0]
    /\ pc' = "chunk"
    /\ UNCHANGED <<whole, ended, title, size, gotFile, buffer, fileError, rowVars>>

\* One chunk arrives and is handed over, once the one before it is written.
Chunk ==
    /\ pc = "chunk" /\ buffer = 0 /\ ~fileError
    /\ whole[parts] < MaxChunks
    /\ whole' = [whole EXCEPT ![parts] = @ + 1]
    /\ size' = size + 1
    /\ buffer' = 1
    /\ UNCHANGED <<pc, parts, ended, title, name, gotFile, file, fileError, rowVars>>

\* The blocking thread writes, or the disk is full.
DiskWrite ==
    /\ buffer = 1
    /\ buffer' = 0
    /\ \/ file' = [file EXCEPT !.chunks = @ + 1] /\ UNCHANGED fileError
       \/ /\ "disk" \in Faults
          /\ fileError' = TRUE
          /\ UNCHANGED file
    /\ UNCHANGED <<pc, clientVars, formVars, rowVars>>

\* The field has no more chunks.
EndOfPart ==
    /\ pc = "chunk"
    /\ ended' = ended \cup {parts}
    /\ pc' = "flush"
    /\ UNCHANGED <<parts, whole, formVars, fileVars, rowVars>>

\* A wrong variant of Flush: nobody waits for the blocking thread.
FlushNothing ==
    /\ pc = "flush"
    /\ gotFile' = TRUE
    /\ pc' = "field"
    /\ UNCHANGED <<clientVars, title, name, size, fileVars, rowVars>>

Flush ==
    /\ pc = "flush"
    /\ buffer = 0 /\ ~fileError
    /\ gotFile' = TRUE
    /\ pc' = "field"
    /\ UNCHANGED <<clientVars, title, name, size, fileVars, rowVars>>

\* write_all or flush tells of a write that failed.
WriteFails ==
    /\ pc \in {"chunk", "flush"}
    /\ fileError /\ buffer = 0
    /\ pc' = "broken"
    /\ UNCHANGED <<clientVars, formVars, fileVars, rowVars>>

\* create_dir_all or File::create fails, at whichever part.
CreateFails ==
    /\ "disk" \in Faults
    /\ pc = "field"
    /\ pc' = "broken"
    /\ UNCHANGED <<clientVars, formVars, fileVars, rowVars>>

\* The body is malformed or breaks off: the ? leaves the file where it is.
StreamBreaks ==
    /\ "client" \in Faults
    /\ pc \in {"field", "chunk"}
    /\ pc' = "broken"
    /\ UNCHANGED <<clientVars, formVars, fileVars, rowVars>>

\* The connection goes and the future is dropped at an await.
HangUp ==
    /\ "client" \in Faults
    /\ pc \notin Ends
    /\ pc' = "dropped"
    /\ UNCHANGED <<clientVars, formVars, fileVars, rowVars>>

EndOfBody ==
    /\ pc = "field"
    /\ pc' = "check"
    /\ UNCHANGED <<clientVars, formVars, fileVars, rowVars>>

-----------------------------------------------------------------------------
(* After the body *)

\* let _ = remove_file: an error of it is not told.
RemoveSource ==
    \/ file' = NoFile /\ UNCHANGED fileError
    \/ "disk" \in Faults /\ fileError' = TRUE /\ UNCHANGED file

\* A wrong variant of EmptyCheck: only a body without a file is empty.
EmptyCheckNoSize ==
    /\ pc = "check"
    /\ IF ~gotFile THEN RemoveSource /\ pc' = "refused"
       ELSE pc' = "title" /\ UNCHANGED <<file, fileError>>
    /\ UNCHANGED <<clientVars, formVars, buffer, rowVars>>

EmptyCheck ==
    /\ pc = "check"
    /\ IF ~gotFile \/ size = 0 THEN RemoveSource /\ pc' = "refused"
       ELSE pc' = "title" /\ UNCHANGED <<file, fileError>>
    /\ UNCHANGED <<clientVars, formVars, buffer, rowVars>>

\* A title without a letter is replaced by the filename; both are cut to 255
\* bytes, and String::truncate panics inside a character.
Titles ==
    /\ pc = "title"
    /\ title' = IF title = "blank" THEN name.kind ELSE title
    /\ pc' = IF "uncuttable" \in {title', name.kind} THEN "panic" ELSE "access"
    /\ UNCHANGED <<clientVars, name, size, gotFile, fileVars, rowVars>>

\* check_access, then storage_has_any.
Access ==
    /\ pc = "access"
    /\ pc' = "video"
    /\ UNCHANGED <<clientVars, formVars, fileVars, rowVars>>

CreateVideo ==
    /\ pc = "video"
    /\ row' = TRUE
    /\ pc' = "job"
    /\ UNCHANGED <<clientVars, formVars, fileVars, job>>

CreateJob ==
    /\ pc = "job"
    /\ job' = TRUE
    /\ pc' = "accepted"
    /\ UNCHANGED <<clientVars, formVars, fileVars, row>>

\* A refusal or an error of register_upload; a video row it made stays.
RegisterFails ==
    /\ "register" \in Faults
    /\ pc \in {"access", "video", "job"}
    /\ pc' = "undo"
    /\ UNCHANGED <<clientVars, formVars, fileVars, rowVars>>

\* A wrong variant of Undo: the error is answered and that is all.
UndoNothing ==
    /\ pc = "undo"
    /\ pc' = "refused"
    /\ UNCHANGED <<clientVars, formVars, fileVars, rowVars>>

Undo ==
    /\ pc = "undo"
    /\ RemoveSource
    /\ pc' = "refused"
    /\ UNCHANGED <<clientVars, formVars, buffer, rowVars>>

Next ==
    \/ TitlePart \/ OtherPart \/ FilePart \/ Chunk \/ EndOfPart \/ EndOfBody
    \/ DiskWrite \/ Flush \/ WriteFails \/ CreateFails
    \/ StreamBreaks \/ HangUp
    \/ EmptyCheck \/ Titles \/ Access \/ CreateVideo \/ CreateJob
    \/ RegisterFails \/ Undo

Spec == Init /\ [][Next]_vars

-----------------------------------------------------------------------------
(* Properties *)

\* The file of a queued job is one part of the body, sent to its end, and every
\* chunk of it is on disk: "Returns as soon as the bytes are safe on disk",
\* routers/videos.rs:44. The flush of line 93 and the ? of line 87 see to it. The
\* filename registered is the one that came with that part, also when a body has
\* several parts named file, routers/videos.rs:74-95.
QueuedIsWhole ==
    job => /\ file.part \in ended
           /\ file.chunks = whole[file.part]
           /\ name.part = file.part

\* The size recorded is never zero and never less than the file; that of a queued
\* file is larger than the file only if the body had another part with chunks,
\* whose bytes File::create threw away. routers/videos.rs:78-88, 100.
SizeCovers ==
    row =>
        /\ size > 0
        /\ size >= file.chunks
        /\ job /\ size > file.chunks =>
               \E p \in Part \ {file.part} : whole[p] > 0

\* A request that is answered after its body was read leaves a job or no file.
\* "Nothing will ever pick this file up, so do not leave it behind",
\* routers/videos.rs:100-103, 124-128. A file without a job stays only after a
\* broken body, a client that left, a panic of truncate, or an error of unlink.
AnsweredLeavesNothing ==
    pc \in {"accepted", "refused"} => job \/ file = NoFile \/ fileError

=============================================================================
