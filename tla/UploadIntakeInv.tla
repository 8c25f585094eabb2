-------------------------- MODULE UploadIntakeInv --------------------------
(***************************************************************************)
(* The inductive invariant of UploadIntake: what is on disk at each step,  *)
(* and what size has counted.                                              *)
(***************************************************************************)
EXTENDS UploadIntake

\* Past the body and still under way.
Registering == {"title", "access", "video", "job", "undo"}

\* Parts not begun have no chunks, and none has ended.
BodyInv ==
    /\ \A p \in Part : p > parts => whole[p] = 0 /\ p \notin ended
    /\ pc \in {"chunk", "flush"} => parts \in Part /\ file.part = parts
    /\ pc = "flush" => parts \in ended

\* No write is under way or has failed unless a part is being received, or the
\* request ended in it.
BufferInv ==
    /\ buffer = 1 => pc \in {"chunk", "flush", "broken", "dropped"}
    /\ pc \in {"field", "check", "accepted"} \cup Registering => ~fileError

\* The file holds what its part has sent so far, less what is in the buffer.
\* Outside the part it is of a part that has ended.
FileInv ==
    /\ file.part = NoPart => file.chunks = 0 /\ buffer = 0
    /\ file.part # NoPart =>
           /\ file.chunks + buffer <= whole[file.part]
           /\ ~fileError => file.chunks + buffer = whole[file.part]
    /\ pc \in {"field", "check"} => (file.part \in ended <=> gotFile)
    /\ pc \in {"accepted"} \cup Registering => gotFile /\ file.part \in ended

NameInv == name.part = file.part \/ file = NoFile

\* size is the length of the file unless another part has had chunks.
SizeInv ==
    /\ size >= file.chunks + buffer
    /\ (\A p \in Part \ {file.part} : whole[p] = 0) =>
           size = IF file.part = NoPart THEN 0 ELSE whole[file.part]
    /\ pc \in Registering => size > 0

RowInv ==
    /\ row => size > 0
    /\ job <=> pc = "accepted"
    /\ job \/ pc = "job" => row
    /\ pc = "refused" => file = NoFile \/ fileError

IntakeInv ==
    /\ TypeOK
    /\ BodyInv
    /\ BufferInv
    /\ FileInv
    /\ NameInv
    /\ SizeInv
    /\ RowInv

=============================================================================
