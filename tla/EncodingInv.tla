---------------------------- MODULE EncodingInv ----------------------------
(***************************************************************************)
(* The inductive invariant of Encoding: what each of the two loops of      *)
(* process has done so far, and how far the bar may be.                    *)
(***************************************************************************)
EXTENDS Encoding

\* The steps of the first loop, and of the second.
FirstLoop == {"spawn", "read", "wait", "parse"}
SecondLoop == {"rendition", "send", "insert", "bar", "hundred", "publish"}

\* A child writes no more than the bounds, and stderr holds no more than it
\* wrote.
ChildInv ==
    /\ want = "out" => reports < MaxReports
    /\ want = "err" => complaints < MaxComplaints
    /\ errPipe <= complaints

\* The rung is one of the ladder, and the first before the loops.
RungInv ==
    /\ rung \in Ladder
    /\ pc \in {"probe", "start"} => rung = 1

\* The first loop has encoded the rungs behind it, the second finds all.
EncodedInv ==
    /\ pc \in {"probe", "start"} \cup FirstLoop =>
           \A r \in Rungs : encoded[r] > 0 <=> r < rung
    /\ pc \in {"uploading"} \cup SecondLoop =>
           \A r \in Rungs : encoded[r] > 0 <=> r \in Ladder

\* Nothing is sent or inserted before the second loop, which has done so for
\* the rungs behind it, and for its own once it is past the step.
SentInv ==
    /\ pc \in {"probe", "start", "uploading"} \cup FirstLoop =>
           \A r \in Rungs : rows[r] = 0 /\ sent[r] = 0
    /\ pc \in SecondLoop =>
           \A r \in Rungs :
               /\ rows[r] = IF \/ r < rung
                               \/ r = rung /\ pc \in {"bar", "hundred", "publish"}
                            THEN encoded[r] ELSE 0
               /\ sent[r] = IF \/ r < rung
                               \/ r = rung /\ pc \notin {"rendition", "send"}
                            THEN encoded[r] ELSE 0
    /\ pc \in {"hundred", "publish"} => rung + 1 \notin Ladder

\* uploaded_so_far counts the rows.
CountInv ==
    /\ uploaded = rows[1] + rows[2] + rows[3]
    /\ \A r \in Rungs : rows[r] <= encoded[r]

\* Writes on their way are of the slices of the rungs begun, and so is the bar
\* this attempt has written.
LateInv ==
    /\ \A v \in Percent : late[v] > 0 => v <= 80
    /\ pc \in {"probe", "start"} =>
           /\ ~stale => progress = 0
           /\ \A v \in Percent : late[v] = 0
    /\ pc \in FirstLoop =>
           /\ ~stale => progress <= Overall(rung, 100)
           /\ \A v \in Percent : late[v] > 0 => v <= Overall(rung, 100)

\* The bar between 80 and 100 shows what is uploaded.
BarInv ==
    ~stale =>
        /\ pc \in {"uploading"} => progress <= 80
        /\ progress > 80 => uploaded > 0 /\ progress <= UploadBar
        /\ progress = 100 => pc \in {"publish", "fail", "over"}

\* What an earlier attempt left: a bar past 80 comes with a rendition, which
\* keeps this attempt from sending anything; what is published was written.
RetryInv ==
    /\ stale /\ ~taken => progress <= 80
    /\ taken => pc \notin {"send", "insert", "bar", "hundred", "publish"}
    /\ pc = "publish" => ~stale /\ (progress = 100 \/ progress <= 80)

\* Only a job that went through both loops is published.
ReadyInv ==
    /\ status = "ready" => pc = "over" \/ taken
    /\ ReadyHasEveryRow
    /\ ReadyBar

EncodeInv ==
    /\ TypeOK
    /\ ChildInv
    /\ RungInv
    /\ EncodedInv
    /\ SentInv
    /\ EncodedBeforeSent
    /\ CountInv
    /\ LateInv
    /\ BarInv
    /\ RetryInv
    /\ ReadyInv

=============================================================================
