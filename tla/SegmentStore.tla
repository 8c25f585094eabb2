---------------------------- MODULE SegmentStore ----------------------------
(***************************************************************************)
(* What the cache promises for one segment, without its locks, temporary   *)
(* files and requests: a segment that is missing is paid for with one      *)
(* download, then appears whole and at once, and stays as it is until it   *)
(* is removed or cannot be read, which has it paid for and replaced.  Once *)
(* a writer of it was dropped nothing is promised.  SegmentCache           *)
(* implements it for every segment.                                        *)
(***************************************************************************)

CONSTANTS
    Bodies,     \* what a download may bring
    Missing

VARIABLES
    content,    \* of the file under its final name
    paid,       \* downloaded since it was lost, or could not be written or read
    doubted,    \* it is there and could not be read
    spoiled     \* a writer of it was dropped

vars == <<content, paid, doubted, spoiled>>

Init ==
    /\ content = Missing
    /\ paid = FALSE
    /\ doubted = FALSE
    /\ spoiled = FALSE

\* Only what is missing, or cannot be read, is worth a download.
Wanted == content = Missing \/ doubted

\* Nobody pays for what is there, or for what somebody has just paid for.
Download ==
    /\ ~spoiled
    /\ Wanted
    /\ ~paid
    /\ paid' = TRUE
    /\ UNCHANGED <<content, doubted, spoiled>>

\* What was paid for appears.
Commit ==
    /\ ~spoiled
    /\ Wanted
    /\ paid
    /\ content' \in Bodies
    /\ doubted' = FALSE
    /\ UNCHANGED <<paid, spoiled>>

\* What was paid for will never appear.
GiveUp ==
    /\ Wanted
    /\ paid' = FALSE
    /\ UNCHANGED <<content, doubted, spoiled>>

\* The file is swept or deleted; what is about to replace it may still come.
Lose ==
    /\ content' = Missing
    /\ \/ paid' = FALSE
       \/ doubted /\ UNCHANGED paid
    /\ doubted' = FALSE
    /\ UNCHANGED spoiled

\* The file cannot be read.
Doubt ==
    /\ content # Missing
    /\ paid' = FALSE
    /\ doubted' = TRUE
    /\ UNCHANGED <<content, spoiled>>

\* The next one can read it.
Confirm ==
    /\ doubted' = FALSE
    /\ UNCHANGED <<content, paid, spoiled>>

\* From the moment its writer is dropped the file may be anything.
Spoil == spoiled' = TRUE

Next ==
    \/ Download \/ Commit \/ GiveUp \/ Lose \/ Doubt \/ Confirm
    \/ Spoil

Spec == Init /\ [][Next]_vars

=============================================================================
