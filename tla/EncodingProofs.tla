--------------------------- MODULE EncodingProofs ---------------------------
(***************************************************************************)
(* Proofs about Encoding, for sources of any height, any times a child     *)
(* reports, any numbers of segments and lines, pipes of any size and any   *)
(* set of faults.                                                          *)
(***************************************************************************)
EXTENDS EncodingInv, FiniteSetTheorems, TLAPS

-----------------------------------------------------------------------------
(* The ladder and the bar as numbers *)

\* The ladder of a source is the first n rungs, ffmpeg.rs:144-156.
LEMMA LadderShape ==
    ASSUME NEW h \in Nat
    PROVE  \E n \in Rungs : LadderFor(h) = 1 .. n /\ Cardinality(LadderFor(h)) = n
<1>1. \E n \in Rungs : LadderFor(h) = 1 .. n
  <2>1. h < 720 => LadderFor(h) = 1 .. 1
    BY DEF LadderFor, Rungs, LADDER
  <2>2. h >= 720 /\ h < 1080 => LadderFor(h) = 1 .. 2
    BY DEF LadderFor, Rungs, LADDER
  <2>3. h >= 1080 => LadderFor(h) = 1 .. 3
    BY DEF LadderFor, Rungs, LADDER
  <2> QED
    BY <2>1, <2>2, <2>3 DEF Rungs
<1>2. \A n \in Rungs : Cardinality(1 .. n) = n
  <2>1. \A n \in Int : Cardinality(1 .. n) = IF 1 > n THEN 0 ELSE n - 1 + 1
    BY FS_Interval
  <2> QED
    BY <2>1 DEF Rungs
<1> QED
  BY <1>1, <1>2

\* The bar in a ladder of n rungs, in numbers only.
Slice(n, r, d) == Round(4 * (100 * (r - 1) + d), 5 * n)

\* The slices of the rungs share 0 to 80 in their order, transcoder.rs:129-130.
LEMMA SliceBound ==
    ASSUME NEW n \in Rungs, NEW r \in 1 .. n, NEW d \in 0 .. 100
    PROVE  /\ Slice(n, r, d) \in 0 .. 80
           /\ Slice(n, r, d) <= Slice(n, r, 100)
           /\ r + 1 \in 1 .. n => Slice(n, r, 100) <= Slice(n, r + 1, 100)
<1>1. CASE n = 1
  BY <1>1 DEF Slice, Round
<1>2. CASE n = 2
  BY <1>2 DEF Slice, Round
<1>3. CASE n = 3
  BY <1>3 DEF Slice, Round
<1> QED
  BY <1>1, <1>2, <1>3 DEF Rungs

\* Uploading fills 0 to 20 and never shrinks, transcoder.rs:183.
LEMMA BarBound ==
    ASSUME NEW u \in Nat, NEW t \in Nat \ {0}, u <= t
    PROVE  /\ (20 * u) \div t \in 0 .. 20
           /\ (20 * t) \div t = 20
           /\ \A w \in Nat : w <= u => (20 * w) \div t <= (20 * u) \div t
OBVIOUS

\* The same of the bar of the current rung.
LEMMA OverallBound ==
    ASSUME TypeOK, RungInv, NEW d \in 0 .. 100
    PROVE  /\ Overall(rung, d) \in 0 .. 80
           /\ Overall(rung, d) <= Overall(rung, 100)
           /\ rung + 1 \in Ladder => Overall(rung, 100) <= Overall(rung + 1, 100)
<1>1. height \in Nat
  BY HeightsAssumption DEF TypeOK
<1>2. PICK n \in Rungs : Ladder = 1 .. n /\ Cardinality(Ladder) = n
  BY <1>1, LadderShape DEF Ladder
<1>3. rung \in 1 .. n
  BY <1>2 DEF RungInv
<1>4. \A r \in Nat, e \in 0 .. 100 : Overall(r, e) = Slice(n, r, e)
  BY <1>2 DEF Slice, Overall
<1>5. /\ Slice(n, rung, d) \in 0 .. 80
      /\ Slice(n, rung, d) <= Slice(n, rung, 100)
      /\ rung + 1 \in 1 .. n => Slice(n, rung, 100) <= Slice(n, rung + 1, 100)
  BY <1>3, SliceBound
<1>6. rung \in Nat /\ rung + 1 \in Nat /\ d \in 0 .. 100 /\ 100 \in 0 .. 100
  BY <1>3 DEF Rungs
<1> QED
  BY <1>2, <1>4, <1>5, <1>6

\* The next rung's slice ends within 80, too.
LEMMA OverallNext ==
    ASSUME TypeOK, RungInv, rung + 1 \in Ladder
    PROVE  Overall(rung + 1, 100) \in 0 .. 80
<1>1. height \in Nat
  BY HeightsAssumption DEF TypeOK
<1>2. PICK n \in Rungs : Ladder = 1 .. n /\ Cardinality(Ladder) = n
  BY <1>1, LadderShape DEF Ladder
<1>3. rung + 1 \in 1 .. n
  BY <1>2
<1>4. Slice(n, rung + 1, 100) \in 0 .. 80
  BY <1>3, SliceBound
<1> QED
  BY <1>2, <1>4 DEF Slice, Overall

\* A clamped time is a percentage, ffmpeg.rs:227.
LEMMA ClampRange ==
    ASSUME NEW t \in Times
    PROVE  Clamp(t) \in 0 .. 100
BY TimesAssumption DEF Clamp

\* Once something is uploaded the bar is between 80 and 100.
LEMMA UploadBarBound ==
    ASSUME TypeOK, CountInv, uploaded > 0
    PROVE  /\ Total \in Nat \ {0} /\ uploaded <= Total
           /\ UploadBar \in 80 .. 100
           /\ uploaded = Total => UploadBar = 100
<1>1. /\ rows[1] \in Nat /\ rows[2] \in Nat /\ rows[3] \in Nat
      /\ encoded[1] \in Nat /\ encoded[2] \in Nat /\ encoded[3] \in Nat
      /\ uploaded \in Nat
  BY DEF TypeOK, Rungs
<1>2. Total \in Nat \ {0} /\ uploaded <= Total
  BY <1>1 DEF CountInv, Total, Rungs
<1> QED
  BY <1>1, <1>2 DEF UploadBar

-----------------------------------------------------------------------------
(* Every step keeps the invariant, part by part *)

\* The three groups of variables: the transcoder with its row, what it counts,
\* and the child.
RowTypes ==
    /\ status \in {"queued", "transcoding", "uploading", "ready", "failed"}
    /\ progress \in Percent
    /\ stale \in BOOLEAN
    /\ taken \in BOOLEAN
    /\ pc \in Steps
    /\ height \in Heights \cup {0}
    /\ rung \in Rungs
    /\ last \in Percent \cup {-1}

TableTypes ==
    /\ encoded \in [Rungs -> 0 .. MaxSegments]
    /\ uploaded \in Nat
    /\ late \in [Percent -> Nat]
    /\ sent \in [Rungs -> 0 .. MaxSegments]
    /\ rows \in [Rungs -> 0 .. MaxSegments]

ChildTypes ==
    /\ child \in {"none", "running", "done", "crashed", "orphan"}
    /\ want \in {"out", "err", "exit"}
    /\ reports \in 0 .. MaxReports
    /\ complaints \in 0 .. MaxComplaints
    /\ made \in 0 .. MaxSegments
    /\ outPipe \in Seq(Times \cup {NoTime})
    /\ errPipe \in 0 .. PipeCap

\* The types are those of the three groups.
LEMMA TypeGroups == TypeOK <=> RowTypes /\ TableTypes /\ ChildTypes
BY DEF TypeOK, RowTypes, TableTypes, ChildTypes

\* Behind an insert the rung has rows.
LEMMA InsertedSomething ==
    ASSUME TypeOK, RungInv, EncodedInv, SentInv, CountInv, pc = "bar"
    PROVE  uploaded > 0
<1>1. encoded[rung] > 0 /\ rung \in Rungs
  BY DEF EncodedInv, SecondLoop, RungInv, TypeOK
<1>2. rows[rung] = encoded[rung]
  BY <1>1 DEF SentInv, SecondLoop
<1>3. /\ Rungs = {1, 2, 3} /\ rows \in [{1, 2, 3} -> Nat]
  BY DEF TypeOK, Rungs
<1> QED
  BY <1>1, <1>2, <1>3 DEF CountInv

\* Every step keeps the types.
LEMMA TypeKeeps ==
    ASSUME TypeOK, ChildInv, RungInv, EncodedInv, SentInv, CountInv, [Next]_vars
    PROVE  TypeOK'
<1>1. CASE Probe
  BY <1>1 DEF TypeOK, Steps, Probe, barVars, childVars, resultVars
<1>2. CASE Start
  BY <1>2 DEF TypeOK, Steps, Start, barVars, childVars, resultVars, Goes
<1>3. CASE Spawn
  BY SegmentCountAssumption, PipeAssumption, <1>3
  DEF TypeOK, Steps, Rungs, Spawn, resultVars, NextWants
<1>4. CASE ReadLine
  <2>0. RowTypes /\ TableTypes /\ ChildTypes
    BY TypeGroups
  <2>1. Head(outPipe) # NoTime => Overall(rung, Clamp(Head(outPipe))) \in Percent
    <3>1. SUFFICES ASSUME Head(outPipe) # NoTime
                   PROVE  Overall(rung, Clamp(Head(outPipe))) \in Percent
      OBVIOUS
    <3>2. Head(outPipe) \in Times
      BY <1>4, <2>0, <3>1 DEF ReadLine, ChildTypes
    <3>3. Clamp(Head(outPipe)) \in 0 .. 100
      BY <3>2, ClampRange
    <3> QED
      BY <3>3, OverallBound DEF Percent
  <2>2. \A o \in Percent : [late EXCEPT ![o] = @ + 1] \in [Percent -> Nat]
    BY <2>0 DEF TableTypes
  <2>3. RowTypes'
    BY <1>4, <2>0, <2>1
    DEF ReadLine, barVars, childVars, resultVars, OnProgress, RowTypes, Percent,
      RowTypes
  <2>4. TableTypes'
    BY <1>4, <2>0, <2>2
    DEF ReadLine, barVars, resultVars, OnProgress, TableTypes
  <2>5. ChildTypes'
    BY <1>4, <2>0 DEF ReadLine, ChildTypes
  <2> QED
    BY <2>3, <2>4, <2>5 DEF TypeOK, RowTypes, TableTypes, ChildTypes
<1>5. CASE EndOfOutput
  BY <1>5
  DEF TypeOK, Steps, Rungs, EndOfOutput, barVars, childVars, resultVars, Goes
<1>6. CASE Wait
  <2>0. RowTypes /\ TableTypes /\ ChildTypes
    BY TypeGroups
  <2>1. Overall(rung, 100) \in Percent
    BY OverallBound DEF Percent
  <2>2. RowTypes'
    BY <1>6, <2>0, <2>1 DEF Wait, barVars, OnProgress, RowTypes, Steps
  <2>3. TableTypes'
    <3>1. late' \in [Percent -> Nat]
      <4>1. CASE late' = late
        BY <2>0, <4>1 DEF TableTypes
      <4>2. CASE late' = [late EXCEPT ![Overall(rung, 100)] = @ + 1]
        BY <2>0, <2>1, <4>2 DEF TableTypes
      <4> QED
        BY <1>6, <4>1, <4>2 DEF Wait, barVars, OnProgress
    <3>2. UNCHANGED resultVars
      BY <1>6 DEF Wait
    <3> QED
      BY <2>0, <3>1, <3>2 DEF resultVars, TableTypes
  <2>4. ChildTypes'
    BY <1>6, <2>0, PipeAssumption DEF Wait, ChildTypes
  <2> QED
    BY <2>2, <2>3, <2>4 DEF TypeOK, RowTypes, TableTypes, ChildTypes
<1>7. CASE ParsePlaylist
  <2>0. RowTypes /\ TableTypes /\ ChildTypes
    BY TypeGroups
  <2>1. RowTypes'
    BY <1>7, <2>0
    DEF ParsePlaylist, barVars, Fails, Goes, RowTypes, Steps, Rungs, Ladder,
      LadderFor
  <2>2. TableTypes'
    BY <1>7, <2>0
    DEF ParsePlaylist, barVars, resultVars, Fails, TableTypes, ChildTypes
  <2>3. ChildTypes'
    BY <1>7, <2>0 DEF ParsePlaylist, childVars, Fails, Goes, ChildTypes
  <2> QED
    BY <2>1, <2>2, <2>3 DEF TypeOK, RowTypes, TableTypes, ChildTypes
<1>8. CASE SetUploading
  BY <1>8
  DEF TypeOK, Steps, Rungs, SetUploading, barVars, childVars, resultVars, Goes
<1>9. CASE CreateRendition
  BY <1>9
  DEF TypeOK, Steps, Rungs, CreateRendition, Fails, barVars, childVars,
    resultVars, Goes
<1>10. CASE UploadSegments
  <2>0. RowTypes /\ TableTypes /\ ChildTypes
    BY TypeGroups
  <2>1. RowTypes'
    BY <1>10, <2>0 DEF UploadSegments, barVars, Goes, RowTypes, Steps
  <2>2. TableTypes'
    BY <1>10, <2>0, SegmentCountAssumption
    DEF UploadSegments, barVars, TableTypes
  <2>3. ChildTypes'
    BY <1>10, <2>0 DEF UploadSegments, childVars, Goes, ChildTypes
  <2> QED
    BY <2>1, <2>2, <2>3 DEF TypeOK, RowTypes, TableTypes, ChildTypes
<1>11. CASE CreateSegmentsBatch
  <2>0. RowTypes /\ TableTypes /\ ChildTypes
    BY TypeGroups
  <2>1. RowTypes'
    BY <1>11, <2>0
    DEF CreateSegmentsBatch, barVars, Fails, Goes, RowTypes, Steps
  <2>2. TableTypes'
    BY <1>11, <2>0
    DEF CreateSegmentsBatch, barVars, resultVars, Fails, TableTypes, RowTypes
  <2>3. ChildTypes'
    BY <1>11, <2>0 DEF CreateSegmentsBatch, childVars, Fails, Goes, ChildTypes
  <2> QED
    BY <2>1, <2>2, <2>3 DEF TypeOK, RowTypes, TableTypes, ChildTypes
<1>12. CASE SetUploadProgress
  <2>0. RowTypes /\ TableTypes /\ ChildTypes
    BY TypeGroups
  <2>1. uploaded > 0
    BY <1>12, InsertedSomething DEF SetUploadProgress
  <2>2. UploadBar \in 80 .. 100
    BY <2>1, UploadBarBound
  <2>3. RowTypes'
    <3>1. stale' \in BOOLEAN /\ taken' \in BOOLEAN
      BY <1>12, <2>0 DEF SetUploadProgress, Goes, RowTypes
    <3>2. progress' \in Percent
      BY <1>12, <2>2 DEF SetUploadProgress, Least, Percent
    <3>3. rung' \in Rungs /\ pc' \in Steps
      BY <1>12, <2>0
      DEF SetUploadProgress, Goes, RowTypes, Steps, Rungs, Ladder, LadderFor
    <3>4. UNCHANGED <<status, height, last>>
      BY <1>12 DEF SetUploadProgress, Goes
    <3> QED
      BY <2>0, <3>1, <3>2, <3>3, <3>4 DEF RowTypes
  <2>4. TableTypes'
    BY <1>12, <2>0 DEF SetUploadProgress, resultVars, TableTypes
  <2>5. ChildTypes'
    BY <1>12, <2>0 DEF SetUploadProgress, childVars, Goes, ChildTypes
  <2> QED
    BY <2>3, <2>4, <2>5 DEF TypeOK, RowTypes, TableTypes, ChildTypes
<1>13. CASE SetHundred
  <2>0. RowTypes /\ TableTypes /\ ChildTypes
    BY TypeGroups
  <2>1. stale' \in BOOLEAN /\ taken' \in BOOLEAN
    BY <1>13, <2>0 DEF SetHundred, Goes, RowTypes
  <2>2. progress' \in Percent /\ pc' \in Steps
    BY <1>13 DEF SetHundred, Goes, Percent, Steps
  <2>3. RowTypes'
    BY <1>13, <2>0, <2>1, <2>2 DEF SetHundred, Goes, RowTypes
  <2>4. TableTypes'
    BY <1>13, <2>0 DEF SetHundred, resultVars, TableTypes
  <2>5. ChildTypes'
    BY <1>13, <2>0 DEF SetHundred, childVars, Goes, ChildTypes
  <2> QED
    BY <2>3, <2>4, <2>5 DEF TypeOK, RowTypes, TableTypes, ChildTypes
<1>14. CASE Publish
  BY <1>14 DEF TypeOK, Steps, Publish, barVars, childVars, resultVars, Goes
<1>15. CASE SetFailed
  <2>0. RowTypes /\ TableTypes /\ ChildTypes
    BY TypeGroups
  <2>1. RowTypes'
    BY <1>15, <2>0 DEF SetFailed, barVars, Goes, RowTypes, Steps
  <2>2. TableTypes'
    BY <1>15, <2>0 DEF SetFailed, barVars, resultVars, TableTypes
  <2>3. ChildTypes'
    BY <1>15, <2>0 DEF SetFailed, Goes, childVars, ChildTypes
  <2> QED
    BY <2>1, <2>2, <2>3 DEF TypeOK, RowTypes, TableTypes, ChildTypes
<1>16. CASE ProbeFails
  BY <1>16
  DEF TypeOK, Steps, Rungs, ProbeFails, barVars, childVars, resultVars, Fails
<1>17. CASE SpawnFails
  BY <1>17
  DEF TypeOK, Steps, Rungs, SpawnFails, barVars, childVars, resultVars, Fails
<1>18. CASE ReadFails
  BY <1>18 DEF TypeOK, Steps, ReadFails, barVars, resultVars
<1>19. CASE StatementFails
  BY <1>19
  DEF TypeOK, Steps, Rungs, StatementFails, barVars, childVars, resultVars,
    Fails
<1>20. CASE ChildReport
  BY PipeAssumption, <1>20
  DEF TypeOK, ChildInv, Rungs, ChildReport, barVars, resultVars, NextWants
<1>21. CASE ChildComplain
  BY PipeAssumption, <1>21
  DEF TypeOK, ChildInv, Rungs, ChildComplain, barVars, resultVars, NextWants
<1>22. CASE ChildExit
  <2>0. RowTypes /\ TableTypes /\ ChildTypes
    BY TypeGroups
  <2>1. RowTypes'
    BY <1>22, <2>0 DEF ChildExit, barVars, RowTypes
  <2>2. TableTypes'
    BY <1>22, <2>0 DEF ChildExit, barVars, resultVars, TableTypes
  <2>3. ChildTypes'
    BY <1>22, <2>0 DEF ChildExit, ChildTypes
  <2> QED
    BY <2>1, <2>2, <2>3 DEF TypeOK, RowTypes, TableTypes, ChildTypes
<1>23. CASE LateProgress
  <2>1. PICK v \in Percent :
            /\ late[v] > 0
            /\ late' = [late EXCEPT ![v] = @ - 1]
            /\ progress' \in {v, progress} /\ stale' \in {FALSE, stale}
            /\ UNCHANGED <<status, taken, pc, height, rung, last, childVars, resultVars>>
    BY <1>23 DEF LateProgress
  <2>2. RowTypes /\ TableTypes /\ ChildTypes
    BY TypeGroups
  <2>3. RowTypes'
    BY <2>1, <2>2 DEF RowTypes
  <2>4. TableTypes'
    BY <2>1, <2>2 DEF resultVars, TableTypes
  <2>5. ChildTypes'
    BY <2>1, <2>2 DEF childVars, ChildTypes
  <2> QED
    BY <2>3, <2>4, <2>5 DEF TypeOK, RowTypes, TableTypes, ChildTypes
<1>24. CASE UNCHANGED vars
  BY <1>24 DEF TypeOK, Rungs, vars, barVars, childVars, resultVars
<1> QED
  BY <1>1, <1>2, <1>3, <1>4, <1>5, <1>6, <1>7, <1>8, <1>9, <1>10, <1>11, <1>12,
    <1>13, <1>14, <1>15, <1>16, <1>17, <1>18, <1>19, <1>20, <1>21, <1>22, <1>23,
    <1>24
  DEF Next, TranscoderStep, Fault, ChildStep

\* The ladder is the rungs up to some n, and rung is one of them.
LEMMA LadderIsPrefix ==
    ASSUME TypeOK, RungInv
    PROVE  \E n \in Rungs : Ladder = 1 .. n /\ rung \in 1 .. n
<1>1. height \in Nat
  BY HeightsAssumption DEF TypeOK
<1> QED
  BY <1>1, LadderShape DEF Ladder, RungInv

\* Every step keeps the bounds of the child.
LEMMA ChildKeeps ==
    ASSUME TypeOK, ChildInv, [Next]_vars
    PROVE  ChildInv'
<1>1. CASE Probe
  BY <1>1 DEF ChildInv, Probe, childVars
<1>2. CASE Start
  BY <1>2 DEF ChildInv, Start, childVars, Goes
<1>3. CASE Spawn
  BY <1>3 DEF ChildInv, Spawn, NextWants
<1>4. CASE ReadLine
  BY <1>4 DEF ChildInv, ReadLine
<1>5. CASE EndOfOutput
  BY <1>5 DEF ChildInv, EndOfOutput, childVars, Goes
<1>6. CASE Wait
  BY <1>6 DEF TypeOK, ChildInv, Wait
<1>7. CASE ParsePlaylist
  BY <1>7 DEF ChildInv, ParsePlaylist, childVars, Fails, Goes
<1>8. CASE SetUploading
  BY <1>8 DEF ChildInv, SetUploading, childVars, Goes
<1>9. CASE CreateRendition
  BY <1>9 DEF ChildInv, CreateRendition, Fails, childVars, Goes
<1>10. CASE UploadSegments
  BY <1>10 DEF ChildInv, UploadSegments, childVars, Goes
<1>11. CASE CreateSegmentsBatch
  BY <1>11 DEF ChildInv, CreateSegmentsBatch, childVars, Fails, Goes
<1>12. CASE SetUploadProgress
  BY <1>12 DEF ChildInv, SetUploadProgress, childVars, Goes
<1>13. CASE SetHundred
  BY <1>13 DEF ChildInv, SetHundred, childVars, Goes
<1>14. CASE Publish
  BY <1>14 DEF ChildInv, Publish, childVars, Goes
<1>15. CASE SetFailed
  BY <1>15 DEF ChildInv, SetFailed, childVars, Goes
<1>16. CASE ProbeFails
  BY <1>16 DEF ChildInv, ProbeFails, childVars, Fails
<1>17. CASE SpawnFails
  BY <1>17 DEF ChildInv, SpawnFails, childVars, Fails
<1>18. CASE ReadFails
  BY <1>18 DEF ChildInv, ReadFails
<1>19. CASE StatementFails
  BY <1>19 DEF ChildInv, StatementFails, childVars, Fails
<1>20. CASE ChildReport
  BY <1>20 DEF ChildInv, ChildReport, NextWants
<1>21. CASE ChildComplain
  BY <1>21 DEF TypeOK, ChildInv, ChildComplain, NextWants
<1>22. CASE ChildExit
  BY <1>22 DEF ChildInv, ChildExit
<1>23. CASE LateProgress
  BY <1>23 DEF ChildInv, LateProgress, childVars
<1>24. CASE UNCHANGED vars
  BY <1>24 DEF ChildInv, vars, childVars
<1> QED
  BY <1>1, <1>2, <1>3, <1>4, <1>5, <1>6, <1>7, <1>8, <1>9, <1>10, <1>11, <1>12,
    <1>13, <1>14, <1>15, <1>16, <1>17, <1>18, <1>19, <1>20, <1>21, <1>22, <1>23,
    <1>24
  DEF Next, TranscoderStep, Fault, ChildStep

\* Every step keeps the rung in the ladder.
LEMMA RungKeeps ==
    ASSUME TypeOK, RungInv, [Next]_vars
    PROVE  RungInv'
<1>1. CASE Probe
  <2>1. height' \in Nat /\ rung = 1
    BY <1>1, HeightsAssumption DEF Probe, RungInv
  <2>2. 1 \in LadderFor(height')
    BY <2>1, LadderShape DEF Rungs
  <2> QED
    BY <1>1, <2>2 DEF Probe, RungInv, Ladder
<1>2. CASE Start
  BY <1>2 DEF RungInv, Ladder, Start, Goes
<1>3. CASE Spawn
  BY <1>3 DEF RungInv, Ladder, Spawn
<1>4. CASE ReadLine
  BY <1>4 DEF RungInv, Ladder, ReadLine
<1>5. CASE EndOfOutput
  BY <1>5 DEF RungInv, Ladder, EndOfOutput, Goes
<1>6. CASE Wait
  BY <1>6 DEF RungInv, Ladder, Wait
<1>7. CASE ParsePlaylist
  BY <1>7 DEF RungInv, Ladder, ParsePlaylist, Fails, Goes
<1>8. CASE SetUploading
  <2>1. 1 \in Ladder
    BY LadderIsPrefix DEF Rungs
  <2> QED
    BY <1>8, <2>1 DEF SetUploading, Goes, RungInv, Ladder
<1>9. CASE CreateRendition
  BY <1>9 DEF RungInv, Ladder, CreateRendition, Fails, Goes
<1>10. CASE UploadSegments
  BY <1>10 DEF RungInv, Ladder, UploadSegments, Goes
<1>11. CASE CreateSegmentsBatch
  BY <1>11 DEF RungInv, Ladder, CreateSegmentsBatch, Fails, Goes
<1>12. CASE SetUploadProgress
  BY <1>12 DEF RungInv, Ladder, SetUploadProgress, Goes
<1>13. CASE SetHundred
  BY <1>13 DEF RungInv, Ladder, SetHundred, Goes
<1>14. CASE Publish
  BY <1>14 DEF RungInv, Ladder, Publish, Goes
<1>15. CASE SetFailed
  BY <1>15 DEF RungInv, Ladder, SetFailed, Goes
<1>16. CASE ProbeFails
  BY <1>16 DEF RungInv, Ladder, ProbeFails, Fails
<1>17. CASE SpawnFails
  BY <1>17 DEF RungInv, Ladder, SpawnFails, Fails
<1>18. CASE ReadFails
  BY <1>18 DEF RungInv, Ladder, ReadFails
<1>19. CASE StatementFails
  BY <1>19 DEF RungInv, Ladder, StatementFails, Fails
<1>20. CASE ChildReport
  BY <1>20 DEF RungInv, Ladder, ChildReport
<1>21. CASE ChildComplain
  BY <1>21 DEF RungInv, Ladder, ChildComplain
<1>22. CASE ChildExit
  BY <1>22 DEF RungInv, Ladder, ChildExit
<1>23. CASE LateProgress
  BY <1>23 DEF RungInv, Ladder, LateProgress
<1>24. CASE UNCHANGED vars
  BY <1>24 DEF RungInv, Ladder, vars
<1> QED
  BY <1>1, <1>2, <1>3, <1>4, <1>5, <1>6, <1>7, <1>8, <1>9, <1>10, <1>11, <1>12,
    <1>13, <1>14, <1>15, <1>16, <1>17, <1>18, <1>19, <1>20, <1>21, <1>22, <1>23,
    <1>24
  DEF Next, TranscoderStep, Fault, ChildStep

\* Every step keeps what is said of the encoded rungs.
LEMMA EncodedKeeps ==
    ASSUME TypeOK, RungInv, EncodedInv, [Next]_vars
    PROVE  EncodedInv'
<1>1. CASE Probe
  BY <1>1 DEF Probe, EncodedInv, SecondLoop, resultVars
<1>2. CASE Start
  BY <1>2 DEF EncodedInv, SecondLoop, Start, resultVars, Goes
<1>3. CASE Spawn
  BY <1>3 DEF EncodedInv, FirstLoop, SecondLoop, Spawn, resultVars
<1>4. CASE ReadLine
  BY <1>4 DEF EncodedInv, Ladder, ReadLine, resultVars
<1>5. CASE EndOfOutput
  BY <1>5 DEF EncodedInv, FirstLoop, SecondLoop, EndOfOutput, resultVars, Goes
<1>6. CASE Wait
  BY <1>6 DEF EncodedInv, FirstLoop, SecondLoop, Wait, resultVars
<1>7. CASE ParsePlaylist
  <2>1. PICK n \in Rungs : Ladder = 1 .. n /\ rung \in 1 .. n
    BY LadderIsPrefix
  <2>2. CASE made = 0
    BY <1>7, <2>2 DEF ParsePlaylist, Fails, EncodedInv, FirstLoop, SecondLoop
  <2>3. CASE made # 0
    <3>1. encoded' = [encoded EXCEPT ![rung] = made] /\ made > 0
      BY <1>7, <2>3 DEF ParsePlaylist, TypeOK
    <3>2. \A r \in Rungs : encoded'[r] > 0 <=> r < rung + 1
      <4>1. SUFFICES ASSUME NEW r \in Rungs
                     PROVE  encoded'[r] > 0 <=> r < rung + 1
        OBVIOUS
      <4>2. r \in Int /\ rung \in Int /\ encoded \in [Rungs -> 0 .. MaxSegments]
        BY DEF TypeOK, Rungs
      <4>3. encoded[r] > 0 <=> r < rung
        BY <1>7 DEF ParsePlaylist, EncodedInv, FirstLoop
      <4>4. CASE r = rung
        BY <3>1, <4>2, <4>4
      <4>5. CASE r # rung
        BY <3>1, <4>2, <4>3
      <4> QED
        BY <4>4, <4>5
    <3> QED
      BY <1>7, <2>1, <2>3, <3>2
      DEF ParsePlaylist, Goes, EncodedInv, FirstLoop, SecondLoop, Ladder, Rungs
  <2> QED
    BY <2>2, <2>3
<1>8. CASE SetUploading
  BY <1>8 DEF EncodedInv, FirstLoop, Ladder, SetUploading, resultVars, Goes
<1>9. CASE CreateRendition
  BY <1>9
  DEF EncodedInv, FirstLoop, SecondLoop, Ladder, CreateRendition, Fails, resultVars,
    Goes
<1>10. CASE UploadSegments
  BY <1>10 DEF EncodedInv, FirstLoop, SecondLoop, Ladder, UploadSegments, Goes
<1>11. CASE CreateSegmentsBatch
  BY <1>11
  DEF EncodedInv, FirstLoop, SecondLoop, Ladder, CreateSegmentsBatch, Fails,
    Goes
<1>12. CASE SetUploadProgress
  BY <1>12
  DEF EncodedInv, FirstLoop, SecondLoop, Ladder, SetUploadProgress, resultVars,
    Goes
<1>13. CASE SetHundred
  BY <1>13
  DEF EncodedInv, FirstLoop, SecondLoop, Ladder, SetHundred, resultVars, Goes
<1>14. CASE Publish
  BY <1>14 DEF EncodedInv, FirstLoop, SecondLoop, Publish, Goes
<1>15. CASE SetFailed
  BY <1>15 DEF EncodedInv, FirstLoop, SecondLoop, SetFailed, Goes
<1>16. CASE ProbeFails
  BY <1>16 DEF EncodedInv, SecondLoop, ProbeFails, resultVars, Fails
<1>17. CASE SpawnFails
  BY <1>17 DEF EncodedInv, FirstLoop, SecondLoop, SpawnFails, Fails
<1>18. CASE ReadFails
  BY <1>18 DEF EncodedInv, FirstLoop, SecondLoop, ReadFails
<1>19. CASE StatementFails
  BY <1>19 DEF EncodedInv, FirstLoop, SecondLoop, StatementFails, Fails
<1>20. CASE ChildReport
  BY <1>20 DEF EncodedInv, Ladder, ChildReport, resultVars
<1>21. CASE ChildComplain
  BY <1>21 DEF EncodedInv, Ladder, ChildComplain, resultVars
<1>22. CASE ChildExit
  BY <1>22 DEF EncodedInv, Ladder, ChildExit, resultVars
<1>23. CASE LateProgress
  BY <1>23 DEF EncodedInv, Ladder, LateProgress, resultVars
<1>24. CASE UNCHANGED vars
  BY <1>24 DEF EncodedInv, Ladder, vars, resultVars
<1> QED
  BY <1>1, <1>2, <1>3, <1>4, <1>5, <1>6, <1>7, <1>8, <1>9, <1>10, <1>11, <1>12,
    <1>13, <1>14, <1>15, <1>16, <1>17, <1>18, <1>19, <1>20, <1>21, <1>22, <1>23,
    <1>24
  DEF Next, TranscoderStep, Fault, ChildStep

\* Every step keeps what is said of messages and rows.
LEMMA SentKeeps ==
    ASSUME TypeOK, RungInv, EncodedInv, SentInv, [Next]_vars
    PROVE  SentInv'
<1>1. CASE Probe
  BY <1>1 DEF SentInv, SecondLoop, Probe, resultVars
<1>2. CASE Start
  BY <1>2 DEF SentInv, SecondLoop, Start, resultVars, Goes
<1>3. CASE Spawn
  BY <1>3 DEF SentInv, FirstLoop, SecondLoop, Spawn, resultVars
<1>4. CASE ReadLine
  BY <1>4 DEF SentInv, ReadLine, resultVars
<1>5. CASE EndOfOutput
  BY <1>5 DEF SentInv, FirstLoop, SecondLoop, EndOfOutput, resultVars, Goes
<1>6. CASE Wait
  BY <1>6 DEF SentInv, FirstLoop, SecondLoop, Wait, resultVars
<1>7. CASE ParsePlaylist
  BY <1>7 DEF SentInv, FirstLoop, SecondLoop, ParsePlaylist, Fails, Goes
<1>8. CASE SetUploading
  BY <1>8 DEF SentInv, Rungs, SetUploading, resultVars, Goes
<1>9. CASE CreateRendition
  BY <1>9
  DEF SentInv, FirstLoop, SecondLoop, CreateRendition, Fails, resultVars, Goes
<1>10. CASE UploadSegments
  BY <1>10 DEF SentInv, FirstLoop, SecondLoop, TypeOK, UploadSegments, Goes
<1>11. CASE CreateSegmentsBatch
  BY <1>11
  DEF SentInv, FirstLoop, SecondLoop, TypeOK, CreateSegmentsBatch, barVars,
    childVars, resultVars, Fails, Goes
<1>12. CASE SetUploadProgress
  <2>1. rung \in Int /\ \A r \in Rungs : r \in Int
    BY DEF TypeOK, Rungs
  <2>2. \A r \in Rungs : r <= rung => rows[r] = encoded[r] /\ sent[r] = encoded[r]
    BY <1>12, <2>1 DEF SetUploadProgress, SentInv, SecondLoop
  <2>3. \A r \in Rungs : r > rung => rows[r] = 0 /\ sent[r] = 0
    BY <1>12, <2>1 DEF SetUploadProgress, SentInv, SecondLoop
  <2>4. CASE rung + 1 \in Ladder
    BY <1>12, <2>1, <2>4
    DEF SetUploadProgress, SentInv, FirstLoop, SecondLoop, Goes, resultVars
  <2>5. CASE rung + 1 \notin Ladder
    BY <1>12, <2>5
    DEF SetUploadProgress, SentInv, FirstLoop, SecondLoop, Goes, resultVars,
      Ladder
  <2> QED
    BY <2>4, <2>5
<1>13. CASE SetHundred
  BY <1>13
  DEF SentInv, FirstLoop, SecondLoop, Ladder, SetHundred, resultVars, Goes
<1>14. CASE Publish
  BY <1>14 DEF SentInv, FirstLoop, SecondLoop, Publish, Goes
<1>15. CASE SetFailed
  BY <1>15 DEF SentInv, FirstLoop, SecondLoop, SetFailed, Goes
<1>16. CASE ProbeFails
  BY <1>16 DEF SentInv, SecondLoop, ProbeFails, resultVars, Fails
<1>17. CASE SpawnFails
  BY <1>17 DEF SentInv, FirstLoop, SecondLoop, SpawnFails, Fails
<1>18. CASE ReadFails
  BY <1>18 DEF SentInv, FirstLoop, SecondLoop, ReadFails
<1>19. CASE StatementFails
  BY <1>19 DEF SentInv, FirstLoop, SecondLoop, StatementFails, Fails
<1>20. CASE ChildReport
  BY <1>20 DEF SentInv, Ladder, ChildReport, resultVars
<1>21. CASE ChildComplain
  BY <1>21 DEF SentInv, Ladder, ChildComplain, resultVars
<1>22. CASE ChildExit
  BY <1>22 DEF SentInv, Ladder, ChildExit, resultVars
<1>23. CASE LateProgress
  BY <1>23 DEF SentInv, Ladder, LateProgress, resultVars
<1>24. CASE UNCHANGED vars
  BY <1>24 DEF SentInv, Ladder, vars, resultVars
<1> QED
  BY <1>1, <1>2, <1>3, <1>4, <1>5, <1>6, <1>7, <1>8, <1>9, <1>10, <1>11, <1>12,
    <1>13, <1>14, <1>15, <1>16, <1>17, <1>18, <1>19, <1>20, <1>21, <1>22, <1>23,
    <1>24
  DEF Next, TranscoderStep, Fault, ChildStep

\* Nothing is sent before every rung of the ladder is encoded.
LEMMA EncodedBeforeSentKeeps ==
    ASSUME TypeOK, RungInv, EncodedInv, SentInv, EncodedBeforeSent, [Next]_vars
    PROVE  EncodedBeforeSent'
<1>1. CASE Probe
  BY <1>1
  DEF EncodedBeforeSent, Ladder, Probe, barVars, childVars, resultVars, SentInv,
    FirstLoop
<1>2. CASE Start
  BY <1>2 DEF EncodedBeforeSent, Ladder, Start, resultVars, Goes
<1>3. CASE Spawn
  BY <1>3 DEF EncodedBeforeSent, Ladder, Spawn, resultVars
<1>4. CASE ReadLine
  BY <1>4 DEF EncodedBeforeSent, Ladder, ReadLine, resultVars
<1>5. CASE EndOfOutput
  BY <1>5 DEF EncodedBeforeSent, Ladder, EndOfOutput, resultVars, Goes
<1>6. CASE Wait
  BY <1>6 DEF EncodedBeforeSent, Ladder, Wait, resultVars
<1>7. CASE ParsePlaylist
  BY <1>7
  DEF EncodedBeforeSent, ParsePlaylist, barVars, childVars, resultVars, Fails,
    Goes, SentInv, FirstLoop
<1>8. CASE SetUploading
  BY <1>8 DEF EncodedBeforeSent, Ladder, SetUploading, resultVars, Goes
<1>9. CASE CreateRendition
  BY <1>9
  DEF EncodedBeforeSent, Ladder, CreateRendition, Fails, resultVars, Goes
<1>10. CASE UploadSegments
  BY <1>10, LadderIsPrefix
  DEF EncodedBeforeSent, Ladder, UploadSegments, Goes, EncodedInv, SecondLoop,
    Rungs
<1>11. CASE CreateSegmentsBatch
  BY <1>11
  DEF EncodedBeforeSent, Ladder, CreateSegmentsBatch, resultVars, Fails, Goes
<1>12. CASE SetUploadProgress
  BY <1>12 DEF EncodedBeforeSent, Ladder, SetUploadProgress, resultVars, Goes
<1>13. CASE SetHundred
  BY <1>13 DEF EncodedBeforeSent, Ladder, SetHundred, resultVars, Goes
<1>14. CASE Publish
  BY <1>14 DEF EncodedBeforeSent, Ladder, Publish, resultVars, Goes
<1>15. CASE SetFailed
  BY <1>15 DEF EncodedBeforeSent, Ladder, SetFailed, resultVars, Goes
<1>16. CASE ProbeFails
  BY <1>16 DEF EncodedBeforeSent, Ladder, ProbeFails, resultVars, Fails
<1>17. CASE SpawnFails
  BY <1>17 DEF EncodedBeforeSent, Ladder, SpawnFails, resultVars, Fails
<1>18. CASE ReadFails
  BY <1>18 DEF EncodedBeforeSent, Ladder, ReadFails, resultVars
<1>19. CASE StatementFails
  BY <1>19 DEF EncodedBeforeSent, Ladder, StatementFails, resultVars, Fails
<1>20. CASE ChildReport
  BY <1>20 DEF EncodedBeforeSent, Ladder, ChildReport, resultVars
<1>21. CASE ChildComplain
  BY <1>21 DEF EncodedBeforeSent, Ladder, ChildComplain, resultVars
<1>22. CASE ChildExit
  BY <1>22 DEF EncodedBeforeSent, Ladder, ChildExit, resultVars
<1>23. CASE LateProgress
  BY <1>23 DEF EncodedBeforeSent, Ladder, LateProgress, resultVars
<1>24. CASE UNCHANGED vars
  BY <1>24 DEF EncodedBeforeSent, Ladder, vars, resultVars
<1> QED
  BY <1>1, <1>2, <1>3, <1>4, <1>5, <1>6, <1>7, <1>8, <1>9, <1>10, <1>11, <1>12,
    <1>13, <1>14, <1>15, <1>16, <1>17, <1>18, <1>19, <1>20, <1>21, <1>22, <1>23,
    <1>24
  DEF Next, TranscoderStep, Fault, ChildStep

\* Every step keeps the count of rows.
LEMMA CountKeeps ==
    ASSUME TypeOK, RungInv, EncodedInv, SentInv, CountInv, [Next]_vars
    PROVE  CountInv'
<1>1. CASE Probe
  BY <1>1 DEF CountInv, Probe, resultVars
<1>2. CASE Start
  BY <1>2 DEF CountInv, Start, resultVars
<1>3. CASE Spawn
  BY <1>3 DEF CountInv, Spawn, resultVars
<1>4. CASE ReadLine
  BY <1>4 DEF CountInv, ReadLine, resultVars
<1>5. CASE EndOfOutput
  BY <1>5 DEF CountInv, EndOfOutput, resultVars
<1>6. CASE Wait
  BY <1>6 DEF CountInv, Wait, resultVars
<1>7. CASE ParsePlaylist
  <2>1. CASE made = 0
    BY <1>7, <2>1 DEF ParsePlaylist, Fails, CountInv, resultVars
  <2>2. CASE made # 0
    <3>1. encoded' = [encoded EXCEPT ![rung] = made] /\ UNCHANGED <<uploaded, rows>>
      BY <1>7, <2>2 DEF ParsePlaylist
    <3>2. \A r \in Rungs : rows[r] = 0
      BY <1>7 DEF ParsePlaylist, SentInv, FirstLoop
    <3>3. \A r \in Rungs : encoded'[r] >= 0
      BY <3>1 DEF TypeOK
    <3> QED
      BY <3>1, <3>2, <3>3 DEF CountInv
  <2> QED
    BY <2>1, <2>2
<1>8. CASE SetUploading
  BY <1>8 DEF CountInv, SetUploading, resultVars
<1>9. CASE CreateRendition
  BY <1>9 DEF CountInv, CreateRendition, Fails, resultVars
<1>10. CASE UploadSegments
  BY <1>10 DEF CountInv, UploadSegments
<1>11. CASE CreateSegmentsBatch
  <2>1. CASE encoded[rung] > MaxRows
    BY <1>11, <2>1 DEF CreateSegmentsBatch, Fails, CountInv, resultVars
  <2>2. CASE ~(encoded[rung] > MaxRows)
    <3>1. /\ rows' = [rows EXCEPT ![rung] = encoded[rung]]
          /\ uploaded' = uploaded + encoded[rung] /\ encoded' = encoded
      BY <1>11, <2>2 DEF CreateSegmentsBatch
    <3>2. rows[rung] = 0
      <4>1. pc = "insert" /\ rung \in Rungs
        BY <1>11 DEF CreateSegmentsBatch, TypeOK
      <4>2. rows[rung] = IF rung < rung \/ (rung = rung /\ pc \in {"bar", "hundred", "publish"})
                         THEN encoded[rung] ELSE 0
        BY <4>1 DEF SentInv, SecondLoop
      <4> QED
        BY <4>1, <4>2 DEF Rungs
    <3>3. /\ rung \in {1, 2, 3} /\ rows \in [{1, 2, 3} -> Nat] /\ encoded \in [{1, 2, 3} -> Nat]
          /\ Rungs = {1, 2, 3}
      BY DEF TypeOK, Rungs
    <3>4. uploaded' = rows'[1] + rows'[2] + rows'[3]
      <4>1. CASE rung = 1
        BY <3>1, <3>2, <3>3 DEF CountInv
      <4>2. CASE rung = 2
        BY <3>1, <3>2, <3>3 DEF CountInv
      <4>3. CASE rung = 3
        BY <3>1, <3>2, <3>3 DEF CountInv
      <4> QED
        BY <3>3, <4>1, <4>2, <4>3
    <3>5. \A r \in Rungs : rows'[r] <= encoded'[r]
      BY <3>1, <3>3 DEF CountInv
    <3> QED
      BY <3>4, <3>5 DEF CountInv
  <2> QED
    BY <2>1, <2>2
<1>12. CASE SetUploadProgress
  BY <1>12 DEF CountInv, SetUploadProgress, resultVars
<1>13. CASE SetHundred
  BY <1>13 DEF CountInv, SetHundred, resultVars
<1>14. CASE Publish
  BY <1>14 DEF CountInv, Publish, resultVars
<1>15. CASE SetFailed
  BY <1>15 DEF CountInv, SetFailed, resultVars
<1>16. CASE ProbeFails
  BY <1>16 DEF CountInv, ProbeFails, resultVars, Fails
<1>17. CASE SpawnFails
  BY <1>17 DEF CountInv, SpawnFails, resultVars, Fails
<1>18. CASE ReadFails
  BY <1>18 DEF CountInv, ReadFails, resultVars
<1>19. CASE StatementFails
  BY <1>19 DEF CountInv, StatementFails, resultVars, Fails
<1>20. CASE ChildReport
  BY <1>20 DEF CountInv, ChildReport, resultVars
<1>21. CASE ChildComplain
  BY <1>21 DEF CountInv, ChildComplain, resultVars
<1>22. CASE ChildExit
  BY <1>22 DEF CountInv, ChildExit, resultVars
<1>23. CASE LateProgress
  BY <1>23 DEF CountInv, LateProgress, resultVars
<1>24. CASE UNCHANGED vars
  BY <1>24 DEF CountInv, vars, resultVars
<1> QED
  BY <1>1, <1>2, <1>3, <1>4, <1>5, <1>6, <1>7, <1>8, <1>9, <1>10, <1>11, <1>12,
    <1>13, <1>14, <1>15, <1>16, <1>17, <1>18, <1>19, <1>20, <1>21, <1>22, <1>23,
    <1>24
  DEF Next, TranscoderStep, Fault, ChildStep

\* Every step keeps what is said of writes on their way.
LEMMA LateKeeps ==
    ASSUME TypeOK, RungInv, LateInv, [Next]_vars
    PROVE  LateInv'
<1>1. CASE Probe
  BY <1>1 DEF LateInv, FirstLoop, Probe, barVars
<1>2. CASE Start
  <2>1. Overall(rung, 100) \in 0 .. 80
    BY OverallBound
  <2> QED
    BY <1>2, <2>1 DEF Start, Goes, LateInv, barVars, Overall, Ladder
<1>3. CASE Spawn
  BY <1>3 DEF LateInv, FirstLoop, Overall, Ladder, Spawn
<1>4. CASE ReadLine
  <2>0. late \in [Percent -> Nat] /\ pc \in FirstLoop
    BY <1>4 DEF TypeOK, ReadLine, FirstLoop
  <2>1. \A d \in 0 .. 100 : Overall(rung, d) \in 0 .. 80 /\ Overall(rung, d) <= Overall(rung, 100)
    BY OverallBound
  <2>2. Head(outPipe) # NoTime => Clamp(Head(outPipe)) \in 0 .. 100
    <3>1. Head(outPipe) # NoTime => Head(outPipe) \in Times
      BY <1>4 DEF ReadLine, TypeOK
    <3> QED
      BY <3>1, ClampRange
  <2>3. /\ UNCHANGED <<progress, stale>>
        /\ \/ late' = late
           \/ \E d \in 0 .. 100 : late' = [late EXCEPT ![Overall(rung, d)] = @ + 1]
    BY <1>4, <2>2 DEF ReadLine, OnProgress, barVars
  <2>5. Overall(rung, 100)' = Overall(rung, 100)
    BY <1>4 DEF ReadLine, Overall, Ladder
  <2>6. \A v \in Percent : late'[v] > 0 => v <= 80 /\ v <= Overall(rung, 100)
    <3>1. SUFFICES ASSUME NEW v \in Percent, late'[v] > 0
                   PROVE  v <= 80 /\ v <= Overall(rung, 100)
      OBVIOUS
    <3>2. CASE late' = late
      BY <2>0, <3>1, <3>2 DEF LateInv
    <3>3. CASE late' # late
      <4>1. PICK d \in 0 .. 100 : late' = [late EXCEPT ![Overall(rung, d)] = @ + 1]
        BY <2>3, <3>3
      <4>2. CASE v = Overall(rung, d)
        BY <2>1, <4>2 DEF Percent
      <4>3. CASE v # Overall(rung, d)
        BY <2>0, <3>1, <4>1, <4>3 DEF LateInv
      <4> QED
        BY <4>2, <4>3
    <3> QED
      BY <3>2, <3>3
  <2> QED
    BY <1>4, <2>3, <2>5, <2>6 DEF ReadLine, LateInv
<1>5. CASE EndOfOutput
  BY <1>5 DEF LateInv, FirstLoop, Overall, Ladder, EndOfOutput, barVars, Goes
<1>6. CASE Wait
  <2>0. late \in [Percent -> Nat] /\ pc \in FirstLoop
    BY <1>6 DEF TypeOK, Wait, FirstLoop
  <2>1. \A d \in 0 .. 100 : Overall(rung, d) \in 0 .. 80 /\ Overall(rung, d) <= Overall(rung, 100)
    BY OverallBound
  <2>2. 100 \in 0 .. 100
    OBVIOUS
  <2>3. /\ UNCHANGED <<progress, stale>>
        /\ \/ late' = late
           \/ \E d \in 0 .. 100 : late' = [late EXCEPT ![Overall(rung, d)] = @ + 1]
    BY <1>6 DEF Wait, OnProgress, barVars
  <2>5. Overall(rung, 100)' = Overall(rung, 100)
    BY <1>6 DEF Wait, Overall, Ladder
  <2>6. \A v \in Percent : late'[v] > 0 => v <= 80 /\ v <= Overall(rung, 100)
    <3>1. SUFFICES ASSUME NEW v \in Percent, late'[v] > 0
                   PROVE  v <= 80 /\ v <= Overall(rung, 100)
      OBVIOUS
    <3>2. CASE late' = late
      BY <2>0, <3>1, <3>2 DEF LateInv
    <3>3. CASE late' # late
      <4>1. PICK d \in 0 .. 100 : late' = [late EXCEPT ![Overall(rung, d)] = @ + 1]
        BY <2>3, <3>3
      <4>2. CASE v = Overall(rung, d)
        BY <2>1, <4>2 DEF Percent
      <4>3. CASE v # Overall(rung, d)
        BY <2>0, <3>1, <4>1, <4>3 DEF LateInv
      <4> QED
        BY <4>2, <4>3
    <3> QED
      BY <3>2, <3>3
  <2> QED
    BY <1>6, <2>3, <2>5, <2>6 DEF Wait, LateInv, FirstLoop
<1>7. CASE ParsePlaylist
  <2>1. CASE pc' = "spawn"
    <3>1. rung' = rung + 1 /\ rung + 1 \in Ladder /\ UNCHANGED <<height, progress, stale, late>>
      BY <1>7, <2>1 DEF ParsePlaylist, Fails, Goes, barVars
    <3>2. Overall(rung, 100) <= Overall(rung + 1, 100) /\ Overall(rung, 100) \in Int /\ Overall(rung + 1, 100) \in Int
      BY <3>1, OverallBound, OverallNext
    <3>3. Overall(rung, 100)' = Overall(rung + 1, 100)
      BY <3>1 DEF Overall, Ladder
    <3>4. /\ ~stale => progress <= Overall(rung, 100)
          /\ \A v \in Percent : late[v] > 0 => v <= 80 /\ v <= Overall(rung, 100)
      BY <1>7 DEF ParsePlaylist, LateInv, FirstLoop
    <3>5. ~stale' => progress' <= Overall(rung, 100)'
      <4>1. progress \in Int
        BY DEF TypeOK, Percent
      <4> QED
        BY <3>1, <3>2, <3>3, <3>4, <4>1
    <3>6. \A v \in Percent : late'[v] > 0 => v <= 80 /\ v <= Overall(rung, 100)'
      BY <3>1, <3>2, <3>3, <3>4 DEF Percent
    <3> QED
      BY <2>1, <3>5, <3>6 DEF LateInv
  <2> QED
    BY <1>7, <2>1 DEF ParsePlaylist, Fails, Goes, barVars, LateInv, FirstLoop
<1>8. CASE SetUploading
  BY <1>8 DEF LateInv, FirstLoop, SetUploading, barVars, Goes
<1>9. CASE CreateRendition
  BY <1>9 DEF LateInv, FirstLoop, CreateRendition, Fails, barVars, Goes
<1>10. CASE UploadSegments
  BY <1>10 DEF LateInv, FirstLoop, UploadSegments, barVars, Goes
<1>11. CASE CreateSegmentsBatch
  BY <1>11 DEF LateInv, FirstLoop, CreateSegmentsBatch, barVars, Fails, Goes
<1>12. CASE SetUploadProgress
  BY <1>12 DEF LateInv, FirstLoop, SetUploadProgress, Goes
<1>13. CASE SetHundred
  BY <1>13 DEF LateInv, FirstLoop, SetHundred, Goes
<1>14. CASE Publish
  BY <1>14 DEF LateInv, FirstLoop, Publish, barVars, Goes
<1>15. CASE SetFailed
  BY <1>15 DEF LateInv, FirstLoop, SetFailed, barVars, Goes
<1>16. CASE ProbeFails
  BY <1>16 DEF LateInv, FirstLoop, ProbeFails, barVars, Fails
<1>17. CASE SpawnFails
  BY <1>17 DEF LateInv, FirstLoop, SpawnFails, barVars, Fails
<1>18. CASE ReadFails
  BY <1>18 DEF LateInv, FirstLoop, ReadFails, barVars
<1>19. CASE StatementFails
  BY <1>19 DEF LateInv, FirstLoop, StatementFails, barVars, Fails
<1>20. CASE ChildReport
  BY <1>20 DEF LateInv, Overall, Ladder, ChildReport, barVars
<1>21. CASE ChildComplain
  BY <1>21 DEF LateInv, Overall, Ladder, ChildComplain, barVars
<1>22. CASE ChildExit
  BY <1>22 DEF LateInv, Overall, Ladder, ChildExit, barVars
<1>23. CASE LateProgress
  <2>1. PICK w \in Percent : /\ late[w] > 0 /\ late' = [late EXCEPT ![w] = @ - 1]
                            /\ \/ progress' = w
                               \/ UNCHANGED <<progress, stale>>
                            /\ UNCHANGED <<pc, height, rung>>
    BY <1>23 DEF LateProgress
  <2>2. \A v \in Percent : late'[v] > 0 => late[v] > 0
    BY <2>1
  <2>3. pc \notin {"probe", "start"}
    BY <2>1 DEF LateInv
  <2> QED
    BY <2>1 DEF LateInv, Overall, Ladder
<1>24. CASE UNCHANGED vars
  BY <1>24 DEF LateInv, Overall, Ladder, vars, barVars
<1> QED
  BY <1>1, <1>2, <1>3, <1>4, <1>5, <1>6, <1>7, <1>8, <1>9, <1>10, <1>11, <1>12,
    <1>13, <1>14, <1>15, <1>16, <1>17, <1>18, <1>19, <1>20, <1>21, <1>22, <1>23,
    <1>24
  DEF Next, TranscoderStep, Fault, ChildStep

\* More uploads, more bar.
LEMMA UploadBarGrows ==
    ASSUME NEW u \in Nat, NEW w \in Nat, NEW t \in Nat \ {0}, w <= u, u <= t
    PROVE  80 + (20 * w) \div t <= 80 + (20 * u) \div t
<1>1. (20 * w) \div t \in 0 .. 20 /\ (20 * u) \div t \in 0 .. 20 /\ (20 * w) \div t <= (20 * u) \div t
  OBVIOUS
<1> QED
  OBVIOUS

\* Behind the second loop every rung has its messages and rows.
LEMMA EveryRungDone ==
    ASSUME TypeOK, RungInv, EncodedInv, SentInv, pc \in {"hundred", "publish"}
    PROVE  \A r \in Rungs : rows[r] = encoded[r] /\ sent[r] = encoded[r]
<1>1. SUFFICES ASSUME NEW r \in Rungs
               PROVE  rows[r] = encoded[r] /\ sent[r] = encoded[r]
  OBVIOUS
<1>2. PICK n \in Rungs : Ladder = 1 .. n /\ rung = n
  BY LadderIsPrefix DEF SentInv, Rungs
<1>3. r \in Int /\ rung \in Int /\ encoded[r] \in Nat
  <2>1. encoded \in [Rungs -> 0 .. MaxSegments]
    BY DEF TypeOK
  <2> QED
    BY <1>2, <2>1 DEF Rungs
<1>4. CASE r <= rung
  BY <1>3, <1>4 DEF SentInv, SecondLoop
<1>5. CASE r > rung
  <2>1. encoded[r] = 0
    BY <1>2, <1>3, <1>5 DEF EncodedInv, SecondLoop
  <2> QED
    BY <2>1 DEF SentInv, SecondLoop
<1> QED
  BY <1>3, <1>4, <1>5

\* Behind the second loop all segments are counted, transcoder.rs:182.
LEMMA AllInserted ==
    ASSUME TypeOK, RungInv, EncodedInv, SentInv, CountInv, pc = "hundred"
    PROVE  uploaded > 0 /\ uploaded = Total
<1>1. \A r \in Rungs : rows[r] = encoded[r]
  BY EveryRungDone
<1>2. encoded[rung] > 0 /\ rung \in Rungs
  BY DEF EncodedInv, SecondLoop, RungInv, TypeOK
<1>3. /\ Rungs = {1, 2, 3} /\ encoded \in [{1, 2, 3} -> Nat]
  BY DEF TypeOK, Rungs
<1> QED
  BY <1>1, <1>2, <1>3 DEF CountInv, Total

\* Every step keeps what is said of the bar.
LEMMA BarKeeps ==
    ASSUME TypeOK, ChildInv, RungInv, EncodedInv, SentInv, CountInv, LateInv, BarInv,
           RetryInv, [Next]_vars
    PROVE  BarInv'
<1>1. CASE Probe
  BY <1>1 DEF BarInv, UploadBar, Total, Probe, barVars, resultVars
<1>2. CASE Start
  BY <1>2 DEF BarInv, UploadBar, Total, Start, barVars, resultVars, Goes
<1>3. CASE Spawn
  BY <1>3 DEF BarInv, UploadBar, Total, Spawn, resultVars
<1>4. CASE ReadLine
  BY <1>4
  DEF BarInv, UploadBar, Total, ReadLine, barVars, resultVars, OnProgress
<1>5. CASE EndOfOutput
  BY <1>5 DEF BarInv, UploadBar, Total, EndOfOutput, barVars, resultVars, Goes
<1>6. CASE Wait
  BY <1>6 DEF BarInv, UploadBar, Total, Wait, barVars, resultVars, OnProgress
<1>7. CASE ParsePlaylist
  <2>0. Overall(rung, 100) \in 0 .. 80
    BY OverallBound
  <2>1. ~stale => progress <= 80
    <3>1. progress \in Int
      BY DEF TypeOK, Percent
    <3>2. ~stale => progress <= Overall(rung, 100)
      BY <1>7 DEF ParsePlaylist, LateInv, FirstLoop
    <3> QED
      BY <2>0, <3>1, <3>2
  <2>2. UNCHANGED <<progress, stale>> /\ pc' \in {"spawn", "uploading", "fail"}
    BY <1>7 DEF ParsePlaylist, Fails, Goes, barVars
  <2> QED
    BY <2>1, <2>2 DEF BarInv, TypeOK, Percent
<1>8. CASE SetUploading
  BY <1>8 DEF SetUploading, barVars, resultVars, BarInv, UploadBar, Total
<1>9. CASE CreateRendition
  BY <1>9
  DEF BarInv, UploadBar, Total, CreateRendition, Fails, barVars, resultVars, Goes
<1>10. CASE UploadSegments
  BY <1>10 DEF BarInv, UploadBar, Total, UploadSegments, barVars, Goes
<1>11. CASE CreateSegmentsBatch
  <2>1. CASE encoded[rung] > MaxRows
    BY <1>11, <2>1
    DEF CreateSegmentsBatch, Fails, barVars, resultVars, BarInv, UploadBar,
      Total
  <2>2. CASE ~(encoded[rung] > MaxRows)
    <3>1. /\ uploaded' = uploaded + encoded[rung] /\ encoded' = encoded
          /\ UNCHANGED <<progress, stale>> /\ pc' = "bar" /\ pc = "insert"
      BY <1>11, <2>2 DEF CreateSegmentsBatch, Goes, barVars
    <3>2. encoded[rung] \in Nat /\ uploaded \in Nat /\ Total' = Total
      BY <3>1 DEF TypeOK, Total
    <3>3. CASE ~stale /\ progress > 80
      <4>1. CountInv'
        BY CountKeeps
      <4>2. TypeOK'
        BY TypeKeeps
      <4>3. Total \in Nat \ {0} /\ uploaded' <= Total /\ uploaded > 0
        <5>1. uploaded > 0
          BY <3>3 DEF BarInv
        <5>2. /\ Rungs = {1, 2, 3} /\ rows' \in [{1, 2, 3} -> Nat]
              /\ encoded \in [{1, 2, 3} -> Nat]
          BY <4>2 DEF TypeOK, Rungs
        <5> QED
          BY <3>1, <3>2, <4>1, <5>1, <5>2 DEF CountInv, Total
      <4>4. UploadBar <= UploadBar'
        BY <3>1, <3>2, <4>3 DEF UploadBar
      <4>5. UploadBar \in Int /\ UploadBar' \in Int
        BY <3>1, <3>2, <4>3 DEF UploadBar
      <4> QED
        <5>1. progress \in Int /\ progress <= UploadBar /\ uploaded' > 0
          <6>1. progress \in Int
            BY DEF TypeOK, Percent
          <6>2. progress <= UploadBar
            BY <3>3 DEF BarInv
          <6> QED
            BY <3>1, <3>2, <4>3, <6>1, <6>2
        <5>2. progress' > 80 => uploaded' > 0 /\ progress' <= UploadBar'
          BY <3>1, <4>4, <4>5, <5>1
        <5>3. progress # 100
          BY <3>1, <3>3 DEF BarInv
        <5> QED
          BY <3>1, <5>2 DEF BarInv
    <3> QED
      BY <3>1, <3>3 DEF BarInv
  <2> QED
    BY <2>1, <2>2
<1>12. CASE SetUploadProgress
  <2>1. uploaded > 0
    BY <1>12, InsertedSomething DEF SetUploadProgress
  <2>2. UploadBar \in 80 .. 100
    BY <2>1, UploadBarBound
  <2>3. UploadBar' = UploadBar /\ uploaded' = uploaded
    BY <1>12 DEF SetUploadProgress, resultVars, UploadBar, Total
  <2>4. progress' = Least(UploadBar, 99) /\ pc' \in {"rendition", "hundred"}
    BY <1>12 DEF SetUploadProgress, Goes
  <2> QED
    BY <2>1, <2>2, <2>3, <2>4 DEF BarInv, Least
<1>13. CASE SetHundred
  <2>1. uploaded > 0 /\ uploaded = Total
    BY <1>13, AllInserted DEF SetHundred
  <2>2. UploadBar = 100
    BY <2>1, UploadBarBound
  <2>3. UploadBar' = UploadBar /\ uploaded' = uploaded
    BY <1>13 DEF SetHundred, resultVars, UploadBar, Total
  <2> QED
    BY <1>13, <2>1, <2>2, <2>3 DEF SetHundred, Goes, BarInv
<1>14. CASE Publish
  BY <1>14 DEF BarInv, UploadBar, Total, Publish, barVars, resultVars, Goes
<1>15. CASE SetFailed
  BY <1>15 DEF BarInv, UploadBar, Total, SetFailed, barVars, resultVars, Goes
<1>16. CASE ProbeFails
  BY <1>16 DEF BarInv, UploadBar, Total, ProbeFails, barVars, resultVars, Fails
<1>17. CASE SpawnFails
  BY <1>17 DEF BarInv, UploadBar, Total, SpawnFails, barVars, resultVars, Fails
<1>18. CASE ReadFails
  BY <1>18 DEF BarInv, UploadBar, Total, ReadFails, barVars, resultVars
<1>19. CASE StatementFails
  BY <1>19
  DEF BarInv, UploadBar, Total, StatementFails, barVars, resultVars, Fails
<1>20. CASE ChildReport
  BY <1>20 DEF BarInv, UploadBar, Total, ChildReport, barVars, resultVars
<1>21. CASE ChildComplain
  BY <1>21 DEF BarInv, UploadBar, Total, ChildComplain, barVars, resultVars
<1>22. CASE ChildExit
  BY <1>22 DEF BarInv, UploadBar, Total, ChildExit, barVars, resultVars
<1>23. CASE LateProgress
  <2>1. PICK w \in Percent : /\ late[w] > 0
                            /\ \/ progress' = w
                               \/ UNCHANGED <<progress, stale>>
                            /\ UNCHANGED <<pc, encoded, uploaded>>
    BY <1>23 DEF LateProgress, resultVars
  <2>2. w <= 80
    BY <2>1 DEF LateInv
  <2> QED
    BY <2>1, <2>2 DEF BarInv, UploadBar, Total, Percent
<1>24. CASE UNCHANGED vars
  BY <1>24 DEF BarInv, UploadBar, Total, vars, barVars, resultVars
<1> QED
  BY <1>1, <1>2, <1>3, <1>4, <1>5, <1>6, <1>7, <1>8, <1>9, <1>10, <1>11, <1>12,
    <1>13, <1>14, <1>15, <1>16, <1>17, <1>18, <1>19, <1>20, <1>21, <1>22, <1>23,
    <1>24
  DEF Next, TranscoderStep, Fault, ChildStep

\* Every step keeps what is said of an earlier attempt.
LEMMA RetryKeeps ==
    ASSUME TypeOK, RungInv, EncodedInv, SentInv, CountInv, LateInv, RetryInv, [Next]_vars
    PROVE  RetryInv'
<1>1. CASE Probe
  BY <1>1 DEF RetryInv, Probe, barVars
<1>2. CASE Start
  BY <1>2 DEF RetryInv, Start, barVars, Goes
<1>3. CASE Spawn
  BY <1>3 DEF RetryInv, Spawn, barVars
<1>4. CASE ReadLine
  BY <1>4 DEF RetryInv, ReadLine, barVars, OnProgress
<1>5. CASE EndOfOutput
  BY <1>5 DEF RetryInv, EndOfOutput, barVars, Goes
<1>6. CASE Wait
  BY <1>6 DEF RetryInv, Wait, barVars, OnProgress
<1>7. CASE ParsePlaylist
  BY <1>7 DEF RetryInv, ParsePlaylist, barVars, Fails, Goes
<1>8. CASE SetUploading
  BY <1>8 DEF RetryInv, SetUploading, barVars, Goes
<1>9. CASE CreateRendition
  BY <1>9 DEF RetryInv, CreateRendition, barVars, Fails, Goes
<1>10. CASE UploadSegments
  BY <1>10 DEF RetryInv, UploadSegments, barVars, Goes
<1>11. CASE CreateSegmentsBatch
  BY <1>11 DEF RetryInv, CreateSegmentsBatch, barVars, Fails, Goes
<1>12. CASE SetUploadProgress
  BY <1>12 DEF RetryInv, SetUploadProgress, Goes
<1>13. CASE SetHundred
  BY <1>13 DEF RetryInv, SetHundred, Goes
<1>14. CASE Publish
  BY <1>14 DEF RetryInv, Publish, barVars, Goes
<1>15. CASE SetFailed
  BY <1>15 DEF RetryInv, SetFailed, barVars, Goes
<1>16. CASE ProbeFails
  BY <1>16 DEF RetryInv, ProbeFails, barVars, Fails
<1>17. CASE SpawnFails
  BY <1>17 DEF RetryInv, SpawnFails, barVars, Fails
<1>18. CASE ReadFails
  BY <1>18 DEF RetryInv, ReadFails, barVars
<1>19. CASE StatementFails
  BY <1>19 DEF RetryInv, StatementFails, barVars, Fails
<1>20. CASE ChildReport
  BY <1>20 DEF RetryInv, ChildReport, barVars
<1>21. CASE ChildComplain
  BY <1>21 DEF RetryInv, ChildComplain, barVars
<1>22. CASE ChildExit
  BY <1>22 DEF RetryInv, ChildExit, barVars
<1>23. CASE LateProgress
  <2>1. PICK w \in Percent : /\ late[w] > 0
                            /\ \/ progress' = w /\ ~stale'
                               \/ UNCHANGED <<progress, stale>>
                            /\ UNCHANGED <<taken, pc>>
    BY <1>23 DEF LateProgress
  <2>2. w <= 80
    BY <2>1 DEF LateInv
  <2> QED
    BY <2>1, <2>2 DEF RetryInv
<1>24. CASE UNCHANGED vars
  BY <1>24 DEF RetryInv, vars, barVars
<1> QED
  BY <1>1, <1>2, <1>3, <1>4, <1>5, <1>6, <1>7, <1>8, <1>9, <1>10, <1>11, <1>12,
    <1>13, <1>14, <1>15, <1>16, <1>17, <1>18, <1>19, <1>20, <1>21, <1>22, <1>23,
    <1>24
  DEF Next, TranscoderStep, Fault, ChildStep

\* Every step keeps what is said of a published video.
LEMMA ReadyKeeps ==
    ASSUME TypeOK, RungInv, EncodedInv, SentInv, LateInv, RetryInv, ReadyInv, [Next]_vars
    PROVE  ReadyInv'
<1>1. CASE Probe
  BY <1>1 DEF ReadyInv, ReadyHasEveryRow, ReadyBar, Probe, Goes
<1>2. CASE Start
  BY <1>2 DEF ReadyInv, ReadyHasEveryRow, ReadyBar, Start, Goes
<1>3. CASE Spawn
  BY <1>3 DEF ReadyInv, ReadyHasEveryRow, ReadyBar, Spawn, Goes
<1>4. CASE ReadLine
  BY <1>4 DEF ReadyInv, ReadyHasEveryRow, ReadyBar, ReadLine, Goes
<1>5. CASE EndOfOutput
  BY <1>5 DEF ReadyInv, ReadyHasEveryRow, ReadyBar, EndOfOutput, Goes
<1>6. CASE Wait
  BY <1>6 DEF ReadyInv, ReadyHasEveryRow, ReadyBar, Wait, Goes
<1>7. CASE ParsePlaylist
  BY <1>7 DEF ReadyInv, ReadyHasEveryRow, ReadyBar, ParsePlaylist, Fails, Goes
<1>8. CASE SetUploading
  BY <1>8 DEF ReadyInv, ReadyHasEveryRow, ReadyBar, SetUploading, Goes
<1>9. CASE CreateRendition
  BY <1>9 DEF ReadyInv, ReadyHasEveryRow, ReadyBar, CreateRendition, Fails, Goes
<1>10. CASE UploadSegments
  BY <1>10 DEF ReadyInv, ReadyHasEveryRow, ReadyBar, UploadSegments, Goes
<1>11. CASE CreateSegmentsBatch
  BY <1>11
  DEF ReadyInv, ReadyHasEveryRow, ReadyBar, CreateSegmentsBatch, Fails, Goes
<1>12. CASE SetUploadProgress
  BY <1>12 DEF ReadyInv, ReadyHasEveryRow, ReadyBar, SetUploadProgress, Goes
<1>13. CASE SetHundred
  BY <1>13 DEF ReadyInv, ReadyHasEveryRow, ReadyBar, SetHundred, Goes
<1>14. CASE Publish
  <2>1. \A r \in Rungs : rows[r] = encoded[r] /\ sent[r] = encoded[r]
    BY <1>14, EveryRungDone DEF Publish
  <2>2. \A r \in Rungs : encoded[r] > 0 <=> r \in Ladder
    BY <1>14 DEF Publish, EncodedInv, SecondLoop
  <2> QED
    BY <1>14, <2>1, <2>2
    DEF Publish, Goes, barVars, resultVars, RetryInv, ReadyInv, ReadyHasEveryRow,
      ReadyBar, Ladder
<1>15. CASE SetFailed
  BY <1>15 DEF ReadyInv, ReadyHasEveryRow, ReadyBar, SetFailed, Goes
<1>16. CASE ProbeFails
  BY <1>16 DEF ReadyInv, ReadyHasEveryRow, ReadyBar, ProbeFails, Fails, Goes
<1>17. CASE SpawnFails
  BY <1>17 DEF ReadyInv, ReadyHasEveryRow, ReadyBar, SpawnFails, Fails, Goes
<1>18. CASE ReadFails
  BY <1>18 DEF ReadyInv, ReadyHasEveryRow, ReadyBar, ReadFails, Goes
<1>19. CASE StatementFails
  BY <1>19 DEF ReadyInv, ReadyHasEveryRow, ReadyBar, StatementFails, Fails, Goes
<1>20. CASE ChildReport
  BY <1>20
  DEF ReadyInv, ReadyHasEveryRow, ReadyBar, Ladder, ChildReport, barVars,
    resultVars, Goes
<1>21. CASE ChildComplain
  BY <1>21
  DEF ReadyInv, ReadyHasEveryRow, ReadyBar, Ladder, ChildComplain, barVars,
    resultVars, Goes
<1>22. CASE ChildExit
  BY <1>22
  DEF ReadyInv, ReadyHasEveryRow, ReadyBar, Ladder, ChildExit, barVars,
    resultVars, Goes
<1>23. CASE LateProgress
  <2>1. PICK w \in Percent : /\ late[w] > 0
                            /\ \/ progress' = w /\ ~stale'
                               \/ UNCHANGED <<progress, stale>>
                            /\ UNCHANGED <<status, taken, pc, height, encoded, sent, rows>>
    BY <1>23 DEF LateProgress, resultVars
  <2>2. w <= 80
    BY <2>1 DEF LateInv
  <2> QED
    BY <2>1, <2>2 DEF ReadyInv, ReadyHasEveryRow, ReadyBar, Ladder
<1>24. CASE UNCHANGED vars
  BY <1>24
  DEF ReadyInv, ReadyHasEveryRow, ReadyBar, Ladder, vars, barVars, resultVars
<1> QED
  BY <1>1, <1>2, <1>3, <1>4, <1>5, <1>6, <1>7, <1>8, <1>9, <1>10, <1>11, <1>12,
    <1>13, <1>14, <1>15, <1>16, <1>17, <1>18, <1>19, <1>20, <1>21, <1>22, <1>23,
    <1>24
  DEF Next, TranscoderStep, Fault, ChildStep

-----------------------------------------------------------------------------

\* The inductive invariant holds in every reachable state.
THEOREM EncodeInductive == Spec => []EncodeInv
<1>1. Init => EncodeInv
  <2>1. SUFFICES ASSUME Init
                 PROVE  EncodeInv
    OBVIOUS
  <2>2. status \in {"queued", "transcoding", "uploading", "ready", "failed"}
    BY <2>1 DEF Init, FirstAttempt, Retry
  <2>3. progress \in Percent /\ stale \in BOOLEAN /\ taken \in BOOLEAN
    <3>1. CASE FirstAttempt
      <4>1. stale \in BOOLEAN /\ taken \in BOOLEAN
        BY <3>1, Zenon DEF FirstAttempt
      <4>2. progress \in Percent
        BY <3>1 DEF FirstAttempt, Percent
      <4> QED
        BY <4>1, <4>2
    <3>2. CASE Retry
      BY <3>2, OldBarsAssumption DEF Retry, Percent
    <3> QED
      BY <2>1, <3>1, <3>2 DEF Init
  <2>4. TypeOK
    BY <2>2, <2>1, <2>3, SegmentCountAssumption, PipeAssumption
    DEF Init, TypeOK, Steps, Rungs, Percent
  <2>5. RungInv
    <3>1. 1 \in LadderFor(0)
      BY LadderShape DEF Rungs
    <3> QED
      BY <2>1, <3>1 DEF Init, RungInv, Ladder
  <2>6. ChildInv /\ EncodedInv /\ SentInv /\ CountInv
    BY <2>1 DEF Init, ChildInv, EncodedInv, SentInv, CountInv, SecondLoop, Rungs
  <2>7. EncodedBeforeSent
    BY <2>1 DEF Init, EncodedBeforeSent
  <2>8. LateInv /\ BarInv /\ RetryInv /\ ReadyInv
    <3>1. pc = "probe" /\ \A v \in Percent : late[v] = 0
      BY <2>1 DEF Init
    <3>2. \/ ~stale /\ progress = 0 /\ status = "queued"
          \/ /\ stale /\ progress \in 0 .. 100
             /\ progress > 80 \/ status = "ready" => taken
      BY <2>1, OldBarsAssumption DEF Init, FirstAttempt, Retry
    <3>3. LateInv /\ BarInv
      BY <3>1, <3>2 DEF LateInv, BarInv, FirstLoop
    <3>4. RetryInv /\ ReadyInv
      BY <3>1, <3>2 DEF RetryInv, ReadyInv, ReadyHasEveryRow, ReadyBar
    <3> QED
      BY <3>3, <3>4
  <2> QED
    BY <2>4, <2>5, <2>6, <2>7, <2>8 DEF EncodeInv
<1>2. EncodeInv /\ [Next]_vars => EncodeInv'
  <2>1. SUFFICES ASSUME EncodeInv, [Next]_vars
                 PROVE  EncodeInv'
    OBVIOUS
  <2>2. TypeOK' /\ ChildInv' /\ RungInv'
    BY <2>1, TypeKeeps, ChildKeeps, RungKeeps DEF EncodeInv
  <2>3. EncodedInv' /\ SentInv' /\ EncodedBeforeSent' /\ CountInv'
    BY <2>1, EncodedKeeps, SentKeeps, EncodedBeforeSentKeeps, CountKeeps
    DEF EncodeInv
  <2>4. LateInv' /\ BarInv' /\ RetryInv' /\ ReadyInv'
    BY <2>1, LateKeeps, BarKeeps, RetryKeeps, ReadyKeeps DEF EncodeInv
  <2> QED
    BY <2>2, <2>3, <2>4 DEF EncodeInv
<1> QED
  BY <1>1, <1>2, PTL DEF Spec

\* Nothing of a job is on Telegram before its last rung is encoded, so a rung
\* that fails to encode leaves nothing there (transcoder.rs:112-145).
THEOREM SentAfterEncoded == Spec => []EncodedBeforeSent
<1>1. EncodeInv => EncodedBeforeSent
  BY DEF EncodeInv
<1> QED
  BY <1>1, EncodeInductive, PTL

\* A published video has a row and a message for every segment of every rung of
\* its ladder, however many segments a rung has and one INSERT takes
\* (transcoder.rs:114-188, repositories/videos.rs:196-241).
THEOREM PublishedHasEveryRow == Spec => []ReadyHasEveryRow
<1>1. EncodeInv => ReadyHasEveryRow
  BY DEF EncodeInv, ReadyInv
<1> QED
  BY <1>1, EncodeInductive, PTL

\* Once an attempt has written the bar, it never runs ahead of the work of this
\* attempt, whatever times ffmpeg reports and whenever spawned writes commit, and
\* whatever bar a process that died in this job left
\* (transcoder.rs:129-139, 182-187, repositories/videos.rs:371-378).
\* The bar of a video it has published shows 100, or what a late write of the
\* first loop left, which is at most 80 (transcoder.rs:135, 187-188).
THEOREM BarIsHonest == Spec => []BarIsTrue
<1>1. EncodeInv => BarNotAhead
  <2>1. SUFFICES ASSUME EncodeInv
                 PROVE  BarNotAhead
    OBVIOUS
  <2>2. progress \in Int
    <3>1. TypeOK
      BY <2>1 DEF EncodeInv
    <3> QED
      BY <3>1 DEF TypeOK, Percent
  <2>3. Overall(rung, 100) \in 0 .. 80
    BY <2>1, OverallBound DEF EncodeInv
  <2> QED
    BY <2>1, <2>2, <2>3 DEF EncodeInv, LateInv, BarInv, FirstLoop, BarNotAhead
<1>2. EncodeInv => ReadyBar
  BY DEF EncodeInv, ReadyInv
<1>3. EncodeInv => BarIsTrue
  BY <1>1, <1>2 DEF BarIsTrue
<1> QED
  BY <1>3, EncodeInductive, PTL

\* Only a late write makes the bar go back (transcoder.rs:133-137, 182-184).
THEOREM BarGoesBackByLateWrites == Spec => OnlyLateWritesLower
<1>1. EncodeInv /\ [Next]_vars => [progress' < progress => late' # late]_vars
  <2>1. SUFFICES ASSUME EncodeInv, Next, progress' < progress
                 PROVE  late' # late
    OBVIOUS
  <2>2. progress \in 0 .. 100
    <3>1. TypeOK
      BY <2>1 DEF EncodeInv
    <3> QED
      BY <3>1 DEF TypeOK, Percent
  <2>3. progress' # progress
    BY <2>1, <2>2
  <2>4. CASE SetUploadProgress
    <3>1. uploaded > 0
      BY <2>1, <2>4, InsertedSomething DEF EncodeInv, SetUploadProgress
    <3>2. UploadBar \in 80 .. 100
      BY <2>1, <3>1, UploadBarBound DEF EncodeInv
    <3>3. progress <= UploadBar /\ progress # 100
      <4>1. CASE stale
        BY <2>1, <2>2, <2>4, <3>2, <4>1
        DEF EncodeInv, RetryInv, SetUploadProgress
      <4>2. CASE ~stale
        BY <2>1, <2>2, <2>4, <3>2, <4>2 DEF EncodeInv, BarInv, SetUploadProgress
      <4> QED
        BY <4>1, <4>2
    <3> QED
      BY <2>1, <2>2, <2>4, <3>2, <3>3 DEF SetUploadProgress, Least
  <2>5. CASE SetHundred
    BY <2>1, <2>2, <2>5 DEF SetHundred
  <2>6. CASE LateProgress
    <3>1. late \in [Percent -> Nat]
      BY <2>1 DEF EncodeInv, TypeOK
    <3> QED
      BY <2>6, <3>1 DEF LateProgress
  <2> QED
    BY <2>1, <2>3, <2>4, <2>5, <2>6
    DEF Next, TranscoderStep, Fault, ChildStep, Probe, Start, Spawn, ReadLine,
      OnProgress, EndOfOutput, Wait, ParsePlaylist, SetUploading,
      CreateRendition, UploadSegments, CreateSegmentsBatch, Publish, SetFailed,
      ProbeFails, SpawnFails, ReadFails, StatementFails, ChildReport,
      ChildComplain, ChildExit, Fails, barVars
<1> QED
  BY <1>1, EncodeInductive, PTL DEF Spec, OnlyLateWritesLower

\* A child that says no more on stderr than the pipe holds is never blocked by
\* it: what EncodeEnds excepts needs a loud child (ffmpeg.rs:222-237).
THEOREM QuietNeverBlocks ==
    ASSUME MaxComplaints <= PipeCap
    PROVE  Spec => []~StderrBlocks
<1>1. EncodeInv => ~StderrBlocks
  BY PipeAssumption DEF EncodeInv, TypeOK, ChildInv, StderrBlocks
<1> QED
  BY <1>1, EncodeInductive, PTL

=============================================================================
