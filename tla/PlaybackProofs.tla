--------------------------- MODULE PlaybackProofs ---------------------------
(***************************************************************************)
(* Proofs about Playback, for any number of players, read-ahead tasks,     *)
(* renditions and segments, any length of read-ahead, any set of faults    *)
(* and any number of troubles.                                             *)
(***************************************************************************)
EXTENDS PlaybackInv, FiniteSetTheorems, TLAPS

-----------------------------------------------------------------------------
(* What a SELECT ... ORDER BY returns of consecutive keys *)

\* A growing sequence of the first n numbers after a skips none.
LEMMA GrowingIsDense ==
    ASSUME NEW n \in Nat, NEW a \in Int,
           NEW s \in [1 .. n -> a + 1 .. a + n],
           \A i, j \in 1 .. n : i < j => s[i] < s[j],
           NEW k \in 1 .. n
    PROVE  s[k] = a + k
<1>1. a + k <= s[k]
  <2> DEFINE low == 1 .. k
             below == a + 1 .. s[k]
             f == [i \in low |-> s[i]]
  <2>1. f \in [low -> below]
    <3>1. ASSUME NEW i \in 1 .. k PROVE s[i] \in a + 1 .. s[k]
      <4>1. i \in 1 .. n /\ s[i] \in a + 1 .. a + n /\ s[k] \in a + 1 .. a + n
        BY <3>1
      <4>2. CASE i = k
        BY <4>1, <4>2
      <4>3. CASE i < k
        BY <4>1, <4>3
      <4> QED
        BY <4>2, <4>3
    <3> QED
      BY <3>1
  <2>2. f \in Injection(low, below)
    <3>1. \A i, j \in low : f[i] = f[j] => i = j
      <4>1. \A i, j \in 1 .. n : i < j => s[i] < s[j] /\ s[i] \in Int /\ s[j] \in Int
        OBVIOUS
      <4> QED
        BY <4>1
    <3> QED
      BY DEF Injection, IsInjective
  <2>3. IsFiniteSet(low) /\ Cardinality(low) = k
    BY FS_Interval
  <2>4. IsFiniteSet(below) /\ Cardinality(below) = s[k] - a
    <3>1. s[k] \in Int /\ a + 1 \in Int /\ a + 1 <= s[k]
      OBVIOUS
    <3>2. /\ IsFiniteSet(below)
          /\ Cardinality(below) = IF a + 1 > s[k] THEN 0 ELSE s[k] - (a + 1) + 1
      BY <3>1, FS_Interval
    <3> QED
      BY <3>1, <3>2
  <2>5. Cardinality(low) <= Cardinality(below)
    BY <2>2, <2>4, FS_Injection
  <2> QED
    BY <2>3, <2>4, <2>5
<1>2. s[k] <= a + k
  <2> DEFINE high == k .. n
             above == s[k] .. a + n
             f == [i \in high |-> s[i]]
  <2>1. f \in [high -> above]
    <3>1. ASSUME NEW i \in k .. n PROVE s[i] \in s[k] .. a + n
      <4>1. i \in 1 .. n /\ s[i] \in a + 1 .. a + n /\ s[k] \in a + 1 .. a + n
        BY <3>1
      <4>2. CASE i = k
        BY <4>1, <4>2
      <4>3. CASE k < i
        BY <4>1, <4>3
      <4> QED
        BY <4>2, <4>3
    <3> QED
      BY <3>1
  <2>2. f \in Injection(high, above)
    <3>1. \A i, j \in high : f[i] = f[j] => i = j
      <4>1. \A i, j \in 1 .. n : i < j => s[i] < s[j] /\ s[i] \in Int /\ s[j] \in Int
        OBVIOUS
      <4> QED
        OBVIOUS
    <3> QED
      BY <2>1 DEF Injection, IsInjective
  <2>3. IsFiniteSet(high) /\ Cardinality(high) = n - k + 1
    BY FS_Interval
  <2>4. IsFiniteSet(above) /\ Cardinality(above) = a + n - s[k] + 1
    <3>1. s[k] \in Int /\ a + n \in Int /\ s[k] <= a + n
      OBVIOUS
    <3>2. /\ IsFiniteSet(above)
          /\ Cardinality(above) = IF s[k] > a + n THEN 0 ELSE (a + n) - s[k] + 1
      BY <3>1, FS_Interval
    <3> QED
      BY <3>1, <3>2
  <2>5. Cardinality(high) <= Cardinality(above)
    BY <2>2, <2>4, FS_Injection
  <2> QED
    BY <2>3, <2>4, <2>5
<1>3. s[k] \in Int
  OBVIOUS
<1> QED
  BY <1>1, <1>2, <1>3

\* Rows whose keys are the first n numbers after a come in that order.
LEMMA InOrderOfInterval ==
    ASSUME NEW n \in Nat, NEW a \in Int, NEW S, S = a + 1 .. a + n
    PROVE  InOrder(S) = [i \in 1 .. n |-> a + i]
<1> DEFINE id == [i \in 1 .. n |-> a + i]
           Grows(s) == \A i, j \in 1 .. n : i < j => s[i] < s[j]
<1>1. Cardinality(S) = n
  BY FS_Interval
<1>2. InOrder(S) = CHOOSE s \in [1 .. n -> S] : Grows(s)
  BY <1>1 DEF InOrder
<1>3. id \in [1 .. n -> S] /\ Grows(id)
  OBVIOUS
<1>4. InOrder(S) \in [1 .. n -> S] /\ Grows(InOrder(S))
  <2> HIDE DEF id, Grows
  <2> QED
    BY <1>2, <1>3
<1>5. \A k \in 1 .. n : InOrder(S)[k] = a + k
  BY <1>4, GrowingIsDense
<1> QED
  BY <1>4, <1>5

\* Of all renditions, of all positions, and of no row.
LEMMA InOrderOfAll ==
    /\ InOrder(Rungs) = [i \in Rungs |-> i]
    /\ InOrder(Positions) = [i \in 1 .. NumSegments |-> i - 1]
    /\ Empty \in [1 .. 0 -> {}]
<1>1. InOrder(Rungs) = [i \in Rungs |-> i]
  <2>1. Rungs = 0 + 1 .. 0 + NumRungs /\ NumRungs \in Nat /\ 0 \in Int
    BY CountsAssumption DEF Rungs
  <2>2. InOrder(Rungs) = [i \in 1 .. NumRungs |-> 0 + i]
    BY <2>1, InOrderOfInterval
  <2>3. [i \in 1 .. NumRungs |-> 0 + i] = [i \in Rungs |-> i]
    BY DEF Rungs
  <2> QED
    BY <2>2, <2>3
<1>2. InOrder(Positions) = [i \in 1 .. NumSegments |-> i - 1]
  <2>1. Positions = -1 + 1 .. -1 + NumSegments /\ NumSegments \in Nat /\ -1 \in Int
    BY CountsAssumption DEF Positions
  <2>2. InOrder(Positions) = [i \in 1 .. NumSegments |-> -1 + i]
    BY <2>1, InOrderOfInterval
  <2>3. [i \in 1 .. NumSegments |-> -1 + i] = [i \in 1 .. NumSegments |-> i - 1]
    OBVIOUS
  <2> QED
    BY <2>2
<1>3. Empty \in [1 .. 0 -> {}]
  <2>1. {} = 0 + 1 .. 0 + 0 /\ 0 \in Nat /\ 0 \in Int
    OBVIOUS
  <2>2. InOrder({}) = [i \in 1 .. 0 |-> 0 + i]
    BY <2>1, InOrderOfInterval
  <2>3. [i \in 1 .. 0 |-> 0 + i] \in [1 .. 0 -> {}]
    OBVIOUS
  <2> QED
    BY <2>2, <2>3 DEF Empty
<1> QED
  BY <1>1, <1>2, <1>3

\* The lists that players hold are lists.
LEMMA ListTypes ==
    /\ [i \in Rungs |-> i] \in Lists(Rungs)
    /\ [i \in 1 .. NumSegments |-> i - 1] \in Lists(Positions)
    /\ \A S : IsFiniteSet(S) => Empty \in Lists(S)
    /\ IsFiniteSet(Rungs) /\ IsFiniteSet(Positions)
<1>1. /\ IsFiniteSet(Rungs) /\ Cardinality(Rungs) = NumRungs
      /\ NumRungs \in 0 .. NumRungs
  BY CountsAssumption, FS_Interval DEF Rungs
<1>2. /\ IsFiniteSet(Positions) /\ Cardinality(Positions) = NumSegments
      /\ NumSegments \in 0 .. NumSegments
  BY CountsAssumption, FS_Interval DEF Positions
<1>3. [i \in Rungs |-> i] \in [1 .. NumRungs -> Rungs]
  BY DEF Rungs
<1>4. [i \in 1 .. NumSegments |-> i - 1] \in [1 .. NumSegments -> Positions]
  BY CountsAssumption DEF Positions
<1>5. ASSUME NEW S, IsFiniteSet(S)
      PROVE  Empty \in Lists(S)
  <2>1. Empty \in [1 .. 0 -> S]
    BY InOrderOfAll
  <2>2. 0 \in 0 .. Cardinality(S)
    BY <1>5, FS_CardinalityType
  <2> QED
    BY <2>1, <2>2 DEF Lists
<1>6. [i \in Rungs |-> i] \in Lists(Rungs)
  BY <1>1, <1>3 DEF Lists
<1>7. [i \in 1 .. NumSegments |-> i - 1] \in Lists(Positions)
  BY <1>2, <1>4 DEF Lists
<1> QED
  BY <1>1, <1>2, <1>5, <1>6, <1>7

\* The first segment of the first rendition is one.
LEMMA FirstSegment == <<1, 0>> \in Segments /\ 1 \in Rungs /\ 1 \in 1 .. NumSegments + 1
  BY CountsAssumption DEF Segments, Rungs, Positions

\* What a player asks for is a segment of the video.
LEMMA AskedIsSegment ==
    ASSUME TypeOK, MediaIsWhole, AtInv, NEW v \in Viewers,
           pc[v] \in {"segment", "itsRendition", "itsRow", "load", "answer"}
    PROVE  /\ at[v] \in 1 .. NumSegments
           /\ list[v][at[v]] \in Positions
           /\ Asked(v) \in Segments
<1>1. at[v] \in DOMAIN list[v]
  BY DEF AtInv
<1>2. list[v] = [i \in 1 .. NumSegments |-> i - 1] \/ list[v] = Empty
  BY DEF MediaIsWhole, Playing
<1>3. list[v] # Empty
  <2>1. DOMAIN Empty = {}
    BY InOrderOfAll
  <2> QED
    BY <1>1, <2>1
<1>4. at[v] \in 1 .. NumSegments /\ list[v][at[v]] = at[v] - 1
  BY <1>1, <1>2, <1>3
<1>5. at[v] - 1 \in Positions
  BY <1>4, CountsAssumption DEF Positions
<1>6. on[v] \in Rungs
  BY DEF TypeOK
<1> QED
  BY <1>4, <1>5, <1>6 DEF Segments, Asked

\* A request that fails or is dropped leaves the player where it can ask again,
\* and a failed write does not stop it; a rename may be left behind.
LEMMA TroubleOfPlayer ==
    ASSUME NEW v \in Viewers, PlayerTrouble(v)
    PROVE  /\ UNCHANGED <<rowVars, cached, variants, on, list, at, taskVars,
                          answered>>
           /\ pc[v] \notin Between
           /\ \/ pc' = [pc EXCEPT ![v] = Interrupted(pc[v])]
              \/ pc[v] = "load" /\ pc' = [pc EXCEPT ![v] = "answer"]
           /\ \/ UNCHANGED adrift
              \/ pc[v] = "load" /\ adrift' = adrift \cup {Asked(v)}
<1>1. CASE LoadFails(v)
  BY <1>1 DEF LoadFails, Reads, Moves, fileVars, Between, Interrupted
<1>2. CASE WriteFails(v)
  BY <1>2 DEF WriteFails, Reads, Moves, fileVars, Between
<1>3. CASE StatementFails(v)
  BY <1>3 DEF StatementFails, Reads, Moves, fileVars
<1>4. CASE HangUp(v)
  BY <1>4 DEF HangUp, Moves
<1> QED
  BY <1>1, <1>2, <1>3, <1>4 DEF PlayerTrouble

\* Players and read-ahead tasks only read the rows.
LEMMA OwnersOnly ==
    ASSUME \/ \E v \in Viewers : PlayerStep(v) \/ PlayerTrouble(v)
           \/ \E t \in Tasks : TaskStep(t) \/ TaskFails(t)
    PROVE  UNCHANGED rowVars
<1>1. ASSUME NEW v \in Viewers, PlayerStep(v)
      PROVE  UNCHANGED rowVars
  BY <1>1
  DEF PlayerStep, Reads, GetPublic, AskMaster, MasterVideo, MasterRenditions,
    AskMedia, MediaVideo, MediaRendition, MediaSegments, AskSegment,
    SegmentVideo, SegmentRendition, SegmentRow, Load, Answer, EndOfList
<1> QED
  BY <1>1, TroubleOfPlayer DEF TaskStep, TaskFails

-----------------------------------------------------------------------------
(* Every step keeps the invariant, part by part *)

\* VideoRows keeps its own invariant.
LEMMA RowsKeep ==
    ASSUME Rows!TypeOK, Rows!Consistent, [Rows!Next]_(Rows!vars)
    PROVE  Rows!TypeOK' /\ Rows!Consistent'
<1>0. /\ phase \in {"open", "ready", "closed", "gone"} /\ rends \subseteq Rungs
      /\ rows \in [Rungs -> SUBSET Positions]
  BY DEF Rows!TypeOK, Rows!Rungs, Rungs
<1>1. ASSUME NEW r \in Rungs, Rows!AddRendition(r)
      PROVE  Rows!TypeOK' /\ Rows!Consistent'
  BY <1>0, <1>1
  DEF Rows!AddRendition, Rows!TypeOK, Rows!Consistent, Rows!Complete, Rows!Whole,
    Rows!Rungs, Rungs
<1>2. ASSUME NEW r \in Rungs, Rows!Fill(r)
      PROVE  Rows!TypeOK' /\ Rows!Consistent'
  BY <1>0, <1>2
  DEF Rows!Fill, Rows!TypeOK, Rows!Consistent, Rows!Complete, Rows!Whole,
    Rows!Rungs, Rungs
<1>3. CASE Rows!Publish
  BY <1>0, <1>3
  DEF Rows!Publish, Rows!TypeOK, Rows!Consistent, Rows!Complete, Rows!Whole
<1>4. CASE Rows!Close
  BY <1>0, <1>4
  DEF Rows!Close, Rows!TypeOK, Rows!Consistent, Rows!Complete, Rows!Whole
<1>5. CASE Rows!Delete
  BY <1>0, <1>5
  DEF Rows!Delete, Rows!TypeOK, Rows!Consistent, Rows!NoRows, Rows!Rungs, Rungs
<1>6. CASE UNCHANGED Rows!vars
  BY <1>6
  DEF Rows!vars, Rows!TypeOK, Rows!Consistent, Rows!Complete, Rows!Whole
<1> QED
  BY <1>1, <1>2, <1>3, <1>4, <1>5, <1>6 DEF Rows!Next, Rows!Rungs, Rungs

\* What the rows are once they are complete, and what they can be at all.
LEMMA RowsRead ==
    ASSUME Rows!TypeOK, Rows!Consistent
    PROVE  /\ \A r \in Rungs : rows[r] \in {{}, Positions}
           /\ Rows!Complete => rends = Rungs /\ \A r \in Rungs : rows[r] = Positions
           /\ phase = "ready" => Rows!Complete
           /\ phase = "gone" => rends = {} /\ \A r \in Rungs : rows[r] = {}
BY CountsAssumption
DEF Rows!TypeOK, Rows!Consistent, Rows!Complete, Rows!Whole, Rows!Rungs, Rungs

\* A deleted video stays deleted, one that is not open is never published.
LEMMA OwnerKeepsGone ==
    ASSUME OwnerStep
    PROVE  /\ phase = "gone" => phase' = "gone"
           /\ phase # "open" /\ phase # "ready" => phase' # "ready"
BY DEF OwnerStep, Rows!Next, Rows!AddRendition, Rows!Fill, Rows!Publish,
  Rows!Close, Rows!Delete

\* Every step is a step of the rows or leaves them alone.
LEMMA StepsOfRows ==
    ASSUME [Next]_vars
    PROVE  [Rows!Next]_(Rows!vars)
<1>1. CASE OwnerStep
  BY <1>1 DEF OwnerStep
<1>2. CASE \/ \E v \in Viewers : PlayerStep(v) \/ PlayerTrouble(v)
           \/ \E t \in Tasks : TaskStep(t) \/ TaskFails(t)
  BY <1>2, OwnersOnly DEF rowVars, Rows!vars
<1>3. CASE Restart
  BY <1>3 DEF Restart, rowVars, Rows!vars
<1>4. CASE UNCHANGED vars
  BY <1>4 DEF vars, rowVars, Rows!vars
<1>5. CASE Evict \/ RenameEnds
  BY <1>5 DEF Evict, RenameEnds, rowVars, Rows!vars
<1> QED
  BY <1>1, <1>2, <1>3, <1>4, <1>5 DEF Next, Smooth, Trouble

\* Every step keeps what opened players rely on.
LEMMA OpenKeeps ==
    ASSUME TypeOK, Rows!Consistent, OpenInv, [Next]_vars
    PROVE  OpenInv'
<1>1. CASE OwnerStep
  <2>1. CASE phase = "gone"
    BY <1>1, <2>1, OwnerKeepsGone DEF OpenInv
  <2>2. CASE Rows!Complete /\ phase \in {"ready", "closed"}
    <3>1. \/ phase' = "gone"
          \/ UNCHANGED <<rends, rows>> /\ phase' = "closed"
      BY <1>1, <2>2
      DEF OwnerStep, Rows!Next, Rows!AddRendition, Rows!Fill, Rows!Publish,
        Rows!Close, Rows!Delete
    <3> QED
      BY <1>1, <2>2, <3>1
      DEF OwnerStep, playerVars, OpenInv, Rows!Complete, Rows!Whole
  <2>3. CASE \A v \in Viewers : pc[v] \in {"closed", "master"}
    BY <1>1, <2>3 DEF OwnerStep, playerVars, OpenInv
  <2> QED
    BY <2>1, <2>2, <2>3 DEF OpenInv
<1>2. ASSUME NEW v \in Viewers, PlayerStep(v)
      PROVE  OpenInv'
  <2>1. CASE AskMaster(v)
    BY <2>1
    DEF AskMaster, Moves, Reads, rowVars, OpenInv, Rows!Complete, Rows!Whole
  <2>2. CASE MasterVideo(v)
    BY <2>2, RowsRead
    DEF MasterVideo, Moves, Reads, rowVars, TypeOK, OpenInv, Rows!Complete,
      Rows!Whole
  <2>3. CASE MasterRenditions(v)
    BY <2>3 DEF MasterRenditions, rowVars, OpenInv, Rows!Complete, Rows!Whole
  <2>4. CASE AskMedia(v)
    BY <2>4 DEF AskMedia, rowVars, OpenInv, Rows!Complete, Rows!Whole
  <2>5. CASE MediaVideo(v)
    BY <2>5
    DEF MediaVideo, Reads, GetPublic, rowVars, OpenInv, Rows!Complete, Rows!Whole
  <2>6. CASE MediaRendition(v)
    BY <2>6
    DEF MediaRendition, Reads, rowVars, OpenInv, Rows!Complete, Rows!Whole
  <2>7. CASE MediaSegments(v)
    BY <2>7 DEF MediaSegments, rowVars, OpenInv, Rows!Complete, Rows!Whole
  <2>8. CASE AskSegment(v)
    BY <2>8 DEF AskSegment, Reads, rowVars, OpenInv, Rows!Complete, Rows!Whole
  <2>9. CASE SegmentVideo(v)
    BY <2>9
    DEF SegmentVideo, Reads, GetPublic, rowVars, OpenInv, Rows!Complete, Rows!Whole
  <2>10. CASE SegmentRendition(v)
    BY <2>10
    DEF SegmentRendition, Reads, rowVars, OpenInv, Rows!Complete, Rows!Whole
  <2>11. CASE SegmentRow(v)
    BY <2>11 DEF SegmentRow, Reads, rowVars, OpenInv, Rows!Complete, Rows!Whole
  <2>12. CASE Load(v)
    BY <2>12 DEF Load, rowVars, OpenInv, Rows!Complete, Rows!Whole
  <2>13. CASE Answer(v)
    BY <2>13 DEF Answer, rowVars, OpenInv, Rows!Complete, Rows!Whole
  <2>14. CASE EndOfList(v)
    BY <2>14 DEF EndOfList, Reads, rowVars, OpenInv, Rows!Complete, Rows!Whole
  <2> QED
    BY <1>2, <2>1, <2>2, <2>3, <2>4, <2>5, <2>6, <2>7, <2>8, <2>9, <2>10, <2>11,
      <2>12, <2>13, <2>14
    DEF PlayerStep
<1>3. ASSUME NEW t \in Tasks, TaskStep(t)
      PROVE  OpenInv'
  BY <1>3 DEF TaskStep, OpenInv, Rows!Complete, Rows!Whole, rowVars, playerVars
<1>4. CASE Restart
  BY <1>4 DEF Restart, Interrupted, rowVars, OpenInv, Rows!Complete, Rows!Whole
<1>5. CASE UNCHANGED vars
  BY <1>5 DEF vars, rowVars, playerVars, OpenInv, Rows!Complete, Rows!Whole
<1>6. CASE Evict
  BY <1>6 DEF Evict, rowVars, playerVars, OpenInv, Rows!Complete, Rows!Whole
<1>7. CASE RenameEnds
  BY <1>7
  DEF RenameEnds, rowVars, playerVars, OpenInv, Rows!Complete, Rows!Whole
<1>8. ASSUME NEW v \in Viewers, PlayerTrouble(v)
      PROVE  OpenInv'
  BY <1>8, TroubleOfPlayer
  DEF Interrupted, TypeOK, rowVars, OpenInv, Rows!Complete, Rows!Whole
<1>9. ASSUME NEW t \in Tasks, TaskFails(t)
      PROVE  OpenInv'
  BY <1>9 DEF TaskFails, OpenInv, Rows!Complete, Rows!Whole, rowVars, playerVars
<1> QED
  BY <1>1, <1>2, <1>3, <1>4, <1>5, <1>6, <1>7, <1>8, <1>9
  DEF Next, Smooth, Trouble

\* Every step keeps the types.
LEMMA TypeKeeps ==
    ASSUME TypeOK, Rows!Consistent, OpenInv, MasterIsWhole, MediaIsWhole,
           AtInv, TaskInv, [Next]_vars
    PROVE  TypeOK'
<1>0. Rows!TypeOK' /\ troubles' \in 0 .. MaxTroubles
  <2>1. troubles' \in 0 .. MaxTroubles
    BY PlaybackBoundsAssumption DEF Next, Smooth, Trouble, vars, TypeOK
  <2> QED
    BY <2>1, RowsKeep, StepsOfRows DEF TypeOK
<1>1. CASE OwnerStep
  BY <1>0, <1>1 DEF OwnerStep, playerVars, taskVars, fileVars, TypeOK
<1>2. ASSUME NEW v \in Viewers, PlayerStep(v)
      PROVE  TypeOK'
  <2>1. CASE AskMaster(v)
    BY <1>0, <2>1
    DEF AskMaster, Moves, Reads, taskVars, fileVars, TypeOK, Steps
  <2>2. CASE MasterVideo(v)
    BY <1>0, <2>2
    DEF MasterVideo, Moves, Reads, taskVars, fileVars, TypeOK, Steps,
      Between
  <2>3. CASE MasterRenditions(v)
    <3>1. rends = {} \/ rends = Rungs
      BY <2>3, RowsRead DEF MasterRenditions, OpenInv, TypeOK
    <3>2. rends # {} => InOrder(rends) \in Lists(Rungs)
      BY <3>1, InOrderOfAll, ListTypes
    <3> QED
      BY <1>0, <2>3, <3>2
      DEF MasterRenditions, Moves, TypeOK, Steps, Between, taskVars, fileVars
  <2>4. CASE AskMedia(v)
    <3>1. on' \in [Viewers -> Rungs]
      BY <2>4 DEF AskMedia, TypeOK, MasterIsWhole
    <3>2. at' \in [Viewers -> 1 .. NumSegments + 1]
      BY <2>4, CountsAssumption DEF AskMedia, TypeOK
    <3> QED
      BY <1>0, <2>4, <3>1, <3>2
      DEF AskMedia, Moves, TypeOK, Steps, taskVars, fileVars
  <2>5. CASE MediaVideo(v)
    BY <1>0, <2>5
    DEF MediaVideo, Moves, Reads, GetPublic, taskVars, fileVars,
      TypeOK, Steps, Between
  <2>6. CASE MediaRendition(v)
    BY <1>0, <2>6
    DEF MediaRendition, Moves, Reads, taskVars, fileVars, TypeOK,
      Steps, Between
  <2>7. CASE MediaSegments(v)
    <3>1. InOrder(rows[on[v]]) \in Lists(Positions)
      BY InOrderOfAll, ListTypes, RowsRead DEF TypeOK, Empty
    <3> QED
      BY <1>0, <2>7, <3>1
      DEF MediaSegments, Moves, TypeOK, Steps, Between, rowVars, taskVars,
        fileVars
  <2>8. CASE AskSegment(v)
    BY <1>0, <2>8
    DEF AskSegment, Moves, Reads, taskVars, fileVars, TypeOK, Steps
  <2>9. CASE SegmentVideo(v)
    BY <1>0, <2>9
    DEF SegmentVideo, Moves, Reads, GetPublic, taskVars, fileVars,
      TypeOK, Steps, Between
  <2>10. CASE SegmentRendition(v)
    BY <1>0, <2>10
    DEF SegmentRendition, Moves, Reads, taskVars, fileVars, TypeOK,
      Steps, Between
  <2>11. CASE SegmentRow(v)
    BY <1>0, <2>11
    DEF SegmentRow, Moves, Reads, taskVars, fileVars, TypeOK, Steps,
      Between
  <2>12. CASE Load(v)
    <3>1. cached' \subseteq Segments
      BY <2>12, AskedIsSegment DEF Load, TypeOK
    <3>2. pc' \in [Viewers -> Steps]
      BY <2>12 DEF Load, Moves, TypeOK, Steps
    <3> QED
      BY <1>0, <2>12, <3>1, <3>2 DEF Load, taskVars, fileVars, TypeOK
  <2>13. CASE Answer(v)
    <3>1. at[v] \in 1 .. NumSegments /\ Asked(v) \in Segments
      BY <2>13, AskedIsSegment DEF Answer
    <3>2. at' \in [Viewers -> 1 .. NumSegments + 1]
      BY <2>13, <3>1, CountsAssumption DEF Answer, TypeOK
    <3>3. answered' \subseteq Segments
      BY <2>13, <3>1 DEF Answer, TypeOK
    <3>4. /\ task' \in [Tasks -> {"idle", "row", "contains", "load"}]
          /\ near' \in [Tasks -> Segments]
          /\ offset' \in [Tasks -> 1 .. PREFETCH_AHEAD]
      BY <2>13, <3>1, AheadAssumption
      DEF Answer, SpawnPrefetch, TypeOK, taskVars
    <3> QED
      BY <1>0, <2>13, <3>2, <3>3, <3>4
      DEF Answer, Moves, TypeOK, Steps, Between, fileVars
  <2>14. CASE EndOfList(v)
    BY <1>0, <2>14
    DEF EndOfList, Moves, Reads, taskVars, fileVars, TypeOK, Steps,
      Between
  <2> QED
    BY <1>2, <2>1, <2>2, <2>3, <2>4, <2>5, <2>6, <2>7, <2>8, <2>9, <2>10, <2>11,
      <2>12, <2>13, <2>14
    DEF PlayerStep
<1>3. ASSUME NEW t \in Tasks, TaskStep(t)
      PROVE  TypeOK'
  <2>1. CASE PrefetchRow(t)
    <3>1. /\ task' \in [Tasks -> {"idle", "row", "contains", "load"}]
          /\ near' \in [Tasks -> Segments]
          /\ offset' \in [Tasks -> 1 .. PREFETCH_AHEAD]
      BY <2>1, FirstSegment, AheadAssumption
      DEF PrefetchRow, TaskEnds, TaskMoves, TypeOK
    <3> QED
      BY <1>0, <1>3, <2>1, <3>1
      DEF PrefetchRow, TaskStep, TypeOK, playerVars
  <2>2. CASE PrefetchContains(t)
    <3>1. /\ task' \in [Tasks -> {"idle", "row", "contains", "load"}]
          /\ near' \in [Tasks -> Segments]
          /\ offset' \in [Tasks -> 1 .. PREFETCH_AHEAD]
      BY <2>2, FirstSegment, AheadAssumption
      DEF PrefetchContains, NextTurn, TaskEnds, TaskMoves, TypeOK
    <3> QED
      BY <1>0, <1>3, <2>2, <3>1
      DEF PrefetchContains, TaskStep, TypeOK, playerVars
  <2>3. CASE PrefetchLoad(t)
    <3>1. cached' \subseteq Segments
      BY <2>3 DEF PrefetchLoad, TypeOK, TaskInv
    <3>2. /\ task' \in [Tasks -> {"idle", "row", "contains", "load"}]
          /\ near' \in [Tasks -> Segments]
          /\ offset' \in [Tasks -> 1 .. PREFETCH_AHEAD]
      BY <2>3, FirstSegment, AheadAssumption
      DEF PrefetchLoad, NextTurn, TaskEnds, TaskMoves, TypeOK
    <3> QED
      BY <1>0, <1>3, <3>1, <3>2 DEF TaskStep, TypeOK, playerVars
  <2> QED
    BY <1>3, <2>1, <2>2, <2>3 DEF TaskStep
<1>4. CASE Restart
  <2>1. pc' \in [Viewers -> Steps]
    BY <1>4 DEF Restart, Interrupted, TypeOK, Steps, Between
  <2>2. /\ task' \in [Tasks -> {"idle", "row", "contains", "load"}]
        /\ near' \in [Tasks -> Segments]
        /\ offset' \in [Tasks -> 1 .. PREFETCH_AHEAD]
    BY <1>4, FirstSegment, AheadAssumption DEF Restart
  <2> QED
    BY <1>4, <1>0, <2>1, <2>2 DEF Restart, TypeOK
<1>5. CASE UNCHANGED vars
  BY <1>0, <1>5 DEF vars, playerVars, taskVars, fileVars, TypeOK
<1>6. CASE Evict
  BY <1>0, <1>6 DEF Evict, playerVars, taskVars, fileVars, TypeOK
<1>7. CASE RenameEnds
  BY <1>0, <1>7 DEF RenameEnds, playerVars, taskVars, TypeOK
<1>8. ASSUME NEW v \in Viewers, PlayerTrouble(v)
      PROVE  TypeOK'
  <2>1. pc' \in [Viewers -> Steps]
    BY <1>8, TroubleOfPlayer DEF Interrupted, TypeOK, Steps, Between
  <2>2. adrift' \subseteq Segments
    BY <1>8, TroubleOfPlayer, AskedIsSegment DEF TypeOK
  <2> QED
    BY <1>0, <1>8, <2>1, <2>2, TroubleOfPlayer DEF taskVars, TypeOK
<1>9. ASSUME NEW t \in Tasks, TaskFails(t)
      PROVE  TypeOK'
  <2>1. /\ task' \in [Tasks -> {"idle", "row", "contains", "load"}]
        /\ near' \in [Tasks -> Segments]
        /\ offset' \in [Tasks -> 1 .. PREFETCH_AHEAD]
    BY <1>9, FirstSegment, AheadAssumption
    DEF TaskFails, NextTurn, TaskEnds, TaskMoves, TypeOK
  <2> QED
    BY <1>0, <1>9, <2>1 DEF TaskFails, fileVars, playerVars, TypeOK
<1> QED
  BY <1>1, <1>2, <1>3, <1>4, <1>5, <1>6, <1>7, <1>8, <1>9
  DEF Next, Smooth, Trouble

\* Every step keeps the master playlists whole.
LEMMA MasterKeeps ==
    ASSUME TypeOK, Rows!Consistent, OpenInv, MasterIsWhole, [Next]_vars
    PROVE  MasterIsWhole'
<1>1. CASE OwnerStep
  BY <1>1
  DEF OwnerStep, MasterIsWhole, playerVars
<1>2. ASSUME NEW v \in Viewers, PlayerStep(v)
      PROVE  MasterIsWhole'
  <2>1. CASE AskMaster(v)
    BY <2>1 DEF AskMaster, Moves, Reads, MasterIsWhole
  <2>2. CASE MasterVideo(v)
    BY <2>2 DEF MasterVideo, Moves, Reads, MasterIsWhole
  <2>3. CASE MasterRenditions(v)
    <3>1. rends # {} => InOrder(rends) = [i \in Rungs |-> i]
      BY <2>3, InOrderOfAll, RowsRead DEF MasterRenditions, OpenInv, TypeOK
    <3> QED
      BY <2>3, <3>1 DEF MasterRenditions, Moves, TypeOK, MasterIsWhole
  <2>4. CASE AskMedia(v)
    BY <2>4 DEF AskMedia, Moves, MasterIsWhole, Steps, Between
  <2>5. CASE MediaVideo(v)
    BY <2>5 DEF MediaVideo, Moves, Reads, GetPublic, MasterIsWhole, Steps
  <2>6. CASE MediaRendition(v)
    BY <2>6 DEF MediaRendition, Moves, Reads, MasterIsWhole, Steps
  <2>7. CASE MediaSegments(v)
    BY <2>7 DEF MediaSegments, Moves, MasterIsWhole, Steps
  <2>8. CASE AskSegment(v)
    BY <2>8 DEF AskSegment, Moves, Reads, MasterIsWhole, Steps, Between
  <2>9. CASE SegmentVideo(v)
    BY <2>9 DEF SegmentVideo, Moves, Reads, GetPublic, MasterIsWhole, Steps
  <2>10. CASE SegmentRendition(v)
    BY <2>10 DEF SegmentRendition, Moves, Reads, MasterIsWhole, Steps
  <2>11. CASE SegmentRow(v)
    BY <2>11 DEF SegmentRow, Moves, Reads, MasterIsWhole, Steps
  <2>12. CASE Load(v)
    BY <2>12 DEF Load, Moves, MasterIsWhole, Steps
  <2>13. CASE Answer(v)
    BY <2>13 DEF Answer, Moves, MasterIsWhole, Steps
  <2>14. CASE EndOfList(v)
    BY <2>14 DEF EndOfList, Moves, Reads, MasterIsWhole, Steps, Between
  <2> QED
    BY <1>2, <2>1, <2>2, <2>3, <2>4, <2>5, <2>6, <2>7, <2>8, <2>9, <2>10, <2>11,
      <2>12, <2>13, <2>14
    DEF PlayerStep
<1>3. ASSUME NEW t \in Tasks, TaskStep(t)
      PROVE  MasterIsWhole'
  BY <1>3 DEF TaskStep, MasterIsWhole, playerVars
<1>4. CASE Restart
  BY <1>4 DEF Restart, Interrupted, MasterIsWhole, Steps
<1>5. CASE UNCHANGED vars
  BY <1>5 DEF vars, playerVars, MasterIsWhole
<1>6. CASE Evict
  BY <1>6 DEF Evict, playerVars, MasterIsWhole
<1>7. CASE RenameEnds
  BY <1>7 DEF RenameEnds, playerVars, MasterIsWhole
<1>8. ASSUME NEW v \in Viewers, PlayerTrouble(v)
      PROVE  MasterIsWhole'
  BY <1>8, TroubleOfPlayer
  DEF Interrupted, TypeOK, MasterIsWhole, Steps, Between
<1>9. ASSUME NEW t \in Tasks, TaskFails(t)
      PROVE  MasterIsWhole'
  BY <1>9 DEF TaskFails, MasterIsWhole, playerVars
<1> QED
  BY <1>1, <1>2, <1>3, <1>4, <1>5, <1>6, <1>7, <1>8, <1>9
  DEF Next, Smooth, Trouble

\* Every step keeps the playlists of renditions whole.
LEMMA MediaKeeps ==
    ASSUME TypeOK, Rows!Consistent, OpenInv, MediaIsWhole, [Next]_vars
    PROVE  MediaIsWhole'
<1>1. CASE OwnerStep
  BY <1>1, OwnerKeepsGone DEF OwnerStep, playerVars, MediaIsWhole
<1>2. ASSUME NEW v \in Viewers, PlayerStep(v)
      PROVE  MediaIsWhole'
  <2>1. CASE AskMaster(v)
    BY <2>1 DEF AskMaster, Moves, Reads, rowVars, MediaIsWhole, Playing
  <2>2. CASE MasterVideo(v)
    BY <2>2 DEF MasterVideo, Moves, Reads, rowVars, MediaIsWhole, Playing
  <2>3. CASE MasterRenditions(v)
    BY <2>3 DEF MasterRenditions, Moves, rowVars, TypeOK, MediaIsWhole, Playing
  <2>4. CASE AskMedia(v)
    BY <2>4 DEF AskMedia, Moves, rowVars, MediaIsWhole, Playing
  <2>5. CASE MediaVideo(v)
    BY <2>5
    DEF MediaVideo, Moves, Reads, GetPublic, rowVars, MediaIsWhole, Playing
  <2>6. CASE MediaRendition(v)
    BY <2>6 DEF MediaRendition, Moves, Reads, rowVars, MediaIsWhole, Playing
  <2>7. CASE MediaSegments(v)
    <3>1. \/ InOrder(rows[on[v]]) = [i \in 1 .. NumSegments |-> i - 1]
          \/ InOrder(rows[on[v]]) = Empty /\ phase = "gone"
      BY <2>7, InOrderOfAll, RowsRead DEF MediaSegments, TypeOK, OpenInv, Empty
    <3> QED
      BY <2>7, <3>1 DEF MediaSegments, Moves, TypeOK, MediaIsWhole, rowVars
  <2>8. CASE AskSegment(v)
    <3>1. pc[v] \in Playing /\ UNCHANGED <<list, phase>>
      BY <2>8 DEF AskSegment, Reads, rowVars, Playing
    <3>2. \A w \in Viewers : pc'[w] \in Playing => pc[w] \in Playing
      BY <2>8, <3>1 DEF AskSegment, Reads, Moves
    <3> QED
      BY <3>1, <3>2 DEF MediaIsWhole
  <2>9. CASE SegmentVideo(v)
    BY <2>9
    DEF SegmentVideo, Moves, Reads, GetPublic, rowVars, MediaIsWhole, Playing
  <2>10. CASE SegmentRendition(v)
    BY <2>10 DEF SegmentRendition, Moves, Reads, rowVars, MediaIsWhole, Playing
  <2>11. CASE SegmentRow(v)
    BY <2>11 DEF SegmentRow, Moves, Reads, rowVars, MediaIsWhole, Playing
  <2>12. CASE Load(v)
    BY <2>12 DEF Load, Moves, rowVars, MediaIsWhole, Playing
  <2>13. CASE Answer(v)
    BY <2>13 DEF Answer, Moves, rowVars, MediaIsWhole, Playing
  <2>14. CASE EndOfList(v)
    BY <2>14 DEF EndOfList, Moves, Reads, rowVars, MediaIsWhole, Playing
  <2> QED
    BY <1>2, <2>1, <2>2, <2>3, <2>4, <2>5, <2>6, <2>7, <2>8, <2>9, <2>10, <2>11,
      <2>12, <2>13, <2>14
    DEF PlayerStep
<1>3. ASSUME NEW t \in Tasks, TaskStep(t)
      PROVE  MediaIsWhole'
  BY <1>3 DEF TaskStep, MediaIsWhole, playerVars, rowVars
<1>4. CASE Restart
  BY <1>4 DEF Restart, Interrupted, rowVars, MediaIsWhole, Playing
<1>5. CASE UNCHANGED vars
  BY <1>5 DEF vars, rowVars, playerVars, MediaIsWhole
<1>6. CASE Evict
  BY <1>6 DEF Evict, rowVars, playerVars, MediaIsWhole
<1>7. CASE RenameEnds
  BY <1>7 DEF RenameEnds, rowVars, playerVars, MediaIsWhole
<1>8. ASSUME NEW v \in Viewers, PlayerTrouble(v)
      PROVE  MediaIsWhole'
  BY <1>8, TroubleOfPlayer
  DEF Interrupted, TypeOK, rowVars, MediaIsWhole, Playing, Between
<1>9. ASSUME NEW t \in Tasks, TaskFails(t)
      PROVE  MediaIsWhole'
  BY <1>9 DEF TaskFails, MediaIsWhole, playerVars, rowVars
<1> QED
  BY <1>1, <1>2, <1>3, <1>4, <1>5, <1>6, <1>7, <1>8, <1>9
  DEF Next, Smooth, Trouble

\* Every step keeps what is said of lost players.
LEMMA LostKeeps ==
    ASSUME TypeOK, Rows!Consistent, OpenInv, MediaIsWhole, AtInv,
           LostOnlyIfWithdrawn, [Next]_vars
    PROVE  LostOnlyIfWithdrawn'
<1>1. CASE OwnerStep
  BY <1>1, OwnerKeepsGone
  DEF OwnerStep, playerVars, OpenInv, LostOnlyIfWithdrawn
<1>2. ASSUME NEW v \in Viewers, PlayerStep(v)
      PROVE  LostOnlyIfWithdrawn'
  <2>1. CASE AskMaster(v)
    BY <2>1 DEF AskMaster, Moves, Reads, rowVars, LostOnlyIfWithdrawn
  <2>2. CASE MasterVideo(v)
    BY <2>2 DEF MasterVideo, Moves, Reads, rowVars, LostOnlyIfWithdrawn
  <2>3. CASE MasterRenditions(v)
    BY <2>3 DEF MasterRenditions, Moves, rowVars, TypeOK, LostOnlyIfWithdrawn
  <2>4. CASE AskMedia(v)
    BY <2>4 DEF AskMedia, Moves, rowVars, LostOnlyIfWithdrawn
  <2>5. CASE MediaVideo(v)
    BY <2>5
    DEF MediaVideo, Moves, Reads, GetPublic, rowVars, LostOnlyIfWithdrawn
  <2>6. CASE MediaRendition(v)
    <3>1. on[v] \notin rends => phase # "ready"
      BY RowsRead DEF TypeOK
    <3> QED
      BY <2>6, <3>1
      DEF MediaRendition, Reads, Moves, LostOnlyIfWithdrawn, rowVars
  <2>7. CASE MediaSegments(v)
    BY <2>7 DEF MediaSegments, Moves, rowVars, LostOnlyIfWithdrawn
  <2>8. CASE AskSegment(v)
    BY <2>8 DEF AskSegment, Moves, Reads, rowVars, LostOnlyIfWithdrawn
  <2>9. CASE SegmentVideo(v)
    BY <2>9
    DEF SegmentVideo, Moves, Reads, GetPublic, rowVars, LostOnlyIfWithdrawn
  <2>10. CASE SegmentRendition(v)
    <3>1. on[v] \notin rends => phase # "ready"
      BY RowsRead DEF TypeOK
    <3> QED
      BY <2>10, <3>1
      DEF SegmentRendition, Reads, Moves, LostOnlyIfWithdrawn, rowVars
  <2>11. CASE SegmentRow(v)
    <3>1. list[v][at[v]] \notin rows[on[v]] => phase # "ready"
      BY <2>11, AskedIsSegment, RowsRead DEF SegmentRow, TypeOK
    <3> QED
      BY <2>11, <3>1 DEF SegmentRow, Reads, Moves, LostOnlyIfWithdrawn, rowVars
  <2>12. CASE Load(v)
    BY <2>12 DEF Load, Moves, rowVars, LostOnlyIfWithdrawn
  <2>13. CASE Answer(v)
    BY <2>13 DEF Answer, Moves, rowVars, LostOnlyIfWithdrawn
  <2>14. CASE EndOfList(v)
    BY <2>14 DEF EndOfList, Moves, Reads, rowVars, LostOnlyIfWithdrawn
  <2> QED
    BY <1>2, <2>1, <2>2, <2>3, <2>4, <2>5, <2>6, <2>7, <2>8, <2>9, <2>10, <2>11,
      <2>12, <2>13, <2>14
    DEF PlayerStep
<1>3. ASSUME NEW t \in Tasks, TaskStep(t)
      PROVE  LostOnlyIfWithdrawn'
  BY <1>3 DEF TaskStep, LostOnlyIfWithdrawn, playerVars, rowVars
<1>4. CASE Restart
  BY <1>4 DEF Restart, Interrupted, rowVars, LostOnlyIfWithdrawn
<1>5. CASE UNCHANGED vars
  BY <1>5 DEF vars, rowVars, playerVars, LostOnlyIfWithdrawn
<1>6. CASE Evict
  BY <1>6 DEF Evict, rowVars, playerVars, LostOnlyIfWithdrawn
<1>7. CASE RenameEnds
  BY <1>7 DEF RenameEnds, rowVars, playerVars, LostOnlyIfWithdrawn
<1>8. ASSUME NEW v \in Viewers, PlayerTrouble(v)
      PROVE  LostOnlyIfWithdrawn'
  BY <1>8, TroubleOfPlayer DEF Interrupted, TypeOK, rowVars, LostOnlyIfWithdrawn
<1>9. ASSUME NEW t \in Tasks, TaskFails(t)
      PROVE  LostOnlyIfWithdrawn'
  BY <1>9 DEF TaskFails, LostOnlyIfWithdrawn, playerVars, rowVars
<1> QED
  BY <1>1, <1>2, <1>3, <1>4, <1>5, <1>6, <1>7, <1>8, <1>9
  DEF Next, Smooth, Trouble

\* Every step keeps what is asked for in the playlist.
LEMMA AtKeeps ==
    ASSUME TypeOK, AtInv, [Next]_vars
    PROVE  AtInv'
<1>1. CASE OwnerStep
  BY <1>1
  DEF OwnerStep, AtInv, playerVars
<1>2. ASSUME NEW v \in Viewers, PlayerStep(v)
      PROVE  AtInv'
  <2>1. CASE AskMaster(v)
    BY <2>1 DEF AskMaster, Moves, Reads, AtInv
  <2>2. CASE MasterVideo(v)
    BY <2>2 DEF MasterVideo, Moves, Reads, AtInv
  <2>3. CASE MasterRenditions(v)
    BY <2>3 DEF MasterRenditions, Moves, TypeOK, AtInv
  <2>4. CASE AskMedia(v)
    BY <2>4 DEF AskMedia, Moves, TypeOK, AtInv
  <2>5. CASE MediaVideo(v)
    BY <2>5 DEF MediaVideo, Moves, Reads, GetPublic, AtInv
  <2>6. CASE MediaRendition(v)
    BY <2>6 DEF MediaRendition, Moves, Reads, AtInv
  <2>7. CASE MediaSegments(v)
    BY <2>7 DEF MediaSegments, Moves, AtInv
  <2>8. CASE AskSegment(v)
    BY <2>8 DEF AskSegment, Moves, Reads, AtInv
  <2>9. CASE SegmentVideo(v)
    BY <2>9 DEF SegmentVideo, Moves, Reads, GetPublic, AtInv
  <2>10. CASE SegmentRendition(v)
    BY <2>10 DEF SegmentRendition, Moves, Reads, AtInv
  <2>11. CASE SegmentRow(v)
    BY <2>11 DEF SegmentRow, Moves, Reads, AtInv
  <2>12. CASE Load(v)
    BY <2>12 DEF Load, Moves, AtInv
  <2>13. CASE Answer(v)
    BY <2>13 DEF Answer, TypeOK, Moves, AtInv
  <2>14. CASE EndOfList(v)
    BY <2>14 DEF EndOfList, Moves, Reads, AtInv
  <2> QED
    BY <1>2, <2>1, <2>2, <2>3, <2>4, <2>5, <2>6, <2>7, <2>8, <2>9, <2>10, <2>11,
      <2>12, <2>13, <2>14
    DEF PlayerStep
<1>3. ASSUME NEW t \in Tasks, TaskStep(t)
      PROVE  AtInv'
  BY <1>3 DEF TaskStep, AtInv, playerVars
<1>4. CASE Restart
  BY <1>4 DEF Restart, Interrupted, AtInv
<1>5. CASE UNCHANGED vars
  BY <1>5 DEF vars, playerVars, AtInv
<1>6. CASE Evict
  BY <1>6 DEF Evict, playerVars, AtInv
<1>7. CASE RenameEnds
  BY <1>7 DEF RenameEnds, playerVars, AtInv
<1>8. ASSUME NEW v \in Viewers, PlayerTrouble(v)
      PROVE  AtInv'
  BY <1>8, TroubleOfPlayer DEF Interrupted, TypeOK, AtInv, Between
<1>9. ASSUME NEW t \in Tasks, TaskFails(t)
      PROVE  AtInv'
  BY <1>9 DEF TaskFails, AtInv, playerVars
<1> QED
  BY <1>1, <1>2, <1>3, <1>4, <1>5, <1>6, <1>7, <1>8, <1>9
  DEF Next, Smooth, Trouble

\* Every step keeps the tasks behind an answer.
LEMMA TasksKeep ==
    ASSUME TypeOK, TaskInv, [Next]_vars
    PROVE  TaskInv'
<1>1. CASE OwnerStep
  BY <1>1
  DEF OwnerStep, TaskInv, Ahead, taskVars
<1>2. ASSUME NEW v \in Viewers, PlayerStep(v)
      PROVE  TaskInv'
  <2>1. CASE AskMaster(v)
    BY <2>1 DEF AskMaster, Reads, taskVars, TaskInv, Ahead
  <2>2. CASE MasterVideo(v)
    BY <2>2 DEF MasterVideo, Reads, taskVars, TaskInv, Ahead
  <2>3. CASE MasterRenditions(v)
    BY <2>3 DEF MasterRenditions, taskVars, TaskInv, Ahead
  <2>4. CASE AskMedia(v)
    BY <2>4 DEF AskMedia, taskVars, TaskInv, Ahead
  <2>5. CASE MediaVideo(v)
    BY <2>5 DEF MediaVideo, Reads, GetPublic, taskVars, TaskInv, Ahead
  <2>6. CASE MediaRendition(v)
    BY <2>6 DEF MediaRendition, Reads, taskVars, TaskInv, Ahead
  <2>7. CASE MediaSegments(v)
    BY <2>7 DEF MediaSegments, taskVars, TaskInv, Ahead
  <2>8. CASE AskSegment(v)
    BY <2>8 DEF AskSegment, Reads, taskVars, TaskInv, Ahead
  <2>9. CASE SegmentVideo(v)
    BY <2>9 DEF SegmentVideo, Reads, GetPublic, taskVars, TaskInv, Ahead
  <2>10. CASE SegmentRendition(v)
    BY <2>10 DEF SegmentRendition, Reads, taskVars, TaskInv, Ahead
  <2>11. CASE SegmentRow(v)
    BY <2>11 DEF SegmentRow, Reads, taskVars, TaskInv, Ahead
  <2>12. CASE Load(v)
    BY <2>12 DEF Load, taskVars, TaskInv, Ahead
  <2>13. CASE Answer(v)
    BY <2>13 DEF Answer, SpawnPrefetch, TypeOK, taskVars, TaskInv, Ahead
  <2>14. CASE EndOfList(v)
    BY <2>14 DEF EndOfList, Reads, taskVars, TaskInv, Ahead
  <2> QED
    BY <1>2, <2>1, <2>2, <2>3, <2>4, <2>5, <2>6, <2>7, <2>8, <2>9, <2>10, <2>11,
      <2>12, <2>13, <2>14
    DEF PlayerStep
<1>3. ASSUME NEW t \in Tasks, TaskStep(t)
      PROVE  TaskInv'
  <2>1. CASE PrefetchRow(t)
    <3>1. near[t] \in Segments /\ \A r \in Rungs : rows[r] \subseteq Positions
      BY DEF TypeOK, Rows!TypeOK, Rows!Rungs, Rungs
    <3>2. near[t][1] \in Rungs
      BY <3>1 DEF Segments
    <3>3. Ahead(t)[2] \in rows[Ahead(t)[1]] => Ahead(t) \in Segments
      BY <3>1 DEF Ahead, Segments
    <3> QED
      BY <1>3, <2>1, <3>3
      DEF TaskStep, PrefetchRow, TaskEnds, TaskMoves, TypeOK, TaskInv, Ahead
  <2>2. CASE PrefetchContains(t)
    BY <1>3, <2>2
    DEF TaskStep, PrefetchContains, NextTurn, TaskEnds, TaskMoves, TypeOK,
      TaskInv, Ahead
  <2>3. CASE PrefetchLoad(t)
    BY <1>3, <2>3
    DEF TaskStep, PrefetchLoad, NextTurn, TaskEnds, TaskMoves, TypeOK, TaskInv,
      Ahead
  <2> QED
    BY <1>3, <2>1, <2>2, <2>3 DEF TaskStep
<1>4. CASE Restart
  BY <1>4 DEF Restart, TaskInv
<1>5. CASE UNCHANGED vars
  BY <1>5 DEF vars, taskVars, TaskInv, Ahead
<1>6. CASE Evict
  BY <1>6 DEF Evict, taskVars, TaskInv, Ahead
<1>7. CASE RenameEnds
  BY <1>7 DEF RenameEnds, taskVars, TaskInv, Ahead
<1>8. ASSUME NEW v \in Viewers, PlayerTrouble(v)
      PROVE  TaskInv'
  BY <1>8, TroubleOfPlayer DEF Interrupted, TypeOK, taskVars, TaskInv, Ahead
<1>9. ASSUME NEW t \in Tasks, TaskFails(t)
      PROVE  TaskInv'
  BY <1>9 DEF TaskFails, NextTurn, TaskEnds, TaskMoves, TypeOK, TaskInv, Ahead
<1> QED
  BY <1>1, <1>2, <1>3, <1>4, <1>5, <1>6, <1>7, <1>8, <1>9
  DEF Next, Smooth, Trouble

-----------------------------------------------------------------------------

\* The inductive invariant holds in every reachable state.
THEOREM PlaybackInductive == Spec => []PlayInv
<1>1. Init => PlayInv
  <2>1. SUFFICES ASSUME Init
                 PROVE  PlayInv
    OBVIOUS
  <2>2. TypeOK
    <3>1. /\ variants \in [Viewers -> Lists(Rungs)]
          /\ list \in [Viewers -> Lists(Positions)]
      BY <2>1, ListTypes DEF Init
    <3>2. /\ on \in [Viewers -> Rungs]
          /\ at \in [Viewers -> 1 .. NumSegments + 1]
          /\ near \in [Tasks -> Segments]
      BY <2>1, FirstSegment DEF Init
    <3>3. offset \in [Tasks -> 1 .. PREFETCH_AHEAD] /\ troubles \in 0 .. MaxTroubles
      BY <2>1, AheadAssumption, PlaybackBoundsAssumption DEF Init
    <3>4. pc \in [Viewers -> Steps]
      BY <2>1 DEF Init, Steps, Between
    <3>5. task \in [Tasks -> {"idle", "row", "contains", "load"}]
      BY <2>1 DEF Init
    <3>6. Rows!TypeOK
      BY <2>1 DEF Init, Rows!Init, Rows!NoRows, Rows!TypeOK, Rows!Rungs, Rungs
    <3> QED
      BY <2>1, <3>1, <3>2, <3>3, <3>4, <3>5, <3>6 DEF Init, TypeOK
  <2>3. Rows!Consistent
    BY <2>1 DEF Init, Rows!Init, Rows!NoRows, Rows!Consistent
  <2>4. OpenInv /\ MasterIsWhole /\ MediaIsWhole /\ LostOnlyIfWithdrawn
    BY <2>1
    DEF Init, Rows!Init, OpenInv, MasterIsWhole, MediaIsWhole,
      LostOnlyIfWithdrawn, Playing
  <2>5. AtInv /\ TaskInv
    BY <2>1 DEF Init, AtInv, TaskInv
  <2> QED
    BY <2>2, <2>3, <2>4, <2>5 DEF PlayInv
<1>2. PlayInv /\ [Next]_vars => PlayInv'
  <2>1. SUFFICES ASSUME PlayInv, [Next]_vars
                 PROVE  PlayInv'
    OBVIOUS
  <2>2. TypeOK' /\ Rows!Consistent' /\ OpenInv'
    BY <2>1, TypeKeeps, RowsKeep, StepsOfRows, OpenKeeps DEF PlayInv, TypeOK
  <2>3. MasterIsWhole' /\ MediaIsWhole' /\ LostOnlyIfWithdrawn'
    BY <2>1, MasterKeeps, MediaKeeps, LostKeeps DEF PlayInv
  <2>4. AtInv' /\ TaskInv'
    BY <2>1, AtKeeps, TasksKeep DEF PlayInv
  <2> QED
    BY <2>2, <2>3, <2>4 DEF PlayInv
<1> QED
  BY <1>1, <1>2, PTL DEF Spec

\* Playback sees the rows change only as VideoRows says, which VideoPipeline
\* implements: what is proved here holds beside its transcoders and deletions.
THEOREM PlaybackSeesRows == Spec => Rows!Spec
<1>1. Init => Rows!Init
  BY DEF Init
<1>2. [Next]_vars => [Rows!Next]_(Rows!vars)
  BY StepsOfRows
<1> QED
  BY <1>1, <1>2, PTL DEF Spec, Rows!Spec

\* A master playlist names every rendition in the order of bandwidth, and the
\* playlist of a rendition has every segment in order, or none because the video
\* was deleted under the request (stream.rs:49-56, 64-71).
THEOREM PlaylistsStayWhole == Spec => []PlaylistsAreWhole
<1>1. PlayInv => PlaylistsAreWhole
  BY DEF PlayInv, PlaylistsAreWhole
<1> QED
  BY <1>1, PlaybackInductive, PTL

\* A player that follows its playlists is refused only when the video is no
\* longer ready (stream.rs:64-68, 84-87), however often the process crashes.
THEOREM LostMeansWithdrawn == Spec => []LostOnlyIfWithdrawn
<1>1. PlayInv => LostOnlyIfWithdrawn
  BY DEF PlayInv
<1> QED
  BY <1>1, PlaybackInductive, PTL

\* A segment enters the cache because a player asks for it or did when it hung
\* up, or at most PREFETCH_AHEAD past a segment that a player was given: one that
\* was loaded and never answered starts no read-ahead, and neither does one that
\* was loaded ahead (stream.rs:23-29, 89-91, 135-159).
THEOREM ReadAheadStaysNear == Spec => ReadAheadIsNear
<1> DEFINE Near(s) ==
      \/ \E v \in Viewers : pc[v] = "load" /\ s = Asked(v)
      \/ s \in adrift
      \/ \E p \in answered : p[1] = s[1] /\ s[2] - p[2] \in 1 .. PREFETCH_AHEAD
<1>1. PlayInv /\ [Next]_vars => [\A s \in cached' \ cached : Near(s)]_vars
  <2>1. SUFFICES ASSUME PlayInv, Next, NEW s \in cached' \ cached
                 PROVE  Near(s)
    OBVIOUS
  <2>2. ASSUME NEW v \in Viewers, PlayerStep(v)
        PROVE  pc[v] = "load" /\ s = Asked(v)
    <3>1. CASE Load(v)
      BY <2>1, <3>1 DEF Load
    <3> QED
      BY <2>1, <2>2, <3>1
      DEF PlayerStep, Reads, GetPublic, AskMaster, MasterVideo,
        MasterRenditions, AskMedia, MediaVideo, MediaRendition, MediaSegments,
        AskSegment, SegmentVideo, SegmentRendition, SegmentRow, Answer,
        EndOfList, fileVars
  <2>3. ASSUME NEW t \in Tasks, TaskStep(t)
        PROVE  Near(s)
    <3>1. PrefetchLoad(t) /\ s = Ahead(t)
      BY <2>1, <2>3 DEF TaskStep, PrefetchRow, PrefetchContains, PrefetchLoad
    <3>2. near[t] \in answered
      BY <2>1, <3>1 DEF PrefetchLoad, PlayInv, TaskInv
    <3>3. near[t][2] \in Int /\ offset[t] \in 1 .. PREFETCH_AHEAD
      BY <2>1 DEF PlayInv, TypeOK, Segments, Positions
    <3>4. s[1] = near[t][1] /\ s[2] - near[t][2] \in 1 .. PREFETCH_AHEAD
      BY <3>1, <3>3 DEF Ahead
    <3> QED
      BY <3>2, <3>4
  <2>4. CASE RenameEnds
    BY <2>1, <2>4 DEF RenameEnds
  <2>5. ASSUME NEW v \in Viewers, PlayerTrouble(v)
        PROVE  FALSE
    BY <2>1, <2>5, TroubleOfPlayer
  <2> QED
    BY <2>1, <2>2, <2>3, <2>4, <2>5
    DEF Next, Smooth, Trouble, OwnerStep, TaskFails, Evict, Restart, fileVars
<1> QED
  BY <1>1, PlaybackInductive, PTL DEF Spec, ReadAheadIsNear

=============================================================================
