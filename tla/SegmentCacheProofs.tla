------------------------- MODULE SegmentCacheProofs -------------------------
(***************************************************************************)
(* Proofs about the segment cache, for any number of requests, segments    *)
(* and restarts and every set of faults.  CacheInv is inductive, each      *)
(* lemma below shows that a step preserves one of its parts; with it every *)
(* step is one of SegmentStore.                                            *)
(***************************************************************************)
EXTENDS SegmentCacheStore, SegmentCacheInv, TLAPS


\* A step keeps the lock of everybody who has one the one in the map.
LEMMA LockStep ==
    ASSUME TypeOK, WriteInv, LockInv, [Next]_vars
    PROVE  LockInv'
<1>0. /\ file \in [Segments -> Content \cup {"none"}]
      /\ tmp \in [Segments -> Content \cup {"none"}]
      /\ pc \in [Requests -> Steps]
      /\ seg \in [Requests -> Segments \cup {NoSegment}]
      /\ lock \in [Requests -> Nat]
      /\ bytes \in [Requests -> Content \cup {"none", "error"}]
      /\ io \in [Requests -> {"none", "create", "fill", "rename"}]
      /\ fd \in [Requests -> {"none", "tmp", "file"}]
      /\ inflight \in [Segments -> Nat]
      /\ locks \in Nat
      /\ torn \subseteq Segments
      /\ misread \subseteq Segments
      /\ cost \in [Segments -> 0..2]
      /\ NoSegment \notin Segments
  BY SegmentsAssumption DEF TypeOK
<1>1. ASSUME NEW r \in Requests, NEW s \in Segments, Arrive(r, s) PROVE LockInv'
  BY <1>1, <1>0
  DEF Arrive, diskVars, lockVars, requestVars, historyVars, WriteInv, LockInv,
    Locked, Steps
<1>2. ASSUME NEW r \in Requests, Read(r) PROVE LockInv'
  BY <1>2, <1>0
  DEF Read, Idle, Answered, diskVars, lockVars, requestVars, historyVars,
    WriteInv, LockInv, Locked, Steps
<1>3. ASSUME NEW r \in Requests, Join(r) PROVE LockInv'
  BY <1>3, <1>0
  DEF Join, diskVars, lockVars, requestVars, historyVars, WriteInv, LockInv,
    Locked, Steps
<1>4. ASSUME NEW r \in Requests, Acquire(r) PROVE LockInv'
  BY <1>4, <1>0
  DEF Acquire, diskVars, lockVars, requestVars, historyVars, WriteInv, LockInv,
    Locked, Steps
<1>5. ASSUME NEW r \in Requests, Reread(r) PROVE LockInv'
  BY <1>5, <1>0
  DEF Reread, diskVars, lockVars, requestVars, historyVars, WriteInv, LockInv,
    Locked, Steps
<1>18. ASSUME NEW r \in Requests, RereadFails(r) PROVE LockInv'
  BY <1>18, <1>0
  DEF RereadFails, diskVars, lockVars, requestVars, historyVars, WriteInv, LockInv,
    Locked, Steps
<1>6. ASSUME NEW r \in Requests, Fetch(r) PROVE LockInv'
  BY <1>6, <1>0
  DEF Fetch, Downloads, diskVars, lockVars, requestVars, historyVars, WriteInv,
    LockInv, Locked, Steps
<1>7. ASSUME NEW r \in Requests, FetchFails(r) PROVE LockInv'
  BY <1>7, <1>0
  DEF FetchFails, diskVars, lockVars, requestVars, historyVars, WriteInv,
    LockInv, Locked, Steps
<1>8. ASSUME NEW r \in Requests, Release(r) PROVE LockInv'
  BY <1>8, <1>0
  DEF Release, Idle, Answered, LastReference, diskVars, lockVars, requestVars,
    historyVars, WriteInv, LockInv, Locked, Steps
<1>9. ASSUME NEW r \in Requests, HangUp(r) PROVE LockInv'
  BY <1>9, <1>0
  DEF HangUp, Idle, diskVars, lockVars, requestVars, historyVars, WriteInv,
    LockInv, Locked, Steps
<1>10. ASSUME NEW r \in Requests, Create(r) PROVE LockInv'
  BY <1>10, <1>0
  DEF Create, diskVars, lockVars, requestVars, historyVars, WriteInv, LockInv,
    Locked, Steps
<1>11. ASSUME NEW r \in Requests, Fill(r) PROVE LockInv'
  BY <1>11, <1>0
  DEF Fill, Proceed, Idle, diskVars, lockVars, requestVars, historyVars,
    WriteInv, LockInv, Locked, Steps
<1>12. ASSUME NEW r \in Requests, Rename(r) PROVE LockInv'
  BY <1>12, <1>0
  DEF Rename, Renamed, Proceed, Idle, diskVars, lockVars, requestVars,
    historyVars, WriteInv, LockInv, Locked, Steps
<1>13. ASSUME NEW r \in Requests, WriteFails(r) PROVE LockInv'
  BY <1>13, <1>0
  DEF WriteFails, Unlinked, Proceed, Idle, diskVars, lockVars, requestVars,
    historyVars, WriteInv, LockInv, Locked, Steps
<1>14. ASSUME NEW s \in Segments, Sweep(s) PROVE LockInv'
  BY <1>14, <1>0
  DEF Sweep, FileRemoved, TmpRemoved, Unlinked, diskVars, lockVars, requestVars,
    historyVars, WriteInv, LockInv, Locked, Steps
<1>15. ASSUME NEW s \in Segments, DropCached(s) PROVE LockInv'
  BY <1>15, <1>0
  DEF DropCached, FileRemoved, Unlinked, diskVars, lockVars, requestVars,
    historyVars, WriteInv, LockInv, Locked, Steps
<1>16. CASE Restart
  BY <1>16, <1>0
  DEF Restart, diskVars, lockVars, requestVars, historyVars, WriteInv, LockInv,
    Locked, Steps
<1>17. CASE UNCHANGED vars
  BY <1>17, <1>0
  DEF vars, diskVars, lockVars, requestVars, historyVars, WriteInv, LockInv,
    Locked, Steps
<1>q. QED
  BY <1>1, <1>2, <1>3, <1>4, <1>5, <1>6, <1>7, <1>8, <1>9, <1>10, <1>11, <1>12,
    <1>13, <1>14, <1>15, <1>16, <1>17, <1>18
  DEF Next, RequestStep

\* A step keeps the guards of one segment exclusive.
LEMMA MutexStep ==
    ASSUME TypeOK, WriteInv, LockInv, MutexInv, [Next]_vars
    PROVE  MutexInv'
<1>0. /\ file \in [Segments -> Content \cup {"none"}]
      /\ tmp \in [Segments -> Content \cup {"none"}]
      /\ pc \in [Requests -> Steps]
      /\ seg \in [Requests -> Segments \cup {NoSegment}]
      /\ lock \in [Requests -> Nat]
      /\ bytes \in [Requests -> Content \cup {"none", "error"}]
      /\ io \in [Requests -> {"none", "create", "fill", "rename"}]
      /\ fd \in [Requests -> {"none", "tmp", "file"}]
      /\ inflight \in [Segments -> Nat]
      /\ locks \in Nat
      /\ torn \subseteq Segments
      /\ misread \subseteq Segments
      /\ cost \in [Segments -> 0..2]
      /\ NoSegment \notin Segments
  BY SegmentsAssumption DEF TypeOK
<1>1. ASSUME NEW r \in Requests, NEW s \in Segments, Arrive(r, s)
      PROVE  MutexInv'
  BY <1>1, <1>0
  DEF Arrive, diskVars, lockVars, requestVars, historyVars, WriteInv, LockInv,
    MutexInv, Locked, Steps, Held
<1>2. ASSUME NEW r \in Requests, Read(r) PROVE MutexInv'
  BY <1>2, <1>0
  DEF Read, Idle, Answered, diskVars, lockVars, requestVars, historyVars,
    WriteInv, LockInv, MutexInv, Locked, Steps, Held
<1>3. ASSUME NEW r \in Requests, Join(r) PROVE MutexInv'
  BY <1>3, <1>0
  DEF Join, diskVars, lockVars, requestVars, historyVars, WriteInv, LockInv,
    MutexInv, Locked, Steps, Held
<1>4. ASSUME NEW r \in Requests, Acquire(r) PROVE MutexInv'
  BY <1>4, <1>0
  DEF Acquire, diskVars, lockVars, requestVars, historyVars, WriteInv, LockInv,
    MutexInv, Locked, Steps, Held
<1>5. ASSUME NEW r \in Requests, Reread(r) PROVE MutexInv'
  BY <1>5, <1>0
  DEF Reread, diskVars, lockVars, requestVars, historyVars, WriteInv, LockInv,
    MutexInv, Locked, Steps, Held
<1>18. ASSUME NEW r \in Requests, RereadFails(r) PROVE MutexInv'
  BY <1>18, <1>0
  DEF RereadFails, diskVars, lockVars, requestVars, historyVars, WriteInv, LockInv,
    MutexInv, Locked, Steps, Held
<1>6. ASSUME NEW r \in Requests, Fetch(r) PROVE MutexInv'
  BY <1>6, <1>0
  DEF Fetch, Downloads, diskVars, lockVars, requestVars, historyVars, WriteInv,
    LockInv, MutexInv, Locked, Steps, Held
<1>7. ASSUME NEW r \in Requests, FetchFails(r) PROVE MutexInv'
  BY <1>7, <1>0
  DEF FetchFails, diskVars, lockVars, requestVars, historyVars, WriteInv,
    LockInv, MutexInv, Locked, Steps, Held
<1>8. ASSUME NEW r \in Requests, Release(r) PROVE MutexInv'
  BY <1>8, <1>0
  DEF Release, Idle, Answered, LastReference, diskVars, lockVars, requestVars,
    historyVars, WriteInv, LockInv, MutexInv, Locked, Steps, Held
<1>9. ASSUME NEW r \in Requests, HangUp(r) PROVE MutexInv'
  BY <1>9, <1>0
  DEF HangUp, Idle, diskVars, lockVars, requestVars, historyVars, WriteInv,
    LockInv, MutexInv, Locked, Steps, Held
<1>10. ASSUME NEW r \in Requests, Create(r) PROVE MutexInv'
  BY <1>10, <1>0
  DEF Create, diskVars, lockVars, requestVars, historyVars, WriteInv, LockInv,
    MutexInv, Locked, Steps, Held
<1>11. ASSUME NEW r \in Requests, Fill(r) PROVE MutexInv'
  BY <1>11, <1>0
  DEF Fill, Proceed, Idle, diskVars, lockVars, requestVars, historyVars,
    WriteInv, LockInv, MutexInv, Locked, Steps, Held
<1>12. ASSUME NEW r \in Requests, Rename(r) PROVE MutexInv'
  BY <1>12, <1>0
  DEF Rename, Renamed, Proceed, Idle, diskVars, lockVars, requestVars,
    historyVars, WriteInv, LockInv, MutexInv, Locked, Steps, Held
<1>13. ASSUME NEW r \in Requests, WriteFails(r) PROVE MutexInv'
  BY <1>13, <1>0
  DEF WriteFails, Unlinked, Proceed, Idle, diskVars, lockVars, requestVars,
    historyVars, WriteInv, LockInv, MutexInv, Locked, Steps, Held
<1>14. ASSUME NEW s \in Segments, Sweep(s) PROVE MutexInv'
  BY <1>14, <1>0
  DEF Sweep, FileRemoved, TmpRemoved, Unlinked, diskVars, lockVars, requestVars,
    historyVars, WriteInv, LockInv, MutexInv, Locked, Steps, Held
<1>15. ASSUME NEW s \in Segments, DropCached(s) PROVE MutexInv'
  BY <1>15, <1>0
  DEF DropCached, FileRemoved, Unlinked, diskVars, lockVars, requestVars,
    historyVars, WriteInv, LockInv, MutexInv, Locked, Steps, Held
<1>16. CASE Restart
  BY <1>16, <1>0
  DEF Restart, diskVars, lockVars, requestVars, historyVars, WriteInv, LockInv,
    MutexInv, Locked, Steps, Held
<1>17. CASE UNCHANGED vars
  BY <1>17, <1>0
  DEF vars, diskVars, lockVars, requestVars, historyVars, WriteInv, LockInv,
    MutexInv, Locked, Steps, Held
<1>q. QED
  BY <1>1, <1>2, <1>3, <1>4, <1>5, <1>6, <1>7, <1>8, <1>9, <1>10, <1>11, <1>12,
    <1>13, <1>14, <1>15, <1>16, <1>17, <1>18
  DEF Next, RequestStep

\* A step keeps every file operation with a step of write or a torn segment.
LEMMA WriteStep ==
    ASSUME TypeOK, WriteInv, [Next]_vars
    PROVE  WriteInv'
<1>0. /\ file \in [Segments -> Content \cup {"none"}]
      /\ tmp \in [Segments -> Content \cup {"none"}]
      /\ pc \in [Requests -> Steps]
      /\ seg \in [Requests -> Segments \cup {NoSegment}]
      /\ lock \in [Requests -> Nat]
      /\ bytes \in [Requests -> Content \cup {"none", "error"}]
      /\ io \in [Requests -> {"none", "create", "fill", "rename"}]
      /\ fd \in [Requests -> {"none", "tmp", "file"}]
      /\ inflight \in [Segments -> Nat]
      /\ locks \in Nat
      /\ torn \subseteq Segments
      /\ misread \subseteq Segments
      /\ cost \in [Segments -> 0..2]
      /\ NoSegment \notin Segments
  BY SegmentsAssumption DEF TypeOK
<1>1. ASSUME NEW r \in Requests, NEW s \in Segments, Arrive(r, s)
      PROVE  WriteInv'
  BY <1>1, <1>0
  DEF Arrive, diskVars, lockVars, requestVars, historyVars, WriteInv, Steps,
    Complete
<1>2. ASSUME NEW r \in Requests, Read(r) PROVE WriteInv'
  BY <1>2, <1>0
  DEF Read, Idle, Answered, diskVars, lockVars, requestVars, historyVars,
    WriteInv, Steps, Complete
<1>3. ASSUME NEW r \in Requests, Join(r) PROVE WriteInv'
  BY <1>3, <1>0
  DEF Join, diskVars, lockVars, requestVars, historyVars, WriteInv, Steps,
    Complete
<1>4. ASSUME NEW r \in Requests, Acquire(r) PROVE WriteInv'
  BY <1>4, <1>0
  DEF Acquire, diskVars, lockVars, requestVars, historyVars, WriteInv, Steps,
    Complete
<1>5. ASSUME NEW r \in Requests, Reread(r) PROVE WriteInv'
  BY <1>5, <1>0
  DEF Reread, diskVars, lockVars, requestVars, historyVars, WriteInv, Steps,
    Complete
<1>18. ASSUME NEW r \in Requests, RereadFails(r) PROVE WriteInv'
  BY <1>18, <1>0
  DEF RereadFails, diskVars, lockVars, requestVars, historyVars, WriteInv, Steps,
    Complete
<1>6. ASSUME NEW r \in Requests, Fetch(r) PROVE WriteInv'
  BY <1>6, <1>0
  DEF Fetch, Downloads, diskVars, lockVars, requestVars, historyVars, WriteInv,
    Steps, Complete
<1>7. ASSUME NEW r \in Requests, FetchFails(r) PROVE WriteInv'
  BY <1>7, <1>0
  DEF FetchFails, diskVars, lockVars, requestVars, historyVars, WriteInv, Steps,
    Complete
<1>8. ASSUME NEW r \in Requests, Release(r) PROVE WriteInv'
  BY <1>8, <1>0
  DEF Release, Idle, Answered, LastReference, diskVars, lockVars, requestVars,
    historyVars, WriteInv, Steps, Complete
<1>9. ASSUME NEW r \in Requests, HangUp(r) PROVE WriteInv'
  BY <1>9, <1>0
  DEF HangUp, Idle, diskVars, lockVars, requestVars, historyVars, WriteInv,
    Steps, Complete
<1>10. ASSUME NEW r \in Requests, Create(r) PROVE WriteInv'
  BY <1>10, <1>0
  DEF Create, diskVars, lockVars, requestVars, historyVars, WriteInv, Steps,
    Complete
<1>11. ASSUME NEW r \in Requests, Fill(r) PROVE WriteInv'
  BY <1>11, <1>0
  DEF Fill, Proceed, Idle, diskVars, lockVars, requestVars, historyVars,
    WriteInv, Steps, Complete
<1>12. ASSUME NEW r \in Requests, Rename(r) PROVE WriteInv'
  BY <1>12, <1>0
  DEF Rename, Renamed, Proceed, Idle, diskVars, lockVars, requestVars,
    historyVars, WriteInv, Steps, Complete
<1>13. ASSUME NEW r \in Requests, WriteFails(r) PROVE WriteInv'
  <2>1. CASE pc[r] = "gone"
    BY <1>13, <1>0, <2>1
    DEF WriteFails, Unlinked, Proceed, Idle, diskVars, lockVars, requestVars,
      historyVars, WriteInv, Steps, Complete
  <2>2. CASE pc[r] # "gone"
    <3>1. /\ pc' = [pc EXCEPT ![r] = "release"]
          /\ io' = [io EXCEPT ![r] = "none"]
          /\ UNCHANGED <<file, seg, lock, bytes, torn>>
      BY <1>13, <2>2 DEF WriteFails, Proceed, historyVars
    <3>2. CASE /\ tmp' = [tmp EXCEPT ![seg[r]] = "none"]
               /\ fd' = [Unlinked("tmp", seg[r]) EXCEPT ![r] = "none"]
      <4>1. PICK u : u = Unlinked("tmp", seg[r])
        OBVIOUS
      <4>2. u = [q \in Requests |-> IF seg[q] = seg[r] /\ fd[q] = "tmp"
                                  THEN "none" ELSE fd[q]]
        BY <4>1 DEF Unlinked
      <4>3. \A q \in Requests : fd'[q] = IF q = r THEN "none" ELSE u[q]
        BY <3>2, <4>1, <4>2
      <4>4. \A q \in Requests :
              \/ fd'[q] = fd[q]
              \/ fd'[q] = "none" /\ (q = r \/ seg[q] = seg[r])
        BY <4>2, <4>3
      <4>q. QED
        BY <3>1, <3>2, <4>3, <4>4, <1>0, <2>2, <1>13
        DEF WriteFails, WriteInv, Steps, Complete
    <3>3. CASE tmp' = tmp /\ fd' = [fd EXCEPT ![r] = "none"]
      BY <3>1, <3>3, <1>0, <2>2, <1>13
      DEF WriteFails, WriteInv, Steps, Complete
    <3>q. QED
      BY <3>2, <3>3, <1>13, <2>2 DEF WriteFails
  <2>q. QED
    BY <2>1, <2>2
<1>14. ASSUME NEW s \in Segments, Sweep(s) PROVE WriteInv'
  BY <1>14, <1>0
  DEF Sweep, FileRemoved, TmpRemoved, Unlinked, diskVars, lockVars, requestVars,
    historyVars, WriteInv, Steps, Complete
<1>15. ASSUME NEW s \in Segments, DropCached(s) PROVE WriteInv'
  BY <1>15, <1>0
  DEF DropCached, FileRemoved, Unlinked, diskVars, lockVars, requestVars,
    historyVars, WriteInv, Steps, Complete
<1>16. CASE Restart
  BY <1>16, <1>0
  DEF Restart, diskVars, lockVars, requestVars, historyVars, WriteInv, Steps,
    Complete
<1>17. CASE UNCHANGED vars
  BY <1>17, <1>0
  DEF vars, diskVars, lockVars, requestVars, historyVars, WriteInv, Steps,
    Complete
<1>q. QED
  BY <1>1, <1>2, <1>3, <1>4, <1>5, <1>6, <1>7, <1>8, <1>9, <1>10, <1>11, <1>12,
    <1>13, <1>14, <1>15, <1>16, <1>17, <1>18
  DEF Next, RequestStep

\* A step writes no final name outside torn segments but by a rename of the whole.
LEMMA WholeStep ==
    ASSUME TypeOK, LockInv, MutexInv, WriteInv, WholeInv, [Next]_vars
    PROVE  WholeInv'
<1>0. /\ file \in [Segments -> Content \cup {"none"}]
      /\ tmp \in [Segments -> Content \cup {"none"}]
      /\ pc \in [Requests -> Steps]
      /\ seg \in [Requests -> Segments \cup {NoSegment}]
      /\ lock \in [Requests -> Nat]
      /\ bytes \in [Requests -> Content \cup {"none", "error"}]
      /\ io \in [Requests -> {"none", "create", "fill", "rename"}]
      /\ fd \in [Requests -> {"none", "tmp", "file"}]
      /\ inflight \in [Segments -> Nat]
      /\ locks \in Nat
      /\ torn \subseteq Segments
      /\ misread \subseteq Segments
      /\ cost \in [Segments -> 0..2]
      /\ NoSegment \notin Segments
  BY SegmentsAssumption DEF TypeOK
<1>1. ASSUME NEW r \in Requests, NEW s \in Segments, Arrive(r, s)
      PROVE  WholeInv'
  BY <1>1, <1>0
  DEF Arrive, diskVars, lockVars, requestVars, historyVars, LockInv, MutexInv,
    WriteInv, WholeInv, Locked, Content, Complete
<1>2. ASSUME NEW r \in Requests, Read(r) PROVE WholeInv'
  BY <1>2, <1>0
  DEF Read, Idle, Answered, diskVars, lockVars, requestVars, historyVars,
    LockInv, MutexInv, WriteInv, WholeInv, Locked, Content, Complete
<1>3. ASSUME NEW r \in Requests, Join(r) PROVE WholeInv'
  BY <1>3, <1>0
  DEF Join, diskVars, lockVars, requestVars, historyVars, LockInv, MutexInv,
    WriteInv, WholeInv, Locked, Content, Complete
<1>4. ASSUME NEW r \in Requests, Acquire(r) PROVE WholeInv'
  BY <1>4, <1>0
  DEF Acquire, diskVars, lockVars, requestVars, historyVars, LockInv, MutexInv,
    WriteInv, WholeInv, Locked, Content, Complete
<1>5. ASSUME NEW r \in Requests, Reread(r) PROVE WholeInv'
  BY <1>5, <1>0
  DEF Reread, diskVars, lockVars, requestVars, historyVars, LockInv, MutexInv,
    WriteInv, WholeInv, Locked, Content, Complete
<1>18. ASSUME NEW r \in Requests, RereadFails(r) PROVE WholeInv'
  BY <1>18, <1>0
  DEF RereadFails, diskVars, lockVars, requestVars, historyVars, LockInv, MutexInv,
    WriteInv, WholeInv, Locked, Content, Complete
<1>6. ASSUME NEW r \in Requests, Fetch(r) PROVE WholeInv'
  BY <1>6, <1>0
  DEF Fetch, Downloads, diskVars, lockVars, requestVars, historyVars, LockInv,
    MutexInv, WriteInv, WholeInv, Locked, Content, Complete
<1>7. ASSUME NEW r \in Requests, FetchFails(r) PROVE WholeInv'
  BY <1>7, <1>0
  DEF FetchFails, diskVars, lockVars, requestVars, historyVars, LockInv,
    MutexInv, WriteInv, WholeInv, Locked, Content, Complete
<1>8. ASSUME NEW r \in Requests, Release(r) PROVE WholeInv'
  BY <1>8, <1>0
  DEF Release, Idle, Answered, LastReference, diskVars, lockVars, requestVars,
    historyVars, LockInv, MutexInv, WriteInv, WholeInv, Locked, Content,
    Complete
<1>9. ASSUME NEW r \in Requests, HangUp(r) PROVE WholeInv'
  BY <1>9, <1>0
  DEF HangUp, Idle, diskVars, lockVars, requestVars, historyVars, LockInv,
    MutexInv, WriteInv, WholeInv, Locked, Content, Complete
<1>10. ASSUME NEW r \in Requests, Create(r) PROVE WholeInv'
  BY <1>10, <1>0
  DEF Create, diskVars, lockVars, requestVars, historyVars, LockInv, MutexInv,
    WriteInv, WholeInv, Locked, Content, Complete
<1>11. ASSUME NEW r \in Requests, Fill(r) PROVE WholeInv'
  <2>1. CASE pc[r] = "gone"
    BY <1>11, <1>0, <2>1
    DEF Fill, Proceed, Idle, diskVars, lockVars, requestVars, historyVars,
      LockInv, MutexInv, WriteInv, WholeInv, Locked, Content, Complete
  <2>2. CASE pc[r] # "gone"
    BY <1>11, <1>0, <2>2
    DEF Fill, Proceed, Idle, diskVars, lockVars, requestVars, historyVars,
      LockInv, MutexInv, WriteInv, WholeInv, Locked, Content, Complete
  <2>q. QED
    BY <2>1, <2>2
<1>12. ASSUME NEW r \in Requests, Rename(r) PROVE WholeInv'
  BY <1>12, <1>0
  DEF Rename, Renamed, Proceed, Idle, diskVars, lockVars, requestVars,
    historyVars, LockInv, MutexInv, WriteInv, WholeInv, Locked, Content,
    Complete
<1>13. ASSUME NEW r \in Requests, WriteFails(r) PROVE WholeInv'
  <2>1. CASE pc[r] = "gone"
    BY <1>13, <1>0, <2>1
    DEF WriteFails, Unlinked, Proceed, Idle, diskVars, lockVars, requestVars,
      historyVars, LockInv, MutexInv, WriteInv, WholeInv, Locked, Content,
      Complete
  <2>2. CASE pc[r] # "gone"
    <3>1. /\ pc' = [pc EXCEPT ![r] = "release"]
          /\ io' = [io EXCEPT ![r] = "none"]
          /\ UNCHANGED <<file, seg, lock, bytes, torn>>
      BY <1>13, <2>2 DEF WriteFails, Proceed, historyVars
    <3>2. CASE /\ tmp' = [tmp EXCEPT ![seg[r]] = "none"]
               /\ fd' = [Unlinked("tmp", seg[r]) EXCEPT ![r] = "none"]
      <4>1. PICK u : u = Unlinked("tmp", seg[r])
        OBVIOUS
      <4>2. u = [q \in Requests |-> IF seg[q] = seg[r] /\ fd[q] = "tmp"
                                  THEN "none" ELSE fd[q]]
        BY <4>1 DEF Unlinked
      <4>3. \A q \in Requests : fd'[q] = IF q = r THEN "none" ELSE u[q]
        BY <3>2, <4>1, <4>2
      <4>4. \A q \in Requests :
              \/ fd'[q] = fd[q]
              \/ fd'[q] = "none" /\ (q = r \/ seg[q] = seg[r])
        BY <4>2, <4>3
      <4>q. QED
        BY <3>1, <3>2, <4>3, <4>4, <1>0, <2>2, <1>13
        DEF WriteFails, LockInv, MutexInv, WriteInv, WholeInv, Locked, Content, Complete
    <3>3. CASE tmp' = tmp /\ fd' = [fd EXCEPT ![r] = "none"]
      BY <3>1, <3>3, <1>0, <2>2, <1>13
      DEF WriteFails, LockInv, MutexInv, WriteInv, WholeInv, Locked, Content, Complete
    <3>q. QED
      BY <3>2, <3>3, <1>13, <2>2 DEF WriteFails
  <2>q. QED
    BY <2>1, <2>2
<1>14. ASSUME NEW s \in Segments, Sweep(s) PROVE WholeInv'
  BY <1>14, <1>0
  DEF Sweep, FileRemoved, TmpRemoved, Unlinked, diskVars, lockVars, requestVars,
    historyVars, LockInv, MutexInv, WriteInv, WholeInv, Locked, Content,
    Complete
<1>15. ASSUME NEW s \in Segments, DropCached(s) PROVE WholeInv'
  BY <1>15, <1>0
  DEF DropCached, FileRemoved, Unlinked, diskVars, lockVars, requestVars,
    historyVars, LockInv, MutexInv, WriteInv, WholeInv, Locked, Content,
    Complete
<1>16. CASE Restart
  BY <1>16, <1>0
  DEF Restart, diskVars, lockVars, requestVars, historyVars, LockInv, MutexInv,
    WriteInv, WholeInv, Locked, Content, Complete
<1>17. CASE UNCHANGED vars
  BY <1>17, <1>0
  DEF vars, diskVars, lockVars, requestVars, historyVars, LockInv, MutexInv,
    WriteInv, WholeInv, Locked, Content, Complete
<1>q. QED
  BY <1>1, <1>2, <1>3, <1>4, <1>5, <1>6, <1>7, <1>8, <1>9, <1>10, <1>11, <1>12,
    <1>13, <1>14, <1>15, <1>16, <1>17, <1>18
  DEF Next, RequestStep

\* A step pays for a segment outside torn ones only when it is not paid for.
LEMMA CostStep ==
    ASSUME TypeOK, LockInv, MutexInv, WriteInv, WholeInv, CostInv, [Next]_vars
    PROVE  CostInv'
<1>0. /\ file \in [Segments -> Content \cup {"none"}]
      /\ tmp \in [Segments -> Content \cup {"none"}]
      /\ pc \in [Requests -> Steps]
      /\ seg \in [Requests -> Segments \cup {NoSegment}]
      /\ lock \in [Requests -> Nat]
      /\ bytes \in [Requests -> Content \cup {"none", "error"}]
      /\ io \in [Requests -> {"none", "create", "fill", "rename"}]
      /\ fd \in [Requests -> {"none", "tmp", "file"}]
      /\ inflight \in [Segments -> Nat]
      /\ locks \in Nat
      /\ torn \subseteq Segments
      /\ misread \subseteq Segments
      /\ cost \in [Segments -> 0..2]
      /\ NoSegment \notin Segments
  BY SegmentsAssumption DEF TypeOK
<1>1. ASSUME NEW r \in Requests, NEW s \in Segments, Arrive(r, s) PROVE CostInv'
  BY <1>1, <1>0
  DEF Arrive, diskVars, lockVars, requestVars, historyVars, LockInv, MutexInv,
    WriteInv, CostInv, Writing, Locked, Found
<1>2. ASSUME NEW r \in Requests, Read(r) PROVE CostInv'
  BY <1>2, <1>0
  DEF Read, Idle, Answered, diskVars, lockVars, requestVars, historyVars,
    LockInv, MutexInv, WriteInv, CostInv, Writing, Locked, Found
<1>3. ASSUME NEW r \in Requests, Join(r) PROVE CostInv'
  BY <1>3, <1>0
  DEF Join, diskVars, lockVars, requestVars, historyVars, LockInv, MutexInv,
    WriteInv, CostInv, Writing, Locked, Found
<1>4. ASSUME NEW r \in Requests, Acquire(r) PROVE CostInv'
  BY <1>4, <1>0
  DEF Acquire, diskVars, lockVars, requestVars, historyVars, LockInv, MutexInv,
    WriteInv, CostInv, Writing, Locked, Found
<1>5. ASSUME NEW r \in Requests, Reread(r) PROVE CostInv'
  BY <1>5, <1>0
  DEF Reread, diskVars, lockVars, requestVars, historyVars, LockInv, MutexInv,
    WriteInv, CostInv, Writing, Locked, Found
<1>18. ASSUME NEW r \in Requests, RereadFails(r) PROVE CostInv'
  BY <1>18, <1>0
  DEF RereadFails, diskVars, lockVars, requestVars, historyVars, LockInv, MutexInv,
    WriteInv, CostInv, Writing, Locked, Found
<1>6. ASSUME NEW r \in Requests, Fetch(r) PROVE CostInv'
  BY <1>6, <1>0
  DEF Fetch, Downloads, diskVars, lockVars, requestVars, historyVars, LockInv,
    MutexInv, WriteInv, CostInv, Writing, Locked, Found
<1>7. ASSUME NEW r \in Requests, FetchFails(r) PROVE CostInv'
  BY <1>7, <1>0
  DEF FetchFails, diskVars, lockVars, requestVars, historyVars, LockInv,
    MutexInv, WriteInv, CostInv, Writing, Locked, Found
<1>8. ASSUME NEW r \in Requests, Release(r) PROVE CostInv'
  BY <1>8, <1>0
  DEF Release, Idle, Answered, LastReference, diskVars, lockVars, requestVars,
    historyVars, LockInv, MutexInv, WriteInv, CostInv, Writing, Locked, Found
<1>9. ASSUME NEW r \in Requests, HangUp(r) PROVE CostInv'
  BY <1>9, <1>0
  DEF HangUp, Idle, diskVars, lockVars, requestVars, historyVars, LockInv,
    MutexInv, WriteInv, CostInv, Writing, Locked, Found
<1>10. ASSUME NEW r \in Requests, Create(r) PROVE CostInv'
  BY <1>10, <1>0
  DEF Create, diskVars, lockVars, requestVars, historyVars, LockInv, MutexInv,
    WriteInv, CostInv, Writing, Locked, Found
<1>11. ASSUME NEW r \in Requests, Fill(r) PROVE CostInv'
  <2>1. /\ pc[r] \in {"write", "gone"} /\ bytes[r] # "none"
        /\ pc[r] = "gone" => seg[r] \in torn
    BY <1>11, <1>0 DEF Fill, WriteInv, Complete
  <2>2. /\ cost' = cost /\ torn' = torn
        /\ \A s \in Segments :
              file'[s] = file[s] \/ (s = seg[r] /\ file'[s] = bytes[r])
    BY <1>11, <1>0 DEF Fill, historyVars
  <2>3. \A x \in Requests : x # r => pc'[x] = pc[x] /\ seg'[x] = seg[x]
    BY <1>11, <1>0 DEF Fill, Proceed, Idle
  <2>4. /\ pc[r] = "write" => pc'[r] = "rename" /\ seg'[r] = seg[r]
        /\ pc[r] = "gone" => pc'[r] = "idle"
    BY <1>11, <1>0 DEF Fill, Proceed, Idle
  <2>5. ASSUME NEW s \in Segments \ torn
        PROVE  /\ cost'[s] <= 1
               /\ cost'[s] # 0 =>
                     \/ file'[s] # "none"
                     \/ Writing(s)'
    <3>1. cost'[s] <= 1
      BY <2>2, <2>5 DEF CostInv
    <3>2. CASE file[s] # "none" \/ cost[s] = 0
      BY <2>1, <2>2, <3>1, <3>2
    <3>3. ASSUME NEW x \in Requests, seg[x] = s, pc[x] \in {"write", "rename"}
          PROVE  seg'[x] = s /\ pc'[x] \in {"write", "rename"}
      BY <2>1, <2>3, <2>4, <3>3
    <3> QED
      BY <2>2, <2>5, <3>1, <3>2, <3>3 DEF CostInv, Writing
  <2>6. ASSUME NEW x \in Requests, pc'[x] = "fetch", seg'[x] \notin torn
        PROVE  cost'[seg'[x]] = 0
    <3>1. x # r
      BY <2>1, <2>4, <2>6
    <3> QED
      BY <2>2, <2>3, <2>6, <3>1 DEF CostInv
  <2> QED
    BY <2>2, <2>5, <2>6 DEF CostInv
<1>12. ASSUME NEW r \in Requests, Rename(r) PROVE CostInv'
  BY <1>12, <1>0
  DEF Rename, Renamed, Proceed, Idle, diskVars, lockVars, requestVars,
    historyVars, LockInv, MutexInv, WriteInv, CostInv, Writing, Locked, Found
<1>13. ASSUME NEW r \in Requests, WriteFails(r) PROVE CostInv'
  BY <1>13, <1>0
  DEF WriteFails, Unlinked, Proceed, Idle, diskVars, lockVars, requestVars,
    historyVars, LockInv, MutexInv, WriteInv, CostInv, Writing, Locked, Found
<1>14. ASSUME NEW s \in Segments, Sweep(s) PROVE CostInv'
  BY <1>14, <1>0
  DEF Sweep, FileRemoved, TmpRemoved, Unlinked, diskVars, lockVars, requestVars,
    historyVars, LockInv, MutexInv, WriteInv, CostInv, Writing, Locked, Found
<1>15. ASSUME NEW s \in Segments, DropCached(s) PROVE CostInv'
  BY <1>15, <1>0
  DEF DropCached, FileRemoved, Unlinked, diskVars, lockVars, requestVars,
    historyVars, LockInv, MutexInv, WriteInv, CostInv, Writing, Locked, Found
<1>16. CASE Restart
  BY <1>16, <1>0
  DEF Restart, diskVars, lockVars, requestVars, historyVars, LockInv, MutexInv,
    WriteInv, CostInv, Writing, Locked, Found
<1>17. CASE UNCHANGED vars
  BY <1>17, <1>0
  DEF vars, diskVars, lockVars, requestVars, historyVars, LockInv, MutexInv,
    WriteInv, CostInv, Writing, Locked, Found
<1>q. QED
  BY <1>1, <1>2, <1>3, <1>4, <1>5, <1>6, <1>7, <1>8, <1>9, <1>10, <1>11, <1>12,
    <1>13, <1>14, <1>15, <1>16, <1>17, <1>18
  DEF Next, RequestStep

\* A step keeps it that what is being written is missing or could not be read, and
\* is paid for.
LEMMA CommitStep ==
    ASSUME TypeOK, LockInv, MutexInv, WriteInv, WholeInv, CostInv, CommitInv, [Next]_vars
    PROVE  CommitInv'
<1>0. /\ file \in [Segments -> Content \cup {"none"}]
      /\ tmp \in [Segments -> Content \cup {"none"}]
      /\ pc \in [Requests -> Steps]
      /\ seg \in [Requests -> Segments \cup {NoSegment}]
      /\ lock \in [Requests -> Nat]
      /\ bytes \in [Requests -> Content \cup {"none", "error"}]
      /\ io \in [Requests -> {"none", "create", "fill", "rename"}]
      /\ fd \in [Requests -> {"none", "tmp", "file"}]
      /\ inflight \in [Segments -> Nat]
      /\ locks \in Nat
      /\ torn \subseteq Segments
      /\ misread \subseteq Segments
      /\ cost \in [Segments -> 0..2]
      /\ NoSegment \notin Segments
  BY SegmentsAssumption DEF TypeOK
<1>1. ASSUME NEW r \in Requests, NEW s \in Segments, Arrive(r, s)
      PROVE  CommitInv'
  BY <1>1, <1>0
  DEF Arrive, diskVars, lockVars, requestVars, historyVars, LockInv, MutexInv,
    WriteInv, CostInv, Writing, CommitInv, Locked, Found
<1>2. ASSUME NEW r \in Requests, Read(r) PROVE CommitInv'
  BY <1>2, <1>0
  DEF Read, Idle, Answered, diskVars, lockVars, requestVars, historyVars,
    LockInv, MutexInv, WriteInv, CostInv, Writing, CommitInv, Locked, Found
<1>3. ASSUME NEW r \in Requests, Join(r) PROVE CommitInv'
  BY <1>3, <1>0
  DEF Join, diskVars, lockVars, requestVars, historyVars, LockInv, MutexInv,
    WriteInv, CostInv, Writing, CommitInv, Locked, Found
<1>4. ASSUME NEW r \in Requests, Acquire(r) PROVE CommitInv'
  BY <1>4, <1>0
  DEF Acquire, diskVars, lockVars, requestVars, historyVars, LockInv, MutexInv,
    WriteInv, CostInv, Writing, CommitInv, Locked, Found
<1>5. ASSUME NEW r \in Requests, Reread(r) PROVE CommitInv'
  BY <1>5, <1>0
  DEF Reread, diskVars, lockVars, requestVars, historyVars, LockInv, MutexInv,
    WriteInv, CostInv, Writing, CommitInv, Locked, Found
<1>18. ASSUME NEW r \in Requests, RereadFails(r) PROVE CommitInv'
  BY <1>18, <1>0
  DEF RereadFails, diskVars, lockVars, requestVars, historyVars, LockInv, MutexInv,
    WriteInv, CostInv, Writing, CommitInv, Locked, Found
<1>6. ASSUME NEW r \in Requests, Fetch(r) PROVE CommitInv'
  BY <1>6, <1>0
  DEF Fetch, Downloads, diskVars, lockVars, requestVars, historyVars, LockInv,
    MutexInv, WriteInv, CostInv, Writing, CommitInv, Locked, Found
<1>7. ASSUME NEW r \in Requests, FetchFails(r) PROVE CommitInv'
  BY <1>7, <1>0
  DEF FetchFails, diskVars, lockVars, requestVars, historyVars, LockInv,
    MutexInv, WriteInv, CostInv, Writing, CommitInv, Locked, Found
<1>8. ASSUME NEW r \in Requests, Release(r) PROVE CommitInv'
  BY <1>8, <1>0
  DEF Release, Idle, Answered, LastReference, diskVars, lockVars, requestVars,
    historyVars, LockInv, MutexInv, WriteInv, CostInv, Writing, CommitInv, Locked, Found
<1>9. ASSUME NEW r \in Requests, HangUp(r) PROVE CommitInv'
  BY <1>9, <1>0
  DEF HangUp, Idle, diskVars, lockVars, requestVars, historyVars, LockInv,
    MutexInv, WriteInv, CostInv, Writing, CommitInv, Locked, Found
<1>10. ASSUME NEW r \in Requests, Create(r) PROVE CommitInv'
  BY <1>10, <1>0
  DEF Create, diskVars, lockVars, requestVars, historyVars, LockInv, MutexInv,
    WriteInv, CostInv, Writing, CommitInv, Locked, Found
<1>11. ASSUME NEW r \in Requests, Fill(r) PROVE CommitInv'
  <2>1. /\ pc[r] \in {"write", "gone"}
        /\ pc[r] = "gone" => seg[r] \in torn
        /\ cost' = cost /\ torn' = torn /\ misread' = misread
        /\ fd[r] = "file" => seg[r] \in torn
    BY <1>11, <1>0 DEF Fill, WriteInv, WholeInv, historyVars
  <2>2. \A x \in Requests :
          pc'[x] \in {"fetch", "write", "rename"} =>
              /\ pc[x] \in {"fetch", "write", "rename"}
              /\ pc'[x] # "fetch" => pc[x] # "fetch"
              /\ seg'[x] = seg[x] /\ seg[x] \in Segments
    BY <1>11, <1>0, <2>1 DEF Fill, Proceed, Idle, LockInv
  <2>3. \A s \in Segments \ torn : file'[s] = file[s]
    BY <1>11, <1>0, <2>1 DEF Fill
  <2> QED
    BY <2>1, <2>2, <2>3 DEF CommitInv
<1>12. ASSUME NEW r \in Requests, Rename(r) PROVE CommitInv'
  BY <1>12, <1>0
  DEF Rename, Renamed, Proceed, Idle, diskVars, lockVars, requestVars,
    historyVars, LockInv, MutexInv, WriteInv, CostInv, Writing, CommitInv, Locked, Found
<1>13. ASSUME NEW r \in Requests, WriteFails(r) PROVE CommitInv'
  BY <1>13, <1>0
  DEF WriteFails, Unlinked, Proceed, Idle, diskVars, lockVars, requestVars,
    historyVars, LockInv, MutexInv, WriteInv, CostInv, Writing, CommitInv, Locked, Found
<1>14. ASSUME NEW s \in Segments, Sweep(s) PROVE CommitInv'
  BY <1>14, <1>0
  DEF Sweep, FileRemoved, TmpRemoved, Unlinked, diskVars, lockVars, requestVars,
    historyVars, LockInv, MutexInv, WriteInv, CostInv, Writing, CommitInv, Locked, Found
<1>15. ASSUME NEW s \in Segments, DropCached(s) PROVE CommitInv'
  BY <1>15, <1>0
  DEF DropCached, FileRemoved, Unlinked, diskVars, lockVars, requestVars,
    historyVars, LockInv, MutexInv, WriteInv, CostInv, Writing, CommitInv, Locked, Found
<1>16. CASE Restart
  BY <1>16, <1>0
  DEF Restart, diskVars, lockVars, requestVars, historyVars, LockInv, MutexInv,
    WriteInv, CostInv, Writing, CommitInv, Locked, Found
<1>17. CASE UNCHANGED vars
  BY <1>17, <1>0
  DEF vars, diskVars, lockVars, requestVars, historyVars, LockInv, MutexInv,
    WriteInv, CostInv, Writing, CommitInv, Locked, Found
<1>q. QED
  BY <1>1, <1>2, <1>3, <1>4, <1>5, <1>6, <1>7, <1>8, <1>9, <1>10, <1>11, <1>12,
    <1>13, <1>14, <1>15, <1>16, <1>17, <1>18
  DEF Next, RequestStep

\* A step keeps the types.
LEMMA TypeStep ==
    ASSUME TypeOK, LockInv, WriteInv, [Next]_vars
    PROVE  TypeOK'
<1>0. TypeOK
  OBVIOUS
<1>1. ASSUME NEW r \in Requests, NEW s \in Segments, Arrive(r, s) PROVE TypeOK'
  BY <1>1, <1>0
  DEF Arrive, diskVars, lockVars, requestVars, historyVars, TypeOK, LockInv,
    WriteInv, Locked, Steps, Content, Complete
<1>2. ASSUME NEW r \in Requests, Read(r) PROVE TypeOK'
  BY <1>2, <1>0
  DEF Read, Idle, Answered, diskVars, lockVars, requestVars, historyVars,
    TypeOK, LockInv, WriteInv, Locked, Steps, Content, Complete
<1>3. ASSUME NEW r \in Requests, Join(r) PROVE TypeOK'
  BY <1>3, <1>0
  DEF Join, diskVars, lockVars, requestVars, historyVars, TypeOK, LockInv,
    WriteInv, Locked, Steps, Content, Complete
<1>4. ASSUME NEW r \in Requests, Acquire(r) PROVE TypeOK'
  BY <1>4, <1>0
  DEF Acquire, diskVars, lockVars, requestVars, historyVars, TypeOK, LockInv,
    WriteInv, Locked, Steps, Content, Complete
<1>5. ASSUME NEW r \in Requests, Reread(r) PROVE TypeOK'
  BY <1>5, <1>0
  DEF Reread, diskVars, lockVars, requestVars, historyVars, TypeOK, LockInv,
    WriteInv, Locked, Steps, Content, Complete
<1>18. ASSUME NEW r \in Requests, RereadFails(r) PROVE TypeOK'
  BY <1>18, <1>0
  DEF RereadFails, diskVars, lockVars, requestVars, historyVars, TypeOK, LockInv,
    WriteInv, Locked, Steps, Content, Complete
<1>6. ASSUME NEW r \in Requests, Fetch(r) PROVE TypeOK'
  BY <1>6, <1>0
  DEF Fetch, Downloads, diskVars, lockVars, requestVars, historyVars, TypeOK,
    LockInv, WriteInv, Locked, Steps, Content, Complete
<1>7. ASSUME NEW r \in Requests, FetchFails(r) PROVE TypeOK'
  BY <1>7, <1>0
  DEF FetchFails, diskVars, lockVars, requestVars, historyVars, TypeOK, LockInv,
    WriteInv, Locked, Steps, Content, Complete
<1>8. ASSUME NEW r \in Requests, Release(r) PROVE TypeOK'
  BY <1>8, <1>0
  DEF Release, Idle, Answered, LastReference, diskVars, lockVars, requestVars,
    historyVars, TypeOK, LockInv, WriteInv, Locked, Steps, Content, Complete
<1>9. ASSUME NEW r \in Requests, HangUp(r) PROVE TypeOK'
  BY <1>9, <1>0
  DEF HangUp, Idle, diskVars, lockVars, requestVars, historyVars, TypeOK,
    LockInv, WriteInv, Locked, Steps, Content, Complete
<1>10. ASSUME NEW r \in Requests, Create(r) PROVE TypeOK'
  BY <1>10, <1>0
  DEF Create, diskVars, lockVars, requestVars, historyVars, TypeOK, LockInv,
    WriteInv, Locked, Steps, Content, Complete
<1>11. ASSUME NEW r \in Requests, Fill(r) PROVE TypeOK'
  BY <1>11, <1>0
  DEF Fill, Proceed, Idle, diskVars, lockVars, requestVars, historyVars, TypeOK,
    LockInv, WriteInv, Locked, Steps, Content, Complete
<1>12. ASSUME NEW r \in Requests, Rename(r) PROVE TypeOK'
  <2>1. Renamed(seg[r]) \in [Requests -> {"none", "tmp", "file"}]
    BY <1>0 DEF TypeOK, Renamed
  <2>2. seg[r] \in Segments
    BY <1>12, <1>0 DEF Rename, LockInv, WriteInv
  <2>3. /\ file' \in [Segments -> Content \cup {"none"}]
        /\ tmp' \in [Segments -> Content \cup {"none"}]
        /\ fd' \in [Requests -> {"none", "tmp", "file"}]
    BY <1>12, <1>0, <2>1, <2>2 DEF Rename, TypeOK
  <2>4. /\ pc' \in [Requests -> Steps]
        /\ seg' \in [Requests -> Segments \cup {NoSegment}]
        /\ bytes' \in [Requests -> Content \cup {"none", "error"}]
        /\ io' \in [Requests -> {"none", "create", "fill", "rename"}]
    BY <1>12, <1>0 DEF Rename, Proceed, Idle, TypeOK, Steps
  <2>5. /\ UNCHANGED <<lockVars, lock, restarts, served, cost, torn>>
        /\ misread' \subseteq misread
    BY <1>12 DEF Rename
  <2> QED
    BY <1>0, <2>3, <2>4, <2>5 DEF TypeOK, lockVars
<1>13. ASSUME NEW r \in Requests, WriteFails(r) PROVE TypeOK'
  <2>1. [Unlinked("tmp", seg[r]) EXCEPT ![r] = "none"] \in [Requests -> {"none", "tmp", "file"}]
    BY <1>0 DEF TypeOK, Unlinked
  <2>2. fd' \in [Requests -> {"none", "tmp", "file"}]
    BY <1>13, <1>0, <2>1 DEF TypeOK, WriteFails
  <2>3. UNCHANGED <<file, lockVars, lock, restarts, served, misread, torn>>
    BY <1>13 DEF WriteFails
  <2>4. seg[r] \in Segments
    BY <1>13, <1>0 DEF WriteFails, LockInv, WriteInv
  <2>5. tmp' \in [Segments -> Content \cup {"none"}] /\ cost' \in [Segments -> 0..2]
    BY <1>13, <1>0, <2>4 DEF WriteFails, TypeOK
  <2>6. /\ pc' \in [Requests -> Steps]
        /\ seg' \in [Requests -> Segments \cup {NoSegment}]
        /\ bytes' \in [Requests -> Content \cup {"none", "error"}]
        /\ io' \in [Requests -> {"none", "create", "fill", "rename"}]
    BY <1>13, <1>0 DEF WriteFails, Proceed, Idle, TypeOK, Steps
  <2>q. QED
    BY <1>0, <2>2, <2>3, <2>5, <2>6 DEF TypeOK, lockVars
<1>14. ASSUME NEW s \in Segments, Sweep(s) PROVE TypeOK'
  BY <1>14, <1>0
  DEF Sweep, FileRemoved, TmpRemoved, Unlinked, diskVars, lockVars, requestVars,
    historyVars, TypeOK, LockInv, WriteInv, Locked, Steps, Content, Complete
<1>15. ASSUME NEW s \in Segments, DropCached(s) PROVE TypeOK'
  BY <1>15, <1>0
  DEF DropCached, FileRemoved, Unlinked, diskVars, lockVars, requestVars,
    historyVars, TypeOK, LockInv, WriteInv, Locked, Steps, Content, Complete
<1>16. CASE Restart
  BY <1>16, <1>0
  DEF Restart, diskVars, lockVars, requestVars, historyVars, TypeOK, LockInv,
    WriteInv, Locked, Steps, Content, Complete
<1>17. CASE UNCHANGED vars
  BY <1>17, <1>0
  DEF vars, diskVars, lockVars, requestVars, historyVars, TypeOK, LockInv,
    WriteInv, Locked, Steps, Content, Complete
<1>q. QED
  BY <1>1, <1>2, <1>3, <1>4, <1>5, <1>6, <1>7, <1>8, <1>9, <1>10, <1>11, <1>12,
    <1>13, <1>14, <1>15, <1>16, <1>17, <1>18
  DEF Next, RequestStep

\* The initial state has the invariant.
LEMMA InitInv == Init => CacheInv
<1> SUFFICES ASSUME Init PROVE CacheInv
  OBVIOUS
<1>a. /\ file \in [Segments -> Content \cup {"none"}]
      /\ tmp \in [Segments -> Content \cup {"none"}]
      /\ pc \in [Requests -> Steps]
      /\ seg \in [Requests -> Segments \cup {NoSegment}]
      /\ bytes \in [Requests -> Content \cup {"none", "error"}]
      /\ io \in [Requests -> {"none", "create", "fill", "rename"}]
      /\ fd \in [Requests -> {"none", "tmp", "file"}]
  BY DEF Init, Steps, Content, Complete
<1>b. /\ inflight \in [Segments -> Nat] /\ locks \in Nat
      /\ lock \in [Requests -> Nat]
      /\ restarts \in Nat
      /\ served \in [Segments -> SUBSET Complete]
      /\ cost \in [Segments -> 0..2]
      /\ misread \subseteq Segments /\ torn \subseteq Segments
  BY DEF Init
<1>1. TypeOK
  BY <1>a, <1>b DEF TypeOK
<1>2. \A r \in Requests : pc[r] = "idle" /\ lock[r] = 0 /\ io[r] = "none" /\ fd[r] = "none"
  BY DEF Init
<1>3. \A s \in Segments : file[s] = "none" /\ cost[s] = 0
  BY DEF Init
<1>4. LockInv /\ MutexInv /\ WriteInv
  BY <1>2 DEF LockInv, MutexInv, WriteInv, Locked
<1>5. WholeInv /\ CostInv /\ CommitInv
  BY <1>2, <1>3 DEF WholeInv, CostInv, CommitInv
<1>q. QED
  BY <1>1, <1>4, <1>5 DEF CacheInv

\* The invariant holds in every reachable state of the cache.
THEOREM CacheInductive == Spec => []CacheInv
<1>1. Init => CacheInv
  BY InitInv
<1>2. CacheInv /\ [Next]_vars => CacheInv'
  BY TypeStep, LockStep, MutexStep, WriteStep, WholeStep, CostStep, CommitStep
  DEF CacheInv
<1>q. QED
  BY <1>1, <1>2, PTL DEF Spec

\* Every variable of the cache keeps its type (get_or_fetch, write, evict).
THEOREM CacheTypeCorrect == Spec => []TypeOK
<1>1. CacheInv => TypeOK
  BY DEF CacheInv
<1> QED
  BY <1>1, CacheInductive, PTL

\* Telegram is never asked for one segment by two requests at a time, whatever
\* hangs up, is swept or restarted (get_or_fetch).
THEOREM FetchesAreExclusive == Spec => []OneFetch
<1>1. CacheInv => OneFetch
  BY DEF CacheInv, MutexInv, OneFetch, Locked
<1>q. QED
  BY <1>1, CacheInductive, PTL

\* A file under its final name is the whole answer of Telegram unless a client
\* hung up during a write of it (write).
THEOREM CommittedIsWhole == Spec => []CachedIsWhole
<1>1. CacheInv => CachedIsWhole
  BY DEF CacheInv, WholeInv, CachedIsWhole
<1>q. QED
  BY <1>1, CacheInductive, PTL

\* A segment is downloaded once until its file goes or cannot be read, or the
\* download cannot be written, with the same exception (get_or_fetch).
THEOREM PaidOnce == Spec => []FetchedOnce
<1>1. CacheInv => FetchedOnce
  BY DEF CacheInv, CostInv, FetchedOnce
<1>q. QED
  BY <1>1, CacheInductive, PTL

\* What a step does to one segment is a step of SegmentStore, or nothing.
LEMMA StoreStep ==
    ASSUME CacheInv, [Next]_vars, NEW s \in Segments
    PROVE  [StoreOf(s)!Next]_(StoreOf(s)!vars)
<1>0. /\ file \in [Segments -> Content \cup {"none"}]
      /\ cost \in [Segments -> 0 .. 2]
      /\ torn \subseteq Segments
      /\ NoSegment \notin Segments
      /\ \A r \in Requests : pc[r] # "idle" => seg[r] \in Segments
  BY SegmentsAssumption DEF CacheInv, TypeOK, LockInv
<1>1. ASSUME UNCHANGED <<file[s], cost[s]>>, s \in misread' <=> s \in misread,
             s \in torn' <=> s \in torn
      PROVE  UNCHANGED StoreOf(s)!vars
  BY <1>1 DEF StoreOf!vars
<1>2. ASSUME s \in torn'
      PROVE  StoreOf(s)!Next
  BY <1>2 DEF StoreOf!Next, StoreOf!Spoil
<1>3. ASSUME file[s] = "none" \/ s \in misread, file'[s] = file[s],
             cost'[s] = 0, misread' = misread, torn' = torn
      PROVE  StoreOf(s)!Next
  BY <1>3 DEF StoreOf!Next, StoreOf!GiveUp, StoreOf!Wanted
<1>4. ASSUME NEW r \in Requests,
             \/ Read(r) \/ Join(r) \/ Acquire(r) \/ FetchFails(r)
             \/ Release(r) \/ Create(r)
      PROVE  UNCHANGED StoreOf(s)!vars
  BY <1>1, <1>4
  DEF Read, Join, Acquire, FetchFails, Release, Create, diskVars, historyVars
<1>5. ASSUME NEW r \in Requests, NEW t \in Segments, Arrive(r, t)
      PROVE  UNCHANGED StoreOf(s)!vars
  BY <1>1, <1>5 DEF Arrive, diskVars, historyVars
<1>6. ASSUME NEW r \in Requests, Fetch(r)
      PROVE  [StoreOf(s)!Next]_(StoreOf(s)!vars)
  <2>1. CASE s = seg[r] /\ s \notin torn
    <3>1. (file[s] = "none" \/ s \in misread) /\ cost[s] = 0
      BY <1>0, <1>6, <2>1 DEF Fetch, CacheInv, CostInv, CommitInv
    <3>2. file' = file /\ cost'[s] = 1 /\ misread' = misread /\ torn' = torn
      BY <1>0, <1>6, <2>1, <3>1 DEF Fetch, diskVars
    <3>3. StoreOf(s)!Download
      BY <2>1, <3>1, <3>2 DEF StoreOf!Download, StoreOf!Wanted
    <3> QED
      BY <3>3 DEF StoreOf!Next
  <2>2. CASE s # seg[r] \/ s \in torn
    BY <1>0, <1>1, <1>2, <1>6, <2>2 DEF Fetch, diskVars
  <2> QED
    BY <2>1, <2>2
<1>7. ASSUME NEW r \in Requests, HangUp(r)
      PROVE  [StoreOf(s)!Next]_(StoreOf(s)!vars)
  BY <1>1, <1>2, <1>7 DEF HangUp, diskVars
<1>8. ASSUME NEW r \in Requests, Fill(r)
      PROVE  [StoreOf(s)!Next]_(StoreOf(s)!vars)
  <2>1. io[r] = "fill" /\ pc[r] # "idle"
    BY <1>8 DEF Fill, CacheInv, WriteInv
  <2>2. s \notin torn => file'[s] = file[s]
    BY <1>0, <1>8, <2>1 DEF Fill, CacheInv, WholeInv
  <2>3. cost' = cost /\ misread' = misread /\ torn' = torn
    BY <1>8 DEF Fill, historyVars
  <2> QED
    BY <1>1, <1>2, <2>2, <2>3
<1>9. ASSUME NEW r \in Requests, Rename(r)
      PROVE  [StoreOf(s)!Next]_(StoreOf(s)!vars)
  <2>1. cost' = cost /\ misread' = misread \ {seg[r]} /\ torn' = torn
    BY <1>9 DEF Rename
  <2>2. CASE s = seg[r] /\ s \notin torn
    <3>1. pc[r] = "rename" /\ tmp[s] \in Complete
      BY <1>9, <2>2
      DEF Rename, CacheInv, TypeOK, Content, WriteInv, WholeInv
    <3>2. (file[s] = "none" \/ s \in misread) /\ cost[s] # 0
      BY <2>2, <3>1 DEF CacheInv, CommitInv
    <3>3. file'[s] \in Complete
      BY <1>0, <1>9, <2>2, <3>1 DEF Rename
    <3>4. StoreOf(s)!Commit
      BY <2>1, <2>2, <3>2, <3>3 DEF StoreOf!Commit, StoreOf!Wanted
    <3> QED
      BY <3>4 DEF StoreOf!Next
  <2>3. CASE s # seg[r] \/ s \in torn
    BY <1>0, <1>1, <1>2, <1>9, <2>1, <2>3 DEF Rename
  <2> QED
    BY <2>2, <2>3
<1>10. ASSUME NEW r \in Requests, WriteFails(r)
       PROVE  [StoreOf(s)!Next]_(StoreOf(s)!vars)
  <2>1. file' = file /\ misread' = misread /\ torn' = torn
    BY <1>10 DEF WriteFails
  <2>2. CASE s = seg[r] /\ s \notin torn
    <3>1. pc[r] \in {"write", "rename"}
      BY <1>10, <2>2 DEF WriteFails, CacheInv, WriteInv
    <3>2. (file[s] = "none" \/ s \in misread) /\ cost'[s] = 0
      BY <1>0, <1>10, <2>2, <3>1 DEF WriteFails, CacheInv, CommitInv
    <3> QED
      BY <1>3, <2>1, <3>2
  <2>3. CASE s # seg[r] \/ s \in torn
    BY <1>0, <1>1, <1>2, <1>10, <2>1, <2>3 DEF WriteFails
  <2> QED
    BY <2>2, <2>3
<1>11. ASSUME NEW t \in Segments, FileRemoved(t), file[t] # "none", torn' = torn
       PROVE  [StoreOf(s)!Next]_(StoreOf(s)!vars)
  <2>1. CASE s = t /\ s \notin torn
    <3>1. Writing(s) => s \in misread
      BY <1>11, <2>1 DEF Writing, CacheInv, CommitInv
    <3>2. /\ file'[s] = "none" /\ s \notin misread'
          /\ cost'[s] = IF Writing(s) THEN cost[s] ELSE 0
      BY <1>0, <1>11, <2>1 DEF FileRemoved
    <3>3. Writing(s) => cost[s] # 0
      BY <2>1 DEF Writing, CacheInv, CommitInv
    <3>4. CASE Writing(s)
      BY <1>11, <3>1, <3>2, <3>3, <3>4 DEF StoreOf!Next, StoreOf!Lose
    <3>5. CASE ~Writing(s)
      BY <1>11, <3>2, <3>5 DEF StoreOf!Next, StoreOf!Lose
    <3> QED
      BY <3>4, <3>5
  <2>2. CASE s # t \/ s \in torn
    BY <1>0, <1>1, <1>2, <1>11, <2>2 DEF FileRemoved
  <2> QED
    BY <2>1, <2>2
<1>12. ASSUME NEW t \in Segments, Sweep(t) \/ DropCached(t)
       PROVE  [StoreOf(s)!Next]_(StoreOf(s)!vars)
  BY <1>1, <1>11, <1>12 DEF Sweep, DropCached, TmpRemoved
<1>13. CASE Restart
  <2>1. file' = file /\ misread' = misread /\ torn' = torn
    BY <1>13 DEF Restart, diskVars
  <2>2. cost'[s] = IF Writing(s) THEN 0 ELSE cost[s]
    BY <1>13 DEF Restart
  <2>3. Writing(s) /\ s \notin torn => file[s] = "none" \/ s \in misread
    BY DEF Writing, CacheInv, CommitInv
  <2> QED
    BY <1>1, <1>2, <1>3, <2>1, <2>2, <2>3
<1>14. ASSUME NEW r \in Requests, Reread(r)
       PROVE  [StoreOf(s)!Next]_(StoreOf(s)!vars)
  <2>1. file' = file /\ cost' = cost /\ torn' = torn
    BY <1>14 DEF Reread, diskVars
  <2>2. misread' = misread \/ misread' = misread \ {seg[r]}
    BY <1>14 DEF Reread
  <2>3. CASE s \in misread' <=> s \in misread
    BY <1>1, <2>1, <2>3
  <2>4. CASE s \notin misread'
    BY <2>1, <2>4 DEF StoreOf!Next, StoreOf!Confirm
  <2> QED
    BY <2>2, <2>3, <2>4
<1>15. ASSUME NEW r \in Requests, RereadFails(r)
       PROVE  [StoreOf(s)!Next]_(StoreOf(s)!vars)
  <2>1. file' = file /\ misread' = misread \cup {seg[r]} /\ torn' = torn
    BY <1>15 DEF RereadFails, diskVars
  <2>2. CASE s = seg[r]
    <3>1. file[s] # "none" /\ cost'[s] = 0
      BY <1>0, <1>15, <2>2 DEF RereadFails
    <3> QED
      BY <2>1, <2>2, <3>1 DEF StoreOf!Next, StoreOf!Doubt
  <2>3. CASE s # seg[r]
    BY <1>0, <1>1, <1>15, <2>1, <2>3 DEF RereadFails
  <2> QED
    BY <2>2, <2>3
<1>16. CASE UNCHANGED vars
  BY <1>1, <1>16 DEF vars, diskVars, historyVars
<1> QED
  BY <1>4, <1>5, <1>6, <1>7, <1>8, <1>9, <1>10, <1>12, <1>13, <1>14, <1>15,
    <1>16
  DEF Next, RequestStep

\* However many requests miss a segment together, whatever fails or is swept: it
\* is downloaded once, appears whole, and does not change before it is removed or
\* cannot be read, unless a client hung up during a write of it (get_or_fetch,
\* write).
THEOREM CacheIsStore == Spec => ImplementsStore
<1>1. Init => StoreInit
  BY DEF Init, StoreInit, StoreOf!Init
<1>2. CacheInv /\ [Next]_vars => StoreNext
  BY StoreStep DEF StoreNext
<1> QED
  BY <1>1, <1>2, CacheInductive, PTL DEF Spec, ImplementsStore

\* The bytes under the name of a segment do not change while it is cached and
\* those who have the lock can read it (stream.rs:95-102), with the same exception.
THEOREM CachedStays == Spec => NeverRewritten
<1> DEFINE Stays ==
        \A s \in Segments \ (torn' \cup misread) :
            file[s] # "none" /\ file'[s] # "none" => file'[s] = file[s]
<1>1. CacheInv /\ [Next]_vars => [Stays]_vars
  <2> SUFFICES ASSUME CacheInv, [Next]_vars, NEW s \in Segments \ (torn' \cup misread),
                      file[s] # "none", file'[s] # "none"
               PROVE  file'[s] = file[s]
    OBVIOUS
  <2>1. [StoreOf(s)!Next]_(StoreOf(s)!vars)
    BY StoreStep
  <2> QED
    BY <2>1
    DEF StoreOf!Next, StoreOf!vars, StoreOf!Download, StoreOf!Commit,
      StoreOf!Wanted, StoreOf!GiveUp, StoreOf!Lose, StoreOf!Doubt,
      StoreOf!Confirm, StoreOf!Spoil
<1> QED
  BY <1>1, CacheInductive, PTL DEF Spec, NeverRewritten

\* Files that no request hung up on are never served truncated: without the
\* fault "client" the comment of write holds (segment_cache.rs:88-89).
THEOREM NeverTruncatedIfPatient ==
    ASSUME "client" \notin Faults
    PROVE  Spec => []NeverTruncated
<1> DEFINE Untorn == torn = {}
<1>1. Init => Untorn
  BY DEF Init
<1>2. Untorn /\ [Next]_vars => Untorn'
  BY DEF Next, vars, historyVars, Arrive, Read, Join, Acquire, Reread, RereadFails, Fetch,
      FetchFails, Release, HangUp, Create, Fill, Rename, WriteFails, RequestStep, Sweep, DropCached,
      Restart
<1>3. CacheInv /\ Untorn => NeverTruncated
  BY DEF TypeOK, CacheInv, LockInv, WholeInv, NeverTruncated
<1>q. QED
  BY <1>1, <1>2, <1>3, CacheInductive, PTL DEF Spec

=============================================================================
