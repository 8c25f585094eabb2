------------------------ MODULE VideoPipelineProofs ------------------------
(***************************************************************************)
(* The safety of VideoPipeline, for any number of uploads, transcoders,    *)
(* deletions, rungs, segments, faults and restarts.                        *)
(***************************************************************************)
EXTENDS VideoPipelineInv, TLAPS

-----------------------------------------------------------------------------
(* Types *)

\* Initially every variable has its type and no worker is busy.
LEMMA TypeInit == Init => TypeOK /\ BusyInv
<1> SUFFICES ASSUME Init PROVE TypeOK /\ BusyInv
  OBVIOUS
<1>1. UploadTypeOK /\ TableTypeOK
  BY DEF Init, UploadTypeOK, TableTypeOK, UploadStates, JobState
<1>2. 1 \in Rungs
  BY NumRungsAssumption DEF Rungs
<1>3. WorkerTypeOK
  BY <1>2 DEF Init, WorkerTypeOK, Steps, Unsent
<1>4. MessageTypeOK /\ DeleteTypeOK /\ HistoryTypeOK
  BY DEF Init, MessageTypeOK, DeleteTypeOK, HistoryTypeOK
<1>5. BusyInv
  BY DEF Init, BusyInv
<1> QED
  BY <1>1, <1>3, <1>4, <1>5 DEF TypeOK

\* The message a segment is stored in, built from typed values.
LEMMA MessageType ==
    ASSUME TypeOK, NEW v \in Videos, NEW r \in Rungs, NEW p \in Segments
    PROVE  /\ MessageOf(v, r, p) \in Message
           /\ MessageOf(v, r, p).video = v
           /\ MessageOf(v, r, p).rung = r
           /\ MessageOf(v, r, p).pos = p
BY DEF TypeOK, TableTypeOK, MessageOf, Message

\* A worker that is not idle is on a video and on a rung of it.
LEMMA BusyType ==
    ASSUME TypeOK, BusyInv, NEW w \in Workers, pc[w] # "idle"
    PROVE  cur[w] \in Videos /\ rung[w] \in Rungs
BY DEF TypeOK, WorkerTypeOK, BusyInv

\* Types are kept by every step: a busy worker is always on some video, so it
\* never writes a row or a file of none.
LEMMA TypeStep == TypeOK /\ BusyInv /\ [Next]_vars => TypeOK' /\ BusyInv'
<1> SUFFICES ASSUME TypeOK, BusyInv, [Next]_vars PROVE TypeOK' /\ BusyInv'
  OBVIOUS
<1>0. /\ UploadTypeOK /\ TableTypeOK /\ MessageTypeOK
      /\ WorkerTypeOK /\ DeleteTypeOK /\ HistoryTypeOK
  BY DEF TypeOK
<1>1. CASE UNCHANGED vars
  BY <1>1 DEF vars, uploadVars, tableVars, workerVars, deleteVars, historyVars,
     TypeOK, UploadTypeOK, TableTypeOK, MessageTypeOK, WorkerTypeOK,
     DeleteTypeOK, HistoryTypeOK, BusyInv
<1>2. ASSUME NEW v \in Videos, ReceiveFile(v) PROVE TypeOK' /\ BusyInv'
  <2>1. UploadTypeOK'
    BY <1>2, <1>0 DEF ReceiveFile, UploadTypeOK, UploadStates, UploadRunning
  <2>2. /\ TableTypeOK' /\ MessageTypeOK' /\ WorkerTypeOK'
       /\ DeleteTypeOK' /\ HistoryTypeOK'
    BY <1>2, <1>0
    DEF ReceiveFile, TableTypeOK, MessageTypeOK, WorkerTypeOK, DeleteTypeOK,
        HistoryTypeOK, uploadVars, tableVars, workerVars, deleteVars,
        historyVars
  <2>3. BusyInv'
    BY <1>2, <1>0 DEF ReceiveFile, BusyInv, WorkerTypeOK, workerVars
  <2> QED
    BY <2>1, <2>2, <2>3 DEF TypeOK
<1>3. ASSUME NEW v \in Videos, FlushFile(v) PROVE TypeOK' /\ BusyInv'
  <2>1. UploadTypeOK'
    BY <1>3, <1>0 DEF FlushFile, UploadTypeOK, UploadStates, UploadRunning
  <2>2. /\ TableTypeOK' /\ MessageTypeOK' /\ WorkerTypeOK'
       /\ DeleteTypeOK' /\ HistoryTypeOK'
    BY <1>3, <1>0
    DEF FlushFile, TableTypeOK, MessageTypeOK, WorkerTypeOK, DeleteTypeOK,
        HistoryTypeOK, uploadVars, tableVars, workerVars, deleteVars,
        historyVars
  <2>3. BusyInv'
    BY <1>3, <1>0 DEF FlushFile, BusyInv, WorkerTypeOK, workerVars
  <2> QED
    BY <2>1, <2>2, <2>3 DEF TypeOK
<1>4. ASSUME NEW v \in Videos, RejectUpload(v) PROVE TypeOK' /\ BusyInv'
  <2>1. UploadTypeOK'
    BY <1>4, <1>0
    DEF RejectUpload, UploadTypeOK, UploadStates, UploadRunning
  <2>2. /\ TableTypeOK' /\ MessageTypeOK' /\ WorkerTypeOK'
       /\ DeleteTypeOK' /\ HistoryTypeOK'
    BY <1>4, <1>0
    DEF RejectUpload, TableTypeOK, MessageTypeOK, WorkerTypeOK,
        DeleteTypeOK, HistoryTypeOK, uploadVars, tableVars, workerVars,
        deleteVars, historyVars
  <2>3. BusyInv'
    BY <1>4, <1>0 DEF RejectUpload, BusyInv, WorkerTypeOK, workerVars
  <2> QED
    BY <2>1, <2>2, <2>3 DEF TypeOK
<1>5. ASSUME NEW v \in Videos, CreateVideo(v) PROVE TypeOK' /\ BusyInv'
  <2>1. UploadTypeOK'
    BY <1>5, <1>0 DEF CreateVideo, UploadTypeOK, UploadStates, UploadRunning
  <2>2. TableTypeOK'
    BY <1>5, <1>0 DEF CreateVideo, TableTypeOK, VideoStatus, JobState
  <2>3. /\ MessageTypeOK' /\ WorkerTypeOK'
       /\ DeleteTypeOK' /\ HistoryTypeOK'
    BY <1>5, <1>0
    DEF CreateVideo, MessageTypeOK, WorkerTypeOK, DeleteTypeOK,
        HistoryTypeOK, uploadVars, tableVars, workerVars, deleteVars,
        historyVars
  <2>4. BusyInv'
    BY <1>5, <1>0 DEF CreateVideo, BusyInv, WorkerTypeOK, workerVars
  <2> QED
    BY <2>1, <2>2, <2>3, <2>4 DEF TypeOK
<1>6. ASSUME NEW v \in Videos, CreateJob(v) PROVE TypeOK' /\ BusyInv'
  <2>1. UploadTypeOK'
    BY <1>6, <1>0 DEF CreateJob, UploadTypeOK, UploadStates, UploadRunning
  <2>2. TableTypeOK'
    BY <1>6, <1>0 DEF CreateJob, TableTypeOK, VideoStatus, JobState
  <2>3. /\ MessageTypeOK' /\ WorkerTypeOK'
       /\ DeleteTypeOK' /\ HistoryTypeOK'
    BY <1>6, <1>0
    DEF CreateJob, MessageTypeOK, WorkerTypeOK, DeleteTypeOK, HistoryTypeOK,
        uploadVars, tableVars, workerVars, deleteVars, historyVars
  <2>4. BusyInv'
    BY <1>6, <1>0 DEF CreateJob, BusyInv, WorkerTypeOK, workerVars
  <2> QED
    BY <2>1, <2>2, <2>3, <2>4 DEF TypeOK
<1>7. ASSUME NEW v \in Videos, CreateFails(v) PROVE TypeOK' /\ BusyInv'
  <2>1. UploadTypeOK'
    BY <1>7, <1>0 DEF CreateFails, UploadTypeOK, UploadStates, UploadRunning
  <2>2. /\ TableTypeOK' /\ MessageTypeOK' /\ WorkerTypeOK'
       /\ DeleteTypeOK' /\ HistoryTypeOK'
    BY <1>7, <1>0
    DEF CreateFails, TableTypeOK, MessageTypeOK, WorkerTypeOK, DeleteTypeOK,
        HistoryTypeOK, uploadVars, tableVars, workerVars, deleteVars,
        historyVars
  <2>3. BusyInv'
    BY <1>7, <1>0 DEF CreateFails, BusyInv, WorkerTypeOK, workerVars
  <2> QED
    BY <2>1, <2>2, <2>3 DEF TypeOK
<1>8. ASSUME NEW v \in Videos, DropUpload(v) PROVE TypeOK' /\ BusyInv'
  <2>1. UploadTypeOK'
    BY <1>8, <1>0
    DEF DropUpload, UploadTypeOK, UploadStates, UploadRunning, SourceRemoved
  <2>2. /\ TableTypeOK' /\ MessageTypeOK' /\ WorkerTypeOK'
       /\ DeleteTypeOK' /\ HistoryTypeOK'
    BY <1>8, <1>0
    DEF DropUpload, TableTypeOK, MessageTypeOK, WorkerTypeOK, DeleteTypeOK,
        HistoryTypeOK, uploadVars, tableVars, workerVars, deleteVars,
        historyVars
  <2>3. BusyInv'
    BY <1>8, <1>0 DEF DropUpload, BusyInv, WorkerTypeOK, workerVars
  <2> QED
    BY <2>1, <2>2, <2>3 DEF TypeOK
<1>9. ASSUME NEW v \in Videos, AbandonUpload(v) PROVE TypeOK' /\ BusyInv'
  <2>1. UploadTypeOK'
    BY <1>9, <1>0
    DEF AbandonUpload, UploadTypeOK, UploadStates, UploadRunning
  <2>2. /\ TableTypeOK' /\ MessageTypeOK' /\ WorkerTypeOK'
       /\ DeleteTypeOK' /\ HistoryTypeOK'
    BY <1>9, <1>0
    DEF AbandonUpload, TableTypeOK, MessageTypeOK, WorkerTypeOK,
        DeleteTypeOK, HistoryTypeOK, uploadVars, tableVars, workerVars,
        deleteVars, historyVars
  <2>3. BusyInv'
    BY <1>9, <1>0 DEF AbandonUpload, BusyInv, WorkerTypeOK, workerVars
  <2> QED
    BY <2>1, <2>2, <2>3 DEF TypeOK
<1>10. ASSUME NEW w \in Workers, NEW v \in Videos, Claim(w, v)
       PROVE  TypeOK' /\ BusyInv'
  <2>1. TableTypeOK'
    BY <1>10, <1>0 DEF Claim, TableTypeOK, VideoStatus, JobState
  <2>2. WorkerTypeOK'
    BY <1>10, <1>0 DEF Claim, WorkerTypeOK, Steps
  <2>3. /\ UploadTypeOK' /\ MessageTypeOK'
       /\ DeleteTypeOK' /\ HistoryTypeOK'
    BY <1>10, <1>0
    DEF Claim, UploadTypeOK, MessageTypeOK, DeleteTypeOK, HistoryTypeOK,
        uploadVars, tableVars, workerVars, deleteVars, historyVars
  <2>4. BusyInv'
    BY <1>10, <1>0, NobodyAssumption
    DEF Claim, BusyInv, WorkerTypeOK, workerVars
  <2> QED
    BY <2>1, <2>2, <2>3, <2>4 DEF TypeOK
<1>11. ASSUME NEW w \in Workers, FinishJob(w) PROVE TypeOK' /\ BusyInv'
  <2>1. cur[w] \in Videos /\ rung[w] \in Rungs
    BY <1>11, BusyType DEF FinishJob
  <2>2. TableTypeOK'
    BY <1>11, <1>0, <2>1
    DEF FinishJob, TableTypeOK, VideoStatus, JobState, SetJob
  <2>3. WorkerTypeOK'
    BY <1>11, <1>0, <2>1 DEF FinishJob, WorkerTypeOK, Steps, SetJob
  <2>4. /\ UploadTypeOK' /\ MessageTypeOK'
       /\ DeleteTypeOK' /\ HistoryTypeOK'
    BY <1>11, <1>0
    DEF FinishJob, UploadTypeOK, MessageTypeOK, DeleteTypeOK, HistoryTypeOK,
        uploadVars, tableVars, workerVars, deleteVars, historyVars
  <2>5. BusyInv'
    BY <1>11, <1>0, <2>1 DEF FinishJob, BusyInv, WorkerTypeOK, workerVars
  <2> QED
    BY <2>2, <2>3, <2>4, <2>5 DEF TypeOK
<1>12. ASSUME NEW w \in Workers, FailJob(w) PROVE TypeOK' /\ BusyInv'
  <2>1. cur[w] \in Videos /\ rung[w] \in Rungs
    BY <1>12, BusyType DEF FailJob
  <2>2. TableTypeOK'
    BY <1>12, <1>0, <2>1
    DEF FailJob, TableTypeOK, VideoStatus, JobState, SetJob, AfterFailJob
  <2>3. WorkerTypeOK'
    BY <1>12, <1>0, <2>1
    DEF FailJob, WorkerTypeOK, Steps, SetJob, AfterFailJob
  <2>4. /\ UploadTypeOK' /\ MessageTypeOK'
       /\ DeleteTypeOK' /\ HistoryTypeOK'
    BY <1>12, <1>0
    DEF FailJob, UploadTypeOK, MessageTypeOK, DeleteTypeOK, HistoryTypeOK,
        uploadVars, tableVars, workerVars, deleteVars, historyVars
  <2>5. BusyInv'
    BY <1>12, <1>0, <2>1
    DEF FailJob, BusyInv, WorkerTypeOK, workerVars, AfterFailJob
  <2> QED
    BY <2>2, <2>3, <2>4, <2>5 DEF TypeOK
<1>13. ASSUME NEW w \in Workers, SetFailed(w) PROVE TypeOK' /\ BusyInv'
  <2>1. cur[w] \in Videos /\ rung[w] \in Rungs
    BY <1>13, BusyType DEF SetFailed
  <2>2. TableTypeOK'
    BY <1>13, <1>0, <2>1
    DEF SetFailed, TableTypeOK, VideoStatus, JobState, SetStatus
  <2>3. WorkerTypeOK'
    BY <1>13, <1>0, <2>1 DEF SetFailed, WorkerTypeOK, Steps, SetStatus
  <2>4. /\ UploadTypeOK' /\ MessageTypeOK'
       /\ DeleteTypeOK' /\ HistoryTypeOK'
    BY <1>13, <1>0
    DEF SetFailed, UploadTypeOK, MessageTypeOK, DeleteTypeOK, HistoryTypeOK,
        uploadVars, tableVars, workerVars, deleteVars, historyVars
  <2>5. BusyInv'
    BY <1>13, <1>0, <2>1 DEF SetFailed, BusyInv, WorkerTypeOK, workerVars
  <2> QED
    BY <2>2, <2>3, <2>4, <2>5 DEF TypeOK
<1>14. ASSUME NEW w \in Workers, DropSource(w) PROVE TypeOK' /\ BusyInv'
  <2>1. UploadTypeOK'
    BY <1>14, <1>0
    DEF DropSource, UploadTypeOK, UploadStates, UploadRunning, SourceDue,
        SourceRemoved
  <2>2. WorkerTypeOK'
    BY <1>14, <1>0
    DEF DropSource, WorkerTypeOK, Steps, SourceDue, SourceRemoved
  <2>3. /\ TableTypeOK' /\ MessageTypeOK'
       /\ DeleteTypeOK' /\ HistoryTypeOK'
    BY <1>14, <1>0
    DEF DropSource, TableTypeOK, MessageTypeOK, DeleteTypeOK, HistoryTypeOK,
        uploadVars, tableVars, workerVars, deleteVars, historyVars
  <2>4. BusyInv'
    BY <1>14, <1>0
    DEF DropSource, BusyInv, WorkerTypeOK, workerVars, SourceDue
  <2> QED
    BY <2>1, <2>2, <2>3, <2>4 DEF TypeOK
<1>15. ASSUME NEW w \in Workers, DropScratch(w) PROVE TypeOK' /\ BusyInv'
  <2>1. Unsent \in [Segments -> {"waiting", "sent", "lost"}] /\ 1 \in Rungs
    BY NumRungsAssumption DEF Unsent, Rungs
  <2>2. WorkerTypeOK'
    BY <1>15, <1>0, <2>1 DEF DropScratch, WorkerTypeOK, Steps
  <2>3. /\ UploadTypeOK' /\ TableTypeOK' /\ MessageTypeOK'
       /\ DeleteTypeOK' /\ HistoryTypeOK'
    BY <1>15, <1>0
    DEF DropScratch, UploadTypeOK, TableTypeOK, MessageTypeOK, DeleteTypeOK,
        HistoryTypeOK, uploadVars, tableVars, workerVars, deleteVars,
        historyVars
  <2>4. BusyInv'
    BY <1>15, <1>0 DEF DropScratch, BusyInv, WorkerTypeOK, workerVars
  <2> QED
    BY <2>2, <2>3, <2>4 DEF TypeOK
<1>16. ASSUME NEW w \in Workers, Load(w) PROVE TypeOK' /\ BusyInv'
  <2>1. WorkerTypeOK'
    BY <1>16, <1>0 DEF Load, WorkerTypeOK, Steps
  <2>2. /\ UploadTypeOK' /\ TableTypeOK' /\ MessageTypeOK'
       /\ DeleteTypeOK' /\ HistoryTypeOK'
    BY <1>16, <1>0
    DEF Load, UploadTypeOK, TableTypeOK, MessageTypeOK, DeleteTypeOK,
        HistoryTypeOK, uploadVars, tableVars, workerVars, deleteVars,
        historyVars
  <2>3. BusyInv'
    BY <1>16, <1>0 DEF Load, BusyInv, WorkerTypeOK, workerVars
  <2> QED
    BY <2>1, <2>2, <2>3 DEF TypeOK
<1>17. ASSUME NEW w \in Workers, Begin(w) PROVE TypeOK' /\ BusyInv'
  <2>1. cur[w] \in Videos /\ rung[w] \in Rungs
    BY <1>17, BusyType DEF Begin
  <2>2. TableTypeOK'
    BY <1>17, <1>0, <2>1
    DEF Begin, TableTypeOK, VideoStatus, JobState, SetStatus
  <2>3. WorkerTypeOK'
    BY <1>17, <1>0, <2>1 DEF Begin, WorkerTypeOK, Steps, SetStatus
  <2>4. /\ UploadTypeOK' /\ MessageTypeOK'
       /\ DeleteTypeOK' /\ HistoryTypeOK'
    BY <1>17, <1>0
    DEF Begin, UploadTypeOK, MessageTypeOK, DeleteTypeOK, HistoryTypeOK,
        uploadVars, tableVars, workerVars, deleteVars, historyVars
  <2>5. BusyInv'
    BY <1>17, <1>0, <2>1 DEF Begin, BusyInv, WorkerTypeOK, workerVars
  <2> QED
    BY <2>2, <2>3, <2>4, <2>5 DEF TypeOK
<1>18. ASSUME NEW w \in Workers, Encode(w) PROVE TypeOK' /\ BusyInv'
  <2>1. 1 \in Rungs /\ \A r \in Rungs : r < NumRungs => r + 1 \in Rungs
    BY NumRungsAssumption DEF Rungs
  <2>2. rung' \in [Workers -> Rungs]
    BY <1>18, <1>0, <2>1 DEF Encode, WorkerTypeOK
  <2>3. pc' \in [Workers -> Steps]
    BY <1>18, <1>0 DEF Encode, WorkerTypeOK, Steps
  <2>4. WorkerTypeOK'
    BY <1>18, <1>0, <2>2, <2>3 DEF Encode, WorkerTypeOK
  <2>5. /\ UploadTypeOK' /\ TableTypeOK' /\ MessageTypeOK'
       /\ DeleteTypeOK' /\ HistoryTypeOK'
    BY <1>18, <1>0
    DEF Encode, UploadTypeOK, TableTypeOK, MessageTypeOK, DeleteTypeOK,
        HistoryTypeOK, uploadVars, tableVars, workerVars, deleteVars,
        historyVars
  <2>6. BusyInv'
    BY <1>18, <1>0 DEF Encode, BusyInv, WorkerTypeOK, workerVars
  <2> QED
    BY <2>4, <2>5, <2>6 DEF TypeOK
<1>19. ASSUME NEW w \in Workers, BeginUpload(w) PROVE TypeOK' /\ BusyInv'
  <2>1. cur[w] \in Videos /\ rung[w] \in Rungs
    BY <1>19, BusyType DEF BeginUpload
  <2>2. TableTypeOK'
    BY <1>19, <1>0, <2>1
    DEF BeginUpload, TableTypeOK, VideoStatus, JobState, SetStatus
  <2>3. WorkerTypeOK'
    BY <1>19, <1>0, <2>1 DEF BeginUpload, WorkerTypeOK, Steps, SetStatus
  <2>4. /\ UploadTypeOK' /\ MessageTypeOK'
       /\ DeleteTypeOK' /\ HistoryTypeOK'
    BY <1>19, <1>0
    DEF BeginUpload, UploadTypeOK, MessageTypeOK, DeleteTypeOK,
        HistoryTypeOK, uploadVars, tableVars, workerVars, deleteVars,
        historyVars
  <2>5. BusyInv'
    BY <1>19, <1>0, <2>1 DEF BeginUpload, BusyInv, WorkerTypeOK, workerVars
  <2> QED
    BY <2>2, <2>3, <2>4, <2>5 DEF TypeOK
<1>20. ASSUME NEW w \in Workers, CreateRendition(w)
       PROVE  TypeOK' /\ BusyInv'
  <2>1. cur[w] \in Videos /\ rung[w] \in Rungs
    BY <1>20, BusyType DEF CreateRendition
  <2>2. TableTypeOK'
    BY <1>20, <1>0, <2>1
    DEF CreateRendition, TableTypeOK, VideoStatus, JobState,
        RenditionAccepted
  <2>3. Unsent \in [Segments -> {"waiting", "sent", "lost"}]
    BY DEF Unsent
  <2>4. sent' \in [Workers -> [Segments -> {"waiting", "sent", "lost"}]]
    BY <1>20, <1>0, <2>3 DEF CreateRendition, WorkerTypeOK
  <2>5. pc' \in [Workers -> Steps]
    BY <1>20, <1>0 DEF CreateRendition, WorkerTypeOK, Steps
  <2>6. WorkerTypeOK'
    BY <1>20, <1>0, <2>4, <2>5 DEF CreateRendition, WorkerTypeOK
  <2>7. /\ UploadTypeOK' /\ MessageTypeOK'
       /\ DeleteTypeOK' /\ HistoryTypeOK'
    BY <1>20, <1>0
    DEF CreateRendition, UploadTypeOK, MessageTypeOK, DeleteTypeOK,
        HistoryTypeOK, uploadVars, tableVars, workerVars, deleteVars,
        historyVars
  <2>8. BusyInv'
    BY <1>20, <1>0, <2>1
    DEF CreateRendition, BusyInv, WorkerTypeOK, workerVars
  <2> QED
    BY <2>2, <2>6, <2>7, <2>8 DEF TypeOK
<1>21. ASSUME NEW w \in Workers, NEW p \in Segments, Send(w, p)
       PROVE  TypeOK' /\ BusyInv'
  <2>1. cur[w] \in Videos /\ rung[w] \in Rungs
    BY <1>21, BusyType DEF Send
  <2>2. MessageOf(cur[w], rung[w], p) \in Message
    BY <2>1, MessageType
  <2>3. MessageTypeOK'
    BY <1>21, <1>0, <2>2 DEF Send, MessageTypeOK, tableVars
  <2>4. sent' \in [Workers -> [Segments -> {"waiting", "sent", "lost"}]]
    <3>1. PICK x \in {"sent", "lost"} : sent' = [sent EXCEPT ![w][p] = x]
      BY <1>21 DEF Send
    <3>2. sent \in [Workers -> [Segments -> {"waiting", "sent", "lost"}]]
      BY <1>0 DEF WorkerTypeOK
    <3>3. [sent[w] EXCEPT ![p] = x] \in [Segments -> {"waiting", "sent", "lost"}]
      BY <3>1, <3>2
    <3> QED
      BY <3>1, <3>2, <3>3
  <2>5. WorkerTypeOK'
    BY <1>21, <1>0, <2>4 DEF Send, WorkerTypeOK
  <2>6. /\ UploadTypeOK' /\ TableTypeOK'
       /\ DeleteTypeOK' /\ HistoryTypeOK'
    BY <1>21, <1>0
    DEF Send, UploadTypeOK, TableTypeOK, DeleteTypeOK, HistoryTypeOK,
        uploadVars, tableVars, workerVars, deleteVars, historyVars
  <2>7. BusyInv'
    BY <1>21, <1>0, <2>1 DEF Send, BusyInv, WorkerTypeOK, workerVars
  <2> QED
    BY <2>3, <2>5, <2>6, <2>7 DEF TypeOK
<1>22. ASSUME NEW w \in Workers, InsertSegments(w) PROVE TypeOK' /\ BusyInv'
  <2>1. cur[w] \in Videos /\ rung[w] \in Rungs
    BY <1>22, BusyType DEF InsertSegments
  <2>2. \A p \in Segments : MessageOf(cur[w], rung[w], p) \in Message
    BY <2>1, MessageType
  <2>3. MessageTypeOK'
    BY <1>22, <1>0, <2>2 DEF InsertSegments, MessageTypeOK, Delivered
  <2>4. 1 \in Rungs /\ \A r \in Rungs : r < NumRungs => r + 1 \in Rungs
    BY NumRungsAssumption DEF Rungs
  <2>5. rung' \in [Workers -> Rungs]
    BY <1>22, <1>0, <2>4 DEF InsertSegments, WorkerTypeOK
  <2>6. pc' \in [Workers -> Steps]
    BY <1>22, <1>0 DEF InsertSegments, WorkerTypeOK, Steps
  <2>7. WorkerTypeOK'
    BY <1>22, <1>0, <2>5, <2>6 DEF InsertSegments, WorkerTypeOK
  <2>8. /\ UploadTypeOK' /\ TableTypeOK'
       /\ DeleteTypeOK' /\ HistoryTypeOK'
    BY <1>22, <1>0
    DEF InsertSegments, UploadTypeOK, TableTypeOK, DeleteTypeOK,
        HistoryTypeOK, uploadVars, tableVars, workerVars, deleteVars,
        historyVars
  <2>9. BusyInv'
    BY <1>22, <1>0, <2>1
    DEF InsertSegments, BusyInv, WorkerTypeOK, workerVars
  <2> QED
    BY <2>3, <2>7, <2>8, <2>9 DEF TypeOK
<1>23. ASSUME NEW w \in Workers, Publish(w) PROVE TypeOK' /\ BusyInv'
  <2>1. cur[w] \in Videos /\ rung[w] \in Rungs
    BY <1>23, BusyType DEF Publish
  <2>2. TableTypeOK'
    BY <1>23, <1>0, <2>1
    DEF Publish, TableTypeOK, VideoStatus, JobState, SetStatus
  <2>3. WorkerTypeOK'
    BY <1>23, <1>0, <2>1 DEF Publish, WorkerTypeOK, Steps, SetStatus
  <2>4. /\ UploadTypeOK' /\ MessageTypeOK'
       /\ DeleteTypeOK' /\ HistoryTypeOK'
    BY <1>23, <1>0
    DEF Publish, UploadTypeOK, MessageTypeOK, DeleteTypeOK, HistoryTypeOK,
        uploadVars, tableVars, workerVars, deleteVars, historyVars
  <2>5. BusyInv'
    BY <1>23, <1>0, <2>1 DEF Publish, BusyInv, WorkerTypeOK, workerVars
  <2> QED
    BY <2>2, <2>3, <2>4, <2>5 DEF TypeOK
<1>24. ASSUME NEW w \in Workers, ProcessFails(w) PROVE TypeOK' /\ BusyInv'
  <2>1. WorkerTypeOK'
    BY <1>24, <1>0 DEF ProcessFails, WorkerTypeOK, Steps, ErrorPoints
  <2>2. /\ UploadTypeOK' /\ TableTypeOK' /\ MessageTypeOK'
       /\ DeleteTypeOK' /\ HistoryTypeOK'
    BY <1>24, <1>0
    DEF ProcessFails, UploadTypeOK, TableTypeOK, MessageTypeOK,
        DeleteTypeOK, HistoryTypeOK, uploadVars, tableVars, workerVars,
        deleteVars, historyVars
  <2>3. BusyInv'
    BY <1>24, <1>0
    DEF ProcessFails, BusyInv, WorkerTypeOK, workerVars, ErrorPoints
  <2> QED
    BY <2>1, <2>2, <2>3 DEF TypeOK
<1>25. ASSUME NEW w \in Workers, IdlePoll(w) PROVE TypeOK' /\ BusyInv'
  BY <1>25, <1>1 DEF IdlePoll
<1>26. ASSUME NEW d \in Deleters, NEW v \in Videos, DelBegin(d, v)
       PROVE  TypeOK' /\ BusyInv'
  <2>1. MessagesOf(rows, v) \in SUBSET Message
    BY <1>0 DEF MessageTypeOK, MessagesOf
  <2>2. (status[v] = "ready") \in BOOLEAN
    OBVIOUS
  <2>3. DeleteTypeOK'
    BY <1>26, <1>0, <2>1, <2>2 DEF DelBegin, DeleteTypeOK
  <2>4. HistoryTypeOK'
    BY <1>26, <1>0 DEF DelBegin, HistoryTypeOK, MessagesOf
  <2>5. /\ UploadTypeOK' /\ TableTypeOK'
       /\ MessageTypeOK' /\ WorkerTypeOK'
    BY <1>26, <1>0
    DEF DelBegin, UploadTypeOK, TableTypeOK, MessageTypeOK, WorkerTypeOK,
        uploadVars, tableVars, workerVars, deleteVars, historyVars
  <2>6. BusyInv'
    BY <1>26, <1>0 DEF DelBegin, BusyInv, WorkerTypeOK, workerVars
  <2> QED
    BY <2>3, <2>4, <2>5, <2>6 DEF TypeOK
<1>27. ASSUME NEW d \in Deleters, NEW m \in delMsgs[d], DelMessage(d, m)
       PROVE  TypeOK' /\ BusyInv'
  <2>1. MessageTypeOK'
    BY <1>27, <1>0 DEF DelMessage, MessageTypeOK, tableVars
  <2>2. m \in Message /\ delMsgs[d] \ {m} \in SUBSET Message
    BY <1>0 DEF DeleteTypeOK
  <2>3. DeleteTypeOK'
    BY <1>27, <1>0, <2>2 DEF DelMessage, DeleteTypeOK
  <2>4. HistoryTypeOK'
    BY <1>27, <1>0, <2>2 DEF DelMessage, HistoryTypeOK
  <2>5. UploadTypeOK' /\ TableTypeOK' /\ WorkerTypeOK'
    BY <1>27, <1>0
    DEF DelMessage, UploadTypeOK, TableTypeOK, WorkerTypeOK, uploadVars,
        tableVars, workerVars, deleteVars, historyVars
  <2>6. BusyInv'
    BY <1>27, <1>0 DEF DelMessage, BusyInv, WorkerTypeOK, workerVars
  <2> QED
    BY <2>1, <2>3, <2>4, <2>5, <2>6 DEF TypeOK
<1>28. ASSUME NEW d \in Deleters, DelRow(d) PROVE TypeOK' /\ BusyInv'
  <2>1. status' \in [Videos -> VideoStatus \cup {"unregistered", "deleted"}]
    BY <1>28, <1>0 DEF DelRow, TableTypeOK
  <2>2. job' \in [Videos -> JobState \cup {"none"}]
    BY <1>28, <1>0 DEF DelRow, TableTypeOK
  <2>3. TableTypeOK'
    BY <1>28, <1>0, <2>1, <2>2 DEF DelRow, TableTypeOK
  <2>4. MessageTypeOK'
    BY <1>28, <1>0 DEF DelRow, MessageTypeOK, DelRowDue, ResetDelete
  <2>5. DeleteTypeOK'
    BY <1>28, <1>0 DEF DelRow, DeleteTypeOK, DelRowDue, ResetDelete
  <2>6. UploadTypeOK' /\ WorkerTypeOK' /\ HistoryTypeOK'
    BY <1>28, <1>0
    DEF DelRow, ResetDelete, UploadTypeOK, WorkerTypeOK, HistoryTypeOK,
        uploadVars, tableVars, workerVars, deleteVars, historyVars
  <2>7. BusyInv'
    BY <1>28, <1>0 DEF DelRow, BusyInv, WorkerTypeOK, workerVars
  <2> QED
    BY <2>3, <2>4, <2>5, <2>6, <2>7 DEF TypeOK
<1>29. ASSUME NEW d \in Deleters, DelAbort(d) PROVE TypeOK' /\ BusyInv'
  <2>1. DeleteTypeOK'
    BY <1>29, <1>0 DEF DelAbort, DeleteTypeOK, ResetDelete
  <2>2. /\ UploadTypeOK' /\ TableTypeOK' /\ MessageTypeOK'
       /\ WorkerTypeOK' /\ HistoryTypeOK'
    BY <1>29, <1>0
    DEF DelAbort, ResetDelete, UploadTypeOK, TableTypeOK, MessageTypeOK,
        WorkerTypeOK, HistoryTypeOK, uploadVars, tableVars, workerVars,
        deleteVars, historyVars
  <2>3. BusyInv'
    BY <1>29, <1>0 DEF DelAbort, BusyInv, WorkerTypeOK, workerVars
  <2> QED
    BY <2>1, <2>2, <2>3 DEF TypeOK
<1>30. CASE Restart
  <2>1. UploadTypeOK'
    BY <1>30, <1>0
    DEF Restart, UploadTypeOK, UploadStates, UploadRunning, Requeued
  <2>2. TableTypeOK'
    BY <1>30, <1>0 DEF Restart, TableTypeOK, VideoStatus, JobState, Requeued
  <2>3. Unsent \in [Segments -> {"waiting", "sent", "lost"}] /\ 1 \in Rungs
    BY NumRungsAssumption DEF Unsent, Rungs
  <2>4. WorkerTypeOK'
    BY <1>30, <1>0, <2>3 DEF Restart, WorkerTypeOK, Steps
  <2>5. DeleteTypeOK'
    BY <1>30, <1>0 DEF Restart, DeleteTypeOK, Requeued
  <2>6. HistoryTypeOK'
    BY <1>30, <1>0 DEF Restart, HistoryTypeOK, Requeued
  <2>7. MessageTypeOK'
    BY <1>30, <1>0
    DEF Restart, MessageTypeOK, uploadVars, tableVars, workerVars,
        deleteVars, historyVars
  <2>8. BusyInv'
    BY <1>30, <1>0 DEF Restart, BusyInv, WorkerTypeOK, workerVars
  <2> QED
    BY <2>1, <2>2, <2>4, <2>5, <2>6, <2>7, <2>8 DEF TypeOK
<1> QED
  BY <1>1, <1>2, <1>3, <1>4, <1>5, <1>6, <1>7, <1>8, <1>9, <1>10, <1>11,
     <1>12, <1>13, <1>14, <1>15, <1>16, <1>17, <1>18, <1>19, <1>20, <1>21,
     <1>22, <1>23, <1>24, <1>25, <1>26, <1>27, <1>28, <1>29, <1>30
  DEF Next, UploadStep, WorkerStep, DeleteStep

\* Every value the program keeps has the type its column or local has.
THEOREM TypeCorrect == Spec => []TypeOK
<1>1. Init => TypeOK /\ BusyInv
  BY TypeInit
<1>2. (TypeOK /\ BusyInv) /\ [Next]_vars => (TypeOK /\ BusyInv)'
  BY TypeStep
<1> QED
  BY <1>1, <1>2, PTL DEF Spec

\* A deletion is of a video that has, or had, a row.
LEMMA DelStep ==
    TypeOK /\ BusyInv /\ RegInv /\ DelInv /\ [Next]_vars =>
        DelInv'
<1> SUFFICES ASSUME TypeOK, BusyInv, RegInv, DelInv, [Next]_vars
    PROVE  DelInv'
  OBVIOUS
<1>0. /\ status \in [Videos -> VideoStatus \cup {"unregistered", "deleted"}]
      /\ delPc \in [Deleters -> {"idle", "messages"}]
      /\ delVideo \in [Deleters -> Videos \cup {Nobody}]
  BY DEF TypeOK, TableTypeOK, DeleteTypeOK
<1>1. ASSUME UNCHANGED <<status, delPc, delVideo>>
      PROVE  DelInv'
  BY <1>1 DEF DelInv
<1>2. CASE \/ UNCHANGED vars
           \/ \E v \in Videos : \/ ReceiveFile(v) \/ FlushFile(v)
                                \/ RejectUpload(v) \/ CreateJob(v)
                                \/ CreateFails(v) \/ DropUpload(v)
                                \/ AbandonUpload(v)
           \/ \E w \in Workers : \E v \in Videos : Claim(w, v)
           \/ \E w \in Workers : \/ FinishJob(w) \/ FailJob(w) \/ DropSource(w)
                                 \/ DropScratch(w) \/ Load(w) \/ Encode(w)
                                 \/ CreateRendition(w) \/ InsertSegments(w)
                                 \/ ProcessFails(w) \/ IdlePoll(w)
           \/ \E w \in Workers : \E p \in Segments : Send(w, p)
           \/ \E d \in Deleters : \E m \in delMsgs[d] : DelMessage(d, m)
  BY <1>1, <1>2
  DEF vars, ReceiveFile, FlushFile, RejectUpload, CreateJob, CreateFails,
      DropUpload, AbandonUpload, Claim, FinishJob, FailJob, DropSource,
      DropScratch, Load, Encode, CreateRendition, Send, InsertSegments,
      ProcessFails, IdlePoll, DelMessage, tableVars, deleteVars
<1>3. ASSUME NEW v \in Videos, CreateVideo(v) PROVE DelInv'
  BY <1>3, <1>0 DEF CreateVideo, DelInv, RegInv, tableVars, deleteVars
<1>4. ASSUME NEW w \in Workers, SetFailed(w) PROVE DelInv'
  BY <1>4, <1>0
  DEF SetFailed, SetStatus, DelInv, RegInv, tableVars, deleteVars
<1>5. ASSUME NEW w \in Workers, Begin(w) PROVE DelInv'
  BY <1>5, <1>0 DEF Begin, SetStatus, DelInv, RegInv, tableVars, deleteVars
<1>6. ASSUME NEW w \in Workers, BeginUpload(w) PROVE DelInv'
  BY <1>6, <1>0
  DEF BeginUpload, SetStatus, DelInv, RegInv, tableVars, deleteVars
<1>7. ASSUME NEW w \in Workers, Publish(w) PROVE DelInv'
  BY <1>7, <1>0
  DEF Publish, SetStatus, DelInv, RegInv, tableVars, deleteVars
<1>8. ASSUME NEW d \in Deleters, NEW v \in Videos, DelBegin(d, v)
      PROVE  DelInv'
  BY <1>8, <1>0, NobodyAssumption
  DEF DelBegin, MessagesOf, DelInv, RegInv, tableVars, deleteVars
<1>9. ASSUME NEW d \in Deleters, DelRow(d) PROVE DelInv'
  BY <1>9, <1>0
  DEF DelRow, DelRowDue, ResetDelete, DelInv, RegInv, tableVars, deleteVars
<1>10. ASSUME NEW d \in Deleters, DelAbort(d) PROVE DelInv'
  BY <1>10, <1>0
  DEF DelAbort, ResetDelete, DelInv, RegInv, tableVars, deleteVars
<1>11. CASE Restart
  BY <1>11, <1>0
  DEF Restart, Requeued, DelInv, RegInv, tableVars, deleteVars
<1> QED
  BY <1>2, <1>3, <1>4, <1>5, <1>6, <1>7, <1>8, <1>9, <1>10, <1>11
  DEF Next, UploadStep, WorkerStep, DeleteStep

\* The handler of an upload is alone on it until the job row is there.
LEMMA RegStep ==
    TypeOK /\ BusyInv /\ DelInv /\ RegInv /\ [Next]_vars =>
        RegInv'
<1> SUFFICES ASSUME TypeOK, BusyInv, DelInv, RegInv, [Next]_vars
    PROVE  RegInv'
  OBVIOUS
<1>0. /\ reg \in [Videos -> UploadStates]
      /\ status \in [Videos -> VideoStatus \cup {"unregistered", "deleted"}]
      /\ job \in [Videos -> JobState \cup {"none"}]
      /\ cur \in [Workers -> Videos \cup {Nobody}]
  BY DEF TypeOK, UploadTypeOK, TableTypeOK, WorkerTypeOK
<1>1. ASSUME UNCHANGED <<reg, status, job, cur>>
      PROVE  RegInv'
  BY <1>1 DEF RegInv, UploadStates, UploadRunning
<1>2. CASE \/ UNCHANGED vars
           \/ \E w \in Workers : \/ DropSource(w) \/ Load(w) \/ Encode(w)
                                 \/ CreateRendition(w) \/ InsertSegments(w)
                                 \/ ProcessFails(w) \/ IdlePoll(w)
           \/ \E w \in Workers : \E p \in Segments : Send(w, p)
           \/ \E d \in Deleters : \E v \in Videos : DelBegin(d, v)
           \/ \E d \in Deleters : \E m \in delMsgs[d] : DelMessage(d, m)
           \/ \E d \in Deleters : DelAbort(d)
  BY <1>1, <1>2
  DEF vars, DropSource, Load, Encode, CreateRendition, Send, InsertSegments,
      ProcessFails, IdlePoll, DelBegin, DelMessage, DelAbort, ResetDelete,
      uploadVars, tableVars, workerVars
<1>3. ASSUME NEW v \in Videos, ReceiveFile(v) PROVE RegInv'
  BY <1>3, <1>0
  DEF ReceiveFile, RegInv, DelInv, UploadStates, UploadRunning, uploadVars,
      tableVars, workerVars, BusyInv
<1>4. ASSUME NEW v \in Videos, FlushFile(v) PROVE RegInv'
  BY <1>4, <1>0
  DEF FlushFile, RegInv, DelInv, UploadStates, UploadRunning, uploadVars,
      tableVars, workerVars, BusyInv
<1>5. ASSUME NEW v \in Videos, RejectUpload(v) PROVE RegInv'
  BY <1>5, <1>0
  DEF RejectUpload, RegInv, DelInv, UploadStates, UploadRunning, uploadVars,
      tableVars, workerVars, BusyInv
<1>6. ASSUME NEW v \in Videos, CreateVideo(v) PROVE RegInv'
  BY <1>6, <1>0
  DEF CreateVideo, RegInv, DelInv, UploadStates, UploadRunning, uploadVars,
      tableVars, workerVars, BusyInv
<1>7. ASSUME NEW v \in Videos, CreateJob(v) PROVE RegInv'
  BY <1>7, <1>0
  DEF CreateJob, RegInv, DelInv, UploadStates, UploadRunning, uploadVars,
      tableVars, workerVars, BusyInv
<1>8. ASSUME NEW v \in Videos, CreateFails(v) PROVE RegInv'
  BY <1>8, <1>0
  DEF CreateFails, RegInv, DelInv, UploadStates, UploadRunning, uploadVars,
      tableVars, workerVars, BusyInv
<1>9. ASSUME NEW v \in Videos, DropUpload(v) PROVE RegInv'
  BY <1>9, <1>0
  DEF DropUpload, SourceRemoved, RegInv, DelInv, UploadStates,
      UploadRunning, uploadVars, tableVars, workerVars, BusyInv
<1>10. ASSUME NEW v \in Videos, AbandonUpload(v) PROVE RegInv'
  BY <1>10, <1>0
  DEF AbandonUpload, RegInv, DelInv, UploadStates, UploadRunning,
      uploadVars, tableVars, workerVars, BusyInv
<1>11. ASSUME NEW w \in Workers, NEW v \in Videos, Claim(w, v) PROVE RegInv'
  BY <1>11, <1>0, NobodyAssumption
  DEF Claim, Oldest, RegInv, DelInv, UploadStates, UploadRunning,
      uploadVars, tableVars, workerVars, BusyInv
<1>12. ASSUME NEW w \in Workers, FinishJob(w) PROVE RegInv'
  BY <1>12, <1>0, BusyType
  DEF FinishJob, SetJob, RegInv, DelInv, UploadStates, UploadRunning,
      uploadVars, tableVars, workerVars, BusyInv
<1>13. ASSUME NEW w \in Workers, FailJob(w) PROVE RegInv'
  BY <1>13, <1>0, BusyType
  DEF FailJob, SetJob, AfterFailJob, RegInv, DelInv, UploadStates,
      UploadRunning, uploadVars, tableVars, workerVars, BusyInv
<1>14. ASSUME NEW w \in Workers, SetFailed(w) PROVE RegInv'
  BY <1>14, <1>0, BusyType
  DEF SetFailed, SetStatus, RegInv, DelInv, UploadStates, UploadRunning,
      uploadVars, tableVars, workerVars, BusyInv
<1>15. ASSUME NEW w \in Workers, DropScratch(w) PROVE RegInv'
  BY <1>15, <1>0, NobodyAssumption, BusyType
  DEF DropScratch, RegInv, DelInv, UploadStates, UploadRunning, uploadVars,
      tableVars, workerVars, BusyInv
<1>16. ASSUME NEW w \in Workers, Begin(w) PROVE RegInv'
  BY <1>16, <1>0, BusyType
  DEF Begin, SetStatus, RegInv, DelInv, UploadStates, UploadRunning,
      uploadVars, tableVars, workerVars, BusyInv
<1>17. ASSUME NEW w \in Workers, BeginUpload(w) PROVE RegInv'
  BY <1>17, <1>0, BusyType
  DEF BeginUpload, SetStatus, RegInv, DelInv, UploadStates, UploadRunning,
      uploadVars, tableVars, workerVars, BusyInv
<1>18. ASSUME NEW w \in Workers, Publish(w) PROVE RegInv'
  BY <1>18, <1>0, BusyType
  DEF Publish, SetStatus, RegInv, DelInv, UploadStates, UploadRunning,
      uploadVars, tableVars, workerVars, BusyInv
<1>19. ASSUME NEW d \in Deleters, DelRow(d) PROVE RegInv'
  BY <1>19, <1>0
  DEF DelRow, DelRowDue, ResetDelete, RegInv, DelInv, UploadStates,
      UploadRunning, uploadVars, tableVars, workerVars, BusyInv
<1>20. CASE Restart
  BY <1>20, <1>0, NobodyAssumption
  DEF Restart, Requeued, RegInv, DelInv, UploadStates, UploadRunning,
      uploadVars, tableVars, workerVars, BusyInv
<1> QED
  BY <1>2, <1>3, <1>4, <1>5, <1>6, <1>7, <1>8, <1>9, <1>10, <1>11, <1>12,
     <1>13, <1>14, <1>15, <1>16, <1>17, <1>18, <1>19, <1>20
  DEF Next, UploadStep, WorkerStep, DeleteStep

\* A job is claimed by one worker: a pending job has no worker, a claim takes
\* a pending job, and a worker keeps its job until the process ends.
LEMMA ClaimStep ==
    TypeOK /\ BusyInv /\ RegInv /\ ClaimInv /\ [Next]_vars =>
        ClaimInv'
<1> SUFFICES ASSUME TypeOK, BusyInv, RegInv, ClaimInv, [Next]_vars
    PROVE  ClaimInv'
  OBVIOUS
<1>0. /\ job \in [Videos -> JobState \cup {"none"}]
      /\ pc \in [Workers -> Steps]
      /\ cur \in [Workers -> Videos \cup {Nobody}]
  BY DEF TypeOK, TableTypeOK, WorkerTypeOK
<1>1. ASSUME UNCHANGED <<job, pc, cur>>
      PROVE  ClaimInv'
  BY <1>1 DEF ClaimInv, ClaimExclusive
<1>2. CASE \/ UNCHANGED vars
           \/ \E v \in Videos : \/ ReceiveFile(v) \/ FlushFile(v)
                                \/ RejectUpload(v) \/ CreateVideo(v)
                                \/ CreateFails(v) \/ DropUpload(v)
                                \/ AbandonUpload(v)
           \/ \E w \in Workers : IdlePoll(w)
           \/ \E w \in Workers : \E p \in Segments : Send(w, p)
           \/ \E d \in Deleters : \E v \in Videos : DelBegin(d, v)
           \/ \E d \in Deleters : \E m \in delMsgs[d] : DelMessage(d, m)
           \/ \E d \in Deleters : DelAbort(d)
  BY <1>1, <1>2
  DEF vars, ReceiveFile, FlushFile, RejectUpload, CreateVideo, CreateFails,
      DropUpload, AbandonUpload, Send, IdlePoll, DelBegin, DelMessage,
      DelAbort, ResetDelete, tableVars, workerVars
<1>3. ASSUME NEW v \in Videos, CreateJob(v) PROVE ClaimInv'
  BY <1>3, <1>0
  DEF CreateJob, ClaimInv, RegInv, ClaimExclusive, tableVars, workerVars,
      BusyInv
<1>4. ASSUME NEW w \in Workers, NEW v \in Videos, Claim(w, v)
      PROVE  ClaimInv'
  BY <1>4, <1>0, NobodyAssumption
  DEF Claim, Oldest, ClaimInv, RegInv, ClaimExclusive, tableVars,
      workerVars, BusyInv
<1>5. ASSUME NEW w \in Workers, FinishJob(w) PROVE ClaimInv'
  BY <1>5, <1>0, BusyType
  DEF FinishJob, SetJob, ClaimInv, RegInv, ClaimExclusive, tableVars,
      workerVars, BusyInv
<1>6. ASSUME NEW w \in Workers, FailJob(w) PROVE ClaimInv'
  BY <1>6, <1>0, BusyType
  DEF FailJob, SetJob, AfterFailJob, ClaimInv, RegInv, ClaimExclusive,
      tableVars, workerVars, BusyInv
<1>7. ASSUME NEW w \in Workers, SetFailed(w) PROVE ClaimInv'
  BY <1>7, <1>0, BusyType
  DEF SetFailed, SetStatus, ClaimInv, RegInv, ClaimExclusive, tableVars,
      workerVars, BusyInv
<1>8. ASSUME NEW w \in Workers, DropSource(w) PROVE ClaimInv'
  BY <1>8, <1>0, BusyType
  DEF DropSource, SourceDue, SourceRemoved, ClaimInv, RegInv,
      ClaimExclusive, tableVars, workerVars, BusyInv
<1>9. ASSUME NEW w \in Workers, DropScratch(w) PROVE ClaimInv'
  BY <1>9, <1>0, NobodyAssumption, BusyType
  DEF DropScratch, ClaimInv, RegInv, ClaimExclusive, tableVars, workerVars,
      BusyInv
<1>10. ASSUME NEW w \in Workers, Load(w) PROVE ClaimInv'
  BY <1>10, <1>0, BusyType
  DEF Load, ClaimInv, RegInv, ClaimExclusive, tableVars, workerVars, BusyInv
<1>11. ASSUME NEW w \in Workers, Begin(w) PROVE ClaimInv'
  BY <1>11, <1>0, BusyType
  DEF Begin, SetStatus, ClaimInv, RegInv, ClaimExclusive, tableVars,
      workerVars, BusyInv
<1>12. ASSUME NEW w \in Workers, Encode(w) PROVE ClaimInv'
  BY <1>12, <1>0, BusyType
  DEF Encode, ClaimInv, RegInv, ClaimExclusive, tableVars, workerVars,
      BusyInv
<1>13. ASSUME NEW w \in Workers, BeginUpload(w) PROVE ClaimInv'
  BY <1>13, <1>0, BusyType
  DEF BeginUpload, SetStatus, ClaimInv, RegInv, ClaimExclusive, tableVars,
      workerVars, BusyInv
<1>14. ASSUME NEW w \in Workers, CreateRendition(w) PROVE ClaimInv'
  BY <1>14, <1>0, BusyType
  DEF CreateRendition, RenditionAccepted, ClaimInv, RegInv, ClaimExclusive,
      tableVars, workerVars, BusyInv
<1>15. ASSUME NEW w \in Workers, InsertSegments(w) PROVE ClaimInv'
  BY <1>15, <1>0, BusyType
  DEF InsertSegments, RungSent, Delivered, ClaimInv, RegInv, ClaimExclusive,
      tableVars, workerVars, BusyInv
<1>16. ASSUME NEW w \in Workers, Publish(w) PROVE ClaimInv'
  BY <1>16, <1>0, BusyType
  DEF Publish, SetStatus, ClaimInv, RegInv, ClaimExclusive, tableVars,
      workerVars, BusyInv
<1>17. ASSUME NEW w \in Workers, ProcessFails(w) PROVE ClaimInv'
  BY <1>17, <1>0, BusyType
  DEF ProcessFails, ErrorPoints, ClaimInv, RegInv, ClaimExclusive,
      tableVars, workerVars, BusyInv
<1>18. ASSUME NEW d \in Deleters, DelRow(d) PROVE ClaimInv'
  BY <1>18, <1>0
  DEF DelRow, DelRowDue, ResetDelete, ClaimInv, RegInv, ClaimExclusive,
      tableVars, workerVars, BusyInv
<1>19. CASE Restart
  BY <1>19, <1>0, NobodyAssumption
  DEF Restart, Requeued, ClaimInv, RegInv, ClaimExclusive, tableVars,
      workerVars, BusyInv
<1> QED
  BY <1>2, <1>3, <1>4, <1>5, <1>6, <1>7, <1>8, <1>9, <1>10, <1>11, <1>12,
     <1>13, <1>14, <1>15, <1>16, <1>17, <1>18, <1>19
  DEF Next, UploadStep, WorkerStep, DeleteStep

\* The status of a video follows the step of its transcoder, because no other
\* transcoder is on it.
LEMMA StepStep ==
    TypeOK /\ BusyInv /\ RegInv /\ ClaimInv /\ StepInv /\ [Next]_vars =>
        StepInv'
<1> SUFFICES ASSUME TypeOK, BusyInv, RegInv, ClaimInv, StepInv, [Next]_vars
    PROVE  StepInv'
  OBVIOUS
<1>0. /\ status \in [Videos -> VideoStatus \cup {"unregistered", "deleted"}]
      /\ job \in [Videos -> JobState \cup {"none"}]
      /\ pc \in [Workers -> Steps]
      /\ cur \in [Workers -> Videos \cup {Nobody}]
  BY DEF TypeOK, TableTypeOK, WorkerTypeOK
<1>1. ASSUME UNCHANGED <<status, job, pc, cur>>
      PROVE  StepInv'
  BY <1>1 DEF StepInv, ClaimExclusive, Steps
<1>2. CASE \/ UNCHANGED vars
           \/ \E v \in Videos : \/ ReceiveFile(v) \/ FlushFile(v)
                                \/ RejectUpload(v) \/ CreateFails(v)
                                \/ DropUpload(v) \/ AbandonUpload(v)
           \/ \E w \in Workers : IdlePoll(w)
           \/ \E w \in Workers : \E p \in Segments : Send(w, p)
           \/ \E d \in Deleters : \E v \in Videos : DelBegin(d, v)
           \/ \E d \in Deleters : \E m \in delMsgs[d] : DelMessage(d, m)
           \/ \E d \in Deleters : DelAbort(d)
  BY <1>1, <1>2
  DEF vars, ReceiveFile, FlushFile, RejectUpload, CreateFails, DropUpload,
      AbandonUpload, Send, IdlePoll, DelBegin, DelMessage, DelAbort,
      ResetDelete, tableVars, workerVars
<1>3. ASSUME NEW v \in Videos, CreateVideo(v) PROVE StepInv'
  BY <1>3, <1>0
  DEF CreateVideo, StepInv, RegInv, ClaimInv, ClaimExclusive, Steps,
      tableVars, workerVars, BusyInv
<1>4. ASSUME NEW v \in Videos, CreateJob(v) PROVE StepInv'
  BY <1>4, <1>0
  DEF CreateJob, StepInv, RegInv, ClaimInv, ClaimExclusive, Steps,
      tableVars, workerVars, BusyInv
<1>5. ASSUME NEW w \in Workers, NEW v \in Videos, Claim(w, v) PROVE StepInv'
  BY <1>5, <1>0, NobodyAssumption
  DEF Claim, Oldest, StepInv, RegInv, ClaimInv, ClaimExclusive, Steps,
      tableVars, workerVars, BusyInv
<1>6. ASSUME NEW w \in Workers, FinishJob(w) PROVE StepInv'
  BY <1>6, <1>0, BusyType
  DEF FinishJob, SetJob, StepInv, RegInv, ClaimInv, ClaimExclusive, Steps,
      tableVars, workerVars, BusyInv
<1>7. ASSUME NEW w \in Workers, FailJob(w) PROVE StepInv'
  BY <1>7, <1>0, BusyType
  DEF FailJob, SetJob, AfterFailJob, StepInv, RegInv, ClaimInv,
      ClaimExclusive, Steps, tableVars, workerVars, BusyInv
<1>8. ASSUME NEW w \in Workers, SetFailed(w) PROVE StepInv'
  BY <1>8, <1>0, BusyType
  DEF SetFailed, SetStatus, StepInv, RegInv, ClaimInv, ClaimExclusive,
      Steps, tableVars, workerVars, BusyInv
<1>9. ASSUME NEW w \in Workers, DropSource(w) PROVE StepInv'
  BY <1>9, <1>0, BusyType
  DEF DropSource, SourceDue, SourceRemoved, StepInv, RegInv, ClaimInv,
      ClaimExclusive, Steps, tableVars, workerVars, BusyInv
<1>10. ASSUME NEW w \in Workers, DropScratch(w) PROVE StepInv'
  BY <1>10, <1>0, NobodyAssumption, BusyType
  DEF DropScratch, StepInv, RegInv, ClaimInv, ClaimExclusive, Steps,
      tableVars, workerVars, BusyInv
<1>11. ASSUME NEW w \in Workers, Load(w) PROVE StepInv'
  BY <1>11, <1>0, BusyType
  DEF Load, StepInv, RegInv, ClaimInv, ClaimExclusive, Steps, tableVars,
      workerVars, BusyInv
<1>12. ASSUME NEW w \in Workers, Begin(w) PROVE StepInv'
  BY <1>12, <1>0, BusyType
  DEF Begin, SetStatus, StepInv, RegInv, ClaimInv, ClaimExclusive, Steps,
      tableVars, workerVars, BusyInv
<1>13. ASSUME NEW w \in Workers, Encode(w) PROVE StepInv'
  BY <1>13, <1>0, BusyType
  DEF Encode, StepInv, RegInv, ClaimInv, ClaimExclusive, Steps, tableVars,
      workerVars, BusyInv
<1>14. ASSUME NEW w \in Workers, BeginUpload(w) PROVE StepInv'
  BY <1>14, <1>0, BusyType
  DEF BeginUpload, SetStatus, StepInv, RegInv, ClaimInv, ClaimExclusive,
      Steps, tableVars, workerVars, BusyInv
<1>15. ASSUME NEW w \in Workers, CreateRendition(w) PROVE StepInv'
  BY <1>15, <1>0, BusyType
  DEF CreateRendition, RenditionAccepted, StepInv, RegInv, ClaimInv,
      ClaimExclusive, Steps, tableVars, workerVars, BusyInv
<1>16. ASSUME NEW w \in Workers, InsertSegments(w) PROVE StepInv'
  BY <1>16, <1>0, BusyType
  DEF InsertSegments, RungSent, Delivered, StepInv, RegInv, ClaimInv,
      ClaimExclusive, Steps, tableVars, workerVars, BusyInv
<1>17. ASSUME NEW w \in Workers, Publish(w) PROVE StepInv'
  BY <1>17, <1>0, BusyType
  DEF Publish, SetStatus, StepInv, RegInv, ClaimInv, ClaimExclusive, Steps,
      tableVars, workerVars, BusyInv
<1>18. ASSUME NEW w \in Workers, ProcessFails(w) PROVE StepInv'
  BY <1>18, <1>0, BusyType
  DEF ProcessFails, ErrorPoints, StepInv, RegInv, ClaimInv, ClaimExclusive,
      Steps, tableVars, workerVars, BusyInv
<1>19. ASSUME NEW d \in Deleters, DelRow(d) PROVE StepInv'
  BY <1>19, <1>0
  DEF DelRow, DelRowDue, ResetDelete, StepInv, RegInv, ClaimInv,
      ClaimExclusive, Steps, tableVars, workerVars, BusyInv
<1>20. CASE Restart
  BY <1>20, <1>0, NobodyAssumption
  DEF Restart, Requeued, StepInv, RegInv, ClaimInv, ClaimExclusive, Steps,
      tableVars, workerVars, BusyInv
<1> QED
  BY <1>2, <1>3, <1>4, <1>5, <1>6, <1>7, <1>8, <1>9, <1>10, <1>11, <1>12,
     <1>13, <1>14, <1>15, <1>16, <1>17, <1>18, <1>19, <1>20
  DEF Next, UploadStep, WorkerStep, DeleteStep

\* A job that is done leaves a published video behind.
LEMMA DoneStep ==
    TypeOK /\ BusyInv /\ RegInv /\ ClaimInv /\ StepInv /\ DeletedLeavesNoRows /\
    DoneMeansReady /\ [Next]_vars =>
        DoneMeansReady'
<1> SUFFICES ASSUME TypeOK, BusyInv, RegInv, ClaimInv, StepInv,
                    DeletedLeavesNoRows, DoneMeansReady, [Next]_vars
    PROVE  DoneMeansReady'
  OBVIOUS
<1>0. /\ status \in [Videos -> VideoStatus \cup {"unregistered", "deleted"}]
      /\ job \in [Videos -> JobState \cup {"none"}]
      /\ cur \in [Workers -> Videos \cup {Nobody}]
      /\ pc \in [Workers -> Steps]
  BY DEF TypeOK, TableTypeOK, WorkerTypeOK
<1>1. ASSUME UNCHANGED <<status, job>>
      PROVE  DoneMeansReady'
  BY <1>1 DEF DoneMeansReady
<1>2. CASE \/ UNCHANGED vars
           \/ \E v \in Videos : \/ ReceiveFile(v) \/ FlushFile(v)
                                \/ RejectUpload(v) \/ CreateFails(v)
                                \/ DropUpload(v) \/ AbandonUpload(v)
           \/ \E w \in Workers : \/ DropSource(w) \/ DropScratch(w) \/ Load(w)
                                 \/ Encode(w) \/ CreateRendition(w)
                                 \/ InsertSegments(w) \/ ProcessFails(w)
                                 \/ IdlePoll(w)
           \/ \E w \in Workers : \E p \in Segments : Send(w, p)
           \/ \E d \in Deleters : \E v \in Videos : DelBegin(d, v)
           \/ \E d \in Deleters : \E m \in delMsgs[d] : DelMessage(d, m)
           \/ \E d \in Deleters : DelAbort(d)
  BY <1>1, <1>2
  DEF vars, ReceiveFile, FlushFile, RejectUpload, CreateFails, DropUpload,
      AbandonUpload, DropSource, DropScratch, Load, Encode, CreateRendition,
      Send, InsertSegments, ProcessFails, IdlePoll, DelBegin, DelMessage,
      DelAbort, ResetDelete, tableVars
<1>3. ASSUME NEW v \in Videos, CreateVideo(v) PROVE DoneMeansReady'
  BY <1>3, <1>0
  DEF CreateVideo, DoneMeansReady, RegInv, ClaimInv, StepInv,
      DeletedLeavesNoRows, tableVars, BusyInv
<1>4. ASSUME NEW v \in Videos, CreateJob(v) PROVE DoneMeansReady'
  BY <1>4, <1>0
  DEF CreateJob, DoneMeansReady, RegInv, ClaimInv, StepInv,
      DeletedLeavesNoRows, tableVars, BusyInv
<1>5. ASSUME NEW w \in Workers, NEW v \in Videos, Claim(w, v)
      PROVE  DoneMeansReady'
  BY <1>5, <1>0, NobodyAssumption
  DEF Claim, Oldest, DoneMeansReady, RegInv, ClaimInv, StepInv,
      DeletedLeavesNoRows, tableVars, BusyInv
<1>6. ASSUME NEW w \in Workers, FinishJob(w) PROVE DoneMeansReady'
  BY <1>6, <1>0, BusyType
  DEF FinishJob, SetJob, DoneMeansReady, RegInv, ClaimInv, StepInv,
      DeletedLeavesNoRows, tableVars, BusyInv
<1>7. ASSUME NEW w \in Workers, FailJob(w) PROVE DoneMeansReady'
  BY <1>7, <1>0, BusyType
  DEF FailJob, SetJob, AfterFailJob, DoneMeansReady, RegInv, ClaimInv,
      StepInv, DeletedLeavesNoRows, tableVars, BusyInv
<1>8. ASSUME NEW w \in Workers, SetFailed(w) PROVE DoneMeansReady'
  BY <1>8, <1>0, BusyType
  DEF SetFailed, SetStatus, DoneMeansReady, RegInv, ClaimInv, StepInv,
      DeletedLeavesNoRows, tableVars, BusyInv
<1>9. ASSUME NEW w \in Workers, Begin(w) PROVE DoneMeansReady'
  BY <1>9, <1>0, BusyType
  DEF Begin, SetStatus, DoneMeansReady, RegInv, ClaimInv, StepInv,
      DeletedLeavesNoRows, tableVars, BusyInv
<1>10. ASSUME NEW w \in Workers, BeginUpload(w) PROVE DoneMeansReady'
  BY <1>10, <1>0, BusyType
  DEF BeginUpload, SetStatus, DoneMeansReady, RegInv, ClaimInv, StepInv,
      DeletedLeavesNoRows, tableVars, BusyInv
<1>11. ASSUME NEW w \in Workers, Publish(w) PROVE DoneMeansReady'
  BY <1>11, <1>0, BusyType
  DEF Publish, SetStatus, DoneMeansReady, RegInv, ClaimInv, StepInv,
      DeletedLeavesNoRows, tableVars, BusyInv
<1>12. ASSUME NEW d \in Deleters, DelRow(d) PROVE DoneMeansReady'
  BY <1>12, <1>0
  DEF DelRow, DelRowDue, ResetDelete, DoneMeansReady, RegInv, ClaimInv,
      StepInv, DeletedLeavesNoRows, tableVars, BusyInv
<1>13. CASE Restart
  BY <1>13, <1>0, NobodyAssumption
  DEF Restart, Requeued, DoneMeansReady, RegInv, ClaimInv, StepInv,
      DeletedLeavesNoRows, tableVars, BusyInv
<1> QED
  BY <1>2, <1>3, <1>4, <1>5, <1>6, <1>7, <1>8, <1>9, <1>10, <1>11, <1>12,
     <1>13 DEF Next, UploadStep, WorkerStep, DeleteStep

\* A deletion is final: the foreign keys refuse what comes late.
LEMMA DeletedStep ==
    TypeOK /\ BusyInv /\ RegInv /\ ClaimInv /\ DeletedLeavesNoRows /\ [Next]_vars =>
        DeletedLeavesNoRows'
<1> SUFFICES ASSUME TypeOK, BusyInv, RegInv, ClaimInv, DeletedLeavesNoRows,
                    [Next]_vars
    PROVE  DeletedLeavesNoRows'
  OBVIOUS
<1>0. /\ status \in [Videos -> VideoStatus \cup {"unregistered", "deleted"}]
      /\ job \in [Videos -> JobState \cup {"none"}]
      /\ rends \in [Videos -> SUBSET Rungs]
      /\ rows \subseteq Message
      /\ cur \in [Workers -> Videos \cup {Nobody}]
      /\ pc \in [Workers -> Steps]
      /\ rung \in [Workers -> Rungs]
  BY DEF TypeOK, TableTypeOK, MessageTypeOK, WorkerTypeOK
<1>1. ASSUME UNCHANGED <<status, job, rends, rows>>
      PROVE  DeletedLeavesNoRows'
  BY <1>1 DEF DeletedLeavesNoRows, MessagesOf
<1>2. CASE \/ UNCHANGED vars
           \/ \E v \in Videos : \/ ReceiveFile(v) \/ FlushFile(v)
                                \/ RejectUpload(v) \/ CreateFails(v)
                                \/ DropUpload(v) \/ AbandonUpload(v)
           \/ \E w \in Workers : \/ DropSource(w) \/ DropScratch(w) \/ Load(w)
                                 \/ Encode(w) \/ ProcessFails(w) \/ IdlePoll(w)
           \/ \E w \in Workers : \E p \in Segments : Send(w, p)
           \/ \E d \in Deleters : \E v \in Videos : DelBegin(d, v)
           \/ \E d \in Deleters : \E m \in delMsgs[d] : DelMessage(d, m)
           \/ \E d \in Deleters : DelAbort(d)
  BY <1>1, <1>2
  DEF vars, ReceiveFile, FlushFile, RejectUpload, CreateFails, DropUpload,
      AbandonUpload, DropSource, DropScratch, Load, Encode, Send,
      ProcessFails, IdlePoll, DelBegin, DelMessage, DelAbort, ResetDelete,
      tableVars
<1>3. ASSUME NEW v \in Videos, CreateVideo(v) PROVE DeletedLeavesNoRows'
  BY <1>3, <1>0
  DEF CreateVideo, DeletedLeavesNoRows, RegInv, ClaimInv, MessagesOf,
      tableVars, BusyInv
<1>4. ASSUME NEW v \in Videos, CreateJob(v) PROVE DeletedLeavesNoRows'
  BY <1>4, <1>0
  DEF CreateJob, DeletedLeavesNoRows, RegInv, ClaimInv, MessagesOf,
      tableVars, BusyInv
<1>5. ASSUME NEW w \in Workers, NEW v \in Videos, Claim(w, v)
      PROVE  DeletedLeavesNoRows'
  BY <1>5, <1>0, NobodyAssumption
  DEF Claim, Oldest, DeletedLeavesNoRows, RegInv, ClaimInv, MessagesOf,
      tableVars, BusyInv
<1>6. ASSUME NEW w \in Workers, FinishJob(w) PROVE DeletedLeavesNoRows'
  BY <1>6, <1>0, BusyType
  DEF FinishJob, SetJob, DeletedLeavesNoRows, RegInv, ClaimInv, MessagesOf,
      tableVars, BusyInv
<1>7. ASSUME NEW w \in Workers, FailJob(w) PROVE DeletedLeavesNoRows'
  BY <1>7, <1>0, BusyType
  DEF FailJob, SetJob, AfterFailJob, DeletedLeavesNoRows, RegInv, ClaimInv,
      MessagesOf, tableVars, BusyInv
<1>8. ASSUME NEW w \in Workers, SetFailed(w) PROVE DeletedLeavesNoRows'
  BY <1>8, <1>0, BusyType
  DEF SetFailed, SetStatus, DeletedLeavesNoRows, RegInv, ClaimInv,
      MessagesOf, tableVars, BusyInv
<1>9. ASSUME NEW w \in Workers, Begin(w) PROVE DeletedLeavesNoRows'
  BY <1>9, <1>0, BusyType
  DEF Begin, SetStatus, DeletedLeavesNoRows, RegInv, ClaimInv, MessagesOf,
      tableVars, BusyInv
<1>10. ASSUME NEW w \in Workers, BeginUpload(w) PROVE DeletedLeavesNoRows'
  BY <1>10, <1>0, BusyType
  DEF BeginUpload, SetStatus, DeletedLeavesNoRows, RegInv, ClaimInv,
      MessagesOf, tableVars, BusyInv
<1>11. ASSUME NEW w \in Workers, CreateRendition(w)
       PROVE  DeletedLeavesNoRows'
  BY <1>11, <1>0, BusyType
  DEF CreateRendition, RenditionAccepted, DeletedLeavesNoRows, RegInv,
      ClaimInv, MessagesOf, tableVars, BusyInv
<1>12. ASSUME NEW w \in Workers, InsertSegments(w)
       PROVE  DeletedLeavesNoRows'
  BY <1>12, <1>0, BusyType, MessageType
  DEF InsertSegments, RungSent, Delivered, DeletedLeavesNoRows, RegInv,
      ClaimInv, MessagesOf, tableVars, BusyInv
<1>13. ASSUME NEW w \in Workers, Publish(w) PROVE DeletedLeavesNoRows'
  BY <1>13, <1>0, BusyType
  DEF Publish, SetStatus, DeletedLeavesNoRows, RegInv, ClaimInv, MessagesOf,
      tableVars, BusyInv
<1>14. ASSUME NEW d \in Deleters, DelRow(d) PROVE DeletedLeavesNoRows'
  BY <1>14, <1>0
  DEF DelRow, DelRowDue, ResetDelete, DeletedLeavesNoRows, RegInv, ClaimInv,
      MessagesOf, tableVars, BusyInv
<1>15. CASE Restart
  BY <1>15, <1>0, NobodyAssumption
  DEF Restart, Requeued, DeletedLeavesNoRows, RegInv, ClaimInv, MessagesOf,
      tableVars, BusyInv
<1> QED
  BY <1>2, <1>3, <1>4, <1>5, <1>6, <1>7, <1>8, <1>9, <1>10, <1>11, <1>12,
     <1>13, <1>14, <1>15 DEF Next, UploadStep, WorkerStep, DeleteStep

\* Rungs get their rows in order: only the transcoder of a video adds one, and
\* one that meets the row of an earlier attempt stops.
LEMMA RendStep ==
    TypeOK /\ BusyInv /\ RegInv /\ ClaimInv /\ RendInv /\ [Next]_vars =>
        RendInv'
<1> SUFFICES ASSUME TypeOK, BusyInv, RegInv, ClaimInv, RendInv, [Next]_vars
    PROVE  RendInv'
  OBVIOUS
<1>0. /\ rends \in [Videos -> SUBSET Rungs]
      /\ pc \in [Workers -> Steps]
      /\ cur \in [Workers -> Videos \cup {Nobody}]
      /\ rung \in [Workers -> Rungs]
      /\ status \in [Videos -> VideoStatus \cup {"unregistered", "deleted"}]
  BY DEF TypeOK, TableTypeOK, WorkerTypeOK
<1>1. ASSUME UNCHANGED <<rends, pc, cur, rung, status>>
      PROVE  RendInv'
  BY <1>1 DEF RendInv, ClaimExclusive
<1>2. CASE \/ UNCHANGED vars
           \/ \E v \in Videos : \/ ReceiveFile(v) \/ FlushFile(v)
                                \/ RejectUpload(v) \/ CreateJob(v)
                                \/ CreateFails(v) \/ DropUpload(v)
                                \/ AbandonUpload(v)
           \/ \E w \in Workers : IdlePoll(w)
           \/ \E w \in Workers : \E p \in Segments : Send(w, p)
           \/ \E d \in Deleters : \E v \in Videos : DelBegin(d, v)
           \/ \E d \in Deleters : \E m \in delMsgs[d] : DelMessage(d, m)
           \/ \E d \in Deleters : DelAbort(d)
  BY <1>1, <1>2
  DEF vars, ReceiveFile, FlushFile, RejectUpload, CreateJob, CreateFails,
      DropUpload, AbandonUpload, Send, IdlePoll, DelBegin, DelMessage,
      DelAbort, ResetDelete, tableVars, workerVars
<1>3. ASSUME NEW v \in Videos, CreateVideo(v) PROVE RendInv'
  BY <1>3, <1>0
  DEF CreateVideo, RendInv, RegInv, ClaimInv, ClaimExclusive, tableVars,
      workerVars, BusyInv
<1>4. ASSUME NEW w \in Workers, NEW v \in Videos, Claim(w, v) PROVE RendInv'
  BY <1>4, <1>0, NobodyAssumption
  DEF Claim, Oldest, RendInv, RegInv, ClaimInv, ClaimExclusive, tableVars,
      workerVars, BusyInv
<1>5. ASSUME NEW w \in Workers, FinishJob(w) PROVE RendInv'
  BY <1>5, <1>0, BusyType
  DEF FinishJob, SetJob, RendInv, RegInv, ClaimInv, ClaimExclusive,
      tableVars, workerVars, BusyInv
<1>6. ASSUME NEW w \in Workers, FailJob(w) PROVE RendInv'
  BY <1>6, <1>0, BusyType
  DEF FailJob, SetJob, AfterFailJob, RendInv, RegInv, ClaimInv,
      ClaimExclusive, tableVars, workerVars, BusyInv
<1>7. ASSUME NEW w \in Workers, SetFailed(w) PROVE RendInv'
  BY <1>7, <1>0, BusyType
  DEF SetFailed, SetStatus, RendInv, RegInv, ClaimInv, ClaimExclusive,
      tableVars, workerVars, BusyInv
<1>8. ASSUME NEW w \in Workers, DropSource(w) PROVE RendInv'
  BY <1>8, <1>0, BusyType
  DEF DropSource, SourceDue, SourceRemoved, RendInv, RegInv, ClaimInv,
      ClaimExclusive, tableVars, workerVars, BusyInv
<1>9. ASSUME NEW w \in Workers, DropScratch(w) PROVE RendInv'
  BY <1>9, <1>0, NobodyAssumption, BusyType
  DEF DropScratch, RendInv, RegInv, ClaimInv, ClaimExclusive, tableVars,
      workerVars, BusyInv
<1>10. ASSUME NEW w \in Workers, Load(w) PROVE RendInv'
  BY <1>10, <1>0, BusyType
  DEF Load, RendInv, RegInv, ClaimInv, ClaimExclusive, tableVars,
      workerVars, BusyInv
<1>11. ASSUME NEW w \in Workers, Begin(w) PROVE RendInv'
  BY <1>11, <1>0, BusyType
  DEF Begin, SetStatus, RendInv, RegInv, ClaimInv, ClaimExclusive,
      tableVars, workerVars, BusyInv
<1>12. ASSUME NEW w \in Workers, Encode(w) PROVE RendInv'
  BY <1>12, <1>0, BusyType
  DEF Encode, RendInv, RegInv, ClaimInv, ClaimExclusive, tableVars,
      workerVars, BusyInv
<1>13. ASSUME NEW w \in Workers, BeginUpload(w) PROVE RendInv'
  BY <1>13, <1>0, BusyType
  DEF BeginUpload, SetStatus, RendInv, RegInv, ClaimInv, ClaimExclusive,
      tableVars, workerVars, BusyInv
<1>14. ASSUME NEW w \in Workers, CreateRendition(w) PROVE RendInv'
  <2>1. cur[w] \in Videos /\ rung[w] \in Rungs /\ pc[w] = "create"
    BY <1>14, BusyType DEF CreateRendition
  <2>2. cur' = cur /\ rung' = rung /\ status' = status
    BY <1>14 DEF CreateRendition
  <2>3. CASE rends' = rends /\ pc' = [pc EXCEPT ![w] = "fail"]
    BY <1>0, <2>1, <2>2, <2>3 DEF RendInv
  <2>4. CASE /\ status[cur[w]] # "deleted" /\ rung[w] \notin rends[cur[w]]
             /\ rends' = [rends EXCEPT ![cur[w]] = @ \cup {rung[w]}]
             /\ pc' = [pc EXCEPT ![w] = "send"]
    <3>1. \A q \in Rungs : q \in rends[cur[w]] <=> q < rung[w]
      <4>1. CASE rung[w] > 1
        BY <1>0, <2>1, <2>4, <4>1, NobodyAssumption DEF RendInv
      <4>2. CASE ~(rung[w] > 1)
        <5>1. rung[w] = 1 /\ \A q \in Rungs : q >= 1 /\ (q < 1 <=> FALSE)
          BY <2>1, <4>2, NumRungsAssumption DEF Rungs
        <5>2. 1 \in Rungs /\ \A q \in Rungs : q # 1 => 1 < q
          BY NumRungsAssumption DEF Rungs
        <5>3. \A q \in Rungs : q \notin rends[cur[w]]
          BY <1>0, <2>1, <2>4, <5>1, <5>2 DEF RendInv
        <5> QED
          BY <5>1, <5>3
      <4> QED
        BY <4>1, <4>2
    <3>2. \A q \in Rungs : q <= rung[w] <=> q < rung[w] \/ q = rung[w]
      BY <2>1, NumRungsAssumption DEF Rungs
    <3>a. rends'[cur[w]] = rends[cur[w]] \cup {rung[w]}
      BY <1>0, <2>1, <2>4
    <3>3. \A q \in Rungs : q \in rends'[cur[w]] <=> q <= rung[w]
      BY <3>1, <3>2, <3>a
    <3>4. \A q, r \in Rungs : q < r /\ r <= rung[w] => q <= rung[w]
      BY <2>1, NumRungsAssumption DEF Rungs
    <3>5. \A v \in Videos : \A r \in rends'[v] : \A q \in Rungs :
             q < r => q \in rends'[v]
      <4> SUFFICES ASSUME NEW v \in Videos, NEW r \in rends'[v], NEW q \in Rungs,
                          q < r
                   PROVE  q \in rends'[v]
        OBVIOUS
      <4>1. CASE v = cur[w]
        <5>1. r \in Rungs
          BY <1>0, <2>1, <3>a, <4>1
        <5> QED
          BY <3>3, <3>4, <4>1, <5>1
      <4>2. CASE v # cur[w]
        <5>1. rends'[v] = rends[v]
          BY <1>0, <2>4, <4>2
        <5> QED
          BY <5>1 DEF RendInv
      <4> QED
        BY <4>1, <4>2
    <3>6. \A x \in Workers : x # w /\ cur[x] # Nobody =>
             cur[x] # cur[w] /\ rends'[cur[x]] = rends[cur[x]] /\ pc'[x] = pc[x]
      BY <1>0, <2>1, <2>4, NobodyAssumption DEF ClaimInv, ClaimExclusive
    <3>7. pc'[w] = "send" /\ \A x \in Workers : x # w => pc'[x] = pc[x]
      BY <1>0, <2>4
    <3>8. \A x \in Workers : pc'[x] = "stage" => rung'[x] = 1
      BY <2>2, <3>7 DEF RendInv
    <3>9. ASSUME NEW x \in Workers, cur[x] # Nobody, status[cur[x]] # "deleted"
          PROVE  /\ pc'[x] = "create" /\ rung[x] > 1 =>
                       \A q \in Rungs : q \in rends'[cur[x]] <=> q < rung[x]
                 /\ pc'[x] = "send" =>
                       \A q \in Rungs : q \in rends'[cur[x]] <=> q <= rung[x]
                 /\ pc'[x] = "publish" => rends'[cur[x]] = Rungs
      <4>1. CASE x = w
        BY <4>1, <3>3, <3>7
      <4>2. CASE x # w
        BY <4>2, <3>6, <3>9 DEF RendInv
      <4> QED
        BY <4>1, <4>2
    <3> QED
      BY <2>2, <3>5, <3>8, <3>9 DEF RendInv
  <2>5. \/ rends' = rends /\ pc' = [pc EXCEPT ![w] = "fail"]
        \/ /\ status[cur[w]] # "deleted" /\ rung[w] \notin rends[cur[w]]
           /\ rends' = [rends EXCEPT ![cur[w]] = @ \cup {rung[w]}]
           /\ pc' = [pc EXCEPT ![w] = "send"]
    BY <1>14 DEF CreateRendition, RenditionAccepted
  <2> QED
    BY <2>3, <2>4, <2>5
<1>15. ASSUME NEW w \in Workers, InsertSegments(w) PROVE RendInv'
  <2>1. cur[w] \in Videos /\ rung[w] \in Rungs /\ pc[w] = "send"
    BY <1>15, BusyType DEF InsertSegments
  <2>2. cur' = cur /\ rends' = rends /\ status' = status
    BY <1>15 DEF InsertSegments, uploadVars
  <2>3. CASE pc' = [pc EXCEPT ![w] = "fail"] /\ rung' = rung
    BY <1>0, <2>1, <2>2, <2>3 DEF RendInv
  <2>4. CASE /\ rung[w] < NumRungs
             /\ pc' = [pc EXCEPT ![w] = "create"]
             /\ rung' = [rung EXCEPT ![w] = rung[w] + 1]
    <3>1. \A q \in Rungs : q <= rung[w] <=> q < rung[w] + 1
      BY <2>1, NumRungsAssumption DEF Rungs
    <3> QED
      BY <1>0, <2>1, <2>2, <2>4, <3>1 DEF RendInv
  <2>5. CASE /\ ~(rung[w] < NumRungs)
             /\ pc' = [pc EXCEPT ![w] = "publish"]
             /\ rung' = rung
    <3>1. \A q \in Rungs : q <= rung[w]
      BY <2>1, <2>5, NumRungsAssumption DEF Rungs
    <3>2. status[cur[w]] # "deleted" => rends[cur[w]] = Rungs
      BY <1>0, <2>1, <3>1, NobodyAssumption DEF RendInv
    <3> QED
      BY <1>0, <2>1, <2>2, <2>5, <3>2 DEF RendInv
  <2>6. \/ pc' = [pc EXCEPT ![w] = "fail"] /\ rung' = rung
        \/ /\ rung[w] < NumRungs
           /\ pc' = [pc EXCEPT ![w] = "create"]
           /\ rung' = [rung EXCEPT ![w] = rung[w] + 1]
        \/ /\ ~(rung[w] < NumRungs)
           /\ pc' = [pc EXCEPT ![w] = "publish"]
           /\ rung' = [rung EXCEPT ![w] = rung[w]]
    BY <1>15 DEF InsertSegments
  <2>7. [rung EXCEPT ![w] = rung[w]] = rung
    BY <1>0
  <2> QED
    BY <2>3, <2>4, <2>5, <2>6, <2>7
<1>16. ASSUME NEW w \in Workers, Publish(w) PROVE RendInv'
  BY <1>16, <1>0, BusyType
  DEF Publish, SetStatus, RendInv, RegInv, ClaimInv, ClaimExclusive,
      tableVars, workerVars, BusyInv
<1>17. ASSUME NEW w \in Workers, ProcessFails(w) PROVE RendInv'
  BY <1>17, <1>0, BusyType
  DEF ProcessFails, ErrorPoints, RendInv, RegInv, ClaimInv, ClaimExclusive,
      tableVars, workerVars, BusyInv
<1>18. ASSUME NEW d \in Deleters, DelRow(d) PROVE RendInv'
  BY <1>18, <1>0
  DEF DelRow, DelRowDue, ResetDelete, RendInv, RegInv, ClaimInv,
      ClaimExclusive, tableVars, workerVars, BusyInv
<1>19. CASE Restart
  BY <1>19, <1>0, NobodyAssumption
  DEF Restart, Requeued, RendInv, RegInv, ClaimInv, ClaimExclusive,
      tableVars, workerVars, BusyInv
<1> QED
  BY <1>2, <1>3, <1>4, <1>5, <1>6, <1>7, <1>8, <1>9, <1>10, <1>11, <1>12,
     <1>13, <1>14, <1>15, <1>16, <1>17, <1>18, <1>19
  DEF Next, UploadStep, WorkerStep, DeleteStep

\* A message or a segment row belongs to a rendition row, or to a video that
\* is deleted.
LEMMA OwnedStep ==
    TypeOK /\ BusyInv /\ RegInv /\ RendInv /\ OwnedInv /\ [Next]_vars =>
        OwnedInv'
<1> SUFFICES ASSUME TypeOK, BusyInv, RegInv, RendInv, OwnedInv, [Next]_vars
    PROVE  OwnedInv'
  OBVIOUS
<1>0. /\ rows \subseteq Message
      /\ chat \subseteq Message
      /\ rends \in [Videos -> SUBSET Rungs]
      /\ status \in [Videos -> VideoStatus \cup {"unregistered", "deleted"}]
      /\ cur \in [Workers -> Videos \cup {Nobody}]
      /\ pc \in [Workers -> Steps]
      /\ rung \in [Workers -> Rungs]
  BY DEF TypeOK, MessageTypeOK, TableTypeOK, WorkerTypeOK
<1>1. ASSUME UNCHANGED <<rows, chat, rends, status>>
      PROVE  OwnedInv'
  BY <1>1 DEF OwnedInv, Message
<1>2. CASE \/ UNCHANGED vars
           \/ \E v \in Videos : \/ ReceiveFile(v) \/ FlushFile(v)
                                \/ RejectUpload(v) \/ CreateJob(v)
                                \/ CreateFails(v) \/ DropUpload(v)
                                \/ AbandonUpload(v)
           \/ \E w \in Workers : \E v \in Videos : Claim(w, v)
           \/ \E w \in Workers : \/ FinishJob(w) \/ FailJob(w) \/ DropSource(w)
                                 \/ DropScratch(w) \/ Load(w) \/ Encode(w)
                                 \/ ProcessFails(w) \/ IdlePoll(w)
           \/ \E d \in Deleters : \E v \in Videos : DelBegin(d, v)
           \/ \E d \in Deleters : DelAbort(d)
           \/ Restart
  BY <1>1, <1>2
  DEF vars, ReceiveFile, FlushFile, RejectUpload, CreateJob, CreateFails,
      DropUpload, AbandonUpload, Claim, FinishJob, FailJob, DropSource,
      DropScratch, Load, Encode, ProcessFails, IdlePoll, DelBegin, DelAbort,
      ResetDelete, Restart, tableVars
<1>3. ASSUME NEW v \in Videos, CreateVideo(v) PROVE OwnedInv'
  BY <1>3, <1>0
  DEF CreateVideo, OwnedInv, RegInv, RendInv, Message, tableVars, BusyInv
<1>4. ASSUME NEW w \in Workers, SetFailed(w) PROVE OwnedInv'
  BY <1>4, <1>0, BusyType
  DEF SetFailed, SetStatus, OwnedInv, RegInv, RendInv, Message, tableVars,
      BusyInv
<1>5. ASSUME NEW w \in Workers, Begin(w) PROVE OwnedInv'
  BY <1>5, <1>0, BusyType
  DEF Begin, SetStatus, OwnedInv, RegInv, RendInv, Message, tableVars,
      BusyInv
<1>6. ASSUME NEW w \in Workers, BeginUpload(w) PROVE OwnedInv'
  BY <1>6, <1>0, BusyType
  DEF BeginUpload, SetStatus, OwnedInv, RegInv, RendInv, Message, tableVars,
      BusyInv
<1>7. ASSUME NEW w \in Workers, CreateRendition(w) PROVE OwnedInv'
  BY <1>7, <1>0, BusyType
  DEF CreateRendition, RenditionAccepted, OwnedInv, RegInv, RendInv,
      Message, tableVars, BusyInv
<1>8. ASSUME NEW w \in Workers, NEW p \in Segments, Send(w, p)
      PROVE  OwnedInv'
  <2>1. cur[w] \in Videos /\ rung[w] \in Rungs /\ pc[w] = "send"
    BY <1>8, BusyType DEF Send
  <2>2. rung[w] \in rends[cur[w]] \/ status[cur[w]] = "deleted"
    BY <1>0, <2>1, NobodyAssumption DEF RendInv, Rungs
  <2>3. \A m \in chat' : \/ m \in chat
                         \/ m.video = cur[w] /\ m.rung = rung[w]
    BY <1>8, <2>1, MessageType DEF Send
  <2>4. rows' = rows /\ rends' = rends /\ status' = status
    BY <1>8 DEF Send, tableVars
  <2> QED
    BY <2>2, <2>3, <2>4 DEF OwnedInv
<1>9. ASSUME NEW w \in Workers, InsertSegments(w) PROVE OwnedInv'
  <2>1. cur[w] \in Videos /\ rung[w] \in Rungs /\ pc[w] = "send"
    BY <1>9, BusyType DEF InsertSegments
  <2>2. rung[w] \in rends[cur[w]] \/ status[cur[w]] = "deleted"
    BY <1>0, <2>1, NobodyAssumption DEF RendInv, Rungs
  <2>3. \A m \in rows' :
           \/ m \in rows
           \/ status[cur[w]] # "deleted" /\ m.video = cur[w] /\ m.rung = rung[w]
    BY <1>9, <2>1, MessageType DEF InsertSegments, Delivered
  <2>4. chat' = chat /\ rends' = rends /\ status' = status
    BY <1>9 DEF InsertSegments
  <2> QED
    BY <2>2, <2>3, <2>4 DEF OwnedInv
<1>10. ASSUME NEW w \in Workers, Publish(w) PROVE OwnedInv'
  BY <1>10, <1>0, BusyType
  DEF Publish, SetStatus, OwnedInv, RegInv, RendInv, Message, tableVars,
      BusyInv
<1>11. ASSUME NEW d \in Deleters, NEW m \in delMsgs[d], DelMessage(d, m)
       PROVE  OwnedInv'
  BY <1>11, <1>0
  DEF DelMessage, OwnedInv, RegInv, RendInv, Message, tableVars, BusyInv
<1>12. ASSUME NEW d \in Deleters, DelRow(d) PROVE OwnedInv'
  BY <1>12, <1>0
  DEF DelRow, DelRowDue, ResetDelete, OwnedInv, RegInv, RendInv, Message,
      tableVars, BusyInv
<1> QED
  BY <1>2, <1>3, <1>4, <1>5, <1>6, <1>7, <1>8, <1>9, <1>10, <1>11, <1>12
  DEF Next, UploadStep, WorkerStep, DeleteStep

\* Only a deletion of the video removes one of its messages.
LEMMA LiveStep ==
    TypeOK /\ BusyInv /\ ClaimInv /\ LiveInv /\ [Next]_vars =>
        LiveInv'
<1> SUFFICES ASSUME TypeOK, BusyInv, ClaimInv, LiveInv, [Next]_vars
    PROVE  LiveInv'
  OBVIOUS
<1>0. /\ delMsgs \in [Deleters -> SUBSET Message]
      /\ rows \subseteq Message
      /\ chat \subseteq Message
      /\ pc \in [Workers -> Steps]
      /\ sent \in [Workers -> [Segments -> {"waiting", "sent", "lost"}]]
      /\ cur \in [Workers -> Videos \cup {Nobody}]
      /\ rung \in [Workers -> Rungs]
      /\ attempts \in [Videos -> Nat]
  BY DEF TypeOK, DeleteTypeOK, MessageTypeOK, WorkerTypeOK, TableTypeOK
<1>1. ASSUME UNCHANGED <<delMsgs, touched, rows, chat, pc, sent, cur, rung,
                         attempts>>
      PROVE  LiveInv'
  BY <1>1 DEF LiveInv, MessageOf, MessagesOf
<1>2. CASE \/ UNCHANGED vars
           \/ \E v \in Videos : \/ ReceiveFile(v) \/ FlushFile(v)
                                \/ RejectUpload(v) \/ CreateVideo(v)
                                \/ CreateJob(v) \/ CreateFails(v)
                                \/ DropUpload(v) \/ AbandonUpload(v)
           \/ \E w \in Workers : IdlePoll(w)
  BY <1>1, <1>2
  DEF vars, ReceiveFile, FlushFile, RejectUpload, CreateVideo, CreateJob,
      CreateFails, DropUpload, AbandonUpload, IdlePoll, tableVars,
      workerVars, deleteVars, historyVars
<1>3. ASSUME NEW w \in Workers, NEW v \in Videos, Claim(w, v) PROVE LiveInv'
  <2>1. \A x \in Workers : pc'[x] = "send" =>
           pc[x] = "send" /\ cur'[x] = cur[x] /\ cur[x] # v /\ cur[x] \in Videos
    BY <1>3, <1>0, NobodyAssumption DEF Claim, Oldest, ClaimInv, BusyInv
  <2>2. \A x \in Workers : pc'[x] = "send" =>
           attempts'[cur[x]] = attempts[cur[x]]
    BY <1>3, <1>0, <2>1 DEF Claim
  <2>3. /\ chat' = chat /\ rows' = rows /\ sent' = sent /\ rung' = rung
        /\ touched' = touched /\ delMsgs' = delMsgs
    BY <1>3 DEF Claim, deleteVars, historyVars
  <2> QED
    BY <2>1, <2>2, <2>3 DEF LiveInv, MessageOf
<1>4. ASSUME NEW w \in Workers, FinishJob(w) PROVE LiveInv'
  BY <1>4, <1>0, BusyType
  DEF FinishJob, SetJob, LiveInv, ClaimInv, MessageOf, MessagesOf,
      tableVars, workerVars, deleteVars, historyVars, BusyInv
<1>5. ASSUME NEW w \in Workers, FailJob(w) PROVE LiveInv'
  BY <1>5, <1>0, BusyType
  DEF FailJob, SetJob, AfterFailJob, LiveInv, ClaimInv, MessageOf,
      MessagesOf, tableVars, workerVars, deleteVars, historyVars, BusyInv
<1>6. ASSUME NEW w \in Workers, SetFailed(w) PROVE LiveInv'
  BY <1>6, <1>0, BusyType
  DEF SetFailed, SetStatus, LiveInv, ClaimInv, MessageOf, MessagesOf,
      tableVars, workerVars, deleteVars, historyVars, BusyInv
<1>7. ASSUME NEW w \in Workers, DropSource(w) PROVE LiveInv'
  BY <1>7, <1>0, BusyType
  DEF DropSource, SourceDue, SourceRemoved, LiveInv, ClaimInv, MessageOf,
      MessagesOf, tableVars, workerVars, deleteVars, historyVars, BusyInv
<1>8. ASSUME NEW w \in Workers, DropScratch(w) PROVE LiveInv'
  BY <1>8, <1>0, NobodyAssumption, BusyType
  DEF DropScratch, LiveInv, ClaimInv, MessageOf, MessagesOf, tableVars,
      workerVars, deleteVars, historyVars, BusyInv
<1>9. ASSUME NEW w \in Workers, Load(w) PROVE LiveInv'
  BY <1>9, <1>0, BusyType
  DEF Load, LiveInv, ClaimInv, MessageOf, MessagesOf, tableVars, workerVars,
      deleteVars, historyVars, BusyInv
<1>10. ASSUME NEW w \in Workers, Begin(w) PROVE LiveInv'
  BY <1>10, <1>0, BusyType
  DEF Begin, SetStatus, LiveInv, ClaimInv, MessageOf, MessagesOf, tableVars,
      workerVars, deleteVars, historyVars, BusyInv
<1>11. ASSUME NEW w \in Workers, Encode(w) PROVE LiveInv'
  BY <1>11, <1>0, BusyType
  DEF Encode, LiveInv, ClaimInv, MessageOf, MessagesOf, tableVars,
      workerVars, deleteVars, historyVars, BusyInv
<1>12. ASSUME NEW w \in Workers, BeginUpload(w) PROVE LiveInv'
  BY <1>12, <1>0, BusyType
  DEF BeginUpload, SetStatus, LiveInv, ClaimInv, MessageOf, MessagesOf,
      tableVars, workerVars, deleteVars, historyVars, BusyInv
<1>13. ASSUME NEW w \in Workers, CreateRendition(w) PROVE LiveInv'
  <2>1. /\ attempts' = attempts /\ cur' = cur /\ rung' = rung /\ rows' = rows
        /\ chat' = chat /\ touched' = touched /\ delMsgs' = delMsgs
    BY <1>13 DEF CreateRendition, deleteVars, historyVars
  <2>2. \A x \in Workers : \A p \in Segments :
           pc'[x] = "send" /\ sent'[x][p] = "sent" =>
              pc[x] = "send" /\ sent[x][p] = "sent"
    BY <1>13, <1>0 DEF CreateRendition, Unsent
  <2> QED
    BY <2>1, <2>2 DEF LiveInv, MessageOf
<1>14. ASSUME NEW w \in Workers, NEW p \in Segments, Send(w, p)
       PROVE  LiveInv'
  <2>1. cur[w] \in Videos /\ rung[w] \in Rungs /\ pc[w] = "send"
    BY <1>14, BusyType DEF Send
  <2>2. /\ rows' = rows /\ attempts' = attempts /\ pc' = pc /\ cur' = cur
        /\ rung' = rung /\ touched' = touched /\ delMsgs' = delMsgs
        /\ chat \subseteq chat'
    BY <1>14 DEF Send, tableVars, deleteVars, historyVars
  <2>3. \A x \in Workers : \A q \in Segments : sent'[x][q] = "sent" =>
           \/ sent[x][q] = "sent"
           \/ x = w /\ q = p /\ MessageOf(cur[w], rung[w], p) \in chat'
    <3>1. CASE /\ sent' = [sent EXCEPT ![w][p] = "sent"]
               /\ chat' = chat \cup {MessageOf(cur[w], rung[w], p)}
      BY <1>0, <3>1
    <3>2. CASE sent' = [sent EXCEPT ![w][p] = "lost"]
      BY <1>0, <3>2
    <3> QED
      BY <1>14, <3>1, <3>2 DEF Send
  <2> QED
    BY <2>2, <2>3 DEF LiveInv, MessageOf
<1>15. ASSUME NEW w \in Workers, InsertSegments(w) PROVE LiveInv'
  <2>1. cur[w] \in Videos /\ rung[w] \in Rungs /\ pc[w] = "send"
    BY <1>15, BusyType DEF InsertSegments
  <2>2. /\ chat' = chat /\ attempts' = attempts /\ sent' = sent /\ cur' = cur
        /\ touched' = touched /\ delMsgs' = delMsgs
    BY <1>15 DEF InsertSegments, deleteVars, historyVars
  <2>3. \A m \in rows' :
           \/ m \in rows
           \/ \E p \in Segments : /\ sent[w][p] = "sent"
                                  /\ m = MessageOf(cur[w], rung[w], p)
    BY <1>15 DEF InsertSegments, Delivered
  <2>4. \A p \in Segments : MessageOf(cur[w], rung[w], p).video = cur[w]
    BY <2>1, MessageType
  <2>5. \A m \in rows' : m.video \notin touched => m \in chat
    BY <2>1, <2>3, <2>4 DEF LiveInv
  <2>6. \A x \in Workers : pc'[x] = "send" =>
           pc[x] = "send" /\ rung'[x] = rung[x]
    BY <1>15, <1>0 DEF InsertSegments
  <2> QED
    BY <2>2, <2>5, <2>6 DEF LiveInv, MessageOf
<1>16. ASSUME NEW w \in Workers, Publish(w) PROVE LiveInv'
  BY <1>16, <1>0, BusyType
  DEF Publish, SetStatus, LiveInv, ClaimInv, MessageOf, MessagesOf,
      tableVars, workerVars, deleteVars, historyVars, BusyInv
<1>17. ASSUME NEW w \in Workers, ProcessFails(w) PROVE LiveInv'
  BY <1>17, <1>0, BusyType
  DEF ProcessFails, ErrorPoints, LiveInv, ClaimInv, MessageOf, MessagesOf,
      tableVars, workerVars, deleteVars, historyVars, BusyInv
<1>18. ASSUME NEW d \in Deleters, NEW v \in Videos, DelBegin(d, v)
       PROVE  LiveInv'
  BY <1>18, <1>0
  DEF DelBegin, MessagesOf, LiveInv, ClaimInv, MessageOf, MessagesOf,
      tableVars, workerVars, deleteVars, historyVars, BusyInv
<1>19. ASSUME NEW d \in Deleters, NEW m \in delMsgs[d], DelMessage(d, m)
       PROVE  LiveInv'
  <2>1. m \in Message /\ m.video \in touched
    BY <1>0 DEF LiveInv
  <2>2. /\ attempts' = attempts /\ pc' = pc /\ cur' = cur /\ rung' = rung
        /\ sent' = sent /\ rows' = rows /\ touched' = touched
    BY <1>19 DEF DelMessage, tableVars, workerVars
  <2>3. \A n \in chat : n \in chat' \/ n = m
    BY <1>19 DEF DelMessage
  <2>4. \A e \in Deleters : delMsgs'[e] \subseteq delMsgs[e]
    BY <1>19, <1>0 DEF DelMessage
  <2>5. \A x \in Workers : \A p \in Segments :
           pc[x] = "send" => MessageOf(cur[x], rung[x], p).video = cur[x]
    BY Zenon DEF MessageOf
  <2>6. \A x \in Workers : \A p \in Segments :
           MessageOf(cur[x], rung[x], p)' = MessageOf(cur[x], rung[x], p)
    BY <2>2 DEF MessageOf
  <2> QED
    BY <2>1, <2>2, <2>3, <2>4, <2>5, <2>6 DEF LiveInv
<1>20. ASSUME NEW d \in Deleters, DelRow(d) PROVE LiveInv'
  BY <1>20, <1>0
  DEF DelRow, DelRowDue, ResetDelete, LiveInv, ClaimInv, MessageOf,
      MessagesOf, tableVars, workerVars, deleteVars, historyVars, BusyInv
<1>21. ASSUME NEW d \in Deleters, DelAbort(d) PROVE LiveInv'
  BY <1>21, <1>0
  DEF DelAbort, ResetDelete, LiveInv, ClaimInv, MessageOf, MessagesOf,
      tableVars, workerVars, deleteVars, historyVars, BusyInv
<1>22. CASE Restart
  BY <1>22, <1>0, NobodyAssumption
  DEF Restart, Requeued, LiveInv, ClaimInv, MessageOf, MessagesOf,
      tableVars, workerVars, deleteVars, historyVars, BusyInv
<1> QED
  BY <1>2, <1>3, <1>4, <1>5, <1>6, <1>7, <1>8, <1>9, <1>10, <1>11, <1>12,
     <1>13, <1>14, <1>15, <1>16, <1>17, <1>18, <1>19, <1>20, <1>21, <1>22
  DEF Next, UploadStep, WorkerStep, DeleteStep

\* A finished rung stays finished when no row of it comes or goes and the chat
\* gains no message of it.
LEMMA RungDoneFrame ==
    ASSUME NEW v, NEW r, RungDone(v, r),
           \A m : m.video = v /\ m.rung = r => (m \in rows' <=> m \in rows),
           \A m : m.video = v /\ m.rung = r /\ m \in chat' => m \in chat
    PROVE  RungDone(v, r)'
<1>1. RungComplete(v, r)'
  <2> SUFFICES ASSUME NEW p \in Segments
               PROVE  \E m \in rows' :
                         /\ m.video = v /\ m.rung = r /\ m.pos = p
                         /\ \A n \in rows' :
                               n.video = v /\ n.rung = r /\ n.pos = p => n = m
    BY DEF RungComplete, Segments
  <2>1. PICK m \in rows :
           /\ m.video = v /\ m.rung = r /\ m.pos = p
           /\ \A n \in rows : n.video = v /\ n.rung = r /\ n.pos = p => n = m
    BY DEF RungDone, RungComplete
  <2> QED
    BY <2>1
<1>2. RungMatches(v, r)'
  BY DEF RungDone, RungMatches
<1> QED
  BY <1>1, <1>2 DEF RungDone

\* The messages a rung is sent in finish it once all of them are delivered and
\* recorded together.
LEMMA InsertFinishes ==
    ASSUME TypeOK, BusyInv, NEW w \in Workers, InsertSegments(w), RungSent(w),
           SendOK(w), NEW v, NEW r, v = cur[w], r = rung[w],
           status[v] # "deleted"
    PROVE  RungDone(v, r)'
<1> DEFINE new == {MessageOf(v, r, p) : p \in Segments}
<1>1. v \in Videos /\ r \in Rungs /\ pc[w] = "send"
  BY BusyType DEF InsertSegments
<1>2. rows' = rows \cup new /\ chat' = chat
  BY DEF InsertSegments, RungSent
<1>3. \A p \in Segments : /\ MessageOf(v, r, p).video = v
                          /\ MessageOf(v, r, p).rung = r
                          /\ MessageOf(v, r, p).pos = p
  BY <1>1, MessageType
<1>4. \A m \in rows : m.video = v => m.rung # r
  BY <1>1 DEF SendOK
<1>5. ASSUME NEW p \in Segments
      PROVE  \E m \in rows' :
                /\ m.video = v /\ m.rung = r /\ m.pos = p
                /\ \A n \in rows' :
                      n.video = v /\ n.rung = r /\ n.pos = p => n = m
  <2>1. MessageOf(v, r, p) \in rows'
    BY <1>2
  <2>2. \A n \in rows' : n.video = v /\ n.rung = r /\ n.pos = p =>
           n = MessageOf(v, r, p)
    BY <1>2, <1>3, <1>4
  <2> QED
    BY <1>3, <2>1, <2>2
<1>6. RungComplete(v, r)'
  BY <1>5 DEF RungComplete, Segments
<1>7. ASSUME NEW m \in chat', m.video = v, m.rung = r PROVE m \in rows'
  <2>1. m \in Message
    BY <1>2 DEF TypeOK, MessageTypeOK
  <2>2. m.pos \in Segments
    BY <2>1 DEF Message
  <2>3. m = MessageOf(v, r, m.pos)
    BY <1>1, <1>2, <1>7 DEF SendOK
  <2> QED
    BY <1>2, <2>2, <2>3
<1>8. RungMatches(v, r)'
  BY <1>7 DEF RungMatches
<1> QED
  BY <1>6, <1>8 DEF RungDone

\* A published video is finished on every rung, and nobody works on it.
LEMMA ReadyStep ==
    TypeOK /\ BusyInv /\ RegInv /\ StepInv /\ RendInv /\ SendInv /\ ReadyInv /\ [Next]_vars =>
        ReadyInv'
<1> SUFFICES ASSUME TypeOK, BusyInv, RegInv, StepInv, RendInv, SendInv,
                    ReadyInv, [Next]_vars
    PROVE  ReadyInv'
  OBVIOUS
<1>0. /\ status \in [Videos -> VideoStatus \cup {"unregistered", "deleted"}]
      /\ rends \in [Videos -> SUBSET Rungs]
      /\ rows \subseteq Message
      /\ chat \subseteq Message
      /\ cur \in [Workers -> Videos \cup {Nobody}]
      /\ pc \in [Workers -> Steps]
      /\ rung \in [Workers -> Rungs]
  BY DEF TypeOK, TableTypeOK, MessageTypeOK, WorkerTypeOK
<1>1. ASSUME UNCHANGED <<status, rends, rows, chat>>
      PROVE  ReadyInv'
  BY <1>1 DEF ReadyInv, RungDone, RungComplete, RungMatches
<1>2. CASE \/ UNCHANGED vars
           \/ \E v \in Videos : \/ ReceiveFile(v) \/ FlushFile(v)
                                \/ RejectUpload(v) \/ CreateJob(v)
                                \/ CreateFails(v) \/ DropUpload(v)
                                \/ AbandonUpload(v)
           \/ \E w \in Workers : \E v \in Videos : Claim(w, v)
           \/ \E w \in Workers : \/ FinishJob(w) \/ FailJob(w) \/ DropSource(w)
                                 \/ DropScratch(w) \/ Load(w) \/ Encode(w)
                                 \/ ProcessFails(w) \/ IdlePoll(w)
           \/ \E d \in Deleters : \E v \in Videos : DelBegin(d, v)
           \/ \E d \in Deleters : DelAbort(d)
           \/ Restart
  BY <1>1, <1>2
  DEF vars, ReceiveFile, FlushFile, RejectUpload, CreateJob, CreateFails,
      DropUpload, AbandonUpload, Claim, FinishJob, FailJob, DropSource,
      DropScratch, Load, Encode, ProcessFails, IdlePoll, DelBegin, DelAbort,
      ResetDelete, Restart, tableVars
<1>3. ASSUME NEW v \in Videos, CreateVideo(v) PROVE ReadyInv'
  BY <1>3, <1>0
  DEF CreateVideo, ReadyInv, RegInv, StepInv, RendInv, SendInv, RungDone,
      RungComplete, RungMatches, tableVars, BusyInv
<1>4. ASSUME NEW w \in Workers, SetFailed(w) PROVE ReadyInv'
  BY <1>4, <1>0, BusyType
  DEF SetFailed, SetStatus, ReadyInv, RegInv, StepInv, RendInv, SendInv,
      RungDone, RungComplete, RungMatches, tableVars, BusyInv
<1>5. ASSUME NEW w \in Workers, Begin(w) PROVE ReadyInv'
  BY <1>5, <1>0, BusyType
  DEF Begin, SetStatus, ReadyInv, RegInv, StepInv, RendInv, SendInv,
      RungDone, RungComplete, RungMatches, tableVars, BusyInv
<1>6. ASSUME NEW w \in Workers, BeginUpload(w) PROVE ReadyInv'
  BY <1>6, <1>0, BusyType
  DEF BeginUpload, SetStatus, ReadyInv, RegInv, StepInv, RendInv, SendInv,
      RungDone, RungComplete, RungMatches, tableVars, BusyInv
<1>7. ASSUME NEW w \in Workers, CreateRendition(w) PROVE ReadyInv'
  <2>1. cur[w] \in Videos /\ rung[w] \in Rungs /\ pc[w] = "create"
    BY <1>7, BusyType DEF CreateRendition
  <2>2. /\ status[cur[w]] # "ready" /\ status' = status
        /\ rows' = rows /\ chat' = chat
    BY <1>7, <2>1, NobodyAssumption DEF StepInv, CreateRendition
  <2>3. \A v \in Videos : v # cur[w] => rends'[v] = rends[v]
    BY <1>7, <1>0 DEF CreateRendition
  <2> QED
    BY <2>2, <2>3 DEF ReadyInv, RungDone, RungComplete, RungMatches
<1>8. ASSUME NEW w \in Workers, NEW p \in Segments, Send(w, p)
      PROVE  ReadyInv'
  <2>1. cur[w] \in Videos /\ rung[w] \in Rungs /\ pc[w] = "send"
    BY <1>8, BusyType DEF Send
  <2>2. status[cur[w]] # "ready" /\ status' = status /\ rends' = rends /\ rows' = rows
    BY <1>8, <2>1, NobodyAssumption DEF StepInv, Send, tableVars
  <2>3. \A m \in chat' : m \in chat \/ m.video = cur[w]
    BY <1>8, <2>1, MessageType DEF Send
  <2>4. ASSUME NEW v \in Videos, NEW r \in Rungs, status[v] = "ready",
               RungDone(v, r)
        PROVE  RungDone(v, r)'
    BY <2>2, <2>3, <2>4, RungDoneFrame
  <2> QED
    BY <2>2, <2>4 DEF ReadyInv, Rungs
<1>9. ASSUME NEW w \in Workers, InsertSegments(w) PROVE ReadyInv'
  <2>1. cur[w] \in Videos /\ rung[w] \in Rungs /\ pc[w] = "send"
    BY <1>9, BusyType DEF InsertSegments
  <2>2. status[cur[w]] # "ready" /\ status' = status /\ rends' = rends /\ chat' = chat
    BY <1>9, <2>1, NobodyAssumption DEF StepInv, InsertSegments
  <2>3. rows \subseteq rows' /\ \A m \in rows' : m \in rows \/ m.video = cur[w]
    BY <1>9, <2>1, MessageType DEF InsertSegments, Delivered
  <2>4. ASSUME NEW v \in Videos, NEW r \in Rungs, status[v] = "ready",
               RungDone(v, r)
        PROVE  RungDone(v, r)'
    BY <2>2, <2>3, <2>4, RungDoneFrame
  <2> QED
    BY <2>2, <2>4 DEF ReadyInv, Rungs
<1>10. ASSUME NEW w \in Workers, Publish(w) PROVE ReadyInv'
  <2>1. cur[w] \in Videos /\ rung[w] \in Rungs /\ pc[w] = "publish"
    BY <1>10, BusyType DEF Publish
  <2>2. rends' = rends /\ rows' = rows /\ chat' = chat
    BY <1>10 DEF Publish, uploadVars
  <2>3. status[cur[w]] # "deleted" =>
           rends[cur[w]] = Rungs /\ \A r \in Rungs : RungDone(cur[w], r)
    BY <2>1, NobodyAssumption DEF RendInv, SendInv, SendOK
  <2>4. \A v \in Videos : status'[v] = "ready" =>
           rends[v] = Rungs /\ \A r \in Rungs : RungDone(v, r)
    BY <1>10, <1>0, <2>1, <2>3 DEF Publish, SetStatus, ReadyInv
  <2> QED
    BY <2>2, <2>4 DEF ReadyInv, RungDone, RungComplete, RungMatches
<1>11. ASSUME NEW d \in Deleters, NEW m \in delMsgs[d], DelMessage(d, m)
       PROVE  ReadyInv'
  <2>1. status' = status /\ rends' = rends /\ rows' = rows /\ chat' \subseteq chat
    BY <1>11 DEF DelMessage, tableVars
  <2>2. ASSUME NEW v \in Videos, NEW r \in Rungs, RungDone(v, r)
        PROVE  RungDone(v, r)'
    BY <2>1, <2>2, RungDoneFrame
  <2> QED
    BY <2>1, <2>2 DEF ReadyInv, Rungs
<1>12. ASSUME NEW d \in Deleters, DelRow(d) PROVE ReadyInv'
  <2>1. \A v \in Videos : status'[v] = "ready" =>
           status[v] = "ready" /\ v # delVideo[d] /\ rends'[v] = rends[v]
    BY <1>12, <1>0 DEF DelRow
  <2>2. chat' = chat /\ \A m : m.video # delVideo[d] =>
                            (m \in rows' <=> m \in rows)
    BY <1>12 DEF DelRow
  <2>3. ASSUME NEW v \in Videos, NEW r \in Rungs, v # delVideo[d],
               RungDone(v, r)
        PROVE  RungDone(v, r)'
    BY <2>2, <2>3, RungDoneFrame
  <2> QED
    BY <2>1, <2>3 DEF ReadyInv, Rungs
<1> QED
  BY <1>2, <1>3, <1>4, <1>5, <1>6, <1>7, <1>8, <1>9, <1>10, <1>11, <1>12
  DEF Next, UploadStep, WorkerStep, DeleteStep

\* What a transcoder knows of its rungs is not disturbed by steps that leave
\* its local state and the rows of its video alone and send nothing for it.
LEMMA SendFrame ==
    ASSUME NEW x \in Workers, SendOK(x),
           pc'[x] = pc[x], cur'[x] = cur[x], rung'[x] = rung[x],
           pc[x] = "send" => attempts'[cur[x]] = attempts[cur[x]],
           \A m : m.video = cur[x] => (m \in rows' <=> m \in rows),
           \A m : m.video = cur[x] /\ m \in chat' => m \in chat
    PROVE  SendOK(x)'
<1>1. PICK v : v = cur[x]
  OBVIOUS
<1>2. ASSUME NEW q \in Rungs, RungDone(v, q) PROVE RungDone(v, q)'
  BY <1>1, <1>2, RungDoneFrame
<1>3. \A q \in Rungs : RungDone(cur[x], q) => RungDone(v, q)'
  BY <1>1, <1>2 DEF RungDone, RungComplete, RungMatches
<1>4. ASSUME pc'[x] \in {"create", "send"}, NEW q \in Rungs, q < rung'[x]
      PROVE  RungDone(v, q)'
  BY <1>3, <1>4 DEF SendOK
<1>5. ASSUME pc'[x] = "publish", NEW q \in Rungs PROVE RungDone(v, q)'
  BY <1>3, <1>5 DEF SendOK
<1>6. v = cur'[x]
  BY <1>1
<1>7. ASSUME pc'[x] = "send"
      PROVE  /\ \A m \in rows' : m.video = v => m.rung # rung[x]
             /\ \A m \in chat' : m.video = v /\ m.rung = rung[x] =>
                   m = MessageOf(v, rung[x], m.pos)'
  BY <1>1, <1>7 DEF SendOK, MessageOf
<1> QED
  BY <1>4, <1>5, <1>6, <1>7
  DEF SendOK, RungDone, RungComplete, RungMatches, MessageOf, Rungs

\* A step of one transcoder does not disturb another: they are on different
\* videos.
LEMMA SendOther ==
    ASSUME TypeOK, BusyInv, ClaimInv, SendInv,
           NEW w \in Workers, NEW x \in Workers, x # w,
           cur[x] # Nobody, status[cur[x]] # "deleted",
           pc'[x] = pc[x], cur'[x] = cur[x], rung'[x] = rung[x],
           attempts'[cur[x]] = attempts[cur[x]],
           \A m : m.video # cur[w] => (m \in rows' <=> m \in rows),
           \A m : m.video # cur[w] /\ m \in chat' => m \in chat
    PROVE  SendOK(x)'
<1>1. cur[x] # cur[w]
  BY DEF ClaimInv, ClaimExclusive
<1>2. SendOK(x)
  BY DEF SendInv
<1> QED
  BY <1>1, <1>2, SendFrame

\* The rungs behind a transcoder's loop index are finished, and the rung it is
\* sending holds this attempt's messages only.
LEMMA SendStep ==
    TypeOK /\ BusyInv /\ RegInv /\ ClaimInv /\ RendInv /\ OwnedInv /\ SendInv /\ [Next]_vars =>
        SendInv'
<1> SUFFICES ASSUME TypeOK, BusyInv, RegInv, ClaimInv, RendInv, OwnedInv,
                    SendInv, [Next]_vars
    PROVE  SendInv'
  OBVIOUS
<1>0. /\ status \in [Videos -> VideoStatus \cup {"unregistered", "deleted"}]
      /\ rends \in [Videos -> SUBSET Rungs]
      /\ rows \subseteq Message
      /\ chat \subseteq Message
      /\ cur \in [Workers -> Videos \cup {Nobody}]
      /\ pc \in [Workers -> Steps]
      /\ rung \in [Workers -> Rungs]
      /\ attempts \in [Videos -> Nat]
  BY DEF TypeOK, TableTypeOK, MessageTypeOK, WorkerTypeOK
<1>1. ASSUME UNCHANGED <<rows, chat, pc, cur, rung, status, attempts>>
      PROVE  SendInv'
  BY <1>1
  DEF SendInv, SendOK, RungDone, RungComplete, RungMatches, MessageOf
<1>2. CASE \/ UNCHANGED vars
           \/ \E v \in Videos : \/ ReceiveFile(v) \/ FlushFile(v)
                                \/ RejectUpload(v) \/ CreateJob(v)
                                \/ CreateFails(v) \/ DropUpload(v)
                                \/ AbandonUpload(v)
           \/ \E w \in Workers : IdlePoll(w)
           \/ \E d \in Deleters : \E v \in Videos : DelBegin(d, v)
           \/ \E d \in Deleters : DelAbort(d)
  BY <1>1, <1>2
  DEF vars, ReceiveFile, FlushFile, RejectUpload, CreateJob, CreateFails,
      DropUpload, AbandonUpload, IdlePoll, DelBegin, DelAbort, ResetDelete,
      tableVars, workerVars
<1>3. ASSUME NEW v \in Videos, CreateVideo(v) PROVE SendInv'
  <2>1. ASSUME NEW x \in Workers, cur'[x] # Nobody, status'[cur'[x]] # "deleted"
        PROVE  SendOK(x)'
    <3>1. /\ pc' = pc /\ cur' = cur /\ rung' = rung /\ attempts' = attempts
          /\ rows' = rows /\ chat' = chat
      BY <1>3 DEF CreateVideo, workerVars
    <3>2. status[cur[x]] # "deleted"
      BY <1>3, <1>0, <2>1, <3>1 DEF CreateVideo, RegInv
    <3> QED
      BY <2>1, <3>1, <3>2, SendFrame DEF SendInv
  <2> QED
    BY <2>1 DEF SendInv
<1>4. ASSUME NEW w \in Workers, NEW v \in Videos, Claim(w, v) PROVE SendInv'
  <2> SUFFICES ASSUME NEW x \in Workers, cur'[x] # Nobody,
                      status'[cur'[x]] # "deleted"
               PROVE  SendOK(x)'
    BY DEF SendInv
  <2>1. CASE x = w
    BY <1>4, <2>1, <1>0 DEF Claim, SendOK
  <2>2. CASE x # w
    <3>1. /\ pc'[x] = pc[x] /\ cur'[x] = cur[x] /\ rung'[x] = rung[x]
          /\ cur[x] \in Videos
          /\ status[cur[x]] # "deleted"
          /\ attempts'[cur[x]] = attempts[cur[x]]
      BY <1>4, <2>2, <1>0, NobodyAssumption
      DEF Claim, Oldest, ClaimInv, uploadVars
    <3>2. /\ \A m : m.video # cur[w] => (m \in rows' <=> m \in rows)
          /\ \A m : m.video # cur[w] /\ m \in chat' => m \in chat
      BY <1>4 DEF Claim, Oldest, ClaimInv, uploadVars
    <3> QED
      BY <2>2, <3>1, <3>2, NobodyAssumption, SendOther
  <2> QED
    BY <2>1, <2>2
<1>5. ASSUME NEW w \in Workers, FinishJob(w) PROVE SendInv'
  <2> SUFFICES ASSUME NEW x \in Workers, cur'[x] # Nobody,
                      status'[cur'[x]] # "deleted"
               PROVE  SendOK(x)'
    BY DEF SendInv
  <2>1. CASE x = w
    BY <1>5, <2>1, <1>0 DEF FinishJob, SendOK
  <2>2. CASE x # w
    <3>1. /\ pc'[x] = pc[x] /\ cur'[x] = cur[x] /\ rung'[x] = rung[x]
          /\ cur[x] \in Videos
          /\ status[cur[x]] # "deleted"
          /\ attempts'[cur[x]] = attempts[cur[x]]
      BY <1>5, <2>2, <1>0
      DEF FinishJob, SetJob, uploadVars, tableVars
    <3>2. /\ \A m : m.video # cur[w] => (m \in rows' <=> m \in rows)
          /\ \A m : m.video # cur[w] /\ m \in chat' => m \in chat
      BY <1>5 DEF FinishJob, SetJob, uploadVars, tableVars
    <3> QED
      BY <2>2, <3>1, <3>2, NobodyAssumption, SendOther
  <2> QED
    BY <2>1, <2>2
<1>6. ASSUME NEW w \in Workers, FailJob(w) PROVE SendInv'
  <2> SUFFICES ASSUME NEW x \in Workers, cur'[x] # Nobody,
                      status'[cur'[x]] # "deleted"
               PROVE  SendOK(x)'
    BY DEF SendInv
  <2>1. CASE x = w
    BY <1>6, <2>1, <1>0 DEF FailJob, SendOK, AfterFailJob
  <2>2. CASE x # w
    <3>1. /\ pc'[x] = pc[x] /\ cur'[x] = cur[x] /\ rung'[x] = rung[x]
          /\ cur[x] \in Videos
          /\ status[cur[x]] # "deleted"
          /\ attempts'[cur[x]] = attempts[cur[x]]
      BY <1>6, <2>2, <1>0
      DEF FailJob, SetJob, AfterFailJob, uploadVars, tableVars
    <3>2. /\ \A m : m.video # cur[w] => (m \in rows' <=> m \in rows)
          /\ \A m : m.video # cur[w] /\ m \in chat' => m \in chat
      BY <1>6 DEF FailJob, SetJob, AfterFailJob, uploadVars, tableVars
    <3> QED
      BY <2>2, <3>1, <3>2, NobodyAssumption, SendOther
  <2> QED
    BY <2>1, <2>2
<1>7. ASSUME NEW w \in Workers, SetFailed(w) PROVE SendInv'
  <2> SUFFICES ASSUME NEW x \in Workers, cur'[x] # Nobody,
                      status'[cur'[x]] # "deleted"
               PROVE  SendOK(x)'
    BY DEF SendInv
  <2>1. CASE x = w
    BY <1>7, <2>1, <1>0 DEF SetFailed, SendOK
  <2>2. CASE x # w
    <3>1. /\ pc'[x] = pc[x] /\ cur'[x] = cur[x] /\ rung'[x] = rung[x]
          /\ cur[x] \in Videos
          /\ status[cur[x]] # "deleted"
          /\ attempts'[cur[x]] = attempts[cur[x]]
      BY <1>7, <2>2, <1>0, BusyType
      DEF SetFailed, SetStatus, uploadVars, tableVars
    <3>2. /\ \A m : m.video # cur[w] => (m \in rows' <=> m \in rows)
          /\ \A m : m.video # cur[w] /\ m \in chat' => m \in chat
      BY <1>7 DEF SetFailed, SetStatus, uploadVars, tableVars
    <3> QED
      BY <2>2, <3>1, <3>2, NobodyAssumption, SendOther
  <2> QED
    BY <2>1, <2>2
<1>8. ASSUME NEW w \in Workers, DropSource(w) PROVE SendInv'
  <2> SUFFICES ASSUME NEW x \in Workers, cur'[x] # Nobody,
                      status'[cur'[x]] # "deleted"
               PROVE  SendOK(x)'
    BY DEF SendInv
  <2>1. CASE x = w
    BY <1>8, <2>1, <1>0 DEF DropSource, SendOK
  <2>2. CASE x # w
    <3>1. /\ pc'[x] = pc[x] /\ cur'[x] = cur[x] /\ rung'[x] = rung[x]
          /\ cur[x] \in Videos
          /\ status[cur[x]] # "deleted"
          /\ attempts'[cur[x]] = attempts[cur[x]]
      BY <1>8, <2>2, <1>0
      DEF DropSource, SourceDue, SourceRemoved, uploadVars, tableVars
    <3>2. /\ \A m : m.video # cur[w] => (m \in rows' <=> m \in rows)
          /\ \A m : m.video # cur[w] /\ m \in chat' => m \in chat
      BY <1>8 DEF DropSource, SourceDue, SourceRemoved, uploadVars, tableVars
    <3> QED
      BY <2>2, <3>1, <3>2, NobodyAssumption, SendOther
  <2> QED
    BY <2>1, <2>2
<1>9. ASSUME NEW w \in Workers, DropScratch(w) PROVE SendInv'
  <2> SUFFICES ASSUME NEW x \in Workers, cur'[x] # Nobody,
                      status'[cur'[x]] # "deleted"
               PROVE  SendOK(x)'
    BY DEF SendInv
  <2>1. CASE x = w
    BY <1>9, <2>1, <1>0 DEF DropScratch, SendOK
  <2>2. CASE x # w
    <3>1. /\ pc'[x] = pc[x] /\ cur'[x] = cur[x] /\ rung'[x] = rung[x]
          /\ cur[x] \in Videos
          /\ status[cur[x]] # "deleted"
          /\ attempts'[cur[x]] = attempts[cur[x]]
      BY <1>9, <2>2, <1>0
      DEF DropScratch, uploadVars, tableVars
    <3>2. /\ \A m : m.video # cur[w] => (m \in rows' <=> m \in rows)
          /\ \A m : m.video # cur[w] /\ m \in chat' => m \in chat
      BY <1>9 DEF DropScratch, uploadVars, tableVars
    <3> QED
      BY <2>2, <3>1, <3>2, NobodyAssumption, SendOther
  <2> QED
    BY <2>1, <2>2
<1>10. ASSUME NEW w \in Workers, Load(w) PROVE SendInv'
  <2> SUFFICES ASSUME NEW x \in Workers, cur'[x] # Nobody,
                      status'[cur'[x]] # "deleted"
               PROVE  SendOK(x)'
    BY DEF SendInv
  <2>1. CASE x = w
    BY <1>10, <2>1, <1>0 DEF Load, SendOK
  <2>2. CASE x # w
    <3>1. /\ pc'[x] = pc[x] /\ cur'[x] = cur[x] /\ rung'[x] = rung[x]
          /\ cur[x] \in Videos
          /\ status[cur[x]] # "deleted"
          /\ attempts'[cur[x]] = attempts[cur[x]]
      BY <1>10, <2>2, <1>0
      DEF Load, uploadVars, tableVars
    <3>2. /\ \A m : m.video # cur[w] => (m \in rows' <=> m \in rows)
          /\ \A m : m.video # cur[w] /\ m \in chat' => m \in chat
      BY <1>10 DEF Load, uploadVars, tableVars
    <3> QED
      BY <2>2, <3>1, <3>2, NobodyAssumption, SendOther
  <2> QED
    BY <2>1, <2>2
<1>11. ASSUME NEW w \in Workers, Begin(w) PROVE SendInv'
  <2> SUFFICES ASSUME NEW x \in Workers, cur'[x] # Nobody,
                      status'[cur'[x]] # "deleted"
               PROVE  SendOK(x)'
    BY DEF SendInv
  <2>1. CASE x = w
    BY <1>11, <2>1, <1>0 DEF Begin, SendOK
  <2>2. CASE x # w
    <3>1. /\ pc'[x] = pc[x] /\ cur'[x] = cur[x] /\ rung'[x] = rung[x]
          /\ cur[x] \in Videos
          /\ status[cur[x]] # "deleted"
          /\ attempts'[cur[x]] = attempts[cur[x]]
      BY <1>11, <2>2, <1>0, BusyType
      DEF Begin, SetStatus, uploadVars, tableVars
    <3>2. /\ \A m : m.video # cur[w] => (m \in rows' <=> m \in rows)
          /\ \A m : m.video # cur[w] /\ m \in chat' => m \in chat
      BY <1>11 DEF Begin, SetStatus, uploadVars, tableVars
    <3> QED
      BY <2>2, <3>1, <3>2, NobodyAssumption, SendOther
  <2> QED
    BY <2>1, <2>2
<1>12. ASSUME NEW w \in Workers, Encode(w) PROVE SendInv'
  <2> SUFFICES ASSUME NEW x \in Workers, cur'[x] # Nobody,
                      status'[cur'[x]] # "deleted"
               PROVE  SendOK(x)'
    BY DEF SendInv
  <2>1. CASE x = w
    BY <1>12, <2>1, <1>0 DEF Encode, SendOK
  <2>2. CASE x # w
    <3>1. /\ pc'[x] = pc[x] /\ cur'[x] = cur[x] /\ rung'[x] = rung[x]
          /\ cur[x] \in Videos
          /\ status[cur[x]] # "deleted"
          /\ attempts'[cur[x]] = attempts[cur[x]]
      BY <1>12, <2>2, <1>0
      DEF Encode, uploadVars, tableVars
    <3>2. /\ \A m : m.video # cur[w] => (m \in rows' <=> m \in rows)
          /\ \A m : m.video # cur[w] /\ m \in chat' => m \in chat
      BY <1>12 DEF Encode, uploadVars, tableVars
    <3> QED
      BY <2>2, <3>1, <3>2, NobodyAssumption, SendOther
  <2> QED
    BY <2>1, <2>2
<1>13. ASSUME NEW w \in Workers, BeginUpload(w) PROVE SendInv'
  <2> SUFFICES ASSUME NEW x \in Workers, cur'[x] # Nobody,
                      status'[cur'[x]] # "deleted"
               PROVE  SendOK(x)'
    BY DEF SendInv
  <2>1. CASE x = w
    <3>1. pc'[w] = "create" /\ rung'[w] = 1
      BY <1>13, <1>0 DEF BeginUpload, RendInv
    <3>2. \A q \in Rungs : ~(q < 1)
      BY NumRungsAssumption DEF Rungs
    <3> QED
      BY <2>1, <3>1, <3>2 DEF SendOK
  <2>2. CASE x # w
    <3>1. /\ pc'[x] = pc[x] /\ cur'[x] = cur[x] /\ rung'[x] = rung[x]
          /\ cur[x] \in Videos
          /\ status[cur[x]] # "deleted"
          /\ attempts'[cur[x]] = attempts[cur[x]]
      BY <1>13, <2>2, <1>0, BusyType
      DEF BeginUpload, SetStatus, uploadVars, tableVars
    <3>2. /\ \A m : m.video # cur[w] => (m \in rows' <=> m \in rows)
          /\ \A m : m.video # cur[w] /\ m \in chat' => m \in chat
      BY <1>13 DEF BeginUpload, SetStatus, uploadVars, tableVars
    <3> QED
      BY <2>2, <3>1, <3>2, NobodyAssumption, SendOther
  <2> QED
    BY <2>1, <2>2
<1>14. ASSUME NEW w \in Workers, CreateRendition(w) PROVE SendInv'
  <2> SUFFICES ASSUME NEW x \in Workers, cur'[x] # Nobody,
                      status'[cur'[x]] # "deleted"
               PROVE  SendOK(x)'
    BY DEF SendInv
  <2>1. CASE x = w
    <3>1. cur[w] \in Videos /\ rung[w] \in Rungs /\ pc[w] = "create"
      BY <1>14, BusyType DEF CreateRendition
    <3>2. /\ cur' = cur /\ rung' = rung /\ status' = status /\ rows' = rows
          /\ chat' = chat /\ attempts' = attempts
      BY <1>14 DEF CreateRendition
    <3>3. SendOK(w) /\ status[cur[w]] # "deleted"
      BY <2>1, <3>1, <3>2, NobodyAssumption DEF SendInv
    <3>4. CASE pc' = [pc EXCEPT ![w] = "fail"]
      BY <1>0, <2>1, <3>4 DEF SendOK
    <3>5. CASE /\ rung[w] \notin rends[cur[w]]
               /\ pc' = [pc EXCEPT ![w] = "send"]
      <4>1. /\ \A m \in rows : m.video = cur[w] => m.rung # rung[w]
            /\ \A m \in chat : m.video = cur[w] => m.rung # rung[w]
        BY <3>3, <3>5 DEF OwnedInv
      <4>2. \A q \in Rungs : q < rung[w] => RungDone(cur[w], q)
        BY <3>1, <3>3 DEF SendOK
      <4>3. pc'[w] = "send"
        BY <1>0, <3>5
      <4> QED
        BY <2>1, <3>2, <4>1, <4>2, <4>3
        DEF SendOK, RungDone, RungComplete, RungMatches
    <3> QED
      BY <1>14, <3>4, <3>5 DEF CreateRendition, RenditionAccepted
  <2>2. CASE x # w
    <3>1. /\ pc'[x] = pc[x] /\ cur'[x] = cur[x] /\ rung'[x] = rung[x]
          /\ cur[x] \in Videos
          /\ status[cur[x]] # "deleted"
          /\ attempts'[cur[x]] = attempts[cur[x]]
      BY <1>14, <2>2, <1>0
      DEF CreateRendition, uploadVars, tableVars
    <3>2. /\ \A m : m.video # cur[w] => (m \in rows' <=> m \in rows)
          /\ \A m : m.video # cur[w] /\ m \in chat' => m \in chat
      BY <1>14 DEF CreateRendition, uploadVars, tableVars
    <3> QED
      BY <2>2, <3>1, <3>2, NobodyAssumption, SendOther
  <2> QED
    BY <2>1, <2>2
<1>15. ASSUME NEW w \in Workers, NEW p \in Segments, Send(w, p)
       PROVE  SendInv'
  <2> SUFFICES ASSUME NEW x \in Workers, cur'[x] # Nobody,
                      status'[cur'[x]] # "deleted"
               PROVE  SendOK(x)'
    BY DEF SendInv
  <2>1. CASE x = w
    <3>1. cur[w] \in Videos /\ rung[w] \in Rungs /\ pc[w] = "send"
      BY <1>15, BusyType DEF Send
    <3>2. /\ cur' = cur /\ rung' = rung /\ status' = status /\ rows' = rows
          /\ pc' = pc /\ attempts' = attempts
      BY <1>15 DEF Send, tableVars
    <3>3. SendOK(w)
      BY <2>1, <3>1, <3>2, NobodyAssumption DEF SendInv
    <3>4. \A m \in chat' : m \in chat \/ m = MessageOf(cur[w], rung[w], p)
      BY <1>15 DEF Send
    <3>5. LET n == MessageOf(cur[w], rung[w], p) IN
             n.video = cur[w] /\ n.rung = rung[w] /\ n.pos = p
      BY <3>1, MessageType
    <3>6. \A m \in chat' : m.video = cur[w] /\ m.rung = rung[w] =>
             m = MessageOf(cur[w], rung[w], m.pos)
      BY <3>1, <3>3, <3>4, <3>5 DEF SendOK
    <3>7. PICK v \in Videos, r \in Rungs : v = cur[w] /\ r = rung[w]
      BY <3>1
    <3>8. ASSUME NEW q \in Rungs, q < r PROVE RungDone(v, q)'
      <4>1. RungDone(v, q) /\ q # r
        BY <3>1, <3>3, <3>7, <3>8, NumRungsAssumption DEF SendOK, Rungs
      <4>2. \A m : m.video = v /\ m.rung = q /\ m \in chat' => m \in chat
        BY <3>4, <3>5, <3>7, <4>1
      <4> QED
        BY <3>2, <4>1, <4>2, RungDoneFrame
    <3> QED
      BY <2>1, <3>1, <3>2, <3>3, <3>6, <3>7, <3>8
      DEF SendOK, MessageOf, RungDone, RungComplete, RungMatches
  <2>2. CASE x # w
    <3>1. /\ pc'[x] = pc[x] /\ cur'[x] = cur[x] /\ rung'[x] = rung[x]
          /\ cur[x] \in Videos
          /\ status[cur[x]] # "deleted"
          /\ attempts'[cur[x]] = attempts[cur[x]]
      BY <1>15, <2>2, <1>0, BusyType
      DEF Send, tableVars
    <3>2. /\ \A m : m.video # cur[w] => (m \in rows' <=> m \in rows)
          /\ \A m : m.video # cur[w] /\ m \in chat' => m \in chat
      BY <1>15, BusyType, MessageType DEF Send, tableVars
    <3> QED
      BY <2>2, <3>1, <3>2, NobodyAssumption, SendOther
  <2> QED
    BY <2>1, <2>2
<1>16. ASSUME NEW w \in Workers, InsertSegments(w) PROVE SendInv'
  <2> SUFFICES ASSUME NEW x \in Workers, cur'[x] # Nobody,
                      status'[cur'[x]] # "deleted"
               PROVE  SendOK(x)'
    BY DEF SendInv
  <2>1. CASE x = w
    <3>1. cur[w] \in Videos /\ rung[w] \in Rungs /\ pc[w] = "send"
      BY <1>16, BusyType DEF InsertSegments
    <3>2. cur' = cur /\ status' = status /\ chat' = chat
      BY <1>16 DEF InsertSegments
    <3>3. SendOK(w) /\ status[cur[w]] # "deleted"
      BY <2>1, <3>1, <3>2, NobodyAssumption DEF SendInv
    <3>4. CASE pc' = [pc EXCEPT ![w] = "fail"]
      BY <1>0, <2>1, <3>4 DEF SendOK
    <3>5. CASE RungSent(w)
      <4>1. PICK v \in Videos, r \in Rungs : v = cur[w] /\ r = rung[w]
        BY <3>1
      <4>2. RungDone(v, r)'
        BY <1>16, <3>3, <3>5, <4>1, InsertFinishes
      <4>3. /\ \A m : m.video = v /\ m.rung # r => (m \in rows' <=> m \in rows)
            /\ chat' = chat
        BY <1>16, <3>1, <4>1, MessageType DEF InsertSegments, Delivered
      <4>4. ASSUME NEW q \in Rungs, q < r PROVE RungDone(v, q)'
        <5>1. RungDone(v, q) /\ q # r
          BY <3>1, <3>3, <4>1, <4>4, NumRungsAssumption DEF SendOK, Rungs
        <5> QED
          BY <4>3, <5>1, RungDoneFrame
      <4>5. \A q \in Rungs : q < r \/ q = r => RungDone(v, q)'
        BY <4>2, <4>4
      <4>6. CASE rung[w] < NumRungs
        <5>1. pc'[w] = "create" /\ rung'[w] = r + 1
          BY <1>16, <1>0, <3>3, <3>5, <4>1, <4>6 DEF InsertSegments
        <5>2. \A q \in Rungs : q < r + 1 => q < r \/ q = r
          BY <4>1, NumRungsAssumption DEF Rungs
        <5>3. \A q \in Rungs : q < rung'[w] => RungDone(v, q)'
          BY <4>5, <5>1, <5>2
        <5> QED
          BY <2>1, <3>2, <4>1, <5>1, <5>3
          DEF SendOK, RungDone, RungComplete, RungMatches
      <4>7. CASE ~(rung[w] < NumRungs)
        <5>1. pc'[w] = "publish"
          BY <1>16, <1>0, <3>3, <3>5, <4>7 DEF InsertSegments
        <5>2. \A q \in Rungs : q < r \/ q = r
          BY <4>1, <4>7, NumRungsAssumption DEF Rungs
        <5>3. \A q \in Rungs : RungDone(v, q)'
          BY <4>5, <5>2
        <5> QED
          BY <2>1, <3>2, <4>1, <5>1, <5>3
          DEF SendOK, RungDone, RungComplete, RungMatches
      <4> QED
        BY <4>6, <4>7
    <3> QED
      BY <1>16, <3>4, <3>5 DEF InsertSegments
  <2>2. CASE x # w
    <3>1. /\ pc'[x] = pc[x] /\ cur'[x] = cur[x] /\ rung'[x] = rung[x]
          /\ cur[x] \in Videos
          /\ status[cur[x]] # "deleted"
          /\ attempts'[cur[x]] = attempts[cur[x]]
      BY <1>16, <2>2, <1>0, BusyType
      DEF InsertSegments, tableVars, Delivered
    <3>2. /\ \A m : m.video # cur[w] => (m \in rows' <=> m \in rows)
          /\ \A m : m.video # cur[w] /\ m \in chat' => m \in chat
      BY <1>16, BusyType, MessageType DEF InsertSegments, tableVars, Delivered
    <3> QED
      BY <2>2, <3>1, <3>2, NobodyAssumption, SendOther
  <2> QED
    BY <2>1, <2>2
<1>17. ASSUME NEW w \in Workers, Publish(w) PROVE SendInv'
  <2> SUFFICES ASSUME NEW x \in Workers, cur'[x] # Nobody,
                      status'[cur'[x]] # "deleted"
               PROVE  SendOK(x)'
    BY DEF SendInv
  <2>1. CASE x = w
    BY <1>17, <2>1, <1>0 DEF Publish, SendOK
  <2>2. CASE x # w
    <3>1. /\ pc'[x] = pc[x] /\ cur'[x] = cur[x] /\ rung'[x] = rung[x]
          /\ cur[x] \in Videos
          /\ status[cur[x]] # "deleted"
          /\ attempts'[cur[x]] = attempts[cur[x]]
      BY <1>17, <2>2, <1>0, BusyType
      DEF Publish, SetStatus, uploadVars, tableVars
    <3>2. /\ \A m : m.video # cur[w] => (m \in rows' <=> m \in rows)
          /\ \A m : m.video # cur[w] /\ m \in chat' => m \in chat
      BY <1>17 DEF Publish, SetStatus, uploadVars, tableVars
    <3> QED
      BY <2>2, <3>1, <3>2, NobodyAssumption, SendOther
  <2> QED
    BY <2>1, <2>2
<1>18. ASSUME NEW w \in Workers, ProcessFails(w) PROVE SendInv'
  <2> SUFFICES ASSUME NEW x \in Workers, cur'[x] # Nobody,
                      status'[cur'[x]] # "deleted"
               PROVE  SendOK(x)'
    BY DEF SendInv
  <2>1. CASE x = w
    BY <1>18, <2>1, <1>0 DEF ProcessFails, SendOK
  <2>2. CASE x # w
    <3>1. /\ pc'[x] = pc[x] /\ cur'[x] = cur[x] /\ rung'[x] = rung[x]
          /\ cur[x] \in Videos
          /\ status[cur[x]] # "deleted"
          /\ attempts'[cur[x]] = attempts[cur[x]]
      BY <1>18, <2>2, <1>0
      DEF ProcessFails, uploadVars, tableVars
    <3>2. /\ \A m : m.video # cur[w] => (m \in rows' <=> m \in rows)
          /\ \A m : m.video # cur[w] /\ m \in chat' => m \in chat
      BY <1>18 DEF ProcessFails, uploadVars, tableVars
    <3> QED
      BY <2>2, <3>1, <3>2, NobodyAssumption, SendOther
  <2> QED
    BY <2>1, <2>2
<1>19. ASSUME NEW d \in Deleters, NEW m \in delMsgs[d], DelMessage(d, m)
       PROVE  SendInv'
  <2>1. ASSUME NEW x \in Workers, cur'[x] # Nobody, status'[cur'[x]] # "deleted"
        PROVE  SendOK(x)'
    <3>1. /\ pc' = pc /\ cur' = cur /\ rung' = rung /\ attempts' = attempts
          /\ rows' = rows /\ status' = status /\ chat' \subseteq chat
      BY <1>19 DEF DelMessage, workerVars, tableVars
    <3> QED
      BY <2>1, <3>1, SendFrame DEF SendInv
  <2> QED
    BY <2>1 DEF SendInv
<1>20. ASSUME NEW d \in Deleters, DelRow(d) PROVE SendInv'
  <2>1. ASSUME NEW x \in Workers, cur'[x] # Nobody, status'[cur'[x]] # "deleted"
        PROVE  SendOK(x)'
    <3>1. /\ pc' = pc /\ cur' = cur /\ rung' = rung /\ attempts' = attempts
          /\ chat' = chat
      BY <1>20 DEF DelRow, workerVars
    <3>2. status[cur[x]] # "deleted" /\ cur[x] # delVideo[d]
      BY <1>20, <1>0, <2>1, <3>1, NobodyAssumption DEF DelRow
    <3>3. \A m : m.video = cur[x] => (m \in rows' <=> m \in rows)
      BY <1>20, <3>2 DEF DelRow
    <3> QED
      BY <2>1, <3>1, <3>2, <3>3, SendFrame DEF SendInv
  <2> QED
    BY <2>1 DEF SendInv
<1>21. CASE Restart
  <2>1. \A x \in Workers : cur'[x] = Nobody
    BY <1>21 DEF Restart
  <2> QED
    BY <2>1 DEF SendInv
<1> QED
  BY <1>2, <1>3, <1>4, <1>5, <1>6, <1>7, <1>8, <1>9, <1>10, <1>11, <1>12,
     <1>13, <1>14, <1>15, <1>16, <1>17, <1>18, <1>19, <1>20, <1>21
  DEF Next, UploadStep, WorkerStep, DeleteStep

-----------------------------------------------------------------------------
(* The inductive invariant *)

LEMMA IInvInit == Init => IInv
<1> SUFFICES ASSUME Init PROVE IInv
  OBVIOUS
<1>1. TypeOK /\ BusyInv
  BY TypeInit
<1>2. RegInv /\ DelInv /\ ClaimInv /\ StepInv
  BY NobodyAssumption
  DEF Init, RegInv, DelInv, ClaimInv, ClaimExclusive, StepInv
<1>3. RendInv /\ OwnedInv
  BY DEF Init, RendInv, OwnedInv
<1>4. SendInv /\ LiveInv
  BY DEF Init, SendInv, LiveInv, Unsent
<1>5. ReadyInv /\ DoneMeansReady /\ DeletedLeavesNoRows
  BY DEF Init, ReadyInv, DoneMeansReady, DeletedLeavesNoRows
<1> QED
  BY <1>1, <1>2, <1>3, <1>4, <1>5 DEF IInv

LEMMA IInvStep == IInv /\ [Next]_vars => IInv'
<1> SUFFICES ASSUME IInv, [Next]_vars PROVE IInv'
  OBVIOUS
<1>1. /\ TypeOK /\ BusyInv /\ RegInv /\ DelInv /\ ClaimInv /\ StepInv
      /\ RendInv /\ OwnedInv /\ SendInv /\ LiveInv /\ ReadyInv
      /\ DoneMeansReady /\ DeletedLeavesNoRows
  BY DEF IInv
<1>2. TypeOK' /\ BusyInv'
  BY <1>1, TypeStep
<1>3. RegInv' /\ DelInv' /\ ClaimInv' /\ StepInv'
  BY <1>1, RegStep, DelStep, ClaimStep, StepStep
<1>4. DoneMeansReady' /\ DeletedLeavesNoRows'
  BY <1>1, DoneStep, DeletedStep
<1>5. RendInv' /\ OwnedInv' /\ LiveInv'
  BY <1>1, RendStep, OwnedStep, LiveStep
<1>6. SendInv' /\ ReadyInv'
  BY <1>1, SendStep, ReadyStep
<1> QED
  BY <1>2, <1>3, <1>4, <1>5, <1>6 DEF IInv

\* All that the safety of the pipeline rests on holds in every state: types,
\* claims, the order of the rows, and who may send or remove a message.
THEOREM Inductive == Spec => []IInv
<1>1. Init => IInv
  BY IInvInit
<1>2. IInv /\ [Next]_vars => IInv'
  BY IInvStep
<1> QED
  BY <1>1, <1>2, PTL DEF Spec

-----------------------------------------------------------------------------
(* What it gives *)

\* No video is published before every segment of every rung has its row,
\* however uploads, transcoders, deletions, errors and restarts interleave.
THEOREM PublishedIsComplete == Spec => []ReadyComplete
<1>1. IInv => ReadyComplete
  <2> SUFFICES ASSUME IInv, NEW v \in Videos, status[v] = "ready",
                      NEW r \in Rungs, NEW p \in Segments
               PROVE  /\ rends[v] = Rungs
                      /\ \E m \in MessagesOf(rows, v) :
                            /\ m.rung = r /\ m.pos = p
                            /\ \A n \in MessagesOf(rows, v) :
                                  n.rung = r /\ n.pos = p => n = m
    <3>1. 1 \in Rungs /\ 1 \in Segments
      BY NumRungsAssumption, NumSegmentsAssumption DEF Rungs, Segments
    <3> QED
      BY <3>1 DEF ReadyComplete
  <2>1. rends[v] = Rungs /\ RungComplete(v, r)
    BY DEF IInv, ReadyInv, RungDone
  <2> QED
    BY <2>1 DEF RungComplete, MessagesOf
<1> QED
  BY <1>1, Inductive, PTL

\* Behind a published video the chat holds no message without a row.
THEOREM PublishedHasNoStrays == Spec => []ReadyMatchesChat
<1>1. IInv => ReadyMatchesChat
  <2> SUFFICES ASSUME IInv, NEW v \in Videos, status[v] = "ready",
                      NEW m \in chat, m.video = v
               PROVE  m \in rows
    BY DEF ReadyMatchesChat, MessagesOf
  <2>1. m.rung \in Rungs
    BY DEF IInv, TypeOK, MessageTypeOK, Message
  <2>2. RungMatches(v, m.rung)
    BY <2>1 DEF IInv, ReadyInv, RungDone
  <2> QED
    BY <2>2 DEF RungMatches
<1> QED
  BY <1>1, Inductive, PTL

\* A published video nobody has begun to delete can be fetched.
THEOREM PublishedIsPlayable == Spec => []ReadyPlayable
<1>1. IInv => ReadyPlayable
  BY DEF IInv, LiveInv, ReadyPlayable, MessagesOf
<1> QED
  BY <1>1, Inductive, PTL

\* Two transcoders never hold the same job, whatever restarts requeue.
THEOREM ClaimsAreExclusive == Spec => []ClaimExclusive
<1>1. IInv => ClaimExclusive
  BY DEF IInv, ClaimInv
<1> QED
  BY <1>1, Inductive, PTL

\* A job that is done stands for a published video.
THEOREM DoneIsPublished == Spec => []DoneMeansReady
<1>1. IInv => DoneMeansReady
  BY DEF IInv
<1> QED
  BY <1>1, Inductive, PTL

\* Whatever is still running for a deleted video leaves no rows of it.
THEOREM DeletionIsFinal == Spec => []DeletedLeavesNoRows
<1>1. IInv => DeletedLeavesNoRows
  BY DEF IInv
<1> QED
  BY <1>1, Inductive, PTL

-----------------------------------------------------------------------------
(* What is published stays published *)

\* Before the first restart no transcoder works on a published video again.
LEMMA SteadyStep ==
    TypeOK /\ BusyInv /\ RegInv /\ ClaimInv /\ StepInv /\ DeletedLeavesNoRows /\
    SteadyInv /\ [Next]_vars =>
        SteadyInv'
<1> SUFFICES ASSUME TypeOK, BusyInv, RegInv, ClaimInv, StepInv,
                    DeletedLeavesNoRows, SteadyInv, [Next]_vars
    PROVE  SteadyInv'
  OBVIOUS
<1>0. /\ reg \in [Videos -> UploadStates]
      /\ status \in [Videos -> VideoStatus \cup {"unregistered", "deleted"}]
      /\ job \in [Videos -> JobState \cup {"none"}]
      /\ pc \in [Workers -> Steps]
      /\ cur \in [Workers -> Videos \cup {Nobody}]
      /\ restarts \in Nat
  BY DEF TypeOK, UploadTypeOK, TableTypeOK, WorkerTypeOK, HistoryTypeOK
<1>1. ASSUME UNCHANGED <<reg, status, job, pc, cur, restarts>>
      PROVE  SteadyInv'
  BY <1>1 DEF SteadyInv, ClaimExclusive, Steps
<1>2. CASE \/ UNCHANGED vars
           \/ \E w \in Workers : IdlePoll(w)
           \/ \E w \in Workers : \E p \in Segments : Send(w, p)
           \/ \E d \in Deleters : \E v \in Videos : DelBegin(d, v)
           \/ \E d \in Deleters : \E m \in delMsgs[d] : DelMessage(d, m)
           \/ \E d \in Deleters : DelAbort(d)
  BY <1>1, <1>2
  DEF vars, Send, IdlePoll, DelBegin, DelMessage, DelAbort, ResetDelete,
      uploadVars, tableVars, workerVars, historyVars
<1>3. ASSUME NEW v \in Videos, ReceiveFile(v) PROVE SteadyInv'
  BY <1>3, <1>0
  DEF ReceiveFile, SteadyInv, RegInv, ClaimInv, StepInv,
      DeletedLeavesNoRows, ClaimExclusive, Steps, uploadVars, tableVars,
      workerVars, historyVars, BusyInv
<1>4. ASSUME NEW v \in Videos, FlushFile(v) PROVE SteadyInv'
  BY <1>4, <1>0
  DEF FlushFile, SteadyInv, RegInv, ClaimInv, StepInv, DeletedLeavesNoRows,
      ClaimExclusive, Steps, uploadVars, tableVars, workerVars, historyVars,
      BusyInv
<1>5. ASSUME NEW v \in Videos, RejectUpload(v) PROVE SteadyInv'
  BY <1>5, <1>0
  DEF RejectUpload, SteadyInv, RegInv, ClaimInv, StepInv,
      DeletedLeavesNoRows, ClaimExclusive, Steps, uploadVars, tableVars,
      workerVars, historyVars, BusyInv
<1>6. ASSUME NEW v \in Videos, CreateVideo(v) PROVE SteadyInv'
  BY <1>6, <1>0
  DEF CreateVideo, SteadyInv, RegInv, ClaimInv, StepInv,
      DeletedLeavesNoRows, ClaimExclusive, Steps, uploadVars, tableVars,
      workerVars, historyVars, BusyInv
<1>7. ASSUME NEW v \in Videos, CreateJob(v) PROVE SteadyInv'
  BY <1>7, <1>0
  DEF CreateJob, SteadyInv, RegInv, ClaimInv, StepInv, DeletedLeavesNoRows,
      ClaimExclusive, Steps, uploadVars, tableVars, workerVars, historyVars,
      BusyInv
<1>8. ASSUME NEW v \in Videos, CreateFails(v) PROVE SteadyInv'
  BY <1>8, <1>0
  DEF CreateFails, SteadyInv, RegInv, ClaimInv, StepInv,
      DeletedLeavesNoRows, ClaimExclusive, Steps, uploadVars, tableVars,
      workerVars, historyVars, BusyInv
<1>9. ASSUME NEW v \in Videos, DropUpload(v) PROVE SteadyInv'
  BY <1>9, <1>0
  DEF DropUpload, SourceRemoved, SteadyInv, RegInv, ClaimInv, StepInv,
      DeletedLeavesNoRows, ClaimExclusive, Steps, uploadVars, tableVars,
      workerVars, historyVars, BusyInv
<1>10. ASSUME NEW v \in Videos, AbandonUpload(v) PROVE SteadyInv'
  BY <1>10, <1>0
  DEF AbandonUpload, SteadyInv, RegInv, ClaimInv, StepInv,
      DeletedLeavesNoRows, ClaimExclusive, Steps, uploadVars, tableVars,
      workerVars, historyVars, BusyInv
<1>11. ASSUME NEW w \in Workers, NEW v \in Videos, Claim(w, v)
       PROVE  SteadyInv'
  BY <1>11, <1>0, NobodyAssumption
  DEF Claim, Oldest, SteadyInv, RegInv, ClaimInv, StepInv,
      DeletedLeavesNoRows, ClaimExclusive, Steps, uploadVars, tableVars,
      workerVars, historyVars, BusyInv
<1>12. ASSUME NEW w \in Workers, FinishJob(w) PROVE SteadyInv'
  BY <1>12, <1>0, BusyType
  DEF FinishJob, SetJob, SteadyInv, RegInv, ClaimInv, StepInv,
      DeletedLeavesNoRows, ClaimExclusive, Steps, uploadVars, tableVars,
      workerVars, historyVars, BusyInv
<1>13. ASSUME NEW w \in Workers, FailJob(w) PROVE SteadyInv'
  BY <1>13, <1>0, BusyType
  DEF FailJob, SetJob, AfterFailJob, SteadyInv, RegInv, ClaimInv, StepInv,
      DeletedLeavesNoRows, ClaimExclusive, Steps, uploadVars, tableVars,
      workerVars, historyVars, BusyInv
<1>14. ASSUME NEW w \in Workers, SetFailed(w) PROVE SteadyInv'
  BY <1>14, <1>0, BusyType
  DEF SetFailed, SetStatus, SteadyInv, RegInv, ClaimInv, StepInv,
      DeletedLeavesNoRows, ClaimExclusive, Steps, uploadVars, tableVars,
      workerVars, historyVars, BusyInv
<1>15. ASSUME NEW w \in Workers, DropSource(w) PROVE SteadyInv'
  BY <1>15, <1>0, BusyType
  DEF DropSource, SourceDue, SourceRemoved, SteadyInv, RegInv, ClaimInv,
      StepInv, DeletedLeavesNoRows, ClaimExclusive, Steps, uploadVars,
      tableVars, workerVars, historyVars, BusyInv
<1>16. ASSUME NEW w \in Workers, DropScratch(w) PROVE SteadyInv'
  BY <1>16, <1>0, NobodyAssumption, BusyType
  DEF DropScratch, SteadyInv, RegInv, ClaimInv, StepInv,
      DeletedLeavesNoRows, ClaimExclusive, Steps, uploadVars, tableVars,
      workerVars, historyVars, BusyInv
<1>17. ASSUME NEW w \in Workers, Load(w) PROVE SteadyInv'
  BY <1>17, <1>0, BusyType
  DEF Load, SteadyInv, RegInv, ClaimInv, StepInv, DeletedLeavesNoRows,
      ClaimExclusive, Steps, uploadVars, tableVars, workerVars, historyVars,
      BusyInv
<1>18. ASSUME NEW w \in Workers, Begin(w) PROVE SteadyInv'
  BY <1>18, <1>0, BusyType
  DEF Begin, SetStatus, SteadyInv, RegInv, ClaimInv, StepInv,
      DeletedLeavesNoRows, ClaimExclusive, Steps, uploadVars, tableVars,
      workerVars, historyVars, BusyInv
<1>19. ASSUME NEW w \in Workers, Encode(w) PROVE SteadyInv'
  BY <1>19, <1>0, BusyType
  DEF Encode, SteadyInv, RegInv, ClaimInv, StepInv, DeletedLeavesNoRows,
      ClaimExclusive, Steps, uploadVars, tableVars, workerVars, historyVars,
      BusyInv
<1>20. ASSUME NEW w \in Workers, BeginUpload(w) PROVE SteadyInv'
  BY <1>20, <1>0, BusyType
  DEF BeginUpload, SetStatus, SteadyInv, RegInv, ClaimInv, StepInv,
      DeletedLeavesNoRows, ClaimExclusive, Steps, uploadVars, tableVars,
      workerVars, historyVars, BusyInv
<1>21. ASSUME NEW w \in Workers, CreateRendition(w) PROVE SteadyInv'
  BY <1>21, <1>0, BusyType
  DEF CreateRendition, RenditionAccepted, SteadyInv, RegInv, ClaimInv,
      StepInv, DeletedLeavesNoRows, ClaimExclusive, Steps, uploadVars,
      tableVars, workerVars, historyVars, BusyInv
<1>22. ASSUME NEW w \in Workers, InsertSegments(w) PROVE SteadyInv'
  BY <1>22, <1>0, BusyType
  DEF InsertSegments, RungSent, Delivered, SteadyInv, RegInv, ClaimInv,
      StepInv, DeletedLeavesNoRows, ClaimExclusive, Steps, uploadVars,
      tableVars, workerVars, historyVars, BusyInv
<1>23. ASSUME NEW w \in Workers, Publish(w) PROVE SteadyInv'
  BY <1>23, <1>0, BusyType
  DEF Publish, SetStatus, SteadyInv, RegInv, ClaimInv, StepInv,
      DeletedLeavesNoRows, ClaimExclusive, Steps, uploadVars, tableVars,
      workerVars, historyVars, BusyInv
<1>24. ASSUME NEW w \in Workers, ProcessFails(w) PROVE SteadyInv'
  BY <1>24, <1>0, BusyType
  DEF ProcessFails, ErrorPoints, SteadyInv, RegInv, ClaimInv, StepInv,
      DeletedLeavesNoRows, ClaimExclusive, Steps, uploadVars, tableVars,
      workerVars, historyVars, BusyInv
<1>25. ASSUME NEW d \in Deleters, DelRow(d) PROVE SteadyInv'
  BY <1>25, <1>0
  DEF DelRow, DelRowDue, ResetDelete, SteadyInv, RegInv, ClaimInv, StepInv,
      DeletedLeavesNoRows, ClaimExclusive, Steps, uploadVars, tableVars,
      workerVars, historyVars, BusyInv
<1>26. CASE Restart
  BY <1>26, <1>0, NobodyAssumption
  DEF Restart, Requeued, SteadyInv, RegInv, ClaimInv, StepInv,
      DeletedLeavesNoRows, ClaimExclusive, Steps, uploadVars, tableVars,
      workerVars, historyVars, BusyInv
<1> QED
  BY <1>2, <1>3, <1>4, <1>5, <1>6, <1>7, <1>8, <1>9, <1>10, <1>11, <1>12,
     <1>13, <1>14, <1>15, <1>16, <1>17, <1>18, <1>19, <1>20, <1>21, <1>22,
     <1>23, <1>24, <1>25, <1>26 DEF Next, UploadStep, WorkerStep, DeleteStep


\* The steps that write videos.status.
LEMMA StatusWrites ==
    [Next]_vars =>
        \/ status' = status
        \/ \E v \in Videos : CreateVideo(v)
        \/ \E w \in Workers :
              SetFailed(w) \/ Begin(w) \/ BeginUpload(w) \/ Publish(w)
        \/ \E d \in Deleters : DelRow(d)
<1>1. ASSUME NEW v \in Videos,
             \/ ReceiveFile(v) \/ FlushFile(v) \/ RejectUpload(v)
             \/ CreateJob(v) \/ CreateFails(v) \/ DropUpload(v)
             \/ AbandonUpload(v)
      PROVE  status' = status
  BY <1>1 DEF ReceiveFile, FlushFile, RejectUpload, CreateJob, CreateFails,
              DropUpload, AbandonUpload, tableVars
<1>2. ASSUME NEW w \in Workers, NEW v \in Videos, Claim(w, v)
      PROVE  status' = status
  BY <1>2 DEF Claim
<1>3. ASSUME NEW w \in Workers,
             \/ FinishJob(w) \/ FailJob(w) \/ DropSource(w) \/ DropScratch(w)
             \/ Load(w) \/ Encode(w) \/ ProcessFails(w) \/ IdlePoll(w)
      PROVE  status' = status
  BY <1>3 DEF FinishJob, FailJob, DropSource, DropScratch, Load, Encode,
              ProcessFails, IdlePoll, tableVars, vars
<1>4. ASSUME NEW w \in Workers, CreateRendition(w) \/ InsertSegments(w)
      PROVE  status' = status
  BY <1>4 DEF CreateRendition, InsertSegments
<1>5. ASSUME NEW w \in Workers, NEW p \in Segments, Send(w, p)
      PROVE  status' = status
  BY <1>5 DEF Send, tableVars
<1>6. ASSUME NEW d \in Deleters, NEW v \in Videos, DelBegin(d, v)
      PROVE  status' = status
  BY <1>6 DEF DelBegin, tableVars
<1>7. ASSUME NEW d \in Deleters, NEW m \in delMsgs[d], DelMessage(d, m)
      PROVE  status' = status
  BY <1>7 DEF DelMessage, tableVars
<1>8. ASSUME NEW d \in Deleters, DelAbort(d)
      PROVE  status' = status
  BY <1>8 DEF DelAbort, tableVars
<1>9. CASE Restart
  BY <1>9 DEF Restart
<1>10. CASE UNCHANGED vars
  BY <1>10 DEF vars, tableVars
<1> QED
  BY <1>1, <1>2, <1>3, <1>4, <1>5, <1>6, <1>7, <1>8, <1>9, <1>10
  DEF Next, UploadStep, WorkerStep, DeleteStep

\* None of them takes back what is published, once its job is done or as long
\* as nothing was restarted: no transcoder is at such a step.
LEMMA ReadyKept ==
    ASSUME IInv, SteadyInv, [Next]_vars, NEW v \in Videos,
           status[v] = "ready", job[v] = "done" \/ restarts = 0
    PROVE  status'[v] \in {"ready", "deleted"}
<1>0. /\ status \in [Videos -> VideoStatus \cup {"unregistered", "deleted"}]
      /\ BusyInv /\ StepInv /\ RegInv /\ TypeOK
  BY DEF IInv, TypeOK, TableTypeOK
<1>1. ASSUME NEW w \in Workers, pc[w] \in {"begin", "stage", "setFailed"}
      PROVE  cur[w] # v
  BY <1>0, <1>1, NobodyAssumption DEF StepInv, SteadyInv
<1>2. ASSUME NEW u \in Videos, CreateVideo(u) PROVE status'[v] = "ready"
  BY <1>0, <1>2 DEF CreateVideo, RegInv
<1>3. ASSUME NEW w \in Workers, SetFailed(w) PROVE status'[v] = "ready"
  BY <1>0, <1>1, <1>3, BusyType DEF SetFailed, SetStatus
<1>4. ASSUME NEW w \in Workers, Begin(w) \/ BeginUpload(w)
      PROVE  status'[v] = "ready"
  BY <1>0, <1>1, <1>4, BusyType DEF Begin, BeginUpload, SetStatus
<1>5. ASSUME NEW w \in Workers, Publish(w) PROVE status'[v] = "ready"
  BY <1>0, <1>5, BusyType DEF Publish, SetStatus
<1>6. ASSUME NEW d \in Deleters, DelRow(d)
      PROVE  status'[v] \in {"ready", "deleted"}
  BY <1>0, <1>6 DEF DelRow
<1> QED
  BY <1>2, <1>3, <1>4, <1>5, <1>6, StatusWrites

\* A published video stays published until it is deleted: whatever fails, when
\* its job is done, and without a restart even before that.
THEOREM PublishedStays == Spec => ReadyStays
<1>1. Init => SteadyInv
  BY DEF Init, SteadyInv
<1>2. IInv /\ SteadyInv /\ [Next]_vars => SteadyInv'
  BY SteadyStep DEF IInv
<1>3. IInv /\ SteadyInv /\ [Next]_vars =>
        [\A v \in Videos :
            status[v] = "ready" /\ (job[v] = "done" \/ restarts = 0) =>
               status'[v] \in {"ready", "deleted"}]_vars
  BY ReadyKept
<1> QED
  BY <1>1, <1>2, <1>3, Inductive, PTL DEF Spec, ReadyStays

=============================================================================
