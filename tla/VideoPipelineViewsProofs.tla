---------------------- MODULE VideoPipelineViewsProofs ---------------------
(***************************************************************************)
(* More proofs about VideoPipeline: that it implements JobQueue, and       *)
(* VideoRows for every video, that a job finds its source and is claimed   *)
(* once per boot, and that the deletion of a published video empties the   *)
(* chat. They build on the inductive invariant of VideoPipelineProofs.     *)
(***************************************************************************)
EXTENDS VideoPipelineJobs, VideoPipelineRows, VideoPipelineProofs

-----------------------------------------------------------------------------
(* The source of a job *)

\* Every step keeps the source of a job that may be handed out again, as long
\* as Postgres answers.
LEMMA SourceStep ==
    ASSUME "database" \notin Faults,
           TypeOK, BusyInv, RegInv, ClaimInv, SourceInv, [Next]_vars
    PROVE  SourceInv'
<1>0. /\ reg \in [Videos -> UploadStates] /\ source \subseteq Videos
      /\ job \in [Videos -> JobState \cup {"none"}]
      /\ pc \in [Workers -> Steps] /\ cur \in [Workers -> Videos \cup {Nobody}]
  BY DEF TypeOK, UploadTypeOK, TableTypeOK, WorkerTypeOK
<1>1. ASSUME NEW v \in Videos, ReceiveFile(v) PROVE SourceInv'
  BY <1>1 DEF ReceiveFile, tableVars, workerVars, SourceInv, UnsettledHasSource
<1>2. ASSUME NEW v \in Videos, FlushFile(v) PROVE SourceInv'
  BY <1>2 DEF FlushFile, tableVars, workerVars, SourceInv, UnsettledHasSource
<1>3. ASSUME NEW v \in Videos, RejectUpload(v) PROVE SourceInv'
  BY <1>3
  DEF RejectUpload, tableVars, workerVars, SourceInv, UnsettledHasSource, RegInv
<1>4. ASSUME NEW v \in Videos, CreateVideo(v) PROVE SourceInv'
  BY <1>4 DEF CreateVideo, workerVars, SourceInv, UnsettledHasSource
<1>5. ASSUME NEW v \in Videos, CreateJob(v) PROVE SourceInv'
  BY <1>5 DEF CreateJob, workerVars, SourceInv, UnsettledHasSource, RegInv
<1>6. ASSUME NEW v \in Videos, CreateFails(v) PROVE SourceInv'
  BY <1>6
  DEF CreateFails, tableVars, workerVars, SourceInv, UnsettledHasSource, RegInv
<1>7. ASSUME NEW v \in Videos, DropUpload(v) PROVE SourceInv'
  BY <1>7
  DEF DropUpload, tableVars, workerVars, SourceRemoved, SourceInv,
    UnsettledHasSource
<1>8. ASSUME NEW v \in Videos, AbandonUpload(v) PROVE SourceInv'
  BY <1>8
  DEF AbandonUpload, tableVars, workerVars, SourceInv, UnsettledHasSource
<1>9. ASSUME NEW w \in Workers, NEW v \in Videos, Claim(w, v) PROVE SourceInv'
  BY <1>9 DEF Claim, uploadVars, Oldest, SourceInv, UnsettledHasSource
<1>10. ASSUME NEW w \in Workers, FinishJob(w) PROVE SourceInv'
  BY <1>10, <1>0
  DEF FinishJob, uploadVars, SetJob, SourceInv, UnsettledHasSource
<1>11. ASSUME NEW w \in Workers, FailJob(w) PROVE SourceInv'
  BY <1>11, <1>0 DEF FailJob, uploadVars, SetJob, SourceInv, UnsettledHasSource
<1>12. ASSUME NEW w \in Workers, SetFailed(w) PROVE SourceInv'
  BY <1>12 DEF SetFailed, uploadVars, SourceInv, UnsettledHasSource
<1>13. ASSUME NEW w \in Workers, DropSource(w) PROVE SourceInv'
  BY <1>13
  DEF DropSource, tableVars, SourceRemoved, SourceDue, SourceInv,
    UnsettledHasSource, RegInv, BusyInv
<1>14. ASSUME NEW w \in Workers, DropScratch(w) PROVE SourceInv'
  BY <1>14 DEF DropScratch, uploadVars, tableVars, SourceInv, UnsettledHasSource
<1>15. ASSUME NEW w \in Workers, Load(w) PROVE SourceInv'
  BY <1>15 DEF Load, uploadVars, tableVars, SourceInv, UnsettledHasSource
<1>16. ASSUME NEW w \in Workers, Begin(w) PROVE SourceInv'
  BY <1>16 DEF Begin, uploadVars, SourceInv, UnsettledHasSource
<1>17. ASSUME NEW w \in Workers, Encode(w) PROVE SourceInv'
  BY <1>17, <1>0
  DEF Encode, uploadVars, tableVars, SourceInv, UnsettledHasSource
<1>18. ASSUME NEW w \in Workers, BeginUpload(w) PROVE SourceInv'
  BY <1>18 DEF BeginUpload, uploadVars, SourceInv, UnsettledHasSource
<1>19. ASSUME NEW w \in Workers, CreateRendition(w) PROVE SourceInv'
  BY <1>19, <1>0 DEF CreateRendition, uploadVars, SourceInv, UnsettledHasSource
<1>20. ASSUME NEW w \in Workers, InsertSegments(w) PROVE SourceInv'
  BY <1>20, <1>0 DEF InsertSegments, uploadVars, SourceInv, UnsettledHasSource
<1>21. ASSUME NEW w \in Workers, Publish(w) PROVE SourceInv'
  BY <1>21 DEF Publish, uploadVars, SourceInv, UnsettledHasSource
<1>22. ASSUME NEW w \in Workers, ProcessFails(w) PROVE SourceInv'
  BY <1>22
  DEF ProcessFails, uploadVars, tableVars, SourceInv, UnsettledHasSource
<1>23. ASSUME NEW w \in Workers, IdlePoll(w) PROVE SourceInv'
  BY <1>23
  DEF IdlePoll, uploadVars, tableVars, workerVars, vars, SourceInv,
    UnsettledHasSource
<1>24. ASSUME NEW w \in Workers, NEW p \in Segments, Send(w, p) PROVE SourceInv'
  BY <1>24 DEF Send, uploadVars, tableVars, SourceInv, UnsettledHasSource
<1>25. ASSUME NEW d \in Deleters, NEW v \in Videos, DelBegin(d, v)
      PROVE  SourceInv'
  BY <1>25
  DEF DelBegin, uploadVars, tableVars, workerVars, SourceInv, UnsettledHasSource
<1>26. ASSUME NEW d \in Deleters, NEW m \in delMsgs[d], DelMessage(d, m)
      PROVE  SourceInv'
  BY <1>26
  DEF DelMessage, uploadVars, tableVars, workerVars, SourceInv,
    UnsettledHasSource
<1>27. ASSUME NEW d \in Deleters, DelRow(d) PROVE SourceInv'
  BY <1>27 DEF DelRow, uploadVars, workerVars, SourceInv, UnsettledHasSource
<1>28. ASSUME NEW d \in Deleters, DelAbort(d) PROVE SourceInv'
  BY <1>28
  DEF DelAbort, uploadVars, tableVars, workerVars, SourceInv, UnsettledHasSource
<1>29. CASE Restart
  BY <1>29 DEF Restart, Requeued, SourceInv, UnsettledHasSource
<1>30. CASE UNCHANGED vars
  BY <1>30
  DEF vars, uploadVars, tableVars, workerVars, SourceInv, UnsettledHasSource
<1> QED
  BY <1>1, <1>2, <1>3, <1>4, <1>5, <1>6, <1>7, <1>8, <1>9, <1>10, <1>11, <1>12,
    <1>13, <1>14, <1>15, <1>16, <1>17, <1>18, <1>19, <1>20, <1>21, <1>22, <1>23,
    <1>24, <1>25, <1>26, <1>27, <1>28, <1>29, <1>30
  DEF Next, UploadStep, WorkerStep, DeleteStep

-----------------------------------------------------------------------------
(* The messages of a published video *)

\* Every step keeps the list of a deletion complete.
LEMMA ListedStep ==
    ASSUME IInv, ReadyMatchesChat, ListedInv, [Next]_vars
    PROVE  ListedInv'
<1>0. /\ TypeOK /\ BusyInv /\ RegInv /\ DelInv /\ StepInv /\ RendInv
      /\ status \in [Videos -> VideoStatus \cup {"unregistered", "deleted"}]
      /\ rends \in [Videos -> SUBSET Rungs]
      /\ pc \in [Workers -> Steps] /\ cur \in [Workers -> Videos \cup {Nobody}]
      /\ delPc \in [Deleters -> {"idle", "messages"}]
      /\ delVideo \in [Deleters -> Videos \cup {Nobody}]
      /\ delMsgs \in [Deleters -> SUBSET Message]
      /\ delReady \in [Deleters -> BOOLEAN]
  BY DEF IInv, TypeOK, TableTypeOK, WorkerTypeOK, DeleteTypeOK
<1>1. ASSUME NEW v \in Videos, ReceiveFile(v) PROVE ListedInv'
  BY <1>1
  DEF ReceiveFile, tableVars, workerVars, deleteVars, historyVars, ListedInv
<1>2. ASSUME NEW v \in Videos, FlushFile(v) PROVE ListedInv'
  BY <1>2
  DEF FlushFile, tableVars, workerVars, deleteVars, historyVars, ListedInv
<1>3. ASSUME NEW v \in Videos, RejectUpload(v) PROVE ListedInv'
  BY <1>3
  DEF RejectUpload, tableVars, workerVars, deleteVars, historyVars, ListedInv
<1>4. ASSUME NEW v \in Videos, CreateVideo(v) PROVE ListedInv'
  BY <1>4, <1>0
  DEF CreateVideo, workerVars, deleteVars, historyVars, ListedInv, RegInv
<1>5. ASSUME NEW v \in Videos, CreateJob(v) PROVE ListedInv'
  BY <1>5 DEF CreateJob, workerVars, deleteVars, historyVars, ListedInv
<1>6. ASSUME NEW v \in Videos, CreateFails(v) PROVE ListedInv'
  BY <1>6
  DEF CreateFails, tableVars, workerVars, deleteVars, historyVars, ListedInv
<1>7. ASSUME NEW v \in Videos, DropUpload(v) PROVE ListedInv'
  BY <1>7
  DEF DropUpload, tableVars, workerVars, deleteVars, historyVars, ListedInv
<1>8. ASSUME NEW v \in Videos, AbandonUpload(v) PROVE ListedInv'
  BY <1>8
  DEF AbandonUpload, tableVars, workerVars, deleteVars, historyVars, ListedInv
<1>9. ASSUME NEW w \in Workers, NEW v \in Videos, Claim(w, v) PROVE ListedInv'
  BY <1>9 DEF Claim, deleteVars, historyVars, ListedInv
<1>10. ASSUME NEW w \in Workers, FinishJob(w) PROVE ListedInv'
  BY <1>10 DEF FinishJob, deleteVars, historyVars, ListedInv
<1>11. ASSUME NEW w \in Workers, FailJob(w) PROVE ListedInv'
  BY <1>11 DEF FailJob, deleteVars, historyVars, AfterFailJob, ListedInv
<1>12. ASSUME NEW w \in Workers, SetFailed(w) PROVE ListedInv'
  <2>1. cur[w] \in Videos
    BY <1>0, <1>12, BusyType DEF SetFailed
  <2>2. \A v \in Videos : status'[v] # "deleted" => status[v] # "deleted"
    BY <1>0, <1>12 DEF SetFailed, SetStatus
  <2>3. UNCHANGED <<rends, chat, cur, deleteVars, refused>>
    BY <1>12 DEF SetFailed, historyVars
  <2>4. \A x \in Workers : pc'[x] = "send" => pc[x] = "send"
    BY <1>12 DEF SetFailed
  <2>5. \A d \in Deleters : delPc[d] = "messages" => delVideo[d] \in Videos
    BY <1>0 DEF DelInv
  <2> QED
    BY <2>2, <2>3, <2>4, <2>5 DEF ListedInv, deleteVars
<1>13. ASSUME NEW w \in Workers, DropSource(w) PROVE ListedInv'
  BY <1>13 DEF DropSource, tableVars, deleteVars, historyVars, ListedInv
<1>14. ASSUME NEW w \in Workers, DropScratch(w) PROVE ListedInv'
  BY <1>14 DEF DropScratch, tableVars, deleteVars, historyVars, ListedInv
<1>15. ASSUME NEW w \in Workers, Load(w) PROVE ListedInv'
  BY <1>15 DEF Load, tableVars, deleteVars, historyVars, ListedInv
<1>16. ASSUME NEW w \in Workers, Begin(w) PROVE ListedInv'
  BY <1>16 DEF Begin, deleteVars, historyVars, SetStatus, ListedInv
<1>17. ASSUME NEW w \in Workers, Encode(w) PROVE ListedInv'
  BY <1>17, <1>0 DEF Encode, tableVars, deleteVars, historyVars, ListedInv
<1>18. ASSUME NEW w \in Workers, BeginUpload(w) PROVE ListedInv'
  BY <1>18 DEF BeginUpload, deleteVars, historyVars, SetStatus, ListedInv
<1>19. ASSUME NEW w \in Workers, CreateRendition(w) PROVE ListedInv'
  <2>1. cur[w] \in Videos /\ rung[w] \in Rungs
    BY <1>0, <1>19, BusyType DEF CreateRendition
  <2>2. 1 \in Rungs /\ \A r \in Rungs : r = 1 \/ r > 1
    BY NumRungsAssumption DEF Rungs
  <2>3. ASSUME rends[cur[w]] = Rungs, status[cur[w]] # "deleted"
        PROVE  ~RenditionAccepted(cur[w], rung[w])
    <3>1. CASE rung[w] = 1
      BY <2>2, <2>3, <3>1 DEF RenditionAccepted
    <3>2. CASE rung[w] > 1
      <4>1. \A q \in Rungs : q \in rends[cur[w]] <=> q < rung[w]
        BY <1>0, <2>1, <2>3, <3>2, <1>19, NobodyAssumption
        DEF RendInv, CreateRendition
      <4>2. rung[w] < rung[w]
        BY <2>1, <2>3, <4>1
      <4>3. rung[w] \in Int
        BY <2>1 DEF Rungs
      <4> QED
        BY <4>2, <4>3
    <3> QED
      BY <2>1, <2>2, <3>1, <3>2
  <2>4. SUFFICES ASSUME NEW d \in Deleters, delPc'[d] = "messages",
                        delReady'[d], status'[delVideo'[d]] # "deleted"
                 PROVE  /\ rends'[delVideo'[d]] = Rungs
                        /\ MessagesOf(chat', delVideo'[d]) \subseteq delMsgs'[d] \cup refused'
                        /\ \A x \in Workers : cur'[x] = delVideo'[d] => pc'[x] # "send"
    BY <1>19 DEF CreateRendition, deleteVars, ListedInv
  <2>5. UNCHANGED <<status, chat, cur, deleteVars, refused>>
    BY <1>19 DEF CreateRendition, historyVars
  <2>6. /\ rends[delVideo[d]] = Rungs /\ delVideo[d] = delVideo'[d]
        /\ MessagesOf(chat', delVideo[d]) \subseteq delMsgs'[d] \cup refused'
        /\ \A x \in Workers : cur[x] = delVideo[d] => pc[x] # "send"
    BY <2>4, <2>5 DEF deleteVars, ListedInv
  <2>7. CASE cur[w] = delVideo[d]
    <3>1. ~RenditionAccepted(cur[w], rung[w])
      BY <2>3, <2>4, <2>5, <2>6, <2>7
    <3>2. rends' = rends /\ pc' = [pc EXCEPT ![w] = "fail"]
      BY <1>19, <3>1 DEF CreateRendition
    <3> QED
      BY <2>5, <2>6, <3>2
  <2>8. CASE cur[w] # delVideo[d]
    <3>1. rends'[delVideo[d]] = rends[delVideo[d]]
      <4>1. delVideo[d] \in Videos
        BY <1>0, <2>4, <2>5 DEF DelInv, deleteVars
      <4> QED
        BY <1>0, <2>8, <4>1, <1>19 DEF CreateRendition
    <3>2. \A x \in Workers : x # w => pc'[x] = pc[x]
      BY <1>0, <1>19 DEF CreateRendition
    <3> QED
      BY <2>5, <2>6, <2>8, <3>1, <3>2
  <2> QED
    BY <2>7, <2>8
<1>20. ASSUME NEW w \in Workers, InsertSegments(w) PROVE ListedInv'
  BY <1>20, <1>0 DEF InsertSegments, deleteVars, historyVars, ListedInv
<1>21. ASSUME NEW w \in Workers, Publish(w) PROVE ListedInv'
  BY <1>21 DEF Publish, deleteVars, historyVars, SetStatus, ListedInv
<1>22. ASSUME NEW w \in Workers, ProcessFails(w) PROVE ListedInv'
  BY <1>22 DEF ProcessFails, tableVars, deleteVars, historyVars, ListedInv
<1>23. ASSUME NEW w \in Workers, IdlePoll(w) PROVE ListedInv'
  BY <1>23
  DEF IdlePoll, tableVars, workerVars, deleteVars, historyVars, vars, ListedInv
<1>24. ASSUME NEW w \in Workers, NEW p \in Segments, Send(w, p) PROVE ListedInv'
  <2>1. /\ cur[w] \in Videos /\ rung[w] \in Rungs
        /\ MessageOf(cur[w], rung[w], p).video = cur[w]
    BY <1>0, <1>24, BusyType, MessageType DEF Send
  <2>2. chat' \subseteq chat \cup {MessageOf(cur[w], rung[w], p)}
    BY <1>24 DEF Send
  <2>3. UNCHANGED <<status, rends, pc, cur, deleteVars, refused>>
    BY <1>24 DEF Send, tableVars, historyVars
  <2>4. \A d \in Deleters : cur[w] # delVideo[d] =>
            MessagesOf(chat', delVideo[d]) \subseteq MessagesOf(chat, delVideo[d])
    BY <2>1, <2>2 DEF MessagesOf
  <2>5. pc[w] = "send"
    BY <1>24 DEF Send
  <2> QED
    BY <2>3, <2>4, <2>5 DEF ListedInv, deleteVars
<1>25. ASSUME NEW d \in Deleters, NEW v \in Videos, DelBegin(d, v)
      PROVE  ListedInv'
  <2>1. ASSUME status[v] = "ready"
        PROVE  /\ rends[v] = Rungs
               /\ MessagesOf(chat, v) \subseteq MessagesOf(rows, v)
               /\ \A w \in Workers : cur[w] = v => pc[w] # "send"
    <3>1. rends[v] = Rungs
      BY <2>1 DEF IInv, ReadyInv
    <3>2. MessagesOf(chat, v) \subseteq rows
      BY <2>1 DEF ReadyMatchesChat
    <3>3. \A w \in Workers : cur[w] = v => pc[w] # "send"
      BY <1>0, <2>1, NobodyAssumption DEF StepInv
    <3> QED
      BY <3>1, <3>2, <3>3 DEF MessagesOf
  <2>2. UNCHANGED <<status, rends, chat, pc, cur, refused>>
    BY <1>25 DEF DelBegin, tableVars, workerVars
  <2>3. /\ delPc'[d] = "messages" /\ delVideo'[d] = v
        /\ delMsgs'[d] = MessagesOf(rows, v) /\ delReady'[d] = (status[v] = "ready")
    BY <1>25, <1>0 DEF DelBegin
  <2>4. \A e \in Deleters : e # d =>
            /\ delPc'[e] = delPc[e] /\ delVideo'[e] = delVideo[e]
            /\ delMsgs'[e] = delMsgs[e] /\ delReady'[e] = delReady[e]
    BY <1>25 DEF DelBegin
  <2>5. SUFFICES ASSUME NEW e \in Deleters
                 PROVE  /\ delPc'[e] = "idle" => delVideo'[e] = Nobody
                        /\ delPc'[e] = "messages" /\ delReady'[e] /\ status'[delVideo'[e]] # "deleted" =>
                              /\ rends'[delVideo'[e]] = Rungs
                              /\ MessagesOf(chat', delVideo'[e]) \subseteq delMsgs'[e] \cup refused'
                              /\ \A w \in Workers : cur'[w] = delVideo'[e] => pc'[w] # "send"
    BY DEF ListedInv
  <2>6. CASE e = d
    BY <2>1, <2>2, <2>3, <2>6
  <2>7. CASE e # d
    BY <2>2, <2>4, <2>7 DEF ListedInv
  <2> QED
    BY <2>6, <2>7
<1>26. ASSUME NEW d \in Deleters, NEW m \in delMsgs[d], DelMessage(d, m)
      PROVE  ListedInv'
  BY <1>26 DEF DelMessage, tableVars, workerVars, ListedInv, MessagesOf
<1>27. ASSUME NEW d \in Deleters, DelRow(d) PROVE ListedInv'
  BY <1>27, <1>0 DEF DelRow, workerVars, historyVars, ResetDelete, ListedInv
<1>28. ASSUME NEW d \in Deleters, DelAbort(d) PROVE ListedInv'
  BY <1>28, <1>0
  DEF DelAbort, tableVars, workerVars, historyVars, ResetDelete, ListedInv
<1>29. CASE Restart
  BY <1>29 DEF Restart, ListedInv
<1>30. CASE UNCHANGED vars
  BY <1>30 DEF vars, tableVars, workerVars, deleteVars, historyVars, ListedInv
<1> QED
  BY <1>1, <1>2, <1>3, <1>4, <1>5, <1>6, <1>7, <1>8, <1>9, <1>10, <1>11, <1>12,
    <1>13, <1>14, <1>15, <1>16, <1>17, <1>18, <1>19, <1>20, <1>21, <1>22, <1>23,
    <1>24, <1>25, <1>26, <1>27, <1>28, <1>29, <1>30
  DEF Next, UploadStep, WorkerStep, DeleteStep

-----------------------------------------------------------------------------
(* The job queue *)

\* Every step keeps the one stamp of a job.
LEMMA StampStep ==
    ASSUME TypeOK, StampInv, [Next]_vars
    PROVE  StampInv'
<1>0. reg \in [Videos -> UploadStates] /\ created \in [Videos -> Nat]
  BY DEF TypeOK, UploadTypeOK, TableTypeOK
<1>1. ASSUME NEW v \in Videos, ReceiveFile(v) PROVE StampInv'
  BY <1>1 DEF ReceiveFile, tableVars, StampInv
<1>2. ASSUME NEW v \in Videos, FlushFile(v) PROVE StampInv'
  BY <1>2 DEF FlushFile, tableVars, StampInv
<1>3. ASSUME NEW v \in Videos, RejectUpload(v) PROVE StampInv'
  BY <1>3 DEF RejectUpload, tableVars, StampInv
<1>4. ASSUME NEW v \in Videos, CreateVideo(v) PROVE StampInv'
  BY <1>4 DEF CreateVideo, StampInv
<1>5. ASSUME NEW v \in Videos, CreateJob(v) PROVE StampInv'
  BY <1>5, <1>0 DEF CreateJob, StampInv
<1>6. ASSUME NEW v \in Videos, CreateFails(v) PROVE StampInv'
  BY <1>6 DEF CreateFails, tableVars, StampInv
<1>7. ASSUME NEW v \in Videos, DropUpload(v) PROVE StampInv'
  BY <1>7 DEF DropUpload, tableVars, StampInv
<1>8. ASSUME NEW v \in Videos, AbandonUpload(v) PROVE StampInv'
  BY <1>8 DEF AbandonUpload, tableVars, StampInv
<1>9. ASSUME NEW w \in Workers, NEW v \in Videos, Claim(w, v) PROVE StampInv'
  BY <1>9 DEF Claim, uploadVars, StampInv
<1>10. ASSUME NEW w \in Workers, FinishJob(w) PROVE StampInv'
  BY <1>10 DEF FinishJob, uploadVars, StampInv
<1>11. ASSUME NEW w \in Workers, FailJob(w) PROVE StampInv'
  BY <1>11 DEF FailJob, uploadVars, StampInv
<1>12. ASSUME NEW w \in Workers, SetFailed(w) PROVE StampInv'
  BY <1>12 DEF SetFailed, uploadVars, StampInv
<1>13. ASSUME NEW w \in Workers, DropSource(w) PROVE StampInv'
  BY <1>13 DEF DropSource, tableVars, StampInv
<1>14. ASSUME NEW w \in Workers, DropScratch(w) PROVE StampInv'
  BY <1>14 DEF DropScratch, uploadVars, tableVars, StampInv
<1>15. ASSUME NEW w \in Workers, Load(w) PROVE StampInv'
  BY <1>15 DEF Load, uploadVars, tableVars, StampInv
<1>16. ASSUME NEW w \in Workers, Begin(w) PROVE StampInv'
  BY <1>16 DEF Begin, uploadVars, StampInv
<1>17. ASSUME NEW w \in Workers, Encode(w) PROVE StampInv'
  BY <1>17 DEF Encode, uploadVars, tableVars, StampInv
<1>18. ASSUME NEW w \in Workers, BeginUpload(w) PROVE StampInv'
  BY <1>18 DEF BeginUpload, uploadVars, StampInv
<1>19. ASSUME NEW w \in Workers, CreateRendition(w) PROVE StampInv'
  BY <1>19 DEF CreateRendition, uploadVars, StampInv
<1>20. ASSUME NEW w \in Workers, InsertSegments(w) PROVE StampInv'
  BY <1>20 DEF InsertSegments, uploadVars, StampInv
<1>21. ASSUME NEW w \in Workers, Publish(w) PROVE StampInv'
  BY <1>21 DEF Publish, uploadVars, StampInv
<1>22. ASSUME NEW w \in Workers, ProcessFails(w) PROVE StampInv'
  BY <1>22 DEF ProcessFails, uploadVars, tableVars, StampInv
<1>23. ASSUME NEW w \in Workers, IdlePoll(w) PROVE StampInv'
  BY <1>23 DEF IdlePoll, uploadVars, tableVars, vars, StampInv
<1>24. ASSUME NEW w \in Workers, NEW p \in Segments, Send(w, p) PROVE StampInv'
  BY <1>24 DEF Send, uploadVars, tableVars, StampInv
<1>25. ASSUME NEW d \in Deleters, NEW v \in Videos, DelBegin(d, v)
      PROVE  StampInv'
  BY <1>25 DEF DelBegin, uploadVars, tableVars, StampInv
<1>26. ASSUME NEW d \in Deleters, NEW m \in delMsgs[d], DelMessage(d, m)
      PROVE  StampInv'
  BY <1>26 DEF DelMessage, uploadVars, tableVars, StampInv
<1>27. ASSUME NEW d \in Deleters, DelRow(d) PROVE StampInv'
  BY <1>27 DEF DelRow, uploadVars, StampInv
<1>28. ASSUME NEW d \in Deleters, DelAbort(d) PROVE StampInv'
  BY <1>28 DEF DelAbort, uploadVars, tableVars, StampInv
<1>29. CASE Restart
  BY <1>29 DEF Restart, StampInv
<1>30. CASE UNCHANGED vars
  BY <1>30 DEF vars, uploadVars, tableVars, StampInv
<1> QED
  BY <1>1, <1>2, <1>3, <1>4, <1>5, <1>6, <1>7, <1>8, <1>9, <1>10, <1>11, <1>12,
    <1>13, <1>14, <1>15, <1>16, <1>17, <1>18, <1>19, <1>20, <1>21, <1>22, <1>23,
    <1>24, <1>25, <1>26, <1>27, <1>28, <1>29, <1>30
  DEF Next, UploadStep, WorkerStep, DeleteStep

\* Every step keeps the claims of a job within the boots of the program.
LEMMA AttemptsStep ==
    ASSUME TypeOK, RegInv, AttemptsInv, [Next]_vars
    PROVE  AttemptsInv'
<1>0. /\ reg \in [Videos -> UploadStates] /\ attempts \in [Videos -> Nat]
      /\ job \in [Videos -> JobState \cup {"none"}] /\ restarts \in Nat
  BY DEF TypeOK, UploadTypeOK, TableTypeOK, HistoryTypeOK
<1>1. ASSUME NEW v \in Videos, ReceiveFile(v) PROVE AttemptsInv'
  BY <1>1, <1>0
  DEF ReceiveFile, tableVars, historyVars, AttemptsInv, ClaimedOncePerBoot
<1>2. ASSUME NEW v \in Videos, FlushFile(v) PROVE AttemptsInv'
  BY <1>2, <1>0
  DEF FlushFile, tableVars, historyVars, AttemptsInv, ClaimedOncePerBoot
<1>3. ASSUME NEW v \in Videos, RejectUpload(v) PROVE AttemptsInv'
  BY <1>3, <1>0
  DEF RejectUpload, tableVars, historyVars, AttemptsInv, ClaimedOncePerBoot
<1>4. ASSUME NEW v \in Videos, CreateVideo(v) PROVE AttemptsInv'
  BY <1>4, <1>0 DEF CreateVideo, historyVars, AttemptsInv, ClaimedOncePerBoot
<1>5. ASSUME NEW v \in Videos, CreateJob(v) PROVE AttemptsInv'
  BY <1>5, <1>0
  DEF CreateJob, historyVars, RegInv, AttemptsInv, ClaimedOncePerBoot
<1>6. ASSUME NEW v \in Videos, CreateFails(v) PROVE AttemptsInv'
  BY <1>6, <1>0
  DEF CreateFails, tableVars, historyVars, AttemptsInv, ClaimedOncePerBoot
<1>7. ASSUME NEW v \in Videos, DropUpload(v) PROVE AttemptsInv'
  BY <1>7, <1>0
  DEF DropUpload, tableVars, historyVars, AttemptsInv, ClaimedOncePerBoot
<1>8. ASSUME NEW v \in Videos, AbandonUpload(v) PROVE AttemptsInv'
  BY <1>8, <1>0
  DEF AbandonUpload, tableVars, historyVars, AttemptsInv, ClaimedOncePerBoot
<1>9. ASSUME NEW w \in Workers, NEW v \in Videos, Claim(w, v)
      PROVE  AttemptsInv'
  <2>1. attempts[v] <= restarts /\ reg[v] \notin {"new", "body", "onDisk", "row"}
    BY <1>9 DEF Claim, Oldest, RegInv, AttemptsInv
  <2>2. UNCHANGED <<reg, restarts>>
    BY <1>9 DEF Claim, uploadVars, historyVars
  <2>3. /\ attempts' = [attempts EXCEPT ![v] = attempts[v] + 1]
        /\ job' = [job EXCEPT ![v] = "running"]
    BY <1>9 DEF Claim
  <2> QED
    BY <1>0, <2>1, <2>2, <2>3 DEF AttemptsInv, ClaimedOncePerBoot
<1>10. ASSUME NEW w \in Workers, FinishJob(w) PROVE AttemptsInv'
  BY <1>10, <1>0
  DEF FinishJob, uploadVars, historyVars, SetJob, AttemptsInv,
    ClaimedOncePerBoot
<1>11. ASSUME NEW w \in Workers, FailJob(w) PROVE AttemptsInv'
  BY <1>11, <1>0
  DEF FailJob, uploadVars, historyVars, SetJob, AttemptsInv, ClaimedOncePerBoot
<1>12. ASSUME NEW w \in Workers, SetFailed(w) PROVE AttemptsInv'
  BY <1>12, <1>0
  DEF SetFailed, uploadVars, historyVars, AttemptsInv, ClaimedOncePerBoot
<1>13. ASSUME NEW w \in Workers, DropSource(w) PROVE AttemptsInv'
  BY <1>13, <1>0
  DEF DropSource, tableVars, historyVars, AttemptsInv, ClaimedOncePerBoot
<1>14. ASSUME NEW w \in Workers, DropScratch(w) PROVE AttemptsInv'
  BY <1>14, <1>0
  DEF DropScratch, uploadVars, tableVars, historyVars, AttemptsInv,
    ClaimedOncePerBoot
<1>15. ASSUME NEW w \in Workers, Load(w) PROVE AttemptsInv'
  BY <1>15, <1>0
  DEF Load, uploadVars, tableVars, historyVars, AttemptsInv, ClaimedOncePerBoot
<1>16. ASSUME NEW w \in Workers, Begin(w) PROVE AttemptsInv'
  BY <1>16, <1>0
  DEF Begin, uploadVars, historyVars, AttemptsInv, ClaimedOncePerBoot
<1>17. ASSUME NEW w \in Workers, Encode(w) PROVE AttemptsInv'
  BY <1>17, <1>0
  DEF Encode, uploadVars, tableVars, historyVars, AttemptsInv,
    ClaimedOncePerBoot
<1>18. ASSUME NEW w \in Workers, BeginUpload(w) PROVE AttemptsInv'
  BY <1>18, <1>0
  DEF BeginUpload, uploadVars, historyVars, AttemptsInv, ClaimedOncePerBoot
<1>19. ASSUME NEW w \in Workers, CreateRendition(w) PROVE AttemptsInv'
  BY <1>19, <1>0
  DEF CreateRendition, uploadVars, historyVars, AttemptsInv, ClaimedOncePerBoot
<1>20. ASSUME NEW w \in Workers, InsertSegments(w) PROVE AttemptsInv'
  BY <1>20, <1>0
  DEF InsertSegments, uploadVars, historyVars, AttemptsInv, ClaimedOncePerBoot
<1>21. ASSUME NEW w \in Workers, Publish(w) PROVE AttemptsInv'
  BY <1>21, <1>0
  DEF Publish, uploadVars, historyVars, AttemptsInv, ClaimedOncePerBoot
<1>22. ASSUME NEW w \in Workers, ProcessFails(w) PROVE AttemptsInv'
  BY <1>22, <1>0
  DEF ProcessFails, uploadVars, tableVars, historyVars, AttemptsInv,
    ClaimedOncePerBoot
<1>23. ASSUME NEW w \in Workers, IdlePoll(w) PROVE AttemptsInv'
  BY <1>23, <1>0
  DEF IdlePoll, vars, uploadVars, tableVars, historyVars, AttemptsInv,
    ClaimedOncePerBoot
<1>24. ASSUME NEW w \in Workers, NEW p \in Segments, Send(w, p)
      PROVE  AttemptsInv'
  BY <1>24, <1>0
  DEF Send, uploadVars, tableVars, historyVars, AttemptsInv, ClaimedOncePerBoot
<1>25. ASSUME NEW d \in Deleters, NEW v \in Videos, DelBegin(d, v)
      PROVE  AttemptsInv'
  BY <1>25, <1>0
  DEF DelBegin, uploadVars, tableVars, AttemptsInv, ClaimedOncePerBoot
<1>26. ASSUME NEW d \in Deleters, NEW m \in delMsgs[d], DelMessage(d, m)
      PROVE  AttemptsInv'
  BY <1>26, <1>0
  DEF DelMessage, uploadVars, tableVars, AttemptsInv, ClaimedOncePerBoot
<1>27. ASSUME NEW d \in Deleters, DelRow(d) PROVE AttemptsInv'
  BY <1>27, <1>0
  DEF DelRow, uploadVars, historyVars, AttemptsInv, ClaimedOncePerBoot
<1>28. ASSUME NEW d \in Deleters, DelAbort(d) PROVE AttemptsInv'
  BY <1>28, <1>0
  DEF DelAbort, uploadVars, tableVars, historyVars, AttemptsInv,
    ClaimedOncePerBoot
<1>29. CASE Restart
  BY <1>29, <1>0 DEF Restart, Requeued, AttemptsInv, ClaimedOncePerBoot
<1>30. CASE UNCHANGED vars
  BY <1>30
  DEF vars, uploadVars, tableVars, historyVars, AttemptsInv, ClaimedOncePerBoot
<1> QED
  BY <1>1, <1>2, <1>3, <1>4, <1>5, <1>6, <1>7, <1>8, <1>9, <1>10, <1>11, <1>12,
    <1>13, <1>14, <1>15, <1>16, <1>17, <1>18, <1>19, <1>20, <1>21, <1>22, <1>23,
    <1>24, <1>25, <1>26, <1>27, <1>28, <1>29, <1>30
  DEF Next, UploadStep, WorkerStep, DeleteStep

\* The step that removes the row of a video leaves nothing of it in the chat if
\* it was listed when published.
LEMMA OnlyDelRowDeletes ==
    ASSUME IInv, ListedInv, [Next]_vars, NEW d \in Deleters, NEW v \in Videos,
           delVideo[d] = v, delReady[d], delPc'[d] = "idle",
           status[v] # "deleted", status'[v] = "deleted"
    PROVE  MessagesOf(chat', v) \subseteq refused
<1>0. /\ TypeOK /\ BusyInv
      /\ status \in [Videos -> VideoStatus \cup {"unregistered", "deleted"}]
      /\ cur \in [Workers -> Videos \cup {Nobody}]
      /\ delPc \in [Deleters -> {"idle", "messages"}]
      /\ delVideo \in [Deleters -> Videos \cup {Nobody}]
  BY DEF IInv, TypeOK, TableTypeOK, WorkerTypeOK, DeleteTypeOK
<1>1. delPc[d] = "messages"
  BY <1>0, NobodyAssumption DEF ListedInv
<1>2. PICK e \in Deleters : DelRow(e)
  <2>1. ASSUME NEW u \in Videos, CreateVideo(u) PROVE FALSE
    BY <2>1 DEF CreateVideo
  <2>2. ASSUME NEW w \in Workers,
               SetFailed(w) \/ Begin(w) \/ BeginUpload(w) \/ Publish(w)
        PROVE  FALSE
    BY <1>0, <2>2 DEF SetFailed, Begin, BeginUpload, Publish, SetStatus
  <2> QED
    BY <2>1, <2>2, StatusWrites
<1>3. e = d
  BY <1>1, <1>2 DEF DelRow, ResetDelete
<1>4. delMsgs[d] = {} /\ chat' = chat
  BY <1>2, <1>3 DEF DelRow, DelRowDue
<1> QED
  BY <1>1, <1>4 DEF ListedInv

\* What the queue sees of a worker's step.
LEMMA Holding ==
    ASSUME TypeOK, NEW w \in Workers, NEW h,
           \A x \in Workers : x # w => pc'[x] = pc[x] /\ cur'[x] = cur[x],
           h = IF pc'[w] \in Settled THEN Nobody ELSE cur'[w]
    PROVE  HeldJob' = [HeldJob EXCEPT ![w] = h]
BY DEF HeldJob

\* Every step of the pipeline is a step of the queue or leaves it alone.
LEMMA QueueStep ==
    ASSUME IInv, StampInv, [Next]_vars
    PROVE  [Queue!Next]_(Queue!vars)
<1>0. /\ TypeOK /\ BusyInv /\ RegInv /\ ClaimInv
      /\ job \in [Videos -> JobState \cup {"none"}]
      /\ created \in [Videos -> Nat]
      /\ pc \in [Workers -> Steps] /\ cur \in [Workers -> Videos \cup {Nobody}]
  BY DEF IInv, TypeOK, TableTypeOK, WorkerTypeOK
<1> DEFINE Same == UNCHANGED <<job, created, clock>> /\ HeldJob' = HeldJob
<1>1. ASSUME NEW v \in Videos, ReceiveFile(v) PROVE [Queue!Next]_(Queue!vars)
  <2>1. Same
    BY <1>1 DEF ReceiveFile, tableVars, workerVars, HeldJob
  <2> QED
    BY <2>1 DEF Queue!vars
<1>2. ASSUME NEW v \in Videos, FlushFile(v) PROVE [Queue!Next]_(Queue!vars)
  <2>1. Same
    BY <1>2 DEF FlushFile, tableVars, workerVars, HeldJob
  <2> QED
    BY <2>1 DEF Queue!vars
<1>3. ASSUME NEW v \in Videos, RejectUpload(v) PROVE [Queue!Next]_(Queue!vars)
  <2>1. Same
    BY <1>3 DEF RejectUpload, tableVars, workerVars, HeldJob
  <2> QED
    BY <2>1 DEF Queue!vars
<1>4. ASSUME NEW v \in Videos, CreateVideo(v) PROVE [Queue!Next]_(Queue!vars)
  <2>1. Same
    BY <1>4 DEF CreateVideo, workerVars, HeldJob
  <2> QED
    BY <2>1 DEF Queue!vars
<1>5. ASSUME NEW v \in Videos, CreateJob(v) PROVE [Queue!Next]_(Queue!vars)
  <2>1. HeldJob' = HeldJob
    BY <1>5 DEF CreateJob, workerVars, HeldJob
  <2>2. Queue!Enqueue(v)
    BY <1>5, <1>0, <2>1 DEF CreateJob, Queue!Enqueue, RegInv, StampInv
  <2> QED
    BY <2>2 DEF Queue!Next
<1>6. ASSUME NEW v \in Videos, CreateFails(v) PROVE [Queue!Next]_(Queue!vars)
  <2>1. Same
    BY <1>6 DEF CreateFails, tableVars, workerVars, HeldJob
  <2> QED
    BY <2>1 DEF Queue!vars
<1>7. ASSUME NEW v \in Videos, DropUpload(v) PROVE [Queue!Next]_(Queue!vars)
  <2>1. Same
    BY <1>7 DEF DropUpload, tableVars, workerVars, HeldJob
  <2> QED
    BY <2>1 DEF Queue!vars
<1>8. ASSUME NEW v \in Videos, AbandonUpload(v) PROVE [Queue!Next]_(Queue!vars)
  <2>1. Same
    BY <1>8 DEF AbandonUpload, tableVars, workerVars, HeldJob
  <2> QED
    BY <2>1 DEF Queue!vars
<1>9. ASSUME NEW w \in Workers, NEW v \in Videos, Claim(w, v)
      PROVE  [Queue!Next]_(Queue!vars)
  <2>1. HeldJob' = [HeldJob EXCEPT ![w] = v]
    BY <1>9, <1>0 DEF Claim, HeldJob, Settled
  <2>2. HeldJob[w] = Nobody /\ \A x \in Workers : HeldJob[x] # v
    BY <1>9, <1>0, NobodyAssumption
    DEF Claim, Oldest, HeldJob, Settled, ClaimInv
  <2>3. Queue!Take(w, v)
    BY <1>9, <2>1, <2>2 DEF Claim, Oldest, Queue!Take
  <2> QED
    BY <2>3 DEF Queue!Next
<1>10. ASSUME NEW w \in Workers, FinishJob(w) PROVE [Queue!Next]_(Queue!vars)
  <2>1. HeldJob[w] = cur[w] /\ cur[w] # Nobody
    BY <1>10, <1>0 DEF FinishJob, HeldJob, Settled, BusyInv
  <2>2. HeldJob' = [HeldJob EXCEPT ![w] = Nobody]
    BY <1>10, <1>0 DEF FinishJob, HeldJob, Settled
  <2>3. CASE SetJob(cur[w], "done")
    <3>1. Queue!Settle(w, "done")
      BY <1>10, <2>1, <2>2, <2>3 DEF FinishJob, SetJob, Queue!Settle
    <3> QED
      BY <3>1 DEF Queue!Next
  <2>4. CASE "database" \in Faults /\ UNCHANGED job
    <3>1. Queue!Abandon(w)
      BY <1>10, <2>1, <2>2, <2>4 DEF FinishJob, Queue!Abandon
    <3> QED
      BY <3>1 DEF Queue!Next
  <2> QED
    BY <1>10, <2>3, <2>4 DEF FinishJob
<1>11. ASSUME NEW w \in Workers, FailJob(w) PROVE [Queue!Next]_(Queue!vars)
  <2>1. HeldJob[w] = cur[w] /\ cur[w] # Nobody
    BY <1>11, <1>0 DEF FailJob, HeldJob, Settled, BusyInv
  <2>2. HeldJob' = [HeldJob EXCEPT ![w] = Nobody]
    BY <1>11, <1>0 DEF FailJob, HeldJob, Settled, AfterFailJob
  <2>3. CASE SetJob(cur[w], "failed")
    <3>1. Queue!Settle(w, "failed")
      BY <1>11, <2>1, <2>2, <2>3 DEF FailJob, SetJob, Queue!Settle
    <3> QED
      BY <3>1 DEF Queue!Next
  <2>4. CASE "database" \in Faults /\ UNCHANGED job
    <3>1. Queue!Abandon(w)
      BY <1>11, <2>1, <2>2, <2>4 DEF FailJob, Queue!Abandon
    <3> QED
      BY <3>1 DEF Queue!Next
  <2> QED
    BY <1>11, <2>3, <2>4 DEF FailJob
<1>12. ASSUME NEW w \in Workers, SetFailed(w) PROVE [Queue!Next]_(Queue!vars)
  <2>1. Same
    BY <1>12 DEF SetFailed, HeldJob, Settled
  <2> QED
    BY <2>1 DEF Queue!vars
<1>13. ASSUME NEW w \in Workers, DropSource(w) PROVE [Queue!Next]_(Queue!vars)
  <2>1. Same
    BY <1>13 DEF DropSource, tableVars, SourceDue, HeldJob, Settled
  <2> QED
    BY <2>1 DEF Queue!vars
<1>14. ASSUME NEW w \in Workers, DropScratch(w) PROVE [Queue!Next]_(Queue!vars)
  <2>1. Same
    BY <1>14 DEF DropScratch, tableVars, HeldJob, Settled
  <2> QED
    BY <2>1 DEF Queue!vars
<1>15. ASSUME NEW w \in Workers, Load(w) PROVE [Queue!Next]_(Queue!vars)
  <2>1. Same
    BY <1>15 DEF Load, tableVars, HeldJob, Settled
  <2> QED
    BY <2>1 DEF Queue!vars
<1>16. ASSUME NEW w \in Workers, Begin(w) PROVE [Queue!Next]_(Queue!vars)
  <2>1. Same
    BY <1>16 DEF Begin, HeldJob, Settled
  <2> QED
    BY <2>1 DEF Queue!vars
<1>17. ASSUME NEW w \in Workers, Encode(w) PROVE [Queue!Next]_(Queue!vars)
  <2>1. Same
    BY <1>17, <1>0 DEF Encode, tableVars, HeldJob, Settled
  <2> QED
    BY <2>1 DEF Queue!vars
<1>18. ASSUME NEW w \in Workers, BeginUpload(w) PROVE [Queue!Next]_(Queue!vars)
  <2>1. Same
    BY <1>18 DEF BeginUpload, HeldJob, Settled
  <2> QED
    BY <2>1 DEF Queue!vars
<1>19. ASSUME NEW w \in Workers, CreateRendition(w)
      PROVE  [Queue!Next]_(Queue!vars)
  <2>1. Same
    BY <1>19, <1>0 DEF CreateRendition, HeldJob, Settled
  <2> QED
    BY <2>1 DEF Queue!vars
<1>20. ASSUME NEW w \in Workers, InsertSegments(w)
      PROVE  [Queue!Next]_(Queue!vars)
  <2>1. Same
    BY <1>20, <1>0 DEF InsertSegments, HeldJob, Settled
  <2> QED
    BY <2>1 DEF Queue!vars
<1>21. ASSUME NEW w \in Workers, Publish(w) PROVE [Queue!Next]_(Queue!vars)
  <2>1. Same
    BY <1>21 DEF Publish, HeldJob, Settled
  <2> QED
    BY <2>1 DEF Queue!vars
<1>22. ASSUME NEW w \in Workers, ProcessFails(w) PROVE [Queue!Next]_(Queue!vars)
  <2>1. Same
    BY <1>22 DEF ProcessFails, tableVars, ErrorPoints, HeldJob, Settled
  <2> QED
    BY <2>1 DEF Queue!vars
<1>23. ASSUME NEW w \in Workers, IdlePoll(w) PROVE [Queue!Next]_(Queue!vars)
  <2>1. Same
    BY <1>23 DEF IdlePoll, tableVars, workerVars, vars, HeldJob
  <2> QED
    BY <2>1 DEF Queue!vars
<1>24. ASSUME NEW w \in Workers, NEW p \in Segments, Send(w, p)
      PROVE  [Queue!Next]_(Queue!vars)
  <2>1. Same
    BY <1>24 DEF Send, tableVars, HeldJob
  <2> QED
    BY <2>1 DEF Queue!vars
<1>25. ASSUME NEW d \in Deleters, NEW v \in Videos, DelBegin(d, v)
      PROVE  [Queue!Next]_(Queue!vars)
  <2>1. Same
    BY <1>25 DEF DelBegin, tableVars, workerVars, HeldJob
  <2> QED
    BY <2>1 DEF Queue!vars
<1>26. ASSUME NEW d \in Deleters, NEW m \in delMsgs[d], DelMessage(d, m)
      PROVE  [Queue!Next]_(Queue!vars)
  <2>1. Same
    BY <1>26 DEF DelMessage, tableVars, workerVars, HeldJob
  <2> QED
    BY <2>1 DEF Queue!vars
<1>27. ASSUME NEW d \in Deleters, DelRow(d) PROVE [Queue!Next]_(Queue!vars)
  <2>1. HeldJob' = HeldJob
    BY <1>27 DEF DelRow, workerVars, HeldJob
  <2>2. delVideo[d] \in Videos
    BY <1>27 DEF DelRow, DelRowDue, IInv, DelInv, TypeOK, DeleteTypeOK
  <2>3. Queue!Remove(delVideo[d])
    BY <1>27, <2>1 DEF DelRow, Queue!Remove
  <2> QED
    BY <2>2, <2>3 DEF Queue!Next
<1>28. ASSUME NEW d \in Deleters, DelAbort(d) PROVE [Queue!Next]_(Queue!vars)
  <2>1. Same
    BY <1>28 DEF DelAbort, tableVars, workerVars, HeldJob
  <2> QED
    BY <2>1 DEF Queue!vars
<1>29. CASE Restart
  <2>1. HeldJob' = [w \in Workers |-> Nobody]
    BY <1>29 DEF Restart, HeldJob
  <2>2. Queue!Reboot
    BY <1>29, <2>1 DEF Restart, Requeued, Queue!Reboot
  <2> QED
    BY <2>2 DEF Queue!Next
<1>30. CASE UNCHANGED vars
  <2>1. Same
    BY <1>30 DEF vars, tableVars, workerVars, HeldJob
  <2> QED
    BY <2>1 DEF Queue!vars
<1> QED
  BY <1>1, <1>2, <1>3, <1>4, <1>5, <1>6, <1>7, <1>8, <1>9, <1>10, <1>11, <1>12,
    <1>13, <1>14, <1>15, <1>16, <1>17, <1>18, <1>19, <1>20, <1>21, <1>22, <1>23,
    <1>24, <1>25, <1>26, <1>27, <1>28, <1>29, <1>30
  DEF Next, UploadStep, WorkerStep, DeleteStep

-----------------------------------------------------------------------------
(* What the readers of a video see *)

\* The positions of a complete rung.
LEMMA PositionsComplete ==
    ASSUME TypeOK, NEW u \in Videos, NEW q \in Rungs, RungComplete(u, q)
    PROVE  PositionsOf(u)[q] = Segments
BY DEF TypeOK, MessageTypeOK, Message, RungComplete, PositionsOf

\* A step that leaves the rows of a video alone, and who fills it.
LEMMA PhaseFrame ==
    ASSUME NEW u \in Videos, status'[u] = status[u], rends'[u] = rends[u],
           \A x \in Workers :
              (cur'[x] = u /\ Filling(x)') <=> (cur[x] = u /\ Filling(x))
    PROVE  Phase(u)' = Phase(u)
BY DEF Phase

\* A step after which nobody fills the video any more, unless it has no rows, and
\* whose status is neither published nor removed by it.
LEMMA PhaseCloses ==
    ASSUME NEW u \in Videos, rends'[u] = rends[u],
           status[u] # "deleted", status'[u] \notin {"deleted", "ready"},
           \A x \in Workers : cur'[x] = u => ~Filling(x)'
    PROVE  \/ Phase(u)' \in {"closed", Phase(u)}
           \/ status[u] = "ready" /\ rends[u] = {}
<1>1. ~\E x \in Workers : cur'[x] = u /\ Filling(x)'
  OBVIOUS
<1>2. CASE rends[u] = {}
  BY <1>2 DEF Phase
<1>3. CASE rends[u] # {}
  <2>1. Phase(u)' = "closed"
    BY <1>1, <1>3 DEF Phase
  <2> QED
    BY <2>1
<1> QED
  BY <1>2, <1>3

\* What the readers see of a video that is broken off or taken back.
LEMMA RowsClose ==
    ASSUME NEW u \in Videos, rends'[u] = rends[u],
           PositionsOf(u)' = PositionsOf(u),
           Phase(u)' \in {"closed", Phase(u)}, Phase(u) # "gone"
    PROVE  [RowsOf(u)!Next]_(RowsOf(u)!vars)
<1>1. Phase(u) \in {"open", "ready", "closed"}
  BY DEF Phase
<1>2. CASE Phase(u)' = Phase(u)
  BY <1>2 DEF RowsOf!vars
<1>3. CASE Phase(u)' # Phase(u)
  <2>1. RowsOf(u)!Close
    BY <1>1, <1>3 DEF RowsOf!Close
  <2> QED
    BY <2>1 DEF RowsOf!Next
<1> QED
  BY <1>2, <1>3

\* Every step of the pipeline is a step of VideoRows for every video, or leaves
\* it alone.
LEMMA RowsStep ==
    ASSUME IInv, [Next]_vars, NEW u \in Videos
    PROVE  [RowsOf(u)!Next]_(RowsOf(u)!vars)
<1>0. /\ TypeOK /\ BusyInv /\ RegInv /\ DelInv /\ ClaimExclusive /\ StepInv
      /\ RendInv /\ SendInv /\ ReadyInv /\ DeletedLeavesNoRows
      /\ status \in [Videos -> VideoStatus \cup {"unregistered", "deleted"}]
      /\ rends \in [Videos -> SUBSET Rungs] /\ rows \subseteq Message
      /\ pc \in [Workers -> Steps] /\ cur \in [Workers -> Videos \cup {Nobody}]
      /\ rung \in [Workers -> Rungs]
  BY DEF IInv, ClaimInv, TypeOK, TableTypeOK, MessageTypeOK, WorkerTypeOK
<1> DEFINE Same == /\ rends'[u] = rends[u]
                   /\ PositionsOf(u)' = PositionsOf(u)
                   /\ Phase(u)' = Phase(u)
<1>s. Same => [RowsOf(u)!Next]_(RowsOf(u)!vars)
  BY DEF RowsOf!vars
<1>1. ASSUME NEW v \in Videos, ReceiveFile(v)
      PROVE  [RowsOf(u)!Next]_(RowsOf(u)!vars)
  <2>1. UNCHANGED <<status, rends, rows, pc, cur, rung>>
    BY <1>1 DEF ReceiveFile, tableVars, workerVars
  <2>2. Same
    BY <2>1, PhaseFrame DEF Filling, PositionsOf
  <2> QED
    BY <2>2, <1>s
<1>2. ASSUME NEW v \in Videos, FlushFile(v)
      PROVE  [RowsOf(u)!Next]_(RowsOf(u)!vars)
  <2>1. UNCHANGED <<status, rends, rows, pc, cur, rung>>
    BY <1>2 DEF FlushFile, tableVars, workerVars
  <2>2. Same
    BY <2>1, PhaseFrame DEF Filling, PositionsOf
  <2> QED
    BY <2>2, <1>s
<1>3. ASSUME NEW v \in Videos, RejectUpload(v)
      PROVE  [RowsOf(u)!Next]_(RowsOf(u)!vars)
  <2>1. UNCHANGED <<status, rends, rows, pc, cur, rung>>
    BY <1>3 DEF RejectUpload, tableVars, workerVars
  <2>2. Same
    BY <2>1, PhaseFrame DEF Filling, PositionsOf
  <2> QED
    BY <2>2, <1>s
<1>4. ASSUME NEW v \in Videos, CreateVideo(v)
      PROVE  [RowsOf(u)!Next]_(RowsOf(u)!vars)
  <2>1. UNCHANGED <<rends, rows, pc, cur, rung>>
    BY <1>4 DEF CreateVideo, workerVars
  <2>2. \/ status'[u] = status[u]
        \/ status[u] = "unregistered" /\ status'[u] = "queued"
    BY <1>4, <1>0 DEF CreateVideo, RegInv
  <2>3. Same
    BY <2>1, <2>2 DEF Phase, Filling, PositionsOf
  <2> QED
    BY <2>3, <1>s
<1>5. ASSUME NEW v \in Videos, CreateJob(v)
      PROVE  [RowsOf(u)!Next]_(RowsOf(u)!vars)
  <2>1. UNCHANGED <<status, rends, rows, pc, cur, rung>>
    BY <1>5 DEF CreateJob, workerVars
  <2>2. Same
    BY <2>1, PhaseFrame DEF Filling, PositionsOf
  <2> QED
    BY <2>2, <1>s
<1>6. ASSUME NEW v \in Videos, CreateFails(v)
      PROVE  [RowsOf(u)!Next]_(RowsOf(u)!vars)
  <2>1. UNCHANGED <<status, rends, rows, pc, cur, rung>>
    BY <1>6 DEF CreateFails, tableVars, workerVars
  <2>2. Same
    BY <2>1, PhaseFrame DEF Filling, PositionsOf
  <2> QED
    BY <2>2, <1>s
<1>7. ASSUME NEW v \in Videos, DropUpload(v)
      PROVE  [RowsOf(u)!Next]_(RowsOf(u)!vars)
  <2>1. UNCHANGED <<status, rends, rows, pc, cur, rung>>
    BY <1>7 DEF DropUpload, tableVars, workerVars
  <2>2. Same
    BY <2>1, PhaseFrame DEF Filling, PositionsOf
  <2> QED
    BY <2>2, <1>s
<1>8. ASSUME NEW v \in Videos, AbandonUpload(v)
      PROVE  [RowsOf(u)!Next]_(RowsOf(u)!vars)
  <2>1. UNCHANGED <<status, rends, rows, pc, cur, rung>>
    BY <1>8 DEF AbandonUpload, tableVars, workerVars
  <2>2. Same
    BY <2>1, PhaseFrame DEF Filling, PositionsOf
  <2> QED
    BY <2>2, <1>s
<1>9. ASSUME NEW w \in Workers, NEW v \in Videos, Claim(w, v)
      PROVE  [RowsOf(u)!Next]_(RowsOf(u)!vars)
  <2>1. UNCHANGED <<status, rends, rows>>
    BY <1>9 DEF Claim
  <2>2. /\ ~Filling(w) /\ ~Filling(w)'
        /\ \A x \in Workers : x # w =>
              pc'[x] = pc[x] /\ cur'[x] = cur[x] /\ rung'[x] = rung[x]
    BY <1>9, <1>0 DEF Claim, Filling
  <2>3. Same
    BY <2>1, <2>2, PhaseFrame DEF Filling, PositionsOf
  <2> QED
    BY <2>3, <1>s
<1>10. ASSUME NEW w \in Workers, FinishJob(w)
      PROVE  [RowsOf(u)!Next]_(RowsOf(u)!vars)
  <2>1. UNCHANGED <<status, rends, rows>>
    BY <1>10 DEF FinishJob
  <2>2. /\ ~Filling(w) /\ ~Filling(w)'
        /\ \A x \in Workers : x # w =>
              pc'[x] = pc[x] /\ cur'[x] = cur[x] /\ rung'[x] = rung[x]
    BY <1>10, <1>0 DEF FinishJob, Filling
  <2>3. Same
    BY <2>1, <2>2, PhaseFrame DEF Filling, PositionsOf
  <2> QED
    BY <2>3, <1>s
<1>11. ASSUME NEW w \in Workers, FailJob(w)
      PROVE  [RowsOf(u)!Next]_(RowsOf(u)!vars)
  <2>1. UNCHANGED <<status, rends, rows>>
    BY <1>11 DEF FailJob
  <2>2. /\ ~Filling(w) /\ ~Filling(w)'
        /\ \A x \in Workers : x # w =>
              pc'[x] = pc[x] /\ cur'[x] = cur[x] /\ rung'[x] = rung[x]
    BY <1>11, <1>0 DEF FailJob, Filling, AfterFailJob
  <2>3. Same
    BY <2>1, <2>2, PhaseFrame DEF Filling, PositionsOf
  <2> QED
    BY <2>3, <1>s
<1>12. ASSUME NEW w \in Workers, SetFailed(w)
      PROVE  [RowsOf(u)!Next]_(RowsOf(u)!vars)
  <2>0. cur[w] \in Videos
    BY <1>0, <1>12, BusyType DEF SetFailed
  <2>1. UNCHANGED <<rends, rows, cur, rung>> /\ PositionsOf(u)' = PositionsOf(u)
    BY <1>12 DEF SetFailed, PositionsOf
  <2>2. /\ ~Filling(w) /\ ~Filling(w)'
        /\ \A x \in Workers : x # w => pc'[x] = pc[x]
    BY <1>12, <1>0 DEF SetFailed, Filling, RendInv
  <2>3. CASE status'[u] = status[u]
    <3>1. Same
      BY <2>1, <2>2, <2>3, PhaseFrame DEF Filling
    <3> QED
      BY <3>1, <1>s
  <2>4. CASE status'[u] # status[u]
    <3>1. /\ u = cur[w] /\ status[u] # "deleted" /\ status'[u] = "failed"
      BY <1>0, <1>12, <2>0, <2>4 DEF SetFailed, SetStatus
    <3>2. \A x \in Workers : cur'[x] = u => ~Filling(x)'
      BY <1>0, <2>0, <2>1, <2>2, <3>1, NobodyAssumption DEF ClaimExclusive
    <3>3. status[u] = "ready" => rends[u] # {}
      BY <1>0, NumRungsAssumption DEF ReadyInv, Rungs
    <3>4. Phase(u)' \in {"closed", Phase(u)} /\ Phase(u) # "gone"
      BY <2>1, <3>1, <3>2, <3>3, PhaseCloses DEF Phase
    <3> QED
      BY <2>1, <3>4, RowsClose
  <2> QED
    BY <2>3, <2>4
<1>13. ASSUME NEW w \in Workers, DropSource(w)
      PROVE  [RowsOf(u)!Next]_(RowsOf(u)!vars)
  <2>1. UNCHANGED <<status, rends, rows>>
    BY <1>13 DEF DropSource, tableVars
  <2>2. /\ ~Filling(w) /\ ~Filling(w)'
        /\ \A x \in Workers : x # w =>
              pc'[x] = pc[x] /\ cur'[x] = cur[x] /\ rung'[x] = rung[x]
    BY <1>13, <1>0 DEF DropSource, Filling, SourceDue
  <2>3. Same
    BY <2>1, <2>2, PhaseFrame DEF Filling, PositionsOf
  <2> QED
    BY <2>3, <1>s
<1>14. ASSUME NEW w \in Workers, DropScratch(w)
      PROVE  [RowsOf(u)!Next]_(RowsOf(u)!vars)
  <2>1. UNCHANGED <<status, rends, rows>>
    BY <1>14 DEF DropScratch, tableVars
  <2>2. /\ ~Filling(w) /\ ~Filling(w)'
        /\ \A x \in Workers : x # w =>
              pc'[x] = pc[x] /\ cur'[x] = cur[x] /\ rung'[x] = rung[x]
    BY <1>14, <1>0 DEF DropScratch, Filling
  <2>3. Same
    BY <2>1, <2>2, PhaseFrame DEF Filling, PositionsOf
  <2> QED
    BY <2>3, <1>s
<1>15. ASSUME NEW w \in Workers, Load(w) PROVE [RowsOf(u)!Next]_(RowsOf(u)!vars)
  <2>1. UNCHANGED <<status, rends, rows>>
    BY <1>15 DEF Load, tableVars
  <2>2. /\ ~Filling(w) /\ ~Filling(w)'
        /\ \A x \in Workers : x # w =>
              pc'[x] = pc[x] /\ cur'[x] = cur[x] /\ rung'[x] = rung[x]
    BY <1>15, <1>0 DEF Load, Filling
  <2>3. Same
    BY <2>1, <2>2, PhaseFrame DEF Filling, PositionsOf
  <2> QED
    BY <2>3, <1>s
<1>16. ASSUME NEW w \in Workers, Begin(w)
      PROVE  [RowsOf(u)!Next]_(RowsOf(u)!vars)
  <2>0. cur[w] \in Videos
    BY <1>0, <1>16, BusyType DEF Begin
  <2>1. UNCHANGED <<rends, rows, cur, rung>> /\ PositionsOf(u)' = PositionsOf(u)
    BY <1>16 DEF Begin, PositionsOf
  <2>2. /\ ~Filling(w) /\ ~Filling(w)'
        /\ \A x \in Workers : x # w => pc'[x] = pc[x]
    BY <1>16, <1>0 DEF Begin, Filling, RendInv
  <2>3. CASE status'[u] = status[u]
    <3>1. Same
      BY <2>1, <2>2, <2>3, PhaseFrame DEF Filling
    <3> QED
      BY <3>1, <1>s
  <2>4. CASE status'[u] # status[u]
    <3>1. /\ u = cur[w] /\ status[u] # "deleted" /\ status'[u] = "transcoding"
      BY <1>0, <1>16, <2>0, <2>4 DEF Begin, SetStatus
    <3>2. \A x \in Workers : cur'[x] = u => ~Filling(x)'
      BY <1>0, <2>0, <2>1, <2>2, <3>1, NobodyAssumption DEF ClaimExclusive
    <3>3. status[u] = "ready" => rends[u] # {}
      BY <1>0, NumRungsAssumption DEF ReadyInv, Rungs
    <3>4. Phase(u)' \in {"closed", Phase(u)} /\ Phase(u) # "gone"
      BY <2>1, <3>1, <3>2, <3>3, PhaseCloses DEF Phase
    <3> QED
      BY <2>1, <3>4, RowsClose
  <2> QED
    BY <2>3, <2>4
<1>17. ASSUME NEW w \in Workers, Encode(w)
      PROVE  [RowsOf(u)!Next]_(RowsOf(u)!vars)
  <2>1. UNCHANGED <<status, rends, rows>>
    BY <1>17 DEF Encode, tableVars
  <2>2. /\ ~Filling(w) /\ ~Filling(w)'
        /\ \A x \in Workers : x # w =>
              pc'[x] = pc[x] /\ cur'[x] = cur[x] /\ rung'[x] = rung[x]
    BY <1>17, <1>0 DEF Encode, Filling
  <2>3. Same
    BY <2>1, <2>2, PhaseFrame DEF Filling, PositionsOf
  <2> QED
    BY <2>3, <1>s
<1>18. ASSUME NEW w \in Workers, BeginUpload(w)
      PROVE  [RowsOf(u)!Next]_(RowsOf(u)!vars)
  <2>0. cur[w] \in Videos
    BY <1>0, <1>18, BusyType DEF BeginUpload
  <2>1. UNCHANGED <<rends, rows, cur, rung>> /\ PositionsOf(u)' = PositionsOf(u)
    BY <1>18 DEF BeginUpload, PositionsOf
  <2>2. /\ ~Filling(w) /\ ~Filling(w)'
        /\ \A x \in Workers : x # w => pc'[x] = pc[x]
    BY <1>18, <1>0 DEF BeginUpload, Filling, RendInv
  <2>3. CASE status'[u] = status[u]
    <3>1. Same
      BY <2>1, <2>2, <2>3, PhaseFrame DEF Filling
    <3> QED
      BY <3>1, <1>s
  <2>4. CASE status'[u] # status[u]
    <3>1. /\ u = cur[w] /\ status[u] # "deleted" /\ status'[u] = "uploading"
      BY <1>0, <1>18, <2>0, <2>4 DEF BeginUpload, SetStatus
    <3>2. \A x \in Workers : cur'[x] = u => ~Filling(x)'
      BY <1>0, <2>0, <2>1, <2>2, <3>1, NobodyAssumption DEF ClaimExclusive
    <3>3. status[u] = "ready" => rends[u] # {}
      BY <1>0, NumRungsAssumption DEF ReadyInv, Rungs
    <3>4. Phase(u)' \in {"closed", Phase(u)} /\ Phase(u) # "gone"
      BY <2>1, <3>1, <3>2, <3>3, PhaseCloses DEF Phase
    <3> QED
      BY <2>1, <3>4, RowsClose
  <2> QED
    BY <2>3, <2>4
<1>19. ASSUME NEW w \in Workers, CreateRendition(w)
      PROVE  [RowsOf(u)!Next]_(RowsOf(u)!vars)
  <2> DEFINE r == rung[w]
  <2>0. /\ cur[w] \in Videos /\ r \in Rungs /\ pc[w] = "create"
        /\ UNCHANGED <<status, rows, cur, rung>>
        /\ \A x \in Workers : x # w => pc'[x] = pc[x]
    BY <1>0, <1>19, BusyType DEF CreateRendition
  <2>1. PositionsOf(u)' = PositionsOf(u)
    BY <2>0 DEF PositionsOf
  <2>2. CASE u # cur[w]
    <3>1. rends'[u] = rends[u]
      BY <1>0, <1>19, <2>0, <2>2 DEF CreateRendition
    <3>2. Same
      BY <2>0, <2>1, <2>2, <3>1, PhaseFrame DEF Filling
    <3> QED
      BY <3>2, <1>s
  <2>3. CASE u = cur[w] /\ RenditionAccepted(u, r)
    <3>1. /\ status[u] \notin {"deleted", "ready"}
          /\ r \notin rends[u]
          /\ rends'[u] = rends[u] \cup {r}
          /\ pc'[w] = "send"
      BY <1>0, <1>19, <2>0, <2>3, NobodyAssumption
      DEF CreateRendition, RenditionAccepted, StepInv
    <3>2. r > 1 \/ rends[u] = {}
      BY <1>0, <2>0, <3>1 DEF RendInv, Rungs
    <3>3. \A q \in Rungs : q < r => q \in rends[u] /\ PositionsOf(u)[q] = Segments
      <4> SUFFICES ASSUME NEW q \in Rungs, q < r
                   PROVE  q \in rends[u] /\ PositionsOf(u)[q] = Segments
        OBVIOUS
      <4>1. r > 1
        BY <2>0 DEF Rungs
      <4>2. q \in rends[u]
        BY <1>0, <2>0, <2>3, <3>1, <4>1, NobodyAssumption DEF RendInv
      <4>3. RungComplete(u, q)
        BY <1>0, <2>0, <2>3, <3>1, NobodyAssumption
        DEF SendInv, SendOK, RungDone
      <4> QED
        BY <1>0, <4>2, <4>3, PositionsComplete
    <3>4. Phase(u) = "open" /\ Phase(u)' = "open"
      BY <2>0, <2>3, <3>1, <3>2 DEF Phase, Filling
    <3>5. RowsOf(u)!AddRendition(r)
      BY <2>1, <3>1, <3>3, <3>4
      DEF RowsOf!AddRendition, RowsOf!Whole, RowsOf!Rungs, Rungs
    <3> QED
      BY <2>0, <3>5 DEF RowsOf!Next, RowsOf!Rungs, Rungs
  <2>4. CASE u = cur[w] /\ ~RenditionAccepted(u, r)
    <3>1. rends' = rends /\ pc'[w] = "fail"
      BY <1>0, <1>19, <2>0, <2>4 DEF CreateRendition
    <3>2. status[u] = "deleted" \/ ~Filling(w)
      BY <1>0, <2>0, <2>4, NobodyAssumption
      DEF RenditionAccepted, RendInv, Filling, Rungs
    <3>3. Phase(u)' = Phase(u)
      <4>1. CASE status[u] = "deleted"
        BY <2>0, <4>1 DEF Phase
      <4>2. CASE ~Filling(w)
        BY <2>0, <3>1, <4>2, PhaseFrame DEF Filling
      <4> QED
        BY <3>2, <4>1, <4>2
    <3> QED
      BY <2>1, <3>1, <3>3, <1>s
  <2> QED
    BY <2>2, <2>3, <2>4
<1>20. ASSUME NEW w \in Workers, InsertSegments(w)
      PROVE  [RowsOf(u)!Next]_(RowsOf(u)!vars)
  <2> DEFINE r == rung[w]
             ok == RungSent(w) /\ status[cur[w]] # "deleted"
             new == {MessageOf(cur[w], r, p) : p \in Delivered(w)}
  <2>0. /\ cur[w] \in Videos /\ r \in Rungs /\ pc[w] = "send"
        /\ UNCHANGED <<status, rends, cur>>
        /\ \A x \in Workers : x # w => pc'[x] = pc[x] /\ rung'[x] = rung[x]
    BY <1>0, <1>20, BusyType DEF InsertSegments
  <2>1. \/ rows' = rows /\ ~ok /\ pc'[w] = "fail"
        \/ /\ rows' = rows \cup new
           /\ ok
           /\ (pc'[w] = "create" /\ rung'[w] > 1) \/ pc'[w] = "publish"
    BY <1>0, <1>20, <2>0 DEF InsertSegments, Rungs
  <2>2. \A m \in new : m.video = cur[w] /\ m.rung = r
    BY DEF MessageOf
  <2>3. CASE u # cur[w]
    <3>1. PositionsOf(u)' = PositionsOf(u)
      BY <2>1, <2>2, <2>3 DEF PositionsOf
    <3>2. Phase(u)' = Phase(u)
      BY <2>0, <2>3, PhaseFrame DEF Filling
    <3> QED
      BY <2>0, <3>1, <3>2, <1>s
  <2>4. CASE u = cur[w] /\ status[u] = "deleted"
    <3>1. PositionsOf(u)' = PositionsOf(u)
      BY <2>1, <2>4 DEF PositionsOf
    <3>2. Phase(u)' = Phase(u)
      BY <2>0, <2>4 DEF Phase
    <3> QED
      BY <2>0, <3>1, <3>2, <1>s
  <2>5. CASE u = cur[w] /\ status[u] # "deleted" /\ ~ok
    <3>1. rows' = rows /\ pc'[w] = "fail"
      BY <2>1, <2>5
    <3>2. \A x \in Workers : cur'[x] = u => ~Filling(x)'
      BY <1>0, <2>0, <2>5, <3>1, NobodyAssumption DEF ClaimExclusive, Filling
    <3>3. status[u] # "ready"
      BY <1>0, <2>0, <2>5, NobodyAssumption DEF StepInv
    <3>4. Phase(u)' \in {"closed", Phase(u)} /\ Phase(u) # "gone"
      BY <2>0, <2>5, <3>2, <3>3, PhaseCloses DEF Phase
    <3>5. PositionsOf(u)' = PositionsOf(u)
      BY <3>1 DEF PositionsOf
    <3> QED
      BY <2>0, <3>4, <3>5, RowsClose
  <2>6. CASE u = cur[w] /\ ok
    <3>1. status[u] \notin {"deleted", "ready"} /\ r \in rends[u]
      BY <1>0, <2>0, <2>6, NobodyAssumption DEF StepInv, RendInv, Rungs
    <3>2. \A m \in rows : m.video = u => m.rung # r
      BY <1>0, <2>0, <2>6, <3>1, NobodyAssumption DEF SendInv, SendOK
    <3>3. /\ rows' = rows \cup new
          /\ (pc'[w] = "create" /\ rung'[w] > 1) \/ pc'[w] = "publish"
      BY <2>1, <2>6
    <3>4. {m.pos : m \in new} = Segments
      <4>1. Delivered(w) = Segments
        BY <2>6 DEF RungSent
      <4>2. \A m \in new : m.pos \in Segments
        BY <4>1 DEF MessageOf
      <4>3. \A p \in Segments : MessageOf(cur[w], r, p) \in new /\ MessageOf(cur[w], r, p).pos = p
        BY <4>1 DEF MessageOf
      <4> QED
        BY <4>2, <4>3
    <3>5. PositionsOf(u)[r] = {}
      BY <2>0, <3>2 DEF PositionsOf
    <3>6. PositionsOf(u)' = [PositionsOf(u) EXCEPT ![r] = Segments]
      <4>1. \A q \in Rungs : q # r => PositionsOf(u)'[q] = PositionsOf(u)[q]
        BY <2>2, <3>3 DEF PositionsOf
      <4>2. PositionsOf(u)'[r] = Segments
        <5>1. {n \in rows' : n.video = u /\ n.rung = r} = new
          BY <2>2, <2>6, <3>2, <3>3
        <5> QED
          BY <2>0, <3>4, <5>1 DEF PositionsOf
      <4>3. /\ PositionsOf(u) = [q \in Rungs |-> PositionsOf(u)[q]]
            /\ PositionsOf(u)' = [q \in Rungs |-> PositionsOf(u)'[q]]
        BY DEF PositionsOf
      <4> HIDE DEF r
      <4> QED
        BY <2>0, <4>1, <4>2, <4>3
    <3>7. Phase(u) = "open" /\ Phase(u)' = "open"
      BY <2>0, <2>6, <3>1, <3>3 DEF Phase, Filling
    <3>8. RowsOf(u)!Fill(r)
      BY <2>0, <3>1, <3>5, <3>6, <3>7 DEF RowsOf!Fill
    <3> QED
      BY <2>0, <3>8 DEF RowsOf!Next, RowsOf!Rungs, Rungs
  <2> QED
    BY <2>3, <2>4, <2>5, <2>6
<1>21. ASSUME NEW w \in Workers, Publish(w)
      PROVE  [RowsOf(u)!Next]_(RowsOf(u)!vars)
  <2>0. /\ cur[w] \in Videos /\ pc[w] = "publish" /\ pc'[w] = "finish"
        /\ UNCHANGED <<rends, rows, cur, rung>>
        /\ \A x \in Workers : x # w => pc'[x] = pc[x]
    BY <1>0, <1>21, BusyType DEF Publish
  <2>1. PositionsOf(u)' = PositionsOf(u)
    BY <2>0 DEF PositionsOf
  <2>2. CASE u # cur[w]
    <3>1. status'[u] = status[u]
      BY <1>0, <1>21, <2>0, <2>2 DEF Publish, SetStatus
    <3>2. Same
      BY <2>0, <2>1, <2>2, <3>1, PhaseFrame DEF Filling
    <3> QED
      BY <3>2, <1>s
  <2>3. CASE u = cur[w] /\ status[u] = "deleted"
    <3>1. status' = status
      BY <1>21, <2>3 DEF Publish, SetStatus
    <3>2. Same
      BY <2>0, <2>1, <2>3, <3>1 DEF Phase
    <3> QED
      BY <3>2, <1>s
  <2>4. CASE u = cur[w] /\ status[u] # "deleted"
    <3>1. status[u] # "ready" /\ status'[u] = "ready"
      BY <1>0, <1>21, <2>0, <2>4, NobodyAssumption DEF Publish, SetStatus, StepInv
    <3>2. Phase(u) = "open" /\ Phase(u)' = "ready"
      BY <2>0, <2>4, <3>1 DEF Phase, Filling
    <3>3. \A q \in Rungs : q \in rends[u] /\ PositionsOf(u)[q] = Segments
      <4>1. rends[u] = Rungs /\ \A q \in Rungs : RungComplete(u, q)
        BY <1>0, <2>0, <2>4, NobodyAssumption DEF RendInv, SendInv, SendOK, RungDone
      <4> QED
        BY <1>0, <4>1, PositionsComplete
    <3>4. RowsOf(u)!Publish
      BY <2>0, <2>1, <3>2, <3>3
      DEF RowsOf!Publish, RowsOf!Complete, RowsOf!Whole, RowsOf!Rungs, Rungs
    <3> QED
      BY <3>4 DEF RowsOf!Next
  <2> QED
    BY <2>2, <2>3, <2>4
<1>22. ASSUME NEW w \in Workers, ProcessFails(w)
      PROVE  [RowsOf(u)!Next]_(RowsOf(u)!vars)
  <2>1. /\ UNCHANGED <<status, rends, rows, cur, rung>>
        /\ PositionsOf(u)' = PositionsOf(u)
        /\ pc'[w] = "fail" /\ pc[w] # "idle" /\ pc[w] # "finish"
        /\ \A x \in Workers : x # w => pc'[x] = pc[x]
    BY <1>0, <1>22 DEF ProcessFails, ErrorPoints, tableVars, PositionsOf
  <2>2. CASE u # cur[w] \/ ~Filling(w)
    <3>1. Phase(u)' = Phase(u)
      BY <2>1, <2>2, PhaseFrame DEF Filling
    <3> QED
      BY <2>1, <3>1, <1>s
  <2>3. CASE u = cur[w] /\ Filling(w) /\ status[u] = "deleted"
    <3>1. Phase(u)' = Phase(u)
      BY <2>1, <2>3 DEF Phase
    <3> QED
      BY <2>1, <3>1, <1>s
  <2>4. CASE u = cur[w] /\ Filling(w) /\ status[u] # "deleted"
    <3>1. \A x \in Workers : cur'[x] = u => ~Filling(x)'
      BY <1>0, <2>1, <2>4, NobodyAssumption DEF ClaimExclusive, Filling
    <3>2. status[u] # "ready"
      BY <1>0, <2>4, NobodyAssumption DEF StepInv, Filling
    <3>3. Phase(u)' \in {"closed", Phase(u)} /\ Phase(u) # "gone"
      BY <2>1, <2>4, <3>1, <3>2, PhaseCloses DEF Phase
    <3> QED
      BY <2>1, <3>3, RowsClose
  <2> QED
    BY <2>2, <2>3, <2>4
<1>23. ASSUME NEW w \in Workers, IdlePoll(w)
      PROVE  [RowsOf(u)!Next]_(RowsOf(u)!vars)
  <2>1. UNCHANGED <<status, rends, rows, pc, cur, rung>>
    BY <1>23 DEF IdlePoll, vars, tableVars, workerVars
  <2>2. Same
    BY <2>1, PhaseFrame DEF Filling, PositionsOf
  <2> QED
    BY <2>2, <1>s
<1>24. ASSUME NEW w \in Workers, NEW p \in Segments, Send(w, p)
      PROVE  [RowsOf(u)!Next]_(RowsOf(u)!vars)
  <2>1. UNCHANGED <<status, rends, rows, pc, cur, rung>>
    BY <1>24 DEF Send, tableVars
  <2>2. Same
    BY <2>1, PhaseFrame DEF Filling, PositionsOf
  <2> QED
    BY <2>2, <1>s
<1>25. ASSUME NEW d \in Deleters, NEW v \in Videos, DelBegin(d, v)
      PROVE  [RowsOf(u)!Next]_(RowsOf(u)!vars)
  <2>1. UNCHANGED <<status, rends, rows, pc, cur, rung>>
    BY <1>25 DEF DelBegin, tableVars, workerVars
  <2>2. Same
    BY <2>1, PhaseFrame DEF Filling, PositionsOf
  <2> QED
    BY <2>2, <1>s
<1>26. ASSUME NEW d \in Deleters, NEW m \in delMsgs[d], DelMessage(d, m)
      PROVE  [RowsOf(u)!Next]_(RowsOf(u)!vars)
  <2>1. UNCHANGED <<status, rends, rows, pc, cur, rung>>
    BY <1>26 DEF DelMessage, tableVars, workerVars
  <2>2. Same
    BY <2>1, PhaseFrame DEF Filling, PositionsOf
  <2> QED
    BY <2>2, <1>s
<1>27. ASSUME NEW d \in Deleters, DelRow(d)
      PROVE  [RowsOf(u)!Next]_(RowsOf(u)!vars)
  <2> DEFINE v == delVideo[d]
  <2>0. /\ v \in Videos
        /\ status' = [status EXCEPT ![v] = "deleted"]
        /\ rends' = [rends EXCEPT ![v] = {}]
        /\ rows' = {m \in rows : m.video # v}
        /\ UNCHANGED <<pc, cur, rung>>
    BY <1>0, <1>27 DEF DelRow, DelRowDue, DelInv, TypeOK, DeleteTypeOK, workerVars
  <2>1. CASE u # v
    <3>1. status'[u] = status[u] /\ rends'[u] = rends[u]
      BY <1>0, <2>0, <2>1
    <3>2. PositionsOf(u)' = PositionsOf(u)
      BY <2>0, <2>1 DEF PositionsOf
    <3>3. Phase(u)' = Phase(u)
      BY <2>0, <3>1, PhaseFrame DEF Filling
    <3> QED
      BY <3>1, <3>2, <3>3, <1>s
  <2>2. CASE u = v
    <3>1. /\ rends'[u] = {}
          /\ PositionsOf(u)' = [q \in Rungs |-> {}]
          /\ Phase(u)' = "gone"
      BY <1>0, <2>0, <2>2 DEF PositionsOf, Phase
    <3>2. CASE status[u] # "deleted"
      <4>1. RowsOf(u)!Delete
        BY <3>1, <3>2
        DEF RowsOf!Delete, RowsOf!NoRows, RowsOf!Rungs, Rungs, Phase
      <4> QED
        BY <4>1 DEF RowsOf!Next
    <3>3. CASE status[u] = "deleted"
      <4>1. /\ rends[u] = {}
            /\ PositionsOf(u) = [q \in Rungs |-> {}]
            /\ Phase(u) = "gone"
        BY <1>0, <3>3 DEF DeletedLeavesNoRows, MessagesOf, PositionsOf, Phase
      <4> QED
        BY <3>1, <4>1, <1>s
    <3> QED
      BY <3>2, <3>3
  <2> QED
    BY <2>1, <2>2
<1>28. ASSUME NEW d \in Deleters, DelAbort(d)
      PROVE  [RowsOf(u)!Next]_(RowsOf(u)!vars)
  <2>1. UNCHANGED <<status, rends, rows, pc, cur, rung>>
    BY <1>28 DEF DelAbort, tableVars, workerVars
  <2>2. Same
    BY <2>1, PhaseFrame DEF Filling, PositionsOf
  <2> QED
    BY <2>2, <1>s
<1>29. CASE Restart
  <2>1. /\ UNCHANGED <<status, rends, rows>>
        /\ PositionsOf(u)' = PositionsOf(u)
        /\ \A x \in Workers : ~Filling(x)'
    BY <1>29 DEF Restart, PositionsOf, Filling
  <2>2. CASE status[u] \in {"deleted", "ready"}
    <3>1. Phase(u)' = Phase(u)
      BY <2>1, <2>2 DEF Phase
    <3> QED
      BY <2>1, <3>1, <1>s
  <2>3. CASE status[u] \notin {"deleted", "ready"}
    <3>1. Phase(u)' \in {"closed", Phase(u)} /\ Phase(u) # "gone"
      BY <2>1, <2>3, PhaseCloses DEF Phase
    <3> QED
      BY <2>1, <3>1, RowsClose
  <2> QED
    BY <2>2, <2>3
<1>30. CASE UNCHANGED vars
  <2>1. UNCHANGED <<status, rends, rows, pc, cur, rung>>
    BY <1>30 DEF vars, tableVars, workerVars
  <2>2. Same
    BY <2>1, PhaseFrame DEF Filling, PositionsOf
  <2> QED
    BY <2>2, <1>s
<1> QED
  BY <1>1, <1>2, <1>3, <1>4, <1>5, <1>6, <1>7, <1>8, <1>9, <1>10, <1>11, <1>12,
    <1>13, <1>14, <1>15, <1>16, <1>17, <1>18, <1>19, <1>20, <1>21, <1>22, <1>23,
    <1>24, <1>25, <1>26, <1>27, <1>28, <1>29, <1>30
  DEF Next, UploadStep, WorkerStep, DeleteStep

-----------------------------------------------------------------------------

\* As long as Postgres answers, a job that is pending or running finds its
\* source file, also after any number of restarts (transcoder.rs:79-99,
\* routers/videos.rs:124-128).
THEOREM JobsFindTheirSource ==
    ASSUME "database" \notin Faults
    PROVE  Spec => []UnsettledHasSource
<1>1. Init => SourceInv
  BY DEF Init, SourceInv, UnsettledHasSource
<1>2. IInv /\ SourceInv /\ [Next]_vars => SourceInv'
  BY SourceStep DEF IInv
<1>3. SourceInv => UnsettledHasSource
  BY DEF SourceInv
<1> QED
  BY <1>1, <1>2, <1>3, Inductive, PTL DEF Spec

\* A deletion that began with a published video and removes its row leaves no
\* message of it but those Telegram refused to delete, whatever transcoders and
\* other deletions do meanwhile (services/videos.rs, delete).
THEOREM DeletionEmptiesChat == Spec => DeleteSyncsReady
<1>1. Init => ListedInv
  BY DEF Init, ListedInv
<1>2. IInv /\ ReadyMatchesChat /\ ListedInv /\ [Next]_vars => ListedInv'
  BY ListedStep
<1>3. IInv /\ ListedInv /\ [Next]_vars =>
        [\A d \in Deleters : \A v \in Videos :
            /\ delVideo[d] = v
            /\ delReady[d]
            /\ delPc'[d] = "idle"
            /\ status[v] # "deleted"
            /\ status'[v] = "deleted"
            => MessagesOf(chat', v) \subseteq refused]_vars
  BY OnlyDelRowDeletes
<1> QED
  BY <1>1, <1>2, <1>3, Inductive, PublishedHasNoStrays, PTL
  DEF Spec, DeleteSyncsReady

\* The pipeline implements the job queue, whatever fails: jobs are handed out
\* oldest first, to one worker each, and only a restart takes a running one
\* back (repositories/videos.rs:297-372).
THEOREM PipelineIsQueue == Spec => ImplementsQueue
<1>1. Init => Queue!Init /\ StampInv
  BY DEF Init, Queue!Init, HeldJob, StampInv
<1>2. IInv /\ StampInv /\ [Next]_vars => StampInv'
  BY StampStep DEF IInv
<1>3. IInv /\ StampInv /\ [Next]_vars => [Queue!Next]_(Queue!vars)
  BY QueueStep
<1> QED
  BY <1>1, <1>2, <1>3, Inductive, PTL DEF Spec, ImplementsQueue, Queue!Spec

\* Readers of a video see a behaviour of VideoRows, whatever fails, is retried or
\* deleted, and however many transcoders and restarts there are
\* (transcoder.rs:107-196, repositories/videos.rs:164-262).
THEOREM PipelineIsRows == Spec => ImplementsRows
<1>1. Init => RowsInit
  <2> SUFFICES ASSUME Init, NEW v \in Videos PROVE RowsOf(v)!Init
    BY DEF RowsInit
  <2>1. Phase(v) = "open" /\ rends[v] = {}
    BY DEF Init, Phase
  <2>2. PositionsOf(v) = [r \in Rungs |-> {}]
    BY DEF Init, PositionsOf
  <2> QED
    BY <2>1, <2>2 DEF RowsOf!Init, RowsOf!NoRows, RowsOf!Rungs, Rungs
<1>2. IInv /\ [Next]_vars => [RowsNext]_vars
  BY RowsStep DEF RowsNext
<1> QED
  BY <1>1, <1>2, Inductive, PTL DEF Spec, ImplementsRows

\* Whatever fails and however often the program is restarted, a job is claimed
\* at most once per boot (repositories/videos.rs:315-329, transcoder.rs:64-66).
THEOREM NoAutomaticRetry == Spec => []ClaimedOncePerBoot
<1>1. Init => AttemptsInv
  BY DEF Init, AttemptsInv, ClaimedOncePerBoot
<1>2. IInv /\ AttemptsInv /\ [Next]_vars => AttemptsInv'
  BY AttemptsStep DEF IInv
<1>3. AttemptsInv => ClaimedOncePerBoot
  BY DEF AttemptsInv
<1> QED
  BY <1>1, <1>2, <1>3, Inductive, PTL DEF Spec

\* The queue alone keeps every running job with its worker.
LEMMA QueueKeepsHolders ==
    ASSUME TypeOK, Queue!RunningIsHeld, [Queue!Next]_(Queue!vars)
    PROVE  Queue!RunningIsHeld'
<1>0. /\ job \in [Videos -> JobState \cup {"none"}]
      /\ HeldJob \in [Workers -> Videos \cup {Nobody}]
  BY DEF TypeOK, TableTypeOK, WorkerTypeOK, HeldJob
<1>1. ASSUME NEW v \in Videos, Queue!Enqueue(v) \/ Queue!Remove(v)
      PROVE  Queue!RunningIsHeld'
  BY <1>0, <1>1 DEF Queue!Enqueue, Queue!Remove, Queue!RunningIsHeld
<1>2. ASSUME NEW w \in Workers, NEW v \in Videos, Queue!Take(w, v)
      PROVE  Queue!RunningIsHeld'
  BY <1>0, <1>2, NobodyAssumption DEF Queue!Take, Queue!RunningIsHeld
<1>3. ASSUME NEW w \in Workers, NEW outcome \in {"done", "failed"},
             Queue!Settle(w, outcome)
      PROVE  Queue!RunningIsHeld'
  BY <1>0, <1>3 DEF Queue!Settle, Queue!RunningIsHeld
<1>4. ASSUME NEW w \in Workers, Queue!Abandon(w) PROVE Queue!RunningIsHeld'
  BY <1>4 DEF Queue!Abandon, Queue!RunningIsHeld
<1>5. CASE Queue!Reboot
  BY <1>0, <1>5 DEF Queue!Reboot, Queue!RunningIsHeld
<1>6. CASE UNCHANGED Queue!vars
  BY <1>6 DEF Queue!vars, Queue!RunningIsHeld
<1> QED
  BY <1>1, <1>2, <1>3, <1>4, <1>5, <1>6 DEF Queue!Next

\* While Postgres is up every running job has a transcoder on it that has not
\* settled it.  It is proved of the queue, and the pipeline implements the queue
\* (transcoder.rs:44-74, repositories/videos.rs:371-386).
THEOREM RunningJobsAreHeld == Spec => []NoJobIsStranded
<1>1. Init => Queue!RunningIsHeld
  BY DEF Init, Queue!RunningIsHeld
<1>2. TypeOK /\ Queue!RunningIsHeld /\ [Queue!Next]_(Queue!vars)
        => Queue!RunningIsHeld'
  BY QueueKeepsHolders
<1>3. IInv => TypeOK
  BY DEF IInv
<1> QED
  BY <1>1, <1>2, <1>3, Inductive, PipelineIsQueue, PTL
  DEF Spec, ImplementsQueue, Queue!Spec, NoJobIsStranded

=============================================================================
