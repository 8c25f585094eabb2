------------------------- MODULE UploadIntakeProofs -------------------------
(***************************************************************************)
(* Proofs about UploadIntake, for bodies of any number of parts and chunks *)
(* and any set of faults.                                                  *)
(***************************************************************************)
EXTENDS UploadIntakeInv, TLAPS

-----------------------------------------------------------------------------
(* Every step keeps the invariant, part by part *)

\* No file has the type of a file.
LEMMA NoFileType == NoFile \in [part : Part \cup {NoPart}, chunks : 0 .. MaxChunks]
  BY PartsAssumption DEF NoFile

\* Every step keeps the types.
LEMMA TypeKeeps ==
    ASSUME TypeOK, FileInv, BodyInv, [Next]_vars
    PROVE  TypeOK'
<1>1. CASE TitlePart
  BY PartsAssumption, <1>1 DEF TitlePart, fileVars, rowVars, TypeOK
<1>2. CASE OtherPart
  BY PartsAssumption, <1>2 DEF OtherPart, formVars, fileVars, rowVars, TypeOK
<1>3. CASE FilePart
  BY PartsAssumption, <1>3 DEF FilePart, rowVars, TypeOK, Part, Steps
<1>4. CASE Chunk
  <2>1. parts \in Part /\ whole \in [Part -> 0 .. MaxChunks] /\ size \in Nat
    BY <1>4 DEF Chunk, TypeOK, BodyInv
  <2>2. whole[parts] + 1 \in 0 .. MaxChunks
    BY <2>1, <1>4, PartsAssumption DEF Chunk
  <2>3. whole' \in [Part -> 0 .. MaxChunks] /\ size' \in Nat /\ buffer' \in 0 .. 1
    BY <2>1, <2>2, <1>4 DEF Chunk
  <2> QED
    BY <2>3, <1>4 DEF Chunk, TypeOK, rowVars
<1>5. CASE EndOfPart
  <2>1. ended' \subseteq Part /\ pc' \in Steps
    BY <1>5 DEF EndOfPart, TypeOK, BodyInv, Steps
  <2> QED
    BY <2>1, <1>5 DEF EndOfPart, TypeOK, formVars, fileVars, rowVars
<1>6. CASE EndOfBody
  BY <1>6 DEF EndOfBody, clientVars, formVars, fileVars, rowVars, TypeOK, Steps
<1>7. CASE DiskWrite
  <2>1. file.part \in Part /\ file.chunks + 1 <= whole[file.part]
    <3>1. buffer = 1 /\ file.part \in Part \cup {NoPart}
      BY <1>7 DEF DiskWrite, TypeOK
    <3>2. file.part # NoPart
      BY <3>1 DEF FileInv
    <3> QED
      BY <3>1 DEF FileInv
  <2>2. file.chunks + 1 \in 0 .. MaxChunks
    <3>1. whole[file.part] \in 0 .. MaxChunks /\ file.chunks \in 0 .. MaxChunks
      BY <2>1 DEF TypeOK
    <3> QED
      BY <2>1, <3>1, PartsAssumption
  <2>3. file' \in [part : Part \cup {NoPart}, chunks : 0 .. MaxChunks]
    BY <2>2, <1>7 DEF DiskWrite, TypeOK
  <2>4. buffer' \in 0 .. 1
    BY <1>7 DEF DiskWrite
  <2>5. fileError' \in BOOLEAN
    BY <1>7 DEF DiskWrite, TypeOK
  <2> QED
    BY <2>3, <2>5, <1>7 DEF DiskWrite, TypeOK, clientVars, formVars, rowVars
<1>8. CASE Flush
  BY <1>8 DEF Flush, clientVars, fileVars, rowVars, TypeOK, Steps
<1>9. CASE WriteFails
  BY <1>9
  DEF WriteFails, clientVars, formVars, fileVars, rowVars, TypeOK, Steps, Ends
<1>10. CASE CreateFails
  BY <1>10
  DEF CreateFails, clientVars, formVars, fileVars, rowVars, TypeOK, Steps, Ends
<1>11. CASE StreamBreaks
  BY <1>11
  DEF StreamBreaks, clientVars, formVars, fileVars, rowVars, TypeOK, Steps, Ends
<1>12. CASE HangUp
  BY <1>12
  DEF HangUp, clientVars, formVars, fileVars, rowVars, TypeOK, Steps, Ends
<1>13. CASE EmptyCheck
  <2>1. file' \in [part : Part \cup {NoPart}, chunks : 0 .. MaxChunks]
    BY <1>13, NoFileType DEF EmptyCheck, RemoveSource, TypeOK
  <2>2. fileError' \in BOOLEAN /\ pc' \in Steps
    BY <1>13 DEF EmptyCheck, RemoveSource, TypeOK, Steps, Ends
  <2> QED
    BY <2>1, <2>2, <1>13 DEF EmptyCheck, TypeOK, clientVars, formVars, rowVars
<1>14. CASE Titles
  BY <1>14 DEF Titles, clientVars, fileVars, rowVars, TypeOK, Steps, Ends
<1>15. CASE Access
  BY <1>15 DEF Access, clientVars, formVars, fileVars, rowVars, TypeOK, Steps
<1>16. CASE CreateVideo
  BY <1>16 DEF CreateVideo, clientVars, formVars, fileVars, TypeOK, Steps
<1>17. CASE CreateJob
  BY <1>17 DEF CreateJob, clientVars, formVars, fileVars, TypeOK, Steps, Ends
<1>18. CASE RegisterFails
  BY <1>18
  DEF RegisterFails, clientVars, formVars, fileVars, rowVars, TypeOK, Steps
<1>19. CASE Undo
  <2>1. file' \in [part : Part \cup {NoPart}, chunks : 0 .. MaxChunks]
    BY <1>19, NoFileType DEF Undo, RemoveSource, TypeOK
  <2>2. fileError' \in BOOLEAN /\ pc' \in Steps
    BY <1>19 DEF Undo, RemoveSource, TypeOK, Steps, Ends
  <2> QED
    BY <2>1, <2>2, <1>19 DEF Undo, TypeOK, clientVars, formVars, rowVars
<1>20. CASE UNCHANGED vars
  BY <1>20 DEF vars, clientVars, formVars, fileVars, rowVars, TypeOK
<1> QED
  BY <1>1, <1>2, <1>3, <1>4, <1>5, <1>6, <1>7, <1>8, <1>9, <1>10, <1>11, <1>12,
    <1>13, <1>14, <1>15, <1>16, <1>17, <1>18, <1>19, <1>20
  DEF Next

\* Every step keeps what is said of the parts.
LEMMA BodyKeeps ==
    ASSUME TypeOK, BodyInv, [Next]_vars
    PROVE  BodyInv'
<1>1. CASE TitlePart
  BY <1>1 DEF TitlePart, TypeOK, BodyInv, Part
<1>2. CASE OtherPart
  BY <1>2 DEF OtherPart, TypeOK, BodyInv, Part
<1>3. CASE FilePart
  BY PartsAssumption, <1>3 DEF FilePart, TypeOK, BodyInv, Part
<1>4. CASE Chunk
  BY <1>4 DEF Chunk, BodyInv, Part
<1>5. CASE EndOfPart
  BY <1>5 DEF EndOfPart, fileVars, BodyInv, Part
<1>6. CASE EndOfBody
  BY <1>6 DEF EndOfBody, clientVars, BodyInv
<1>7. CASE DiskWrite
  BY <1>7 DEF DiskWrite, clientVars, TypeOK, BodyInv
<1>8. CASE Flush
  BY <1>8 DEF Flush, clientVars, BodyInv
<1>9. CASE WriteFails
  BY <1>9 DEF WriteFails, clientVars, BodyInv
<1>10. CASE CreateFails
  BY <1>10 DEF CreateFails, clientVars, BodyInv
<1>11. CASE StreamBreaks
  BY <1>11 DEF StreamBreaks, clientVars, BodyInv
<1>12. CASE HangUp
  BY <1>12 DEF HangUp, clientVars, BodyInv
<1>13. CASE EmptyCheck
  BY <1>13 DEF EmptyCheck, clientVars, BodyInv
<1>14. CASE Titles
  BY <1>14 DEF Titles, clientVars, BodyInv
<1>15. CASE Access
  BY <1>15 DEF Access, clientVars, BodyInv
<1>16. CASE CreateVideo
  BY <1>16 DEF CreateVideo, clientVars, BodyInv
<1>17. CASE CreateJob
  BY <1>17 DEF CreateJob, clientVars, BodyInv
<1>18. CASE RegisterFails
  BY <1>18 DEF RegisterFails, clientVars, BodyInv
<1>19. CASE Undo
  BY <1>19 DEF Undo, clientVars, BodyInv
<1>20. CASE UNCHANGED vars
  BY <1>20 DEF vars, clientVars, fileVars, BodyInv
<1> QED
  BY <1>1, <1>2, <1>3, <1>4, <1>5, <1>6, <1>7, <1>8, <1>9, <1>10, <1>11, <1>12,
    <1>13, <1>14, <1>15, <1>16, <1>17, <1>18, <1>19, <1>20
  DEF Next

\* Every step keeps what is said of the buffer.
LEMMA BufferKeeps ==
    ASSUME TypeOK, BufferInv, [Next]_vars
    PROVE  BufferInv'
<1>1. CASE TitlePart
  BY <1>1 DEF TitlePart, fileVars, BufferInv
<1>2. CASE OtherPart
  BY <1>2 DEF OtherPart, fileVars, BufferInv
<1>3. CASE FilePart
  BY <1>3 DEF FilePart, BufferInv
<1>4. CASE Chunk
  BY <1>4 DEF Chunk, BufferInv
<1>5. CASE EndOfPart
  BY <1>5 DEF EndOfPart, BufferInv, Registering
<1>6. CASE EndOfBody
  BY <1>6 DEF EndOfBody, fileVars, BufferInv
<1>7. CASE DiskWrite
  BY <1>7 DEF DiskWrite, BufferInv, Registering
<1>8. CASE Flush
  BY <1>8 DEF Flush, fileVars, BufferInv
<1>9. CASE WriteFails
  BY <1>9 DEF WriteFails, BufferInv, Registering
<1>10. CASE CreateFails
  BY <1>10 DEF CreateFails, BufferInv, Registering
<1>11. CASE StreamBreaks
  BY <1>11 DEF StreamBreaks, BufferInv, Registering
<1>12. CASE HangUp
  BY <1>12 DEF HangUp, BufferInv, Registering
<1>13. CASE EmptyCheck
  BY <1>13 DEF EmptyCheck, BufferInv, Registering
<1>14. CASE Titles
  BY <1>14 DEF Titles, fileVars, BufferInv, Registering
<1>15. CASE Access
  BY <1>15 DEF Access, fileVars, BufferInv, Registering
<1>16. CASE CreateVideo
  BY <1>16 DEF CreateVideo, fileVars, BufferInv, Registering
<1>17. CASE CreateJob
  BY <1>17 DEF CreateJob, fileVars, BufferInv, Registering
<1>18. CASE RegisterFails
  BY <1>18 DEF RegisterFails, fileVars, BufferInv, Registering
<1>19. CASE Undo
  BY <1>19 DEF Undo, BufferInv, Registering
<1>20. CASE UNCHANGED vars
  BY <1>20 DEF vars, fileVars, BufferInv
<1> QED
  BY <1>1, <1>2, <1>3, <1>4, <1>5, <1>6, <1>7, <1>8, <1>9, <1>10, <1>11, <1>12,
    <1>13, <1>14, <1>15, <1>16, <1>17, <1>18, <1>19, <1>20
  DEF Next

\* Every step keeps what is said of the file.
LEMMA FileKeeps ==
    ASSUME TypeOK, BodyInv, BufferInv, FileInv, [Next]_vars
    PROVE  FileInv'
<1>1. CASE TitlePart
  BY <1>1 DEF TitlePart, fileVars, FileInv
<1>2. CASE OtherPart
  BY <1>2 DEF OtherPart, formVars, fileVars, FileInv
<1>3. CASE FilePart
  BY PartsAssumption, <1>3
  DEF FilePart, TypeOK, BodyInv, BufferInv, FileInv, Registering, Part
<1>4. CASE Chunk
  BY <1>4 DEF Chunk, TypeOK, BodyInv, FileInv, Part, NoPart
<1>5. CASE EndOfPart
  BY <1>5 DEF EndOfPart, fileVars, FileInv, Registering
<1>6. CASE EndOfBody
  BY <1>6 DEF EndOfBody, clientVars, formVars, fileVars, FileInv, Registering
<1>7. CASE DiskWrite
  BY <1>7 DEF DiskWrite, clientVars, TypeOK, BufferInv, FileInv, Registering
<1>8. CASE Flush
  BY <1>8 DEF Flush, clientVars, fileVars, BodyInv, FileInv
<1>9. CASE WriteFails
  BY <1>9 DEF WriteFails, clientVars, fileVars, FileInv, Registering
<1>10. CASE CreateFails
  BY <1>10 DEF CreateFails, clientVars, fileVars, FileInv, Registering
<1>11. CASE StreamBreaks
  BY <1>11 DEF StreamBreaks, clientVars, fileVars, FileInv, Registering
<1>12. CASE HangUp
  BY <1>12 DEF HangUp, clientVars, fileVars, FileInv, Registering
<1>13. CASE EmptyCheck
  BY <1>13
  DEF EmptyCheck, clientVars, formVars, TypeOK, BufferInv, FileInv, Registering,
    NoFile, RemoveSource
<1>14. CASE Titles
  BY <1>14 DEF Titles, clientVars, fileVars, FileInv, Registering
<1>15. CASE Access
  BY <1>15 DEF Access, clientVars, formVars, fileVars, FileInv, Registering
<1>16. CASE CreateVideo
  BY <1>16 DEF CreateVideo, clientVars, formVars, fileVars, FileInv, Registering
<1>17. CASE CreateJob
  BY <1>17 DEF CreateJob, clientVars, formVars, fileVars, FileInv, Registering
<1>18. CASE RegisterFails
  BY <1>18
  DEF RegisterFails, clientVars, formVars, fileVars, FileInv, Registering
<1>19. CASE Undo
  BY <1>19
  DEF Undo, clientVars, TypeOK, BufferInv, FileInv, Registering, NoFile,
    RemoveSource
<1>20. CASE UNCHANGED vars
  BY <1>20 DEF vars, clientVars, formVars, fileVars, FileInv
<1> QED
  BY <1>1, <1>2, <1>3, <1>4, <1>5, <1>6, <1>7, <1>8, <1>9, <1>10, <1>11, <1>12,
    <1>13, <1>14, <1>15, <1>16, <1>17, <1>18, <1>19, <1>20
  DEF Next

\* Every step keeps the name with its part.
LEMMA NameKeeps ==
    ASSUME TypeOK, FileInv, NameInv, [Next]_vars
    PROVE  NameInv'
<1>1. CASE TitlePart
  BY <1>1 DEF TitlePart, fileVars, NameInv
<1>2. CASE OtherPart
  BY <1>2 DEF OtherPart, formVars, fileVars, NameInv
<1>3. CASE FilePart
  BY <1>3 DEF FilePart, NameInv
<1>4. CASE Chunk
  BY <1>4 DEF Chunk, NameInv
<1>5. CASE EndOfPart
  BY <1>5 DEF EndOfPart, formVars, fileVars, NameInv
<1>6. CASE EndOfBody
  BY <1>6 DEF EndOfBody, formVars, fileVars, NameInv
<1>7. CASE DiskWrite
  <2>1. file # NoFile /\ file'.part = file.part
    BY <1>7 DEF DiskWrite, TypeOK, FileInv, NoFile
  <2> QED
    BY <2>1, <1>7 DEF DiskWrite, NameInv, formVars
<1>8. CASE Flush
  BY <1>8 DEF Flush, fileVars, NameInv
<1>9. CASE WriteFails
  BY <1>9 DEF WriteFails, formVars, fileVars, NameInv
<1>10. CASE CreateFails
  BY <1>10 DEF CreateFails, formVars, fileVars, NameInv
<1>11. CASE StreamBreaks
  BY <1>11 DEF StreamBreaks, formVars, fileVars, NameInv
<1>12. CASE HangUp
  BY <1>12 DEF HangUp, formVars, fileVars, NameInv
<1>13. CASE EmptyCheck
  BY <1>13 DEF EmptyCheck, formVars, NameInv, RemoveSource
<1>14. CASE Titles
  BY <1>14 DEF Titles, fileVars, NameInv
<1>15. CASE Access
  BY <1>15 DEF Access, formVars, fileVars, NameInv
<1>16. CASE CreateVideo
  BY <1>16 DEF CreateVideo, formVars, fileVars, NameInv
<1>17. CASE CreateJob
  BY <1>17 DEF CreateJob, formVars, fileVars, NameInv
<1>18. CASE RegisterFails
  BY <1>18 DEF RegisterFails, formVars, fileVars, NameInv
<1>19. CASE Undo
  BY <1>19 DEF Undo, formVars, NameInv, RemoveSource
<1>20. CASE UNCHANGED vars
  BY <1>20 DEF vars, formVars, fileVars, NameInv
<1> QED
  BY <1>1, <1>2, <1>3, <1>4, <1>5, <1>6, <1>7, <1>8, <1>9, <1>10, <1>11, <1>12,
    <1>13, <1>14, <1>15, <1>16, <1>17, <1>18, <1>19, <1>20
  DEF Next

\* Every step keeps what is said of the size.
LEMMA SizeKeeps ==
    ASSUME TypeOK, BodyInv, BufferInv, FileInv, SizeInv, [Next]_vars
    PROVE  SizeInv'
<1>1. CASE TitlePart
  BY <1>1 DEF TitlePart, fileVars, SizeInv
<1>2. CASE OtherPart
  BY <1>2 DEF OtherPart, formVars, fileVars, SizeInv
<1>3. CASE FilePart
  BY PartsAssumption, <1>3
  DEF FilePart, TypeOK, BodyInv, BufferInv, SizeInv, Registering, Part
<1>4. CASE Chunk
  BY <1>4 DEF Chunk, TypeOK, BodyInv, SizeInv, Part, NoPart
<1>5. CASE EndOfPart
  BY <1>5 DEF EndOfPart, formVars, fileVars, SizeInv, Registering
<1>6. CASE EndOfBody
  BY <1>6 DEF EndOfBody, clientVars, formVars, fileVars, SizeInv, Registering
<1>7. CASE DiskWrite
  BY <1>7 DEF DiskWrite, clientVars, formVars, TypeOK, SizeInv
<1>8. CASE Flush
  BY <1>8 DEF Flush, clientVars, fileVars, SizeInv, Registering
<1>9. CASE WriteFails
  BY <1>9 DEF WriteFails, clientVars, formVars, fileVars, SizeInv, Registering
<1>10. CASE CreateFails
  BY <1>10 DEF CreateFails, clientVars, formVars, fileVars, SizeInv, Registering
<1>11. CASE StreamBreaks
  BY <1>11
  DEF StreamBreaks, clientVars, formVars, fileVars, SizeInv, Registering
<1>12. CASE HangUp
  BY <1>12 DEF HangUp, clientVars, formVars, fileVars, SizeInv, Registering
<1>13. CASE EmptyCheck
  BY <1>13
  DEF EmptyCheck, clientVars, formVars, TypeOK, FileInv, SizeInv, Registering,
    Part, NoPart, NoFile, RemoveSource
<1>14. CASE Titles
  BY <1>14 DEF Titles, clientVars, fileVars, SizeInv, Registering
<1>15. CASE Access
  BY <1>15 DEF Access, clientVars, formVars, fileVars, SizeInv, Registering
<1>16. CASE CreateVideo
  BY <1>16 DEF CreateVideo, clientVars, formVars, fileVars, SizeInv, Registering
<1>17. CASE CreateJob
  BY <1>17 DEF CreateJob, clientVars, formVars, fileVars, SizeInv, Registering
<1>18. CASE RegisterFails
  BY <1>18
  DEF RegisterFails, clientVars, formVars, fileVars, SizeInv, Registering
<1>19. CASE Undo
  BY <1>19
  DEF Undo, clientVars, formVars, TypeOK, SizeInv, Registering, Part, NoPart,
    NoFile, RemoveSource
<1>20. CASE UNCHANGED vars
  BY <1>20 DEF vars, clientVars, formVars, fileVars, SizeInv
<1> QED
  BY <1>1, <1>2, <1>3, <1>4, <1>5, <1>6, <1>7, <1>8, <1>9, <1>10, <1>11, <1>12,
    <1>13, <1>14, <1>15, <1>16, <1>17, <1>18, <1>19, <1>20
  DEF Next

\* Every step keeps what is said of the rows.
LEMMA RowKeeps ==
    ASSUME TypeOK, BufferInv, SizeInv, RowInv, [Next]_vars
    PROVE  RowInv'
<1>1. CASE TitlePart
  BY <1>1 DEF TitlePart, rowVars, RowInv
<1>2. CASE OtherPart
  BY <1>2 DEF OtherPart, formVars, rowVars, RowInv
<1>3. CASE FilePart
  BY <1>3 DEF FilePart, rowVars, RowInv
<1>4. CASE Chunk
  BY <1>4 DEF Chunk, rowVars, TypeOK, RowInv
<1>5. CASE EndOfPart
  BY <1>5 DEF EndOfPart, formVars, rowVars, RowInv
<1>6. CASE EndOfBody
  BY <1>6 DEF EndOfBody, formVars, rowVars, RowInv
<1>7. CASE DiskWrite
  <2>1. pc # "refused"
    BY <1>7 DEF DiskWrite, BufferInv
  <2> QED
    BY <2>1, <1>7 DEF DiskWrite, RowInv, formVars, rowVars
<1>8. CASE Flush
  BY <1>8 DEF Flush, rowVars, RowInv
<1>9. CASE WriteFails
  BY <1>9 DEF WriteFails, formVars, rowVars, RowInv
<1>10. CASE CreateFails
  BY <1>10 DEF CreateFails, formVars, rowVars, RowInv
<1>11. CASE StreamBreaks
  BY <1>11 DEF StreamBreaks, formVars, rowVars, RowInv
<1>12. CASE HangUp
  BY <1>12 DEF HangUp, formVars, rowVars, RowInv, Ends
<1>13. CASE EmptyCheck
  BY <1>13 DEF EmptyCheck, formVars, rowVars, RowInv, RemoveSource
<1>14. CASE Titles
  BY <1>14 DEF Titles, rowVars, RowInv
<1>15. CASE Access
  BY <1>15 DEF Access, formVars, rowVars, RowInv
<1>16. CASE CreateVideo
  BY <1>16 DEF CreateVideo, formVars, SizeInv, RowInv, Registering
<1>17. CASE CreateJob
  BY <1>17 DEF CreateJob, formVars, RowInv
<1>18. CASE RegisterFails
  BY <1>18 DEF RegisterFails, formVars, rowVars, RowInv
<1>19. CASE Undo
  BY <1>19 DEF Undo, formVars, rowVars, RowInv, RemoveSource
<1>20. CASE UNCHANGED vars
  BY <1>20 DEF vars, formVars, fileVars, rowVars, RowInv
<1> QED
  BY <1>1, <1>2, <1>3, <1>4, <1>5, <1>6, <1>7, <1>8, <1>9, <1>10, <1>11, <1>12,
    <1>13, <1>14, <1>15, <1>16, <1>17, <1>18, <1>19, <1>20
  DEF Next

-----------------------------------------------------------------------------

\* The inductive invariant holds in every reachable state.
THEOREM IntakeInductive == Spec => []IntakeInv
<1>1. Init => IntakeInv
  <2>1. SUFFICES ASSUME Init
                 PROVE  IntakeInv
    OBVIOUS
  <2>2. TypeOK
    <3>1. file \in [part : Part \cup {NoPart}, chunks : 0 .. MaxChunks]
      BY <2>1, NoFileType DEF Init
    <3>2. name \in [part : Part \cup {NoPart}, kind : Strings]
      BY <2>1 DEF Init, Strings
    <3>3. parts \in 0 .. MaxParts /\ whole \in [Part -> 0 .. MaxChunks]
      BY <2>1, PartsAssumption DEF Init
    <3>4. ended \subseteq Part /\ pc \in Steps /\ title \in Strings
      BY <2>1 DEF Init, Steps, Strings
    <3>5. size \in Nat /\ buffer \in 0 .. 1
      BY <2>1 DEF Init
    <3>6. /\ gotFile \in BOOLEAN /\ fileError \in BOOLEAN
          /\ row \in BOOLEAN /\ job \in BOOLEAN
      BY <2>1 DEF Init
    <3> QED
      BY <3>1, <3>2, <3>3, <3>4, <3>5, <3>6 DEF TypeOK
  <2>3. BodyInv /\ BufferInv /\ FileInv /\ NameInv
    BY <2>1 DEF Init, BodyInv, BufferInv, FileInv, NameInv, NoFile, Registering
  <2>4. SizeInv /\ RowInv
    BY <2>1 DEF Init, SizeInv, RowInv, NoFile, Registering
  <2> QED
    BY <2>2, <2>3, <2>4 DEF IntakeInv
<1>2. IntakeInv /\ [Next]_vars => IntakeInv'
  <2>1. SUFFICES ASSUME IntakeInv, [Next]_vars
                 PROVE  IntakeInv'
    OBVIOUS
  <2>2. TypeOK' /\ BodyInv' /\ BufferInv' /\ FileInv'
    BY <2>1, TypeKeeps, BodyKeeps, BufferKeeps, FileKeeps DEF IntakeInv
  <2>3. NameInv' /\ SizeInv' /\ RowInv'
    BY <2>1, NameKeeps, SizeKeeps, RowKeeps DEF IntakeInv
  <2> QED
    BY <2>2, <2>3 DEF IntakeInv
<1> QED
  BY <1>1, <1>2, PTL DEF Spec

\* The file of a job that the invariant knows is whole.
LEMMA IntakeWhole == IntakeInv => QueuedIsWhole
<1>1. SUFFICES ASSUME IntakeInv, job
               PROVE  /\ file.part \in ended
                      /\ file.chunks = whole[file.part]
                      /\ name.part = file.part
  BY DEF QueuedIsWhole
<1>2. pc = "accepted"
  BY <1>1 DEF IntakeInv, RowInv
<1>3. buffer = 0 /\ ~fileError
  BY <1>1, <1>2 DEF IntakeInv, BufferInv, TypeOK
<1>4. file.part \in ended
  BY <1>1, <1>2 DEF IntakeInv, FileInv
<1>5. file.part # NoPart /\ file.chunks \in Nat
  BY <1>1, <1>4 DEF IntakeInv, TypeOK, Part, NoPart
<1>6. file.chunks = whole[file.part]
  BY <1>1, <1>3, <1>4, <1>5 DEF IntakeInv, FileInv
<1>7. name.part = file.part
  BY <1>1, <1>5 DEF IntakeInv, NameInv, NoFile
<1> QED
  BY <1>4, <1>6, <1>7

\* A job is queued for a whole part of the body only, every chunk of it on disk
\* and under the filename that came with it, however chunks are split and
\* whatever fails (routers/videos.rs:74-95).
THEOREM QueuedFilesAreWhole == Spec => []QueuedIsWhole
<1>1. IntakeInv => QueuedIsWhole
  BY IntakeWhole
<1> QED
  BY <1>1, IntakeInductive, PTL

\* The size recorded covers the file, and is larger than a queued file only if
\* another part named file had chunks (routers/videos.rs:78-88, 100).
THEOREM SizesCoverFiles == Spec => []SizeCovers
<1>1. IntakeInv => SizeCovers
  <2>1. SUFFICES ASSUME IntakeInv, row
                 PROVE  /\ size > 0
                        /\ size >= file.chunks
                        /\ job /\ size > file.chunks =>
                               \E p \in Part \ {file.part} : whole[p] > 0
    BY DEF SizeCovers
  <2>2. size > 0 /\ size >= file.chunks
    BY <2>1 DEF IntakeInv, RowInv, SizeInv, TypeOK
  <2>3. ASSUME job, size > file.chunks
        PROVE  \E p \in Part \ {file.part} : whole[p] > 0
    <3>1. file.part \in ended /\ file.chunks = whole[file.part]
      <4>1. QueuedIsWhole
        BY <2>1, IntakeWhole
      <4> QED
        BY <2>3, <4>1 DEF QueuedIsWhole
    <3>2. file.part # NoPart
      BY <2>1, <3>1 DEF IntakeInv, TypeOK, Part, NoPart
    <3>3. ~\A p \in Part \ {file.part} : whole[p] = 0
      BY <2>1, <2>3, <3>1 DEF IntakeInv, SizeInv, TypeOK
    <3>4. \A p \in Part : whole[p] \in Nat
      BY <2>1 DEF IntakeInv, TypeOK
    <3> QED
      BY <3>3, <3>4
  <2> QED
    BY <2>2, <2>3
<1> QED
  BY <1>1, IntakeInductive, PTL

\* A request that was answered after its body was read leaves a job or no file,
\* unless unlink fails (routers/videos.rs:100-103, 124-128).
THEOREM RefusalsCleanUp == Spec => []AnsweredLeavesNothing
<1>1. IntakeInv => AnsweredLeavesNothing
  BY DEF IntakeInv, RowInv, AnsweredLeavesNothing
<1> QED
  BY <1>1, IntakeInductive, PTL

=============================================================================
