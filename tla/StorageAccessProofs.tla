------------------------- MODULE StorageAccessProofs -------------------------
(***************************************************************************)
(* Proofs about storages and access: the invariant is inductive as it      *)
(* stands; the undoing of creates needs in addition that a fallback comes  *)
(* from a failure.                                                         *)
(***************************************************************************)
EXTENDS StorageAccess, TLAPS

\* CreateStart keeps the invariant.
LEMMA CreateStartKeeps ==
    ASSUME StorageInv, NEW r \in Requests, CreateStart(r)
    PROVE  StorageInv'
<1>1. TypeOK'
    BY DEF TypeOK, CreateSteps, CreateStart, tableVars, StorageInv
<1>2. KnownInv'
    BY DEF KnownInv, Exists, CreateStart, tableVars, StorageInv
<1>3. AccessInv'
    BY DEF AccessInv, CreateStart, tableVars, StorageInv
<1>4. OwnInv'
    BY DEF Exists, OwnInv, CreateStart, tableVars, StorageInv
<1>5. RequestInv'
    BY
    DEF TypeOK, ManageSteps, Exists, RequestInv, CreateStart, tableVars,
      StorageInv
<1>. QED BY <1>1, <1>2, <1>3, <1>4, <1>5 DEF StorageInv

\* NameTaken keeps the invariant.
LEMMA NameTakenKeeps ==
    ASSUME StorageInv, NEW r \in Requests, NameTaken(r)
    PROVE  StorageInv'
<1>1. TypeOK'
    BY DEF TypeOK, NameTaken, Ended, tableVars, StorageInv
<1>2. KnownInv'
    BY DEF KnownInv, Exists, NameTaken, tableVars, StorageInv
<1>3. AccessInv'
    BY DEF AccessInv, NameTaken, tableVars, StorageInv
<1>4. OwnInv'
    BY DEF Exists, OwnInv, RequestInv, NameTaken, Ended, tableVars, StorageInv
<1>5. RequestInv'
    BY
    DEF TypeOK, ManageSteps, Exists, RequestInv, NameTaken, Ended, tableVars,
      StorageInv
<1>. QED BY <1>1, <1>2, <1>3, <1>4, <1>5 DEF StorageInv

\* NameFree keeps the invariant.
LEMMA NameFreeKeeps ==
    ASSUME StorageInv, NEW r \in Requests, NameFree(r)
    PROVE  StorageInv'
<1>1. TypeOK'
    BY DEF TypeOK, CreateSteps, NameFree, tableVars, StorageInv
<1>2. KnownInv'
    BY DEF KnownInv, Exists, NameFree, tableVars, StorageInv
<1>3. AccessInv'
    BY DEF AccessInv, NameFree, tableVars, StorageInv
<1>4. OwnInv'
    BY DEF Exists, OwnInv, NameFree, tableVars, StorageInv
<1>5. RequestInv'
    BY DEF ManageSteps, Exists, RequestInv, NameFree, tableVars, StorageInv
<1>. QED BY <1>1, <1>2, <1>3, <1>4, <1>5 DEF StorageInv

\* InsertStorage keeps the invariant.
LEMMA InsertStorageKeeps ==
    ASSUME StorageInv, NEW r \in Requests, InsertStorage(r)
    PROVE  StorageInv'
<1>1. TypeOK'
    BY DEF TypeOK, CreateSteps, InsertStorage, FreshIds, StorageInv
<1>2. KnownInv'
    BY DEF KnownInv, Exists, InsertStorage, FreshIds, StorageInv
<1>3. AccessInv'
    BY DEF AccessInv, InsertStorage, StorageInv
<1>4. OwnInv'
    BY
    DEF TypeOK, KnownInv, Exists, OwnInv, InsertStorage, FreshIds, ChatTaken,
      StorageInv
<1>5. RequestInv'
    BY
    DEF TypeOK, ManageSteps, Exists, RequestInv, InsertStorage, FreshIds,
      StorageInv
<1>. QED BY <1>1, <1>2, <1>3, <1>4, <1>5 DEF StorageInv

\* ChatConflict keeps the invariant.
LEMMA ChatConflictKeeps ==
    ASSUME StorageInv, NEW r \in Requests, ChatConflict(r)
    PROVE  StorageInv'
<1>1. TypeOK'
    BY DEF TypeOK, ChatConflict, Ended, tableVars, StorageInv
<1>2. KnownInv'
    BY DEF KnownInv, Exists, ChatConflict, tableVars, StorageInv
<1>3. AccessInv'
    BY DEF AccessInv, ChatConflict, tableVars, StorageInv
<1>4. OwnInv'
    BY
    DEF Exists, OwnInv, RequestInv, ChatConflict, Ended, tableVars, StorageInv
<1>5. RequestInv'
    BY
    DEF TypeOK, ManageSteps, Exists, RequestInv, ChatConflict, Ended, tableVars,
      StorageInv
<1>. QED BY <1>1, <1>2, <1>3, <1>4, <1>5 DEF StorageInv

\* Own keeps the invariant.
LEMMA OwnKeeps ==
    ASSUME StorageInv, NEW r \in Requests, Own(r)
    PROVE  StorageInv'
<1>1. TypeOK'
    BY DEF TypeOK, OwnInv, Own, Upserted, Ended, StorageInv, AccessTypes
<1>2. KnownInv'
    BY DEF KnownInv, Exists, Own, StorageInv
<1>3. AccessInv'
    BY DEF AccessInv, Own, Upserted, StorageInv
<1>4. OwnInv'
    BY StoragesAssumption DEF TypeOK, Exists, OwnInv, Own, Ended, StorageInv
<1>5. RequestInv'
    BY DEF TypeOK, ManageSteps, Exists, RequestInv, Own, Ended, StorageInv
<1>. QED BY <1>1, <1>2, <1>3, <1>4, <1>5 DEF StorageInv

\* Fallback keeps the invariant.
LEMMA FallbackKeeps ==
    ASSUME StorageInv, NEW r \in Requests, Fallback(r)
    PROVE  StorageInv'
<1>1. TypeOK'
    BY
    DEF TypeOK, Fallback, DeleteStorage, AccessWithout, Nobody, Ended,
      StorageInv
<1>2. KnownInv'
    BY DEF KnownInv, Exists, OwnInv, Fallback, DeleteStorage, StorageInv
<1>3. AccessInv'
    BY DEF AccessInv, OwnInv, Fallback, DeleteStorage, AccessWithout, StorageInv
<1>4. OwnInv'
    BY StoragesAssumption
    DEF TypeOK, Exists, OwnInv, Fallback, DeleteStorage, Ended, StorageInv
<1>5. RequestInv'
    BY
    DEF TypeOK, ManageSteps, Exists, RequestInv, Fallback, DeleteStorage, Ended,
      StorageInv
<1>. QED BY <1>1, <1>2, <1>3, <1>4, <1>5 DEF StorageInv

\* ManageStart keeps the invariant.
LEMMA ManageStartKeeps ==
    ASSUME StorageInv, NEW r \in Requests, ManageStart(r)
    PROVE  StorageInv'
<1>1. TypeOK'
    BY DEF TypeOK, ManageSteps, ManageStart, tableVars, StorageInv
<1>2. KnownInv'
    BY DEF KnownInv, Exists, ManageStart, tableVars, StorageInv
<1>3. AccessInv'
    BY DEF AccessInv, ManageStart, tableVars, StorageInv
<1>4. OwnInv'
    BY DEF Exists, OwnInv, ManageStart, tableVars, StorageInv
<1>5. RequestInv'
    BY DEF TypeOK, Exists, RequestInv, ManageStart, tableVars, StorageInv
<1>. QED BY <1>1, <1>2, <1>3, <1>4, <1>5 DEF StorageInv

\* Check keeps the invariant.
LEMMA CheckKeeps ==
    ASSUME StorageInv, NEW r \in Requests, Check(r)
    PROVE  StorageInv'
<1>1. TypeOK'
    BY DEF TypeOK, CreateSteps, ManageSteps, Check, Ended, tableVars, StorageInv
<1>2. KnownInv'
    BY DEF KnownInv, Exists, Check, tableVars, StorageInv
<1>3. AccessInv'
    BY DEF AccessInv, Check, tableVars, StorageInv
<1>4. OwnInv'
    BY StoragesAssumption
    DEF TypeOK, Exists, OwnInv, Check, Ended, tableVars, StorageInv
<1>5. RequestInv'
    BY
    DEF TypeOK, ManageSteps, Exists, RequestInv, Check, Ended, tableVars,
      StorageInv
<1>. QED BY <1>1, <1>2, <1>3, <1>4, <1>5 DEF StorageInv

\* Grant keeps the invariant.
LEMMA GrantKeeps ==
    ASSUME StorageInv, NEW r \in Requests, Grant(r)
    PROVE  StorageInv'
<1>1. TypeOK'
    BY
    DEF TypeOK, ManageSteps, RequestInv, Grant, Others, Upserted, Ended,
      StorageInv
<1>2. KnownInv'
    BY DEF KnownInv, Exists, Grant, StorageInv
<1>3. AccessInv'
    BY DEF ManageSteps, AccessInv, RequestInv, Grant, Upserted, StorageInv
<1>4. OwnInv'
    BY StoragesAssumption DEF Exists, OwnInv, Grant, Ended, StorageInv
<1>5. RequestInv'
    BY DEF TypeOK, ManageSteps, Exists, RequestInv, Grant, Ended, StorageInv
<1>. QED BY <1>1, <1>2, <1>3, <1>4, <1>5 DEF StorageInv

\* Restrict keeps the invariant.
LEMMA RestrictKeeps ==
    ASSUME StorageInv, NEW r \in Requests, Restrict(r)
    PROVE  StorageInv'
<1>1. TypeOK'
    BY
    DEF TypeOK, ManageSteps, RequestInv, Restrict, Others, Upserted, Ended,
      StorageInv
<1>2. KnownInv'
    BY DEF KnownInv, Exists, Restrict, StorageInv
<1>3. AccessInv'
    BY DEF AccessInv, Nobody, Restrict, Upserted, StorageInv
<1>4. OwnInv'
    BY StoragesAssumption DEF Exists, OwnInv, Restrict, Ended, StorageInv
<1>5. RequestInv'
    BY DEF TypeOK, ManageSteps, Exists, RequestInv, Restrict, Ended, StorageInv
<1>. QED BY <1>1, <1>2, <1>3, <1>4, <1>5 DEF StorageInv

\* Delete keeps the invariant.
LEMMA DeleteKeeps ==
    ASSUME StorageInv, NEW r \in Requests, Delete(r)
    PROVE  StorageInv'
<1>1. TypeOK'
    BY
    DEF TypeOK, Delete, DeleteStorage, AccessWithout, Nobody, Ended, StorageInv
<1>2. KnownInv'
    BY DEF KnownInv, Exists, Delete, DeleteStorage, StorageInv
<1>3. AccessInv'
    BY DEF TypeOK, AccessInv, Delete, DeleteStorage, AccessWithout, StorageInv
<1>4. OwnInv'
    BY StoragesAssumption
    DEF Exists, OwnInv, Delete, DeleteStorage, Ended, StorageInv
<1>5. RequestInv'
    BY
    DEF TypeOK, ManageSteps, Exists, RequestInv, Delete, DeleteStorage, Ended,
      StorageInv
<1>. QED BY <1>1, <1>2, <1>3, <1>4, <1>5 DEF StorageInv

\* Refused keeps the invariant.
LEMMA RefusedKeeps ==
    ASSUME StorageInv, NEW r \in Requests, Refused(r)
    PROVE  StorageInv'
<1>1. TypeOK'
    BY DEF TypeOK, Refused, Ended, tableVars, StorageInv
<1>2. KnownInv'
    BY DEF KnownInv, Exists, Refused, tableVars, StorageInv
<1>3. AccessInv'
    BY DEF AccessInv, Refused, tableVars, StorageInv
<1>4. OwnInv'
    BY StoragesAssumption
    DEF Exists, OwnInv, Refused, Ended, tableVars, StorageInv
<1>5. RequestInv'
    BY
    DEF TypeOK, ManageSteps, Exists, RequestInv, Refused, Ended, tableVars,
      StorageInv
<1>. QED BY <1>1, <1>2, <1>3, <1>4, <1>5 DEF StorageInv

\* Fails keeps the invariant.
LEMMA FailsKeeps ==
    ASSUME StorageInv, NEW r \in Requests, Fails(r)
    PROVE  StorageInv'
<1>1. TypeOK'
    BY DEF TypeOK, CreateSteps, Fails, Undo, Ended, tableVars, StorageInv
<1>2. KnownInv'
    BY DEF KnownInv, Exists, Fails, tableVars, StorageInv
<1>3. AccessInv'
    BY DEF AccessInv, Fails, tableVars, StorageInv
<1>4. OwnInv'
    BY StoragesAssumption
    DEF TypeOK, Exists, OwnInv, Fails, Undo, Ended, tableVars, StorageInv
<1>5. RequestInv'
    BY
    DEF TypeOK, ManageSteps, Exists, RequestInv, Fails, Undo, Ended, tableVars,
      StorageInv
<1>. QED BY <1>1, <1>2, <1>3, <1>4, <1>5 DEF StorageInv

\* HangUp keeps the invariant.
LEMMA HangUpKeeps ==
    ASSUME StorageInv, NEW r \in Requests, HangUp(r)
    PROVE  StorageInv'
<1>1. TypeOK'
    BY DEF TypeOK, HangUp, Ended, tableVars, StorageInv
<1>2. KnownInv'
    BY DEF KnownInv, Exists, HangUp, tableVars, StorageInv
<1>3. AccessInv'
    BY DEF AccessInv, HangUp, tableVars, StorageInv
<1>4. OwnInv'
    BY StoragesAssumption
    DEF TypeOK, Exists, OwnInv, HangUp, Ended, tableVars, StorageInv
<1>5. RequestInv'
    BY
    DEF TypeOK, ManageSteps, Exists, RequestInv, HangUp, Ended, tableVars,
      StorageInv
<1>. QED BY <1>1, <1>2, <1>3, <1>4, <1>5 DEF StorageInv

\* Register keeps the invariant.
LEMMA RegisterKeeps ==
    ASSUME StorageInv, NEW u \in Users, Register(u)
    PROVE  StorageInv'
<1>1. TypeOK'
    BY DEF TypeOK, Register, StorageInv
<1>2. KnownInv'
    BY DEF KnownInv, Exists, Register, StorageInv
<1>3. AccessInv'
    BY DEF AccessInv, Register, StorageInv
<1>4. OwnInv'
    BY DEF Exists, OwnInv, Register, StorageInv
<1>5. RequestInv'
    BY DEF Exists, RequestInv, Register, StorageInv
<1>. QED BY <1>1, <1>2, <1>3, <1>4, <1>5 DEF StorageInv

\* AddBot keeps the invariant.
LEMMA AddBotKeeps ==
    ASSUME StorageInv, NEW s \in Storages, AddBot(s)
    PROVE  StorageInv'
<1>1. TypeOK'
    BY DEF TypeOK, AddBot, StorageInv
<1>2. KnownInv'
    BY DEF KnownInv, Exists, AddBot, StorageInv
<1>3. AccessInv'
    BY DEF AccessInv, AddBot, StorageInv
<1>4. OwnInv'
    BY DEF Exists, OwnInv, AddBot, StorageInv
<1>5. RequestInv'
    BY DEF Exists, RequestInv, AddBot, StorageInv
<1>. QED BY <1>1, <1>2, <1>3, <1>4, <1>5 DEF StorageInv

\* So does a restart.
LEMMA RestartKeeps ==
    ASSUME StorageInv, Restart
    PROVE  StorageInv'
<1>1. TypeOK' /\ KnownInv' /\ AccessInv'
    BY SuperuserAssumption
    DEF Restart, StorageInv, TypeOK, KnownInv, Exists, AccessInv
<1>2. OwnInv' /\ RequestInv'
    BY DEF Restart, OwnInv, RequestInv, ManageSteps
<1>. QED BY <1>1, <1>2 DEF StorageInv

\* So does a step that changes nothing.
LEMMA StutterKeeps ==
    ASSUME StorageInv, UNCHANGED vars
    PROVE  StorageInv'
<1>1. TypeOK' BY DEF vars, tableVars, StorageInv, TypeOK
<1>2. KnownInv' /\ AccessInv'
    BY DEF vars, tableVars, StorageInv, KnownInv, AccessInv, Exists
<1>3. OwnInv' BY DEF vars, tableVars, StorageInv, OwnInv, Exists
<1>4. RequestInv' BY DEF vars, tableVars, StorageInv, RequestInv, Exists
<1>. QED BY <1>1, <1>2, <1>3, <1>4 DEF StorageInv

\* Access and bots belong to storages that exist, and a storage that is being
\* created to its create alone, for any number of users, storages and requests.
THEOREM StorageInductive == Spec => []StorageInv
<1>1. Init => StorageInv
    BY SuperuserAssumption
    DEF Init, StorageInv, TypeOK, ManageSteps, KnownInv, AccessInv, Nobody,
      OwnInv, RequestInv
<1>2. StorageInv /\ [Next]_vars => StorageInv'
    <2> SUFFICES ASSUME StorageInv, [Next]_vars PROVE StorageInv'
        OBVIOUS
    <2>1. ASSUME NEW r \in Requests, RequestStep(r) PROVE StorageInv'
        BY <2>1, CreateStartKeeps, NameTakenKeeps, NameFreeKeeps,
          InsertStorageKeeps, ChatConflictKeeps, OwnKeeps, FallbackKeeps,
          ManageStartKeeps, CheckKeeps, GrantKeeps, RestrictKeeps, DeleteKeeps,
          RefusedKeeps, FailsKeeps, HangUpKeeps
        DEF RequestStep
    <2>2. ASSUME NEW u \in Users, Register(u) PROVE StorageInv'
        BY <2>2, RegisterKeeps
    <2>3. ASSUME NEW s \in Storages, AddBot(s) PROVE StorageInv'
        BY <2>3, AddBotKeeps
    <2>. QED BY <2>1, <2>2, <2>3, RestartKeeps, StutterKeeps DEF Next
<1>. QED BY <1>1, <1>2, PTL DEF Spec

-----------------------------------------------------------------------------

\* A fallback comes from a failure, and a storage nobody has had from a create
\* that goes on, from a second failure or from a cut.
UndoInv ==
    /\ \A r \in Requests : pc[r] = "fallback" => failures >= 1
    /\ CreateIsUndone

\* A create that meets one failure leaves no storage without an admin behind,
\* for any number of creates and other requests at the same time.
THEOREM CreateUndone == Spec => []CreateIsUndone
<1>1. Init => UndoInv
    BY DEF Init, UndoInv, CreateIsUndone, Exists
<1>2. StorageInv /\ UndoInv /\ [Next]_vars => UndoInv'
    <2> SUFFICES ASSUME StorageInv, UndoInv, [Next]_vars PROVE UndoInv'
        OBVIOUS
    <2>. USE DEF UndoInv, CreateIsUndone, Exists, BeingCreated
    <2>1. ASSUME NEW r \in Requests, RequestStep(r) PROVE UndoInv'
        <3>1. CASE CreateStart(r)
            BY <3>1 DEF CreateStart, tableVars
        <3>2. CASE NameTaken(r)
            BY <3>2 DEF NameTaken, Ended, tableVars
        <3>3. CASE NameFree(r)
            BY <3>3 DEF NameFree, tableVars
        <3>4. CASE InsertStorage(r)
            BY <3>4 DEF InsertStorage, StorageInv, TypeOK
        <3>5. CASE ChatConflict(r)
            BY <3>5 DEF ChatConflict, Ended, tableVars
        <3>6. CASE Own(r)
            BY <3>6 DEF Own, Ended
        <3>7. CASE Fallback(r)
            BY <3>7 DEF Fallback, DeleteStorage, Ended, StorageInv, TypeOK
        <3>8. CASE ManageStart(r)
            BY <3>8 DEF ManageStart, tableVars
        <3>9. CASE Check(r)
            BY <3>9 DEF Check, Ended, tableVars, StorageInv, TypeOK
        <3>10. CASE Grant(r)
            BY <3>10 DEF Grant, Ended
        <3>11. CASE Restrict(r)
            BY <3>11 DEF Restrict, Ended
        <3>12. CASE Delete(r)
            BY <3>12 DEF Delete, DeleteStorage, Ended, StorageInv, TypeOK
        <3>13. CASE Refused(r)
            BY <3>13 DEF Refused, Ended, tableVars
        <3>14. CASE Fails(r)
            BY <3>14 DEF Fails, Undo, Ended, tableVars, StorageInv, TypeOK
        <3>15. CASE HangUp(r)
            BY <3>15 DEF HangUp, Ended, StorageInv, TypeOK
        <3>. QED
            BY <2>1, <3>1, <3>2, <3>3, <3>4, <3>5, <3>6, <3>7, <3>8, <3>9,
              <3>10, <3>11, <3>12, <3>13, <3>14, <3>15
            DEF RequestStep
    <2>2. ASSUME NEW u \in Users, Register(u) PROVE UndoInv'
        BY <2>2 DEF Register
    <2>3. ASSUME NEW s \in Storages, AddBot(s) PROVE UndoInv'
        BY <2>3 DEF AddBot
    <2>4. CASE Restart
        BY <2>4 DEF Restart, StorageInv, TypeOK
    <2>5. CASE UNCHANGED vars
        BY <2>5 DEF vars, tableVars
    <2>. QED BY <2>1, <2>2, <2>3, <2>4, <2>5 DEF Next
<1>3. UndoInv => CreateIsUndone
    BY DEF UndoInv
<1>. QED BY <1>1, <1>2, <1>3, StorageInductive, PTL DEF Spec

\* A step of a request takes the last admin of a storage only if it was checked
\* for somebody who is no admin any more.
LEMMA RequestTakesLastAdmin ==
    ASSUME StorageInv, NEW s \in Storages, NEW r \in Requests, RequestStep(r),
           Admins(s) # {}, Admins(s)' = {}, Exists(s)'
    PROVE  pc[r] = "manage" /\ sid[r] = s /\ who[r] \notin Admins(s)
<1>. USE DEF StorageInv, TypeOK, Admins
<1>1. access'[s] # access[s]
    OBVIOUS
<1>2. \/ Own(r) \/ Fallback(r) \/ Grant(r) \/ Restrict(r) \/ Delete(r)
    BY
    DEF RequestStep, CreateStart, NameTaken, NameFree, InsertStorage,
      ChatConflict, ManageStart, Check, Refused, Fails, HangUp, tableVars
<1>3. ~Own(r)
    BY DEF Own, Upserted
<1>4. ~(Fallback(r) \/ Delete(r))
    BY DEF Fallback, Delete, DeleteStorage, AccessWithout, Exists
<1>5. pc[r] = "manage" /\ sid[r] = s
    BY <1>2, <1>3, <1>4 DEF Grant, Restrict, Upserted
<1>6. PICK u \in Others(r), type \in AccessTypes \cup {"none"} :
            access' = Upserted(s, u, type)
    BY <1>2, <1>3, <1>4, <1>5 DEF Grant, Restrict
<1>7. who[r] \in Admins(s) => who[r] \in Admins(s)'
    BY <1>6 DEF Others, Upserted
<1>. QED BY <1>5, <1>7

\* The last admin of a storage goes only by a request that was overtaken.
THEOREM LastAdminByRace == Spec => LastAdminGoesByRace
<1>1. StorageInv /\ [Next]_vars =>
        \A s \in Storages :
          Admins(s) # {} /\ Admins(s)' = {} /\ Exists(s)' =>
              \E r \in Requests :
                  pc[r] = "manage" /\ sid[r] = s /\ who[r] \notin Admins(s)
    <2> SUFFICES ASSUME StorageInv, [Next]_vars, NEW s \in Storages,
                        Admins(s) # {}, Admins(s)' = {}, Exists(s)'
                 PROVE  \E r \in Requests :
                            pc[r] = "manage" /\ sid[r] = s /\ who[r] \notin Admins(s)
        OBVIOUS
    <2>1. access' # access
        BY DEF Admins
    <2>2. PICK r \in Requests : RequestStep(r)
        BY <2>1 DEF Next, Register, AddBot, Restart, vars, tableVars
    <2>. QED BY <2>2, RequestTakesLastAdmin
<1>. QED BY <1>1, StorageInductive, PTL DEF Spec, LastAdminGoesByRace

\* A request leaves a lost storage lost.
LEMMA RequestKeepsLost ==
    ASSUME StorageInv, NEW s \in Storages, NEW r \in Requests, RequestStep(r), Lost(s)
    PROVE  Lost(s)' /\ access'[s] = access[s] /\ chatOf'[s] = chatOf[s]
<1>1. s \in known /\ Exists(s) /\ Admins(s) = {}
    BY DEF Lost, StorageInv, KnownInv
<1>2. access'[s] = access[s] /\ chatOf'[s] = chatOf[s] /\ s \in known'
    <2>1. CASE InsertStorage(r)
        BY <1>1, <2>1 DEF InsertStorage, FreshIds
    <2>2. CASE Own(r) \/ Fallback(r)
        BY <1>1, <2>2
        DEF Own, Fallback, DeleteStorage, AccessWithout, Upserted, StorageInv,
          TypeOK, OwnInv
    <2>3. CASE Grant(r) \/ Restrict(r) \/ Delete(r)
        <3>1. sid[r] # s
            BY <2>3 DEF Lost, Grant, Restrict, Delete
        <3>. QED
            BY <1>1, <2>3, <3>1
            DEF Grant, Restrict, Delete, DeleteStorage, AccessWithout, Upserted,
              StorageInv, TypeOK
    <2>. QED
        BY <1>1, <2>1, <2>2, <2>3
        DEF RequestStep, CreateStart, NameTaken, NameFree, ChatConflict,
          ManageStart, Check, Refused, Fails, HangUp, tableVars
<1>3. Admins(s)' = {}
    BY <1>1, <1>2 DEF Admins
<1>4. \A q \in Requests : sid'[q] = s => pc'[q] # "manage"
    <2>1. ASSUME NEW q \in Requests \ {r} PROVE sid'[q] = sid[q] /\ pc'[q] = pc[q]
        BY
        DEF RequestStep, CreateStart, NameTaken, NameFree, InsertStorage,
          ChatConflict, Own, Fallback, ManageStart, Check, Grant, Restrict,
          Delete, Refused, Fails, HangUp, Ended, Undo, StorageInv, TypeOK
    <2>2. pc'[r] = "manage" => Check(r) /\ sid'[r] = sid[r] /\ access[sid[r]][who[r]] = "a"
        BY
        DEF RequestStep, CreateStart, NameTaken, NameFree, InsertStorage,
          ChatConflict, Own, Fallback, ManageStart, Check, Grant, Restrict,
          Delete, Refused, Fails, HangUp, Ended, Undo, HasAccess, Sufficient,
          StorageInv, TypeOK
    <2>3. Check(r) => who[r] \in Users
        BY DEF Check, StorageInv, RequestInv
    <2>. QED BY <2>1, <2>2, <2>3 DEF Lost, Admins
<1>. QED BY <1>2, <1>3, <1>4 DEF Lost

\* A storage whose admins are gone is lost for good.
THEOREM StorageLost == Spec => LostForGood
<1>1. StorageInv /\ [Next]_vars =>
        \A s \in Storages : Lost(s) =>
          Lost(s)' /\ access'[s] = access[s] /\ chatOf'[s] = chatOf[s]
    <2> SUFFICES ASSUME StorageInv, [Next]_vars, NEW s \in Storages, Lost(s)
                 PROVE  Lost(s)' /\ access'[s] = access[s] /\ chatOf'[s] = chatOf[s]
        OBVIOUS
    <2>1. ASSUME NEW u \in Users, Register(u)
          PROVE  UNCHANGED <<chatOf, access, known, pc, sid>>
        BY <2>1 DEF Register
    <2>2. ASSUME UNCHANGED <<chatOf, access, known, pc, sid>>
          PROVE  Lost(s)'
        BY <2>2 DEF Lost, Admins
    <2>3. CASE Restart
        BY <2>3 DEF Restart, Lost, Admins
    <2>4. CASE UNCHANGED vars
        BY <2>4, <2>2 DEF vars, tableVars
    <2>5. ASSUME NEW t \in Storages, AddBot(t)
          PROVE  UNCHANGED <<chatOf, access, known, pc, sid>>
        BY <2>5 DEF AddBot
    <2>. QED BY <2>1, <2>2, <2>3, <2>4, <2>5, RequestKeepsLost DEF Next
<1>. QED BY <1>1, StorageInductive, PTL DEF Spec, LostForGood

=============================================================================
