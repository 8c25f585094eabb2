------------------------ MODULE TokenSchedulerProofs ------------------------
(***************************************************************************)
(* Proofs about the token scheduler, for any number of tasks, bots, rows   *)
(* and restarts, every limit and every set of faults.                      *)
(***************************************************************************)
EXTENDS TokenSchedulerInv, FiniteSetTheorems, TLAPS

\* A step keeps the types.
LEMMA TypeStep ==
    ASSUME TypeOK, [Next]_vars
    PROVE  TypeOK'
<1>0. /\ rows \subseteq Usages /\ expired \subseteq rows
      /\ botOf \in [Usages -> Bots \cup {NoBot}]
      /\ pc \in [Callers -> Steps]
      /\ old \in [Callers -> SUBSET Usages]
      /\ dead \in [Callers -> SUBSET Usages]
      /\ mine \in [Callers -> Usages \cup {NoUsage}]
      /\ restarts \in Nat
      /\ NoUsage \notin Usages /\ NoBot \notin Bots
  BY UsagesAssumption, BotsAssumption DEF TypeOK
<1>1. ASSUME NEW c \in Callers, Want(c) PROVE TypeOK'
  BY <1>1, <1>0 DEF Want, tableVars, callerVars, TypeOK, Steps
<1>2. ASSUME NEW c \in Callers, Retry(c) PROVE TypeOK'
  BY <1>2, <1>0 DEF Retry, tableVars, callerVars, TypeOK, Steps
<1>3. ASSUME NEW c \in Callers, Begin(c) PROVE TypeOK'
  BY <1>3, <1>0 DEF Begin, OldEnough, tableVars, callerVars, TypeOK, Steps
<1>4. ASSUME NEW c \in Callers, Delete(c) PROVE TypeOK'
  BY <1>4, <1>0 DEF Delete, tableVars, callerVars, TypeOK, Steps
<1>5. ASSUME NEW c \in Callers, Insert(c) PROVE TypeOK'
  <2>1. Choice(c) \subseteq Bots
    BY DEF Choice
  <2>q. QED
    BY <1>5, <1>0, <2>1
    DEF Insert, FreshIds, tableVars, callerVars, TypeOK, Steps
<1>6. ASSUME NEW c \in Callers, InsertNothing(c) PROVE TypeOK'
  BY <1>6, <1>0 DEF InsertNothing, tableVars, callerVars, TypeOK, Steps
<1>7. ASSUME NEW c \in Callers, Commit(c) PROVE TypeOK'
  BY <1>7, <1>0 DEF Commit, Ended, Without, tableVars, callerVars, TypeOK, Steps
<1>8. ASSUME NEW c \in Callers, Called(c) PROVE TypeOK'
  BY <1>8, <1>0 DEF Called, tableVars, callerVars, TypeOK, Steps
<1>9. ASSUME NEW c \in Callers, Abort(c) PROVE TypeOK'
  BY <1>9, <1>0 DEF Abort, Ended, Without, tableVars, callerVars, TypeOK, Steps
<1>10. ASSUME NEW u \in Usages, Expire(u) PROVE TypeOK'
  BY <1>10, <1>0 DEF Expire, tableVars, callerVars, TypeOK, Steps
<1>11. CASE Restart
  BY <1>11, <1>0 DEF Restart, Without, tableVars, callerVars, TypeOK, Steps
<1>12. CASE UNCHANGED vars
  BY <1>12, <1>0 DEF vars, tableVars, callerVars, TypeOK, Steps
<1>q. QED
  BY <1>1, <1>2, <1>3, <1>4, <1>5, <1>6, <1>7, <1>8, <1>9, <1>10, <1>11, <1>12
  DEF Next, CallerStep

\* A step leaves every transaction with what it has done so far, and nothing else.
LEMMA OwnStep ==
    ASSUME TypeOK, OwnInv, RowInv, [Next]_vars
    PROVE  OwnInv'
<1>0. /\ rows \subseteq Usages /\ expired \subseteq rows
      /\ botOf \in [Usages -> Bots \cup {NoBot}]
      /\ pc \in [Callers -> Steps]
      /\ old \in [Callers -> SUBSET Usages]
      /\ dead \in [Callers -> SUBSET Usages]
      /\ mine \in [Callers -> Usages \cup {NoUsage}]
      /\ restarts \in Nat
      /\ NoUsage \notin Usages /\ NoBot \notin Bots
  BY UsagesAssumption, BotsAssumption DEF TypeOK
<1>1. ASSUME NEW c \in Callers, Want(c) PROVE OwnInv'
  BY <1>1, <1>0 DEF Want, tableVars, callerVars, OwnInv, RowInv
<1>2. ASSUME NEW c \in Callers, Retry(c) PROVE OwnInv'
  BY <1>2, <1>0 DEF Retry, tableVars, callerVars, OwnInv, RowInv
<1>3. ASSUME NEW c \in Callers, Begin(c) PROVE OwnInv'
  BY <1>3, <1>0 DEF Begin, OldEnough, tableVars, callerVars, OwnInv, RowInv
<1>4. ASSUME NEW c \in Callers, Delete(c) PROVE OwnInv'
  BY <1>4, <1>0 DEF Delete, tableVars, callerVars, OwnInv, RowInv
<1>5. ASSUME NEW c \in Callers, Insert(c) PROVE OwnInv'
  BY <1>5, <1>0 DEF Insert, FreshIds, tableVars, callerVars, OwnInv, RowInv
<1>6. ASSUME NEW c \in Callers, InsertNothing(c) PROVE OwnInv'
  BY <1>6, <1>0 DEF InsertNothing, tableVars, callerVars, OwnInv, RowInv
<1>7. ASSUME NEW c \in Callers, Commit(c) PROVE OwnInv'
  BY <1>7, <1>0
  DEF Commit, Ended, Without, tableVars, callerVars, OwnInv, RowInv
<1>8. ASSUME NEW c \in Callers, Called(c) PROVE OwnInv'
  BY <1>8, <1>0 DEF Called, tableVars, callerVars, OwnInv, RowInv
<1>9. ASSUME NEW c \in Callers, Abort(c) PROVE OwnInv'
  BY <1>9, <1>0 DEF Abort, Ended, Without, tableVars, callerVars, OwnInv, RowInv
<1>10. ASSUME NEW u \in Usages, Expire(u) PROVE OwnInv'
  BY <1>10, <1>0 DEF Expire, tableVars, callerVars, OwnInv, RowInv
<1>11. CASE Restart
  BY <1>11, <1>0 DEF Restart, Without, tableVars, callerVars, OwnInv, RowInv
<1>12. CASE UNCHANGED vars
  BY <1>12, <1>0 DEF vars, tableVars, callerVars, OwnInv, RowInv
<1>q. QED
  BY <1>1, <1>2, <1>3, <1>4, <1>5, <1>6, <1>7, <1>8, <1>9, <1>10, <1>11, <1>12
  DEF Next, CallerStep

\* A step deletes no row before it is old, and takes no id twice.
LEMMA RowStep ==
    ASSUME TypeOK, OwnInv, RowInv, [Next]_vars
    PROVE  RowInv'
<1>0. /\ rows \subseteq Usages /\ expired \subseteq rows
      /\ botOf \in [Usages -> Bots \cup {NoBot}]
      /\ pc \in [Callers -> Steps]
      /\ old \in [Callers -> SUBSET Usages]
      /\ dead \in [Callers -> SUBSET Usages]
      /\ mine \in [Callers -> Usages \cup {NoUsage}]
      /\ restarts \in Nat
      /\ NoUsage \notin Usages /\ NoBot \notin Bots
  BY UsagesAssumption, BotsAssumption DEF TypeOK
<1>1. ASSUME NEW c \in Callers, Want(c) PROVE RowInv'
  BY <1>1, <1>0 DEF Want, tableVars, callerVars, OwnInv, RowInv
<1>2. ASSUME NEW c \in Callers, Retry(c) PROVE RowInv'
  BY <1>2, <1>0 DEF Retry, tableVars, callerVars, OwnInv, RowInv
<1>3. ASSUME NEW c \in Callers, Begin(c) PROVE RowInv'
  BY <1>3, <1>0 DEF Begin, OldEnough, tableVars, callerVars, OwnInv, RowInv
<1>4. ASSUME NEW c \in Callers, Delete(c) PROVE RowInv'
  BY <1>4, <1>0 DEF Delete, tableVars, callerVars, OwnInv, RowInv
<1>5. ASSUME NEW c \in Callers, Insert(c) PROVE RowInv'
  BY <1>5, <1>0 DEF Insert, FreshIds, tableVars, callerVars, OwnInv, RowInv
<1>6. ASSUME NEW c \in Callers, InsertNothing(c) PROVE RowInv'
  BY <1>6, <1>0 DEF InsertNothing, tableVars, callerVars, OwnInv, RowInv
<1>7. ASSUME NEW c \in Callers, Commit(c) PROVE RowInv'
  BY <1>7, <1>0
  DEF Commit, Ended, Without, tableVars, callerVars, OwnInv, RowInv
<1>8. ASSUME NEW c \in Callers, Called(c) PROVE RowInv'
  BY <1>8, <1>0 DEF Called, tableVars, callerVars, OwnInv, RowInv
<1>9. ASSUME NEW c \in Callers, Abort(c) PROVE RowInv'
  BY <1>9, <1>0 DEF Abort, Ended, Without, tableVars, callerVars, OwnInv, RowInv
<1>10. ASSUME NEW u \in Usages, Expire(u) PROVE RowInv'
  BY <1>10, <1>0 DEF Expire, tableVars, callerVars, OwnInv, RowInv
<1>11. CASE Restart
  BY <1>11, <1>0 DEF Restart, Without, tableVars, callerVars, OwnInv, RowInv
<1>12. CASE UNCHANGED vars
  BY <1>12, <1>0 DEF vars, tableVars, callerVars, OwnInv, RowInv
<1>q. QED
  BY <1>1, <1>2, <1>3, <1>4, <1>5, <1>6, <1>7, <1>8, <1>9, <1>10, <1>11, <1>12
  DEF Next, CallerStep

\* A bot's usages of the last minute are rows, those to come are not: both are
\* finitely many.
LEMMA UsesFinite ==
    ASSUME TypeOK, NEW b \in Bots
    PROVE  IsFiniteSet(LastMinute(b) \cup Pending(b))
<1>1. LastMinute(b) \cup Pending(b) \subseteq Usages
  BY UsagesAssumption DEF TypeOK, LastMinute, Pending
<1>q. QED
  BY <1>1, UsagesAssumption, FS_Subset

\* A step after which a bot has no new usage keeps its bound.
LEMMA FewerUses ==
    ASSUME TypeOK, CountInv, NEW b \in Bots, NEW uses \in SUBSET (LastMinute(b) \cup Pending(b))
    PROVE  Cardinality(uses) <= Limit + Cardinality(Callers) - 1
<1>1. /\ Cardinality(uses) <= Cardinality(LastMinute(b) \cup Pending(b))
      /\ IsFiniteSet(uses)
  BY UsesFinite, FS_Subset
<1>2. Cardinality(LastMinute(b) \cup Pending(b)) \in Nat /\ Cardinality(uses) \in Nat
  BY <1>1, UsesFinite, FS_CardinalityType
<1>3. Cardinality(Callers) \in Nat
  BY CallersAssumption, FS_CardinalityType
<1>q. QED
  BY <1>1, <1>2, <1>3, LimitAssumption DEF CountInv

\* What the transactions are about to commit is at most one row each.
LEMMA OnePendingEach ==
    ASSUME NEW uses, uses \subseteq {mine[c] : c \in Callers}
    PROVE  IsFiniteSet(uses) /\ Cardinality(uses) <= Cardinality(Callers)
<1> DEFINE All == {mine[c] : c \in Callers}
<1>1. [c \in Callers |-> mine[c]] \in Surjection(Callers, All)
  BY DEF Surjection
<1>2. IsFiniteSet(All) /\ Cardinality(All) <= Cardinality(Callers)
  BY <1>1, CallersAssumption, FS_Surjection
<1>3. IsFiniteSet(uses) /\ Cardinality(uses) <= Cardinality(All)
  BY <1>2, FS_Subset
<1>4. /\ Cardinality(uses) \in Nat /\ Cardinality(All) \in Nat
      /\ Cardinality(Callers) \in Nat
  BY <1>2, <1>3, CallersAssumption, FS_CardinalityType
<1>q. QED
  BY <1>2, <1>3, <1>4

\* The bot a transaction chooses had fewer usages in the last minute than the
\* limit: the rows it has deleted are all older.
LEMMA ChosenBelow ==
    ASSUME TypeOK, RowInv, NEW c \in Callers, NEW b \in Choice(c)
    PROVE  IsFiniteSet(LastMinute(b)) /\ Cardinality(LastMinute(b)) < Limit
<1> DEFINE Seen == {u \in rows \ dead[c] : botOf[u] = b}
<1>1. IsFiniteSet(Seen)
  <2>1. Seen \subseteq Usages
    BY DEF TypeOK
  <2>q. QED
    BY <2>1, UsagesAssumption, FS_Subset
<1>2. LastMinute(b) \subseteq Seen
  BY DEF LastMinute, RowInv
<1>3. Cardinality(LastMinute(b)) <= Cardinality(Seen) /\ IsFiniteSet(LastMinute(b))
  BY <1>1, <1>2, FS_Subset
<1>4. Cardinality(Seen) < Limit
  BY DEF Choice, Below, Count
<1>5. Cardinality(Seen) \in Nat /\ Cardinality(LastMinute(b)) \in Nat
  BY <1>1, <1>3, FS_CardinalityType
<1>q. QED
  BY <1>3, <1>4, <1>5, LimitAssumption

\* A step keeps the usages of a bot within the limit and one for each other task.
LEMMA CountStep ==
    ASSUME TypeOK, OwnInv, RowInv, CountInv, [Next]_vars
    PROVE  CountInv'
<1>0. /\ rows \subseteq Usages /\ expired \subseteq rows
      /\ botOf \in [Usages -> Bots \cup {NoBot}]
      /\ pc \in [Callers -> Steps]
      /\ old \in [Callers -> SUBSET Usages]
      /\ dead \in [Callers -> SUBSET Usages]
      /\ mine \in [Callers -> Usages \cup {NoUsage}]
      /\ restarts \in Nat
      /\ NoUsage \notin Usages /\ NoBot \notin Bots
  BY UsagesAssumption, BotsAssumption DEF TypeOK
<1>1. ASSUME NEW c \in Callers, Want(c) PROVE CountInv'
  <2>1. ASSUME NEW b \in Bots
        PROVE  (LastMinute(b) \cup Pending(b))' \subseteq LastMinute(b) \cup Pending(b)
    BY <1>1, <1>0, <2>1
    DEF Want, tableVars, callerVars, LastMinute, Pending, OwnInv, RowInv
  <2>q. QED
    BY <2>1, FewerUses DEF CountInv
<1>2. ASSUME NEW c \in Callers, Retry(c) PROVE CountInv'
  <2>1. ASSUME NEW b \in Bots
        PROVE  (LastMinute(b) \cup Pending(b))' \subseteq LastMinute(b) \cup Pending(b)
    BY <1>2, <1>0, <2>1
    DEF Retry, tableVars, callerVars, LastMinute, Pending, OwnInv, RowInv
  <2>q. QED
    BY <2>1, FewerUses DEF CountInv
<1>3. ASSUME NEW c \in Callers, Begin(c) PROVE CountInv'
  <2>1. ASSUME NEW b \in Bots
        PROVE  (LastMinute(b) \cup Pending(b))' \subseteq LastMinute(b) \cup Pending(b)
    BY <1>3, <1>0, <2>1
    DEF Begin, OldEnough, tableVars, callerVars, LastMinute, Pending, OwnInv,
      RowInv
  <2>q. QED
    BY <2>1, FewerUses DEF CountInv
<1>4. ASSUME NEW c \in Callers, Delete(c) PROVE CountInv'
  <2>1. ASSUME NEW b \in Bots
        PROVE  (LastMinute(b) \cup Pending(b))' \subseteq LastMinute(b) \cup Pending(b)
    BY <1>4, <1>0, <2>1
    DEF Delete, tableVars, callerVars, LastMinute, Pending, OwnInv, RowInv
  <2>q. QED
    BY <2>1, FewerUses DEF CountInv
<1>5. ASSUME NEW c \in Callers, Insert(c) PROVE CountInv'
  <2>1. PICK b \in Choice(c), u \in FreshIds :
           /\ botOf' = [botOf EXCEPT ![u] = b]
           /\ mine' = [mine EXCEPT ![c] = u]
    BY <1>5 DEF Insert
  <2>2. /\ UNCHANGED <<rows, expired>>
        /\ u \in Usages /\ u \notin rows /\ \A d \in Callers : mine[d] # u
        /\ b \in Bots
    BY <1>5, <1>0, <2>1 DEF Insert, FreshIds, Choice
  <2>3. ASSUME NEW a \in Bots, a # b
        PROVE  (LastMinute(a) \cup Pending(a))' \subseteq LastMinute(a) \cup Pending(a)
    <3>1. LastMinute(a)' \subseteq LastMinute(a)
      BY <1>0, <2>1, <2>2 DEF LastMinute
    <3>2. Pending(a)' \subseteq Pending(a)
      BY <1>0, <2>1, <2>2, <2>3 DEF Pending
    <3>q. QED
      BY <3>1, <3>2
  <2>4. LastMinute(b)' = LastMinute(b)
    BY <1>0, <2>1, <2>2 DEF LastMinute
  <2>5. /\ IsFiniteSet(Pending(b)')
        /\ Cardinality(Pending(b)') <= Cardinality(Callers)
    <3>1. PICK new : new = mine'
      OBVIOUS
    <3>2. Pending(b)' \subseteq {mine'[d] : d \in Callers}
      BY DEF Pending
    <3>3. [d \in Callers |-> mine'[d]] \in Surjection(Callers, {mine'[d] : d \in Callers})
      BY DEF Surjection
    <3>4. /\ IsFiniteSet({mine'[d] : d \in Callers})
          /\ Cardinality({mine'[d] : d \in Callers}) <= Cardinality(Callers)
      BY <3>3, CallersAssumption, FS_Surjection
    <3>5. /\ IsFiniteSet(Pending(b)')
          /\ Cardinality(Pending(b)') <= Cardinality({mine'[d] : d \in Callers})
      BY <3>2, <3>4, FS_Subset
    <3>6. /\ Cardinality(Pending(b)') \in Nat /\ Cardinality(Callers) \in Nat
          /\ Cardinality({mine'[d] : d \in Callers}) \in Nat
      BY <3>4, <3>5, CallersAssumption, FS_CardinalityType
    <3>q. QED
      BY <3>4, <3>5, <3>6
  <2>6. Cardinality((LastMinute(b) \cup Pending(b))') <= Limit + Cardinality(Callers) - 1
    <3>1. IsFiniteSet(LastMinute(b)) /\ Cardinality(LastMinute(b)) < Limit
      BY <2>1, ChosenBelow
    <3>2. /\ Cardinality(LastMinute(b) \cup Pending(b)') =
                Cardinality(LastMinute(b)) + Cardinality(Pending(b)')
                    - Cardinality(LastMinute(b) \cap Pending(b)')
      BY <2>5, <3>1, FS_Union
    <3>3. /\ Cardinality(LastMinute(b)) \in Nat
          /\ Cardinality(Pending(b)') \in Nat
          /\ Cardinality(Callers) \in Nat
      BY <2>5, <3>1, CallersAssumption, FS_CardinalityType
    <3>4. Cardinality(LastMinute(b) \cap Pending(b)') \in Nat
      <4>1. LastMinute(b) \cap Pending(b)' \subseteq LastMinute(b)
        OBVIOUS
      <4>q. QED
        BY <3>1, <4>1, FS_Subset, FS_CardinalityType
    <3>q. QED
      BY <2>4, <2>5, <3>1, <3>2, <3>3, <3>4, LimitAssumption
  <2>7. ASSUME NEW a \in Bots
        PROVE  Cardinality((LastMinute(a) \cup Pending(a))') <= Limit + Cardinality(Callers) - 1
    BY <2>3, <2>6, FewerUses
  <2>q. QED
    BY <2>7 DEF CountInv
<1>6. ASSUME NEW c \in Callers, InsertNothing(c) PROVE CountInv'
  <2>1. ASSUME NEW b \in Bots
        PROVE  (LastMinute(b) \cup Pending(b))' \subseteq LastMinute(b) \cup Pending(b)
    BY <1>6, <1>0, <2>1
    DEF InsertNothing, tableVars, callerVars, LastMinute, Pending, OwnInv,
      RowInv
  <2>q. QED
    BY <2>1, FewerUses DEF CountInv
<1>7. ASSUME NEW c \in Callers, Commit(c) PROVE CountInv'
  <2>1. ASSUME NEW b \in Bots
        PROVE  (LastMinute(b) \cup Pending(b))' \subseteq LastMinute(b) \cup Pending(b)
    BY <1>7, <1>0, <2>1
    DEF Commit, Ended, Without, tableVars, callerVars, LastMinute, Pending,
      OwnInv, RowInv
  <2>q. QED
    BY <2>1, FewerUses DEF CountInv
<1>8. ASSUME NEW c \in Callers, Called(c) PROVE CountInv'
  <2>1. ASSUME NEW b \in Bots
        PROVE  (LastMinute(b) \cup Pending(b))' \subseteq LastMinute(b) \cup Pending(b)
    BY <1>8, <1>0, <2>1
    DEF Called, tableVars, callerVars, LastMinute, Pending, OwnInv, RowInv
  <2>q. QED
    BY <2>1, FewerUses DEF CountInv
<1>9. ASSUME NEW c \in Callers, Abort(c) PROVE CountInv'
  <2>1. ASSUME NEW b \in Bots
        PROVE  (LastMinute(b) \cup Pending(b))' \subseteq LastMinute(b) \cup Pending(b)
    BY <1>9, <1>0, <2>1
    DEF Abort, Ended, Without, tableVars, callerVars, LastMinute, Pending,
      OwnInv, RowInv
  <2>q. QED
    BY <2>1, FewerUses DEF CountInv
<1>10. ASSUME NEW u \in Usages, Expire(u) PROVE CountInv'
  <2>1. ASSUME NEW b \in Bots
        PROVE  (LastMinute(b) \cup Pending(b))' \subseteq LastMinute(b) \cup Pending(b)
    BY <1>10, <1>0, <2>1
    DEF Expire, tableVars, callerVars, LastMinute, Pending, OwnInv, RowInv
  <2>q. QED
    BY <2>1, FewerUses DEF CountInv
<1>11. CASE Restart
  <2>1. ASSUME NEW b \in Bots
        PROVE  (LastMinute(b) \cup Pending(b))' \subseteq LastMinute(b) \cup Pending(b)
    BY <1>11, <1>0, <2>1
    DEF Restart, Without, tableVars, callerVars, LastMinute, Pending, OwnInv,
      RowInv
  <2>q. QED
    BY <2>1, FewerUses DEF CountInv
<1>12. CASE UNCHANGED vars
  <2>1. ASSUME NEW b \in Bots
        PROVE  (LastMinute(b) \cup Pending(b))' \subseteq LastMinute(b) \cup Pending(b)
    BY <1>12, <1>0, <2>1
    DEF vars, tableVars, callerVars, LastMinute, Pending, OwnInv, RowInv
  <2>q. QED
    BY <2>1, FewerUses DEF CountInv
<1>q. QED
  BY <1>1, <1>2, <1>3, <1>4, <1>5, <1>6, <1>7, <1>8, <1>9, <1>10, <1>11, <1>12
  DEF Next, CallerStep

\* A step deletes no usage of the last minute.
LEMMA KeptStep ==
    ASSUME TypeOK, OwnInv, RowInv, [Next]_vars
    PROVE  rows \ expired \subseteq rows'
<1>0. /\ rows \subseteq Usages /\ expired \subseteq rows
      /\ botOf \in [Usages -> Bots \cup {NoBot}]
      /\ pc \in [Callers -> Steps]
      /\ old \in [Callers -> SUBSET Usages]
      /\ dead \in [Callers -> SUBSET Usages]
      /\ mine \in [Callers -> Usages \cup {NoUsage}]
      /\ restarts \in Nat
      /\ NoUsage \notin Usages /\ NoBot \notin Bots
  BY UsagesAssumption, BotsAssumption DEF TypeOK
<1>1. ASSUME NEW c \in Callers, Want(c) PROVE rows \ expired \subseteq rows'
  BY <1>1, <1>0 DEF Want, tableVars, callerVars, RowInv
<1>2. ASSUME NEW c \in Callers, Retry(c) PROVE rows \ expired \subseteq rows'
  BY <1>2, <1>0 DEF Retry, tableVars, callerVars, RowInv
<1>3. ASSUME NEW c \in Callers, Begin(c) PROVE rows \ expired \subseteq rows'
  BY <1>3, <1>0 DEF Begin, OldEnough, tableVars, callerVars, RowInv
<1>4. ASSUME NEW c \in Callers, Delete(c) PROVE rows \ expired \subseteq rows'
  BY <1>4, <1>0 DEF Delete, tableVars, callerVars, RowInv
<1>5. ASSUME NEW c \in Callers, Insert(c) PROVE rows \ expired \subseteq rows'
  BY <1>5, <1>0 DEF Insert, FreshIds, tableVars, callerVars, RowInv
<1>6. ASSUME NEW c \in Callers, InsertNothing(c)
      PROVE  rows \ expired \subseteq rows'
  BY <1>6, <1>0 DEF InsertNothing, tableVars, callerVars, RowInv
<1>7. ASSUME NEW c \in Callers, Commit(c) PROVE rows \ expired \subseteq rows'
  BY <1>7, <1>0 DEF Commit, Ended, Without, tableVars, callerVars, RowInv
<1>8. ASSUME NEW c \in Callers, Called(c) PROVE rows \ expired \subseteq rows'
  BY <1>8, <1>0 DEF Called, tableVars, callerVars, RowInv
<1>9. ASSUME NEW c \in Callers, Abort(c) PROVE rows \ expired \subseteq rows'
  BY <1>9, <1>0 DEF Abort, Ended, Without, tableVars, callerVars, RowInv
<1>10. ASSUME NEW u \in Usages, Expire(u) PROVE rows \ expired \subseteq rows'
  BY <1>10, <1>0 DEF Expire, tableVars, callerVars, RowInv
<1>11. CASE Restart
  BY <1>11, <1>0 DEF Restart, Without, tableVars, callerVars, RowInv
<1>12. CASE UNCHANGED vars
  BY <1>12, <1>0 DEF vars, tableVars, callerVars, RowInv
<1>q. QED
  BY <1>1, <1>2, <1>3, <1>4, <1>5, <1>6, <1>7, <1>8, <1>9, <1>10, <1>11, <1>12
  DEF Next, CallerStep

\* The initial state has the invariant.
LEMMA InitInv == Init => TokenInv
<1> SUFFICES ASSUME Init PROVE TokenInv
  OBVIOUS
<1>1. TypeOK
  BY DEF Init, TypeOK, Steps
<1>2. OwnInv /\ RowInv
  BY UsagesAssumption DEF Init, OwnInv, RowInv
<1>3. ASSUME NEW b \in Bots PROVE LastMinute(b) \cup Pending(b) = {}
  BY DEF Init, LastMinute, Pending
<1>4. Cardinality(Callers) \in Nat /\ Cardinality(Callers) # 0
  BY CallersAssumption, FS_CardinalityType, FS_EmptySet
<1>5. ASSUME NEW b \in Bots PROVE Cardinality(LastMinute(b) \cup Pending(b)) = 0
  BY <1>3, FS_EmptySet, Zenon
<1>6. 0 <= Limit + Cardinality(Callers) - 1
  BY <1>4, LimitAssumption
<1>7. CountInv
  BY <1>5, <1>6 DEF CountInv
<1>q. QED
  BY <1>1, <1>2, <1>7 DEF TokenInv

\* The invariant holds in every reachable state (get_token).
THEOREM TokensInductive == Spec => []TokenInv
<1>1. TokenInv /\ [Next]_vars => TokenInv'
  BY TypeStep, OwnStep, RowStep, CountStep DEF TokenInv
<1>q. QED
  BY <1>1, InitInv, PTL DEF Spec

\* No bot is used in a minute more often than the limit and one usage for each
\* task but one (get_token): the limit holds up to concurrent transactions.
THEOREM OvershootIsBounded == Spec => []OvershootBounded
<1>1. TokenInv => OvershootBounded
  <2> SUFFICES ASSUME TokenInv, NEW b \in Bots
               PROVE  Cardinality(LastMinute(b)) <= Limit + Cardinality(Callers) - 1
    BY DEF OvershootBounded
  <2>q. QED
    BY FewerUses DEF TokenInv
<1>q. QED
  BY <1>1, TokensInductive, PTL

\* With one task at a time, as when the transcoder uploads with a concurrency of
\* one and nobody plays, the limit holds exactly (get_token, README.md:86).
THEOREM LimitHoldsAlone ==
    ASSUME Cardinality(Callers) = 1
    PROVE  Spec => []RateLimited
<1>1. OvershootBounded => RateLimited
  BY LimitAssumption DEF OvershootBounded, RateLimited
<1>q. QED
  BY <1>1, OvershootIsBounded, PTL

\* Usages count for their whole minute (get_token).
THEOREM UsagesAreKept == Spec => KeptForAMinute
<1>1. TokenInv /\ [Next]_vars => [rows \ expired \subseteq rows']_vars
  BY KeptStep DEF TokenInv
<1>q. QED
  BY <1>1, TokensInductive, PTL DEF Spec, KeptForAMinute

=============================================================================
