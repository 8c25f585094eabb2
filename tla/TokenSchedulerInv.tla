------------------------- MODULE TokenSchedulerInv -------------------------
(***************************************************************************)
(* The inductive invariant of the token scheduler.                         *)
(***************************************************************************)
EXTENDS TokenScheduler

\* What a transaction speaks of.
OwnInv ==
    \A c \in Callers :
        /\ mine[c] # NoUsage => mine[c] \notin rows /\ pc[c] = "commit"
        /\ dead[c] # {} => pc[c] \in {"insert", "commit"}
        /\ old[c] # {} => pc[c] = "delete"

\* Rows are inserted once and deleted only when they are old.
RowInv ==
    /\ \A c, d \in Callers : mine[c] # NoUsage /\ mine[c] = mine[d] => c = d
    /\ \A c \in Callers : (old[c] \cup dead[c]) \cap rows \subseteq expired
    /\ \A c, d \in Callers : mine[c] \notin old[d] \cup dead[d]

\* Usages that count for a bot, and those that will once they are committed.
Pending(b) == {mine[c] : c \in {d \in Callers : mine[d] # NoUsage /\ botOf[mine[d]] = b}}

\* A transaction adds one usage to what it counted below the limit; only those
\* of the other tasks can be missing in its count.
CountInv ==
    \A b \in Bots :
        Cardinality(LastMinute(b) \cup Pending(b))
            <= Limit + Cardinality(Callers) - 1

TokenInv == TypeOK /\ OwnInv /\ RowInv /\ CountInv

=============================================================================
