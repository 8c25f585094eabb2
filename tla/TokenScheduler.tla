--------------------------- MODULE TokenScheduler ---------------------------
(***************************************************************************)
(* The bot tokens of one storage: before each call to Telegram a task      *)
(* takes a token in a transaction that counts the usages of the last       *)
(* minute, and sleeps for a second when every token is used up.            *)
(*                                                                         *)
(* Tasks are concurrent (the uploads of a rung, read-ahead, deletions) and *)
(* the transactions run at Postgres' default level READ COMMITTED: a       *)
(* statement sees what is committed when it starts, and waits for a row    *)
(* that another transaction is deleting.                                   *)
(*                                                                         *)
(* A definition marked "wrong variant" is a plausible mistake in the one   *)
(* after it, and is used by nothing.                                       *)
(***************************************************************************)
EXTENDS Integers, FiniteSets

CONSTANTS
    Callers,        \* tasks that may want a token at the same time
    Bots,           \* storage_workers of the storage
    Usages,         \* bound: ids of usage rows, used again once forgotten
    Limit,          \* TELEGRAM_RATE_LIMIT
    MaxRestarts,    \* bound: crashes explored
    Faults,         \* "database": a statement may fail
    NoUsage, NoBot

ASSUME CallersAssumption == IsFiniteSet(Callers) /\ Callers # {}
ASSUME UsagesAssumption == IsFiniteSet(Usages) /\ NoUsage \notin Usages
ASSUME BotsAssumption == NoBot \notin Bots
ASSUME LimitAssumption == Limit \in Nat
ASSUME TokenRestartsAssumption == MaxRestarts \in Nat

VARIABLES
    rows,       \* committed rows of storage_workers_usages
    botOf,      \* their storage_worker_id
    expired,    \* those whose dt is more than a minute ago
    pc,
    old,        \* rows older than a minute when the transaction began, to be deleted
    dead,       \* rows it has deleted, locked until it ends
    mine,       \* the row it has inserted, which nobody else sees
    restarts

tableVars == <<rows, botOf, expired>>
callerVars == <<pc, old, dead, mine>>
vars == <<tableVars, callerVars, restarts>>

-----------------------------------------------------------------------------

\* The statements of get_token; "sleep" is the second before the next attempt,
\* "got" the call to Telegram with the token.
Steps == {"idle", "begin", "delete", "insert", "commit", "sleep", "got"}

TypeOK ==
    /\ rows \subseteq Usages
    /\ botOf \in [Usages -> Bots \cup {NoBot}]
    /\ expired \subseteq rows
    /\ pc \in [Callers -> Steps]
    /\ old \in [Callers -> SUBSET Usages]
    /\ dead \in [Callers -> SUBSET Usages]
    /\ mine \in [Callers -> Usages \cup {NoUsage}]
    /\ restarts \in Nat

Init ==
    /\ rows = {}
    /\ botOf = [u \in Usages |-> NoBot]
    /\ expired = {}
    /\ pc = [c \in Callers |-> "idle"]
    /\ old = [c \in Callers |-> {}]
    /\ dead = [c \in Callers |-> {}]
    /\ mine = [c \in Callers |-> NoUsage]
    /\ restarts = 0

-----------------------------------------------------------------------------
(* StorageWorkersRepository.get_token, one action per statement *)

\* Upload, delete_message or download wants a token; a task that slept tries
\* again.
Want(c) ==
    /\ pc[c] = "idle"
    /\ pc' = [pc EXCEPT ![c] = "begin"]
    /\ UNCHANGED <<tableVars, old, dead, mine, restarts>>

Retry(c) ==
    /\ pc[c] = "sleep"
    /\ pc' = [pc EXCEPT ![c] = "begin"]
    /\ UNCHANGED <<tableVars, old, dead, mine, restarts>>

OldEnoughAlways == rows                                    \* wrong variant
OldEnoughNever == {}                                       \* wrong variant
\* dt < NOW() - INTERVAL '1 minute'
OldEnough == expired

\* NOW() is the time at which the transaction began.
Begin(c) ==
    /\ pc[c] = "begin"
    /\ old' = [old EXCEPT ![c] = OldEnough]
    /\ pc' = [pc EXCEPT ![c] = "delete"]
    /\ UNCHANGED <<tableVars, dead, mine, restarts>>

\* DELETE waits while another transaction has one of its rows.
Delete(c) ==
    /\ pc[c] = "delete"
    /\ \A d \in Callers \ {c} : old[c] \cap dead[d] = {}
    /\ dead' = [dead EXCEPT ![c] = old[c] \cap rows]
    /\ old' = [old EXCEPT ![c] = {}]
    /\ pc' = [pc EXCEPT ![c] = "insert"]
    /\ UNCHANGED <<tableVars, mine, restarts>>

\* COUNT(swu.id) of a bot, as the transaction of c sees the table.
Count(c, b) == Cardinality({u \in rows \ dead[c] : botOf[u] = b})

BelowOrAt(c, b) == Count(c, b) <= Limit                    \* wrong variant
\* HAVING COUNT(swu.id) < $2
Below(c, b) == Count(c, b) < Limit

\* ORDER BY COUNT(swu.id) LIMIT 1
Choice(c) ==
    {b \in Bots : Below(c, b) /\
        \A a \in Bots : Below(c, a) => Count(c, b) <= Count(c, a)}

\* A fresh UUID: not that of a row, nor one a transaction still speaks of.
FreshIds ==
    (Usages \ rows) \ UNION {old[c] \cup dead[c] \cup {mine[c]} : c \in Callers}

Insert(c) ==
    /\ pc[c] = "insert"
    /\ \E b \in Choice(c), u \in FreshIds :
          /\ botOf' = [botOf EXCEPT ![u] = b]
          /\ mine' = [mine EXCEPT ![c] = u]
    /\ pc' = [pc EXCEPT ![c] = "commit"]
    /\ UNCHANGED <<rows, expired, old, dead, restarts>>

\* Every bot is used up: nothing is inserted and nothing returned.
InsertNothing(c) ==
    /\ pc[c] = "insert"
    /\ Choice(c) = {}
    /\ pc' = [pc EXCEPT ![c] = "commit"]
    /\ UNCHANGED <<tableVars, old, dead, mine, restarts>>

\* The transaction is over, and with it what it remembers.
Ended(c, step) ==
    /\ pc' = [pc EXCEPT ![c] = step]
    /\ old' = [old EXCEPT ![c] = {}]
    /\ dead' = [dead EXCEPT ![c] = {}]
    /\ mine' = [mine EXCEPT ![c] = NoUsage]

\* Rows that are no more have no bot.
Without(us) == [u \in Usages |-> IF u \in us THEN NoBot ELSE botOf[u]]

\* The deletion and the row take effect together; without a row the loop of
\* the scheduler sleeps.
Commit(c) ==
    /\ pc[c] = "commit"
    /\ rows' = (rows \ dead[c]) \cup ({mine[c]} \ {NoUsage})
    /\ expired' = expired \ dead[c]
    /\ botOf' = Without(dead[c])
    /\ Ended(c, IF mine[c] = NoUsage THEN "sleep" ELSE "got")
    /\ UNCHANGED restarts

\* A statement fails: the transaction is rolled back and the error returned.
Abort(c) ==
    /\ "database" \in Faults
    /\ pc[c] \in {"begin", "delete", "insert", "commit"}
    /\ botOf' = Without({mine[c]})
    /\ Ended(c, "idle")
    /\ UNCHANGED <<rows, expired, restarts>>

\* The call to Telegram is over.
Called(c) ==
    /\ pc[c] = "got"
    /\ pc' = [pc EXCEPT ![c] = "idle"]
    /\ UNCHANGED <<tableVars, old, dead, mine, restarts>>

CallerStep(c) ==
    \/ Retry(c) \/ Begin(c) \/ Delete(c) \/ Insert(c) \/ InsertNothing(c)
    \/ Commit(c) \/ Called(c)

\* A minute has passed since the row was written.
Expire(u) ==
    /\ u \in rows \ expired
    /\ expired' = expired \cup {u}
    /\ UNCHANGED <<rows, botOf, callerVars, restarts>>

\* The process is killed, its transactions are rolled back.
Restart ==
    /\ restarts < MaxRestarts
    /\ restarts' = restarts + 1
    /\ pc' = [c \in Callers |-> "idle"]
    /\ old' = [c \in Callers |-> {}]
    /\ dead' = [c \in Callers |-> {}]
    /\ mine' = [c \in Callers |-> NoUsage]
    /\ botOf' = Without({mine[c] : c \in Callers})
    /\ UNCHANGED <<rows, expired>>

Next ==
    \/ \E c \in Callers : Want(c) \/ CallerStep(c) \/ Abort(c)
    \/ \E u \in Usages : Expire(u)
    \/ Restart

Spec == Init /\ [][Next]_vars

\* tokio and Postgres go on, transactions that wait for a row get it in turn,
\* the sleep of a second ends, and so does a minute.
FairSpec ==
    /\ Spec
    /\ \A c \in Callers : WF_vars(CallerStep(c)) /\ SF_vars(Delete(c))
    /\ \A u \in Usages : WF_vars(Expire(u))

-----------------------------------------------------------------------------
(* Properties *)

\* The usages of a bot in the last minute, and those about to be committed.
LastMinute(b) == {u \in rows \ expired : botOf[u] = b}

\* Concurrent transactions do not see each other's rows, so a bot may be used
\* more often than the limit in a minute, but by no more than one usage for
\* each other task (get_token, storage_workers.rs:118-145).
OvershootBounded ==
    \A b \in Bots :
        Cardinality(LastMinute(b)) <= Limit + Cardinality(Callers) - 1

\* A usage is not forgotten before its minute is over, whoever deletes what he
\* saw as old when (get_token, storage_workers.rs:105-113).
KeptForAMinute == [][rows \ expired \subseteq rows']_vars

\* While a task waits for a token, somebody gets one, or the task itself an
\* error (scheduler get_token, storage_workers_scheduler.rs:21-34).
SomebodyServed ==
    \A c \in Callers :
        pc[c] = "sleep" ~> pc[c] = "idle" \/ \E d \in Callers : pc[d] = "got"

\* "Calls/min per bot token" (README.md:86): never more than that.
RateLimited == \A b \in Bots : Cardinality(LastMinute(b)) <= Limit

=============================================================================
