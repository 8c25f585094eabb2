---------------------------- MODULE StorageAccess ----------------------------
(***************************************************************************)
(* Storages (one Telegram chat each) and who may use them: creating a      *)
(* storage takes two statements and an undo, managing it a check followed  *)
(* by a statement, and nothing holds them together.                        *)
(*                                                                         *)
(* A request may fail at any statement, and ends where it is when its      *)
(* client hangs up or the process is killed.  Names of storages are left   *)
(* out: whether a name is taken is left open.                              *)
(*                                                                         *)
(* A definition marked "wrong variant" is a plausible mistake in the one   *)
(* after it, and is used by nothing.                                       *)
(***************************************************************************)
EXTENDS Integers, FiniteSets

CONSTANTS
    Users, Superuser,
    Storages,           \* bound: storage ids, used again once forgotten
    Chats,
    Requests,           \* requests served at the same time
    MaxCuts,            \* bound: hang-ups and crashes explored
    MaxFailures,        \* bound: failed statements explored
    NoUser, NoStorage, NoChat

ASSUME SuperuserAssumption == Superuser \in Users /\ NoUser \notin Users
ASSUME StoragesAssumption == NoStorage \notin Storages
ASSUME ChatsAssumption == NoChat \notin Chats
ASSUME BoundsAssumption == MaxCuts \in Nat /\ MaxFailures \in Nat

VARIABLES
    users,      \* rows of users
    chatOf,     \* rows of storages: their chat_id, NoChat without a row
    access,     \* access_type of a user to a storage
    bots,       \* storages with a row in storage_workers
    known,      \* history: storages that have had an admin, whose id is out
    pc, who, sid,
    cuts, failures

tableVars == <<users, chatOf, access, bots, known>>
vars == <<tableVars, pc, who, sid, cuts, failures>>

-----------------------------------------------------------------------------

AccessTypes == {"r", "w", "a"}

\* The statements of a create, and those of managing a storage.
CreateSteps == {"name", "insert", "own", "fallback"}
ManageSteps == {"check", "manage"}

Exists(s) == chatOf[s] # NoChat

Admins(s) == {u \in Users : access[s][u] = "a"}

\* The id is in use by a create that has not ended.
BeingCreated(s) == \E r \in Requests : sid[r] = s /\ pc[r] \in {"own", "fallback"}

TypeOK ==
    /\ users \subseteq Users
    /\ chatOf \in [Storages -> Chats \cup {NoChat}]
    /\ access \in [Storages -> [Users -> AccessTypes \cup {"none"}]]
    /\ bots \subseteq Storages
    /\ known \subseteq Storages
    /\ pc \in [Requests -> {"idle"} \cup CreateSteps \cup ManageSteps]
    /\ who \in [Requests -> Users \cup {NoUser}]
    /\ sid \in [Requests -> Storages \cup {NoStorage}]
    /\ cuts \in Nat
    /\ failures \in Nat

Nobody == [u \in Users |-> "none"]

Init ==
    /\ users = {Superuser}
    /\ chatOf = [s \in Storages |-> NoChat]
    /\ access = [s \in Storages |-> Nobody]
    /\ bots = {}
    /\ known = {}
    /\ pc = [r \in Requests |-> "idle"]
    /\ who = [r \in Requests |-> NoUser]
    /\ sid = [r \in Requests |-> NoStorage]
    /\ cuts = 0
    /\ failures = 0

\* The request is answered; it holds nothing any more.
Ended(r) ==
    /\ pc' = [pc EXCEPT ![r] = "idle"]
    /\ who' = [who EXCEPT ![r] = NoUser]
    /\ sid' = [sid EXCEPT ![r] = NoStorage]

-----------------------------------------------------------------------------
(* StoragesService.create *)

CreateStart(r) ==
    /\ pc[r] = "idle"
    /\ \E u \in users : who' = [who EXCEPT ![r] = u]
    /\ pc' = [pc EXCEPT ![r] = "name"]
    /\ UNCHANGED <<tableVars, sid, cuts, failures>>

\* get_by_name_and_user_id: a row ends the request, no row lets it go on, and
\* so does an error.
NameTaken(r) ==
    /\ pc[r] = "name"
    /\ Ended(r)
    /\ UNCHANGED <<tableVars, cuts, failures>>

NameFree(r) ==
    /\ pc[r] = "name"
    /\ pc' = [pc EXCEPT ![r] = "insert"]
    /\ UNCHANGED <<tableVars, who, sid, cuts, failures>>

\* A fresh UUID: neither that of a row nor one a request still speaks of.
FreshIds == {s \in Storages : ~Exists(s) /\ \A r \in Requests : sid[r] # s}

\* UNIQUE (chat_id)
ChatTaken(c) == \E s \in Storages : chatOf[s] = c

InsertStorage(r) ==
    /\ pc[r] = "insert"
    /\ \E s \in FreshIds, c \in Chats :
          /\ ~ChatTaken(c)
          /\ chatOf' = [chatOf EXCEPT ![s] = c]
          /\ sid' = [sid EXCEPT ![r] = s]
    /\ pc' = [pc EXCEPT ![r] = "own"]
    /\ UNCHANGED <<users, access, bots, known, who, cuts, failures>>

ChatConflict(r) ==
    /\ pc[r] = "insert"
    /\ \E c \in Chats : ChatTaken(c)
    /\ Ended(r)
    /\ UNCHANGED <<tableVars, cuts, failures>>

\* create_or_update: at most one row for a user and a storage.
Upserted(s, u, type) == [access EXCEPT ![s][u] = type]

Own(r) ==
    /\ pc[r] = "own"
    /\ Exists(sid[r])
    /\ access' = Upserted(sid[r], who[r], "a")
    /\ known' = known \cup {sid[r]}
    /\ Ended(r)
    /\ UNCHANGED <<users, chatOf, bots, cuts, failures>>

AccessKept(s) == access                                    \* wrong variant
\* access REFERENCES storages ON DELETE CASCADE
AccessWithout(s) == [access EXCEPT ![s] = Nobody]

DeleteStorage(s) ==
    /\ chatOf' = [chatOf EXCEPT ![s] = NoChat]
    /\ access' = AccessWithout(s)
    /\ known' = known \ {s}

Fallback(r) ==
    /\ pc[r] = "fallback"
    /\ DeleteStorage(sid[r])
    /\ Ended(r)
    /\ UNCHANGED <<users, bots, cuts, failures>>

-----------------------------------------------------------------------------
(* StoragesService.grant_access, restrict_access and delete *)

ManageStart(r) ==
    /\ pc[r] = "idle"
    /\ \E u \in users : who' = [who EXCEPT ![r] = u]
    /\ \E s \in known : sid' = [sid EXCEPT ![r] = s]
    /\ pc' = [pc EXCEPT ![r] = "check"]
    /\ UNCHANGED <<tableVars, cuts, failures>>

SufficientOrWrite(required) ==                             \* wrong variant
    IF required = "r" THEN AccessTypes ELSE {"w", "a"}
\* access_type_filter of has_access
Sufficient(required) ==
    CASE required = "r" -> AccessTypes
      [] required = "w" -> {"w", "a"}
      [] required = "a" -> {"a"}

HasAccess(u, s, required) == access[s][u] \in Sufficient(required)

\* check_access with AccessType::A
Check(r) ==
    /\ pc[r] = "check"
    /\ IF HasAccess(who[r], sid[r], "a")
       THEN pc' = [pc EXCEPT ![r] = "manage"] /\ UNCHANGED <<who, sid>>
       ELSE Ended(r)
    /\ UNCHANGED <<tableVars, cuts, failures>>

OthersAndYourself(r) == users                              \* wrong variant
\* CannotManageAccessOfYourself
Others(r) == users \ {who[r]}

\* The insert selects from users, so the email has to be registered, and its
\* foreign key needs the storage.
Grant(r) ==
    /\ pc[r] = "manage"
    /\ Exists(sid[r])
    /\ \E u \in Others(r), type \in AccessTypes :
          access' = Upserted(sid[r], u, type)
    /\ Ended(r)
    /\ UNCHANGED <<users, chatOf, bots, known, cuts, failures>>

Restrict(r) ==
    /\ pc[r] = "manage"
    /\ \E u \in Others(r) : access' = Upserted(sid[r], u, "none")
    /\ Ended(r)
    /\ UNCHANGED <<users, chatOf, bots, known, cuts, failures>>

\* storage_workers REFERENCES storages without a cascade: a storage with a bot
\* cannot be deleted.
Delete(r) ==
    /\ pc[r] = "manage"
    /\ sid[r] \notin bots
    /\ DeleteStorage(sid[r])
    /\ Ended(r)
    /\ UNCHANGED <<users, bots, cuts, failures>>

\* Yourself, an unknown email, a storage that is gone or has a bot.
Refused(r) ==
    /\ pc[r] = "manage"
    /\ Ended(r)
    /\ UNCHANGED <<tableVars, cuts, failures>>

-----------------------------------------------------------------------------
(* Users, bots and the environment *)

\* UsersRepository.create: an email that is taken changes nothing.
Register(u) ==
    /\ users' = users \cup {u}
    /\ UNCHANGED <<chatOf, access, bots, known, pc, who, sid, cuts, failures>>

\* StorageWorkersService.create asks for no access; its foreign key needs the
\* storage.
AddBot(s) ==
    /\ s \in known /\ Exists(s)
    /\ bots' = bots \cup {s}
    /\ UNCHANGED <<users, chatOf, access, known, pc, who, sid, cuts, failures>>

UndoNever(r) == Ended(r)                                   \* wrong variant
\* result.is_err(): the storage is deleted again.
Undo(r) == pc' = [pc EXCEPT ![r] = "fallback"] /\ UNCHANGED <<who, sid>>

\* A statement fails without effect and the error is returned.
Fails(r) ==
    /\ failures < MaxFailures
    /\ pc[r] \notin {"idle", "name"}
    /\ IF pc[r] = "own" THEN Undo(r) ELSE Ended(r)
    /\ failures' = failures + 1
    /\ UNCHANGED <<tableVars, cuts>>

\* axum drops the handler of a connection that is closed.
HangUp(r) ==
    /\ pc[r] # "idle"
    /\ cuts < MaxCuts
    /\ cuts' = cuts + 1
    /\ Ended(r)
    /\ UNCHANGED <<tableVars, failures>>

\* The process is killed; at boot create_superuser ignores the conflict.
Restart ==
    /\ cuts < MaxCuts
    /\ cuts' = cuts + 1
    /\ pc' = [r \in Requests |-> "idle"]
    /\ who' = [r \in Requests |-> NoUser]
    /\ sid' = [r \in Requests |-> NoStorage]
    /\ users' = users \cup {Superuser}
    /\ UNCHANGED <<chatOf, access, bots, known, failures>>

RequestStep(r) ==
    \/ CreateStart(r) \/ NameTaken(r) \/ NameFree(r)
    \/ InsertStorage(r) \/ ChatConflict(r) \/ Own(r) \/ Fallback(r)
    \/ ManageStart(r) \/ Check(r)
    \/ Grant(r) \/ Restrict(r) \/ Delete(r) \/ Refused(r)
    \/ Fails(r) \/ HangUp(r)

Next ==
    \/ \E r \in Requests : RequestStep(r)
    \/ \E u \in Users : Register(u)
    \/ \E s \in Storages : AddBot(s)
    \/ Restart

Spec == Init /\ [][Next]_vars

-----------------------------------------------------------------------------
(* Properties *)

\* Storages with bots have had an admin, and those exist.
KnownInv == bots \subseteq known /\ \A s \in known : Exists(s)

\* Who has access has it to a storage that exists.
AccessInv == \A s \in Storages \ known : access[s] = Nobody

\* A storage that is being created belongs to its create alone.
OwnInv ==
    \A r \in Requests : pc[r] \in {"own", "fallback"} =>
        /\ sid[r] \in Storages \ known /\ Exists(sid[r])
        /\ \A q \in Requests \ {r} : sid[q] # sid[r]

\* What a request speaks of.
RequestInv ==
    \A r \in Requests :
        /\ pc[r] # "idle" => who[r] \in Users
        /\ pc[r] \in ManageSteps =>
              sid[r] \in Storages /\ (Exists(sid[r]) => sid[r] \in known)
        /\ pc[r] \in {"idle", "name", "insert"} => sid[r] = NoStorage

\* Access and bots belong to storages that exist, however deletions, grants and
\* undone creates interleave (create_or_update, delete_storage).
StorageInv == TypeOK /\ KnownInv /\ AccessInv /\ OwnInv /\ RequestInv

\* A create that meets one failure leaves no storage without an admin behind:
\* such a storage would keep its chat for ever (create, storages.rs:46-57).
\* Two failures, a hang-up or a crash may.
CreateIsUndone ==
    cuts = 0 /\ failures <= 1 =>
        \A s \in Storages : Exists(s) => s \in known \/ BeingCreated(s)

\* The last admin of a storage goes only by a request of somebody who was an
\* admin when he was checked and is none any more: admins that follow one
\* another cannot lock everybody out, two at the same time can
\* (restrict_access and grant_access, storages.rs:78-116).
LastAdminGoesByRace ==
    [][\A s \in Storages :
          Admins(s) # {} /\ Admins(s)' = {} /\ Exists(s)' =>
              \E r \in Requests :
                  pc[r] = "manage" /\ sid[r] = s /\ who[r] \notin Admins(s)]_vars

\* A storage whose admins are gone, with no request left that was checked
\* before.
Lost(s) ==
    /\ s \in known
    /\ Admins(s) = {}
    /\ \A r \in Requests : sid[r] = s => pc[r] # "manage"

\* Such a storage is lost for good: nobody can grant, restrict or delete any
\* more (check_access, access.rs:9-22).
LostForGood ==
    [][\A s \in Storages : Lost(s) =>
          Lost(s)' /\ access'[s] = access[s] /\ chatOf'[s] = chatOf[s]]_vars

=============================================================================
