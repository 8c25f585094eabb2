\* Three users, two storage ids for one chat, two requests at the same time.
SPECIFICATION Spec
CONSTANTS
    su = su
    a = a
    b = b
    s1 = s1
    s2 = s2
    c1 = c1
    r1 = r1
    r2 = r2
    NoUser = NoUser
    NoStorage = NoStorage
    NoChat = NoChat
    Users = {su, a, b}
    Superuser = su
    Storages = {s1, s2}
    Chats = {c1}
    Requests = {r1, r2}
    MaxCuts = 1
    MaxFailures = 2
INVARIANTS
    StorageInv
    CreateIsUndone
PROPERTIES
    LastAdminGoesByRace
    LostForGood
