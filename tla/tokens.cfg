\* Two tasks that want the token of one bot.
SPECIFICATION FairSpec
CONSTANTS
    c1 = c1
    c2 = c2
    b1 = b1
    u1 = u1
    u2 = u2
    u3 = u3
    u4 = u4
    NoUsage = NoUsage
    NoBot = NoBot
    Callers = {c1, c2}
    Bots = {b1}
    Usages = {u1, u2, u3, u4}
    Limit = 1
    MaxRestarts = 1
    Faults = {"database"}
INVARIANTS
    TokenInv
    OvershootBounded
PROPERTIES
    KeptForAMinute
    SomebodyServed
