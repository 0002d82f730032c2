\* Two machines, one crash, two server objects: pooled objects are reused
\* with the session and the packets an earlier connection left in them.
SPECIFICATION Spec
CONSTANTS
    m1 = m1
    m2 = m2
    k1 = k1
    k2 = k2
    o1 = o1
    o2 = o2
    o3 = o3
    Machines = {m1, m2}
    Keys = {k1, k2}
    KeyOf <- OwnKeys
    Objects = {o1, o2}
    NoObject = NoObject
    MaxInFlight = 2
    MaxCrashes = 1
SYMMETRY Symmetry
INVARIANTS
    TypeOK
    ExclusiveObjects
    NoStall
    AllowedHasAccount
    LoginNeedsKey
    LoggedInIsQuiet
PROPERTIES
    ConversationSpec
    TimerSpec
\* With every machine logged in or cut off nothing is left to do.
CHECK_DEADLOCK FALSE
