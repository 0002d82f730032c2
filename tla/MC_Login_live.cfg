\* Two machines that share a key, no crash: everybody logs in. No symmetry,
\* which is not sound for liveness.
SPECIFICATION FairSpec
CONSTANTS
    m1 = m1
    m2 = m2
    k1 = k1
    k2 = k2
    o1 = o1
    o2 = o2
    o3 = o3
    Machines = {m1, m2}
    Keys = {k1, k2}
    KeyOf <- SharedKey
    Objects = {o1, o2}
    NoObject = NoObject
    MaxInFlight = 2
    MaxCrashes = 0
\* With every machine logged in or cut off nothing is left to do.
CHECK_DEADLOCK FALSE
PROPERTIES
    EventuallyLoggedIn
