\* The module has no constants and no bounds: its state space is finite.
SPECIFICATION FairSpec
INVARIANTS
    TypeOK
    StartedIsArmed
    NeverSleepsBlind
PROPERTIES
    ServiceSpec
    StartedTimerTicks
\* The client may be destroyed, and nothing runs then.
CHECK_DEADLOCK FALSE
