\* The three threads of the server from start to stop, and connections that
\* come before, during and after every step of it.
SPECIFICATION FairSpec
CONSTANTS
    Connections = {c1, c2, c3}
INVARIANTS
    TypeOK
    NoLostWakeup
    HandoverToLiveLoop
    MainNeverHangs
PROPERTIES
    StopTerminates
    AcceptedIsAttached
    HandoverSpec
