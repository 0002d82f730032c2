\* One host process, as small as shows the case.
SPECIFICATION Spec
CONSTANTS
    MaxHosts = 1
    MaxAdvises = 1
    MaxReports = 1
    MaxClicks = 1
INVARIANT
    UnAdviseIsHeeded
CHECK_DEADLOCK FALSE
