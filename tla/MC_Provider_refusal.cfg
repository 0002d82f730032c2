\* One host process, as small as shows the case.
SPECIFICATION Spec
CONSTANTS
    MaxHosts = 1
    MaxAdvises = 1
    MaxReports = 1
    MaxClicks = 1
PROPERTY
    RefusalIsHarmless
CHECK_DEADLOCK FALSE
