\* Two host processes one after the other, each with two sinks, two accounts
\* received and two messages to the command window.
SPECIFICATION FairSpec
CONSTANTS
    MaxHosts = 2
    MaxAdvises = 2
    MaxReports = 2
    MaxClicks = 2
INVARIANTS
    TypeOK
    OutlivesCallbacks
PROPERTIES
    IdentityKept
    LoginIsShown
    DisplaySpec
\* The last host has ended and nothing is left to do.
CHECK_DEADLOCK FALSE
