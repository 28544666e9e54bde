\* An empty configuration file: does create return NO_ERROR only when it
\* has set *context_out?
CONSTANTS
    Lines <- MCEmptyFile
    MaxLines = 1
    BUF = 8
    Options <- MCOptions
    Width = 4
    TimeoutOpt <- MCTimeout
    MaxEntries = 1
    Builds = {"ldap"}
    LongDomain = FALSE
SPECIFICATION Spec
CHECK_DEADLOCK FALSE
INVARIANT CreateResult
