\* Files of up to 2 lines, each any line of up to 3 characters over the
\* characters the parser treats specially or one of a set of realistic
\* lines, in both builds; the owner's lookups add up to 2 cache entries before teardown,
\* after which the system stops.
CONSTANTS
    Lines <- MCAllLines
    MaxLines = 2
    BUF = 8
    Options <- MCOptions
    Width = 4
    TimeoutOpt <- MCTimeout
    MaxEntries = 2
    Builds = {"ldap", "cygwin"}
    LongDomain = TRUE
SPECIFICATION Spec
CHECK_DEADLOCK FALSE
INVARIANT TypeOK
INVARIANT LoadAgrees
INVARIANT NoOrphan
