\* Two threads, user lookups by name and by uid, a static directory,
\* allocation never fails: a slow thread overwrites the entry another
\* thread just refreshed with the older answer it fetched earlier.
CONSTANTS
    Threads = {t1, t2}
    UserNames = {"alice"}
    GroupNames = {"staff"}
    Principals = {"alice@R"}
    Ids = {1, 2}
    Absent = Absent
    LongValue = LongValue
    NotNum = NotNum
    Garbage = Garbage
    DirStates <- MCStatic
    TTL = 2
    MaxTime = 3
    MaxEntries = 2
    AllocCanFail = FALSE
    Ops <- MCNameUidOps
    Backend = "ldap"
    LocalDomain = "d"
    VAL_LEN = 8
    LongKey = LongKey
    NameLen = 8
    RecordFetches = TRUE
SPECIFICATION Spec
INVARIANT RefreshWithinTTL
