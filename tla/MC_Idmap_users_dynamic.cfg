\* Two threads, user lookups by name and by uid, while the directory swaps
\* the uids of alice and bob on any clock tick.
CONSTANTS
    Threads = {t1, t2}
    UserNames = {"alice", "bob"}
    GroupNames = {"staff"}
    Principals = {"alice@R"}
    Ids = {1, 2}
    Absent = Absent
    LongValue = LongValue
    NotNum = NotNum
    Garbage = Garbage
    DirStates <- MCSwap
    TTL = 2
    MaxTime = 2
    MaxEntries = 1
    AllocCanFail = FALSE
    Ops <- MCNameUidOps
    Backend = "ldap"
    LocalDomain = "d"
    VAL_LEN = 8
    LongKey = LongKey
    NameLen = 8
    RecordFetches = FALSE
SPECIFICATION Spec
PROPERTY ImplementsFacade
