\* One thread, all six lookups, a directory with an entry for every error
\* path: missing required attributes, values too long, non-numbers, and
\* keys two entries share.
CONSTANTS
    Threads = {t1}
    UserNames = {"alice", "bob", "carol", "dave", LongKey}
    GroupNames = {"staff", "wheel", "users"}
    Principals = {"alice@R", "carol@R", "dave@R"}
    Ids = {1, 2, 3}
    Absent = Absent
    LongValue = LongValue
    NotNum = NotNum
    Garbage = Garbage
    DirStates <- MCErrors
    TTL = 2
    MaxTime = 2
    MaxEntries = 3
    AllocCanFail = TRUE
    Ops <- MCAllOps
    Backend = "ldap"
    LocalDomain = "d"
    VAL_LEN = 8
    LongKey = LongKey
    NameLen = 5
    RecordFetches = TRUE
SPECIFICATION Spec
INVARIANT TypeOK
PROPERTY ImplementsFacade
INVARIANT RefreshWithinTTL
