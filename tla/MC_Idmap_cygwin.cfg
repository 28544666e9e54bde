\* Cygwin build, two threads, user lookups by name, uid and principal:
\* entries filled in through each path and found through the others.
CONSTANTS
    Threads = {t1, t2}
    UserNames = {"alice", "bob"}
    GroupNames = {"staff", "wheel"}
    Principals = {"alice@d", "bob@d"}
    Ids = {1, 2}
    Absent = Absent
    LongValue = LongValue
    NotNum = NotNum
    Garbage = Garbage
    DirStates <- MCStatic
    TTL = 2
    MaxTime = 2
    MaxEntries = 2
    AllocCanFail = FALSE
    Ops <- MCUserOps
    Backend = "cygwin"
    LocalDomain = "d"
    VAL_LEN = 8
    LongKey = LongKey
    NameLen = 8
    RecordFetches = FALSE
SPECIFICATION Spec
INVARIANT UniqueKeys
INVARIANT CachedEntriesAgree
