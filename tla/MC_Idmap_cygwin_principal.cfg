\* Cygwin build, one thread: principal_to_ids of bob@localdomain (bob is
\* a local account) and of bob@xyz, another domain, VAL_LEN - 1 long.
CONSTANTS
    Threads = {t1}
    UserNames = {"alice", "bob"}
    GroupNames = {"staff", "wheel"}
    Principals = {"bob@d", "bob@xyz"}
    Ids = {1, 2}
    Absent = Absent
    LongValue = LongValue
    NotNum = NotNum
    Garbage = Garbage
    DirStates <- MCStatic
    TTL = 2
    MaxTime = 2
    MaxEntries = 2
    AllocCanFail = FALSE
    Ops <- MCUserOps
    Backend = "cygwin"
    LocalDomain = "d"
    VAL_LEN = 8
    LongKey = LongKey
    NameLen = 8
    RecordFetches = FALSE
SPECIFICATION Spec
INVARIANT PrincipalToIds
