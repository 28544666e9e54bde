-------------------------------- MODULE Idmap --------------------------------
(***************************************************************************)
(* The identity mapper of src/daemon/idmap.c: the six public lookups, the  *)
(* two TTL caches (users, groups) guarded by SRW locks, and the LDAP query *)
(* with its required/optional attribute checks and attribute parsing.      *)
(*                                                                         *)
(* Each thread runs one lookup at a time:                                  *)
(*   idle --cache_lookup--> done            (fresh hit)                    *)
(*   idle --cache_lookup--> query           (miss or stale hit)            *)
(*   query --idmap_query_attrs + parse--> insert | done                    *)
(*   insert --cache_insert--> done --return--> idle                        *)
(* cache_lookup and cache_insert hold the cache's SRW lock for their whole *)
(* body, so each is one atomic step.  Between them the thread holds no     *)
(* lock: other threads and the clock may move.                             *)
(*                                                                         *)
(* The directory is the environment: it can change on every clock tick.    *)
(***************************************************************************)
EXTENDS Integers, Sequences, SequencesExt

CONSTANTS
    Threads,        \* daemon threads calling the mapper concurrently
    UserNames,      \* user names a caller may ask for
    GroupNames,     \* group names a caller may ask for
    Principals,     \* principals a caller may ask for
    Ids,            \* uids and gids a caller may ask for
    Absent,         \* an LDAP attribute the entry does not carry
    LongValue,      \* a string value of VAL_LEN or more characters
    NotNum,         \* a uid/gidNumber value parse_uint() rejects
    Garbage,        \* contents of an uninitialized stack struct
    DirStates,      \* the directory contents the server may hold
    TTL,            \* config.cache_ttl, in clock ticks
    MaxTime,        \* bound on the relative clock
    MaxEntries,     \* bound on entries per cache list (memory bound)
    AllocCanFail,   \* whether calloc() in entry_alloc may fail
    Ops,            \* the public lookups the threads call
    RecordFetches,  \* keep the fetched history (only RefreshWithinTTL reads it)
    Backend,        \* "ldap", or "cygwin" (NFS41_DRIVER_FEATURE_IDMAPPER_CYGWIN)
    LocalDomain,    \* config.localdomain_name
    VAL_LEN,        \* size of the name buffers, terminating NUL included
    LongKey,        \* a name or principal too long for an LDAP filter
    NameLen         \* len of the buffer uid_to_name's caller passes

Klasses == {"user", "group"}

\* struct idmap_lookup of each public operation: the cache/LDAP class,
\* the attribute that is both the LDAP filter attribute and the field the
\* list comparator (username_cmp, uid_cmp, ...) looks at, and the type the
\* filter renders the value as.  Each function
\* fills in the lookup, runs idmap_lookup_user/group and copies the answer
\* out (idmap_return).
nfs41_idmap_name_to_uid      == [klass |-> "user",  attr |-> "username",  type |-> "STR"]
nfs41_idmap_name_to_ids      == [klass |-> "user",  attr |-> "username",  type |-> "STR"]
nfs41_idmap_uid_to_name      == [klass |-> "user",  attr |-> "uid",       type |-> "INT"]
nfs41_idmap_principal_to_ids == [klass |-> "user",  attr |-> "principal", type |-> "STR"]
nfs41_idmap_group_to_gid     == [klass |-> "group", attr |-> "name",      type |-> "STR"]
nfs41_idmap_gid_to_group     == [klass |-> "group", attr |-> "gid",       type |-> "INT"]

Lookup ==
    [name_to_uid      |-> nfs41_idmap_name_to_uid,
     name_to_ids      |-> nfs41_idmap_name_to_ids,
     uid_to_name      |-> nfs41_idmap_uid_to_name,
     principal_to_ids |-> nfs41_idmap_principal_to_ids,
     group_to_gid     |-> nfs41_idmap_group_to_gid,
     gid_to_group     |-> nfs41_idmap_gid_to_group]

AllOps == DOMAIN Lookup

KeysOf(attr) ==
    CASE attr = "username"     -> UserNames
      [] attr = "principal"    -> Principals
      [] attr \in {"uid", "gid"} -> Ids
      [] attr = "name"         -> GroupNames

\* The attributes idmap_lookup_user/group request, and which are optional.
Requested == [user |-> {"username", "principal", "uid", "gid"},
              group |-> {"name", "gid"}]
Optional == [user |-> {"principal"}, group |-> {}]

\* The fields of struct idmap_user / struct idmap_group.
Fields == [user |-> Requested.user \cup {"last"},
           group |-> Requested.group \cup {"last"}]

\* Directory entries as the server returns them: any short string, a
\* LongValue or Absent for a string attribute.
StrVal == STRING \cup {Absent, LongValue}
NumVal == Ids \cup {Absent, NotNum}
UserRec == [username: StrVal, principal: StrVal, uid: NumVal, gid: NumVal]
GroupRec == [name: StrVal, gid: NumVal]
Directory == [user: SUBSET UserRec, group: SUBSET GroupRec]

\* Cache entries: every field filled in, principal "" when absent.
UserEntry == [username: STRING, principal: STRING,
              uid: Ids, gid: Ids, last: 0..MaxTime]
GroupEntry == [name: STRING, gid: Ids, last: 0..MaxTime]
Entry(k) == IF k = "user" THEN UserEntry ELSE GroupEntry

ASSUME Ops \subseteq AllOps /\ Ops # {}
ASSUME DirStates \subseteq Directory /\ DirStates # {}
ASSUME TTL \in Nat /\ MaxTime \in Nat /\ MaxEntries \in Nat \ {0}
ASSUME AllocCanFail \in BOOLEAN /\ RecordFetches \in BOOLEAN
ASSUME Backend \in {"ldap", "cygwin"} /\ LocalDomain \in STRING /\ VAL_LEN \in Nat \ {0}
ASSUME NameLen \in Nat \ {0}

VARIABLES
    now,      \* UTIL_GETRELTIME()
    dir,      \* what the LDAP server holds now
    hist,     \* hist[s+1] = dir at time s (what a blocked search may answer from)
    cache,    \* cache[k]: the list of context->users / context->groups, head first
    pc,       \* where each thread is in its lookup
    lk,       \* the lookup each thread is running: [op, key]
    buf,      \* the thread's local struct idmap_user / idmap_group
    status,   \* the thread's status variable
    start,    \* time at which the thread's lookup consulted the cache
    fetched   \* per thread, the last backend answer it put in the cache

env == <<now, dir, hist>>
vars == <<now, dir, hist, cache, pc, lk, buf, status, start, fetched>>

NoFetch == [attr |-> "none", key |-> Garbage, at |-> -1]

GarbageBuf(k) == [f \in Fields[k] |-> Garbage]

Klass(t) == Lookup[lk[t].op].klass
Attr(t) == Lookup[lk[t].op].attr

\* History: thread t has just put the answer it fetched into the cache.
Fetch(t) ==
    IF RecordFetches
    THEN [fetched EXCEPT ![t] = [attr |-> Attr(t), key |-> lk[t].key, at |-> buf[t].last]]
    ELSE fetched

\* list_search() with the lookup's comparator: index of the first match
\* from the head, 0 when none matches.
list_search(k, op, key) ==
    SelectInSeq(cache[k], LAMBDA e : e[Lookup[op].attr] = key)

\* user_cache_copy / group_cache_copy: every field of src, the stamp
\* included, onto dst (the StringCchCopyA calls cannot truncate: the
\* source strings come from VAL_LEN buffers).
\* Mutant: the principal is not copied.
entry_copy_noprincipal(dst, src) ==
    IF "principal" \in DOMAIN src THEN [src EXCEPT !.principal = dst.principal]
    ELSE src

entry_copy(dst, src) == [f \in DOMAIN src |-> src[f]]

\* The zeroed struct user_cache_alloc / group_cache_alloc calloc()s.
CallocEntry(k) ==
    [f \in Fields[k] |-> IF f \in {"username", "principal", "name"} THEN "" ELSE 0]

\* A required attribute is missing from the LDAP entry.
Missing(k, r) == \E a \in Requested[k] \ Optional[k] : r[a] = Absent

\* The attribute parsing of idmap_lookup_user / idmap_lookup_group, field
\* by field into the local struct b, stopping at the first failure (the
\* fields written before it stay written).  StringCchCopyA fails on a
\* value of VAL_LEN or more; parse_uint fails on a non-number.  On success
\* the struct is stamped with UTIL_GETRELTIME() at the time of the parse.
ParseUser(b, r, time) ==
    LET b1 == [b EXCEPT !.username = r.username]
        b2 == [b1 EXCEPT !.principal =
                  IF r.principal = Absent THEN "" ELSE r.principal]
        b3 == [b2 EXCEPT !.uid = r.uid]
    IN  IF r.username = LongValue THEN [status |-> "BUFFER_OVERFLOW", buf |-> b1]
        ELSE IF r.principal = LongValue
             THEN [status |-> "BUFFER_OVERFLOW", buf |-> b2]
        ELSE IF r.uid = NotNum THEN [status |-> "INVALID_PARAMETER", buf |-> b2]
        ELSE IF r.gid = NotNum THEN [status |-> "INVALID_PARAMETER", buf |-> b3]
        ELSE [status |-> "NO_ERROR",
              buf |-> [b3 EXCEPT !.gid = r.gid, !.last = time]]

ParseGroup(b, r, time) ==
    LET b1 == [b EXCEPT !.name = r.name]
    IN  IF r.name = LongValue THEN [status |-> "BUFFER_OVERFLOW", buf |-> b1]
        ELSE IF r.gid = NotNum THEN [status |-> "INVALID_PARAMETER", buf |-> b1]
        ELSE [status |-> "NO_ERROR",
              buf |-> [b1 EXCEPT !.gid = r.gid, !.last = time]]

Parse(k, b, r, time) ==
    IF k = "user" THEN ParseUser(b, r, time) ELSE ParseGroup(b, r, time)

\* if ((status == 0) && context->config.cache_ttl): on to cache_insert,
\* else straight to out.
AfterQuery(st) == IF st = "NO_ERROR" /\ TTL # 0 THEN "insert" ELSE "done"

\* idmap_filter: StringCchPrintfA of (&(objectClass=%s)(%s=%s)) into
\* FILTER_LEN (1024) bytes.  With class and attribute names of at most
\* NAME_LEN - 1 characters, a %u filter needs at most 20 + 31 + 31 + 10
\* characters and always fits; a %s filter fails for a long enough key.
FilterFits(op, key) == Lookup[op].type = "INT" \/ key # LongKey

\* The entries the search filter (&(objectClass=k)(attr=key)) selects in
\* directory d.
Matches(d, k, attr, key) == {r \in d[k] : r[attr] = key}

\* ldap_search_st (and, in the Cygwin build, the getent child process)
\* blocks: the answer reflects the directory at some moment between the
\* thread's cache_lookup and now, when the thread parses and stamps it.
SearchedDirs(t) == {hist[s + 1] : s \in start[t]..now}

\* The Cygwin backend.  snprintf(buf, VAL_LEN, "%s@%s", a, b): the result
\* is cut to VAL_LEN - 1 characters.
Trunc(s) == IF Len(s) < VAL_LEN THEN s ELSE SubSeq(s, 1, VAL_LEN - 1)
Synth(a, b) == Trunc(a \o "@" \o b)

\* strchr(search_name, '@') and *s = '\0': the part before the first '@'.
StripAt(s) ==
    LET at == {i \in 1..Len(s) : SubSeq(s, i, i) = "@"}
    IN  IF at = {} THEN s ELSE SubSeq(s, 1, Min(at) - 1)

\* The accounts cygwin_getent_passwd / cygwin_getent_group resolve the
\* lookup to: by name, by the name before the '@' of a principal, or by
\* the decimal rendering of an id.
CygwinMatches(d, k, attr, key) ==
    CASE attr = "username"  -> {r \in d.user : r.username = key}
      [] attr = "principal" -> {r \in d.user : r.username = StripAt(key)}
      [] attr = "uid"       -> {r \in d.user : r.uid = key}
      [] attr = "name"      -> {g \in d.group : g.name = key}
      [] attr = "gid"       -> {g \in d.group : g.gid = key}

\* Mutant: the uid path stores the account's uid as its gid.
CygwinEntry_uidgid(k, attr, key, r, time) ==
    IF k = "group" THEN [name |-> r.name, gid |-> r.gid, last |-> time]
    ELSE [username |-> r.username,
          principal |-> Synth(IF attr = "principal" THEN key ELSE r.username,
                              LocalDomain),
          uid |-> r.uid, gid |-> IF attr = "uid" THEN r.uid ELSE r.gid,
          last |-> time]

\* The struct the Cygwin branch fills in for account r.  The principal is
\* synthesized from the account name, except on the principal path, which
\* synthesizes it from lookup->value (the principal itself).
CygwinEntry(k, attr, key, r, time) ==
    IF k = "group" THEN [name |-> r.name, gid |-> r.gid, last |-> time]
    ELSE [username |-> r.username,
          principal |-> Synth(IF attr = "principal" THEN key ELSE r.username,
                              LocalDomain),
          uid |-> r.uid, gid |-> r.gid, last |-> time]

\* The principal path succeeds only if strcmp(principal_name, lookup->value)
\* finds the synthesized principal equal to the lookup's.
CygwinAccepts(k, attr, key, r) ==
    attr = "principal" => Synth(key, LocalDomain) = key

-----------------------------------------------------------------------------
Init ==
    /\ now = 0
    /\ dir \in DirStates
    /\ hist = <<dir>>
    /\ cache = [k \in Klasses |-> <<>>]
    /\ pc = [t \in Threads |-> "idle"]
    /\ lk = [t \in Threads |-> [op |-> "none", key |-> Garbage]]
    /\ buf = [t \in Threads |-> Garbage]
    /\ status = [t \in Threads |-> "NO_ERROR"]
    /\ start = [t \in Threads |-> 0]
    /\ fetched = [t \in Threads |-> NoFetch]

\* A public lookup enters idmap_lookup_user/group and cache_lookup() finds
\* an entry younger than cache_ttl: its copy is the answer.
cache_lookup_hit(t, op, key) ==
    LET k == Lookup[op].klass
        i == list_search(k, op, key)
    IN  /\ pc[t] = "idle"
        /\ i # 0
        /\ now - cache[k][i].last < TTL
        /\ pc' = [pc EXCEPT ![t] = "done"]
        /\ lk' = [lk EXCEPT ![t] = [op |-> op, key |-> key]]
        /\ buf' = [buf EXCEPT ![t] = entry_copy(GarbageBuf(k), cache[k][i])]
        /\ status' = [status EXCEPT ![t] = "NO_ERROR"]
        /\ start' = [start EXCEPT ![t] = now]
        /\ UNCHANGED <<env, cache, fetched>>

\* No entry, or an expired one (copied into the local struct anyway): the
\* lookup goes on to the LDAP server.
cache_lookup_miss(t, op, key) ==
    LET k == Lookup[op].klass
        i == list_search(k, op, key)
    IN  /\ pc[t] = "idle"
        /\ IF i = 0 THEN TRUE ELSE now - cache[k][i].last >= TTL
        /\ pc' = [pc EXCEPT ![t] = "query"]
        /\ lk' = [lk EXCEPT ![t] = [op |-> op, key |-> key]]
        /\ buf' = [buf EXCEPT ![t] = IF i = 0 THEN GarbageBuf(k)
                                   ELSE entry_copy(GarbageBuf(k), cache[k][i])]
        /\ status' = [status EXCEPT ![t] = "NO_ERROR"]
        /\ start' = [start EXCEPT ![t] = now]
        /\ UNCHANGED <<env, cache, fetched>>

\* idmap_query_attrs: the filter does not fit, ERROR_BUFFER_OVERFLOW
\* before any query is sent.
idmap_filter_overflow(t) ==
    /\ pc[t] = "query"
    /\ Backend = "ldap"
    /\ ~FilterFits(lk[t].op, lk[t].key)
    /\ status' = [status EXCEPT ![t] = "BUFFER_OVERFLOW"]
    /\ pc' = [pc EXCEPT ![t] = "done"]
    /\ UNCHANGED <<env, cache, lk, buf, start, fetched>>

\* idmap_query_attrs fails before any entry is read: ldap_search_st fails,
\* or the search returns no entry (LDAP_NO_RESULTS_RETURNED, mapped to
\* NOT_FOUND).
idmap_query_attrs_error(t) ==
    /\ pc[t] = "query"
    /\ Backend = "ldap"
    /\ FilterFits(lk[t].op, lk[t].key)
    /\ \E d \in SearchedDirs(t) :
         \E err \in {"LDAP_ERROR"} \cup
                    (IF Matches(d, Klass(t), Attr(t), lk[t].key) = {}
                     THEN {"NOT_FOUND"} ELSE {}) :
           status' = [status EXCEPT ![t] = err]
    /\ pc' = [pc EXCEPT ![t] = "done"]
    /\ UNCHANGED <<env, cache, lk, buf, start, fetched>>

\* Mutant: the entry is inserted whatever the parse status.
idmap_query_attrs_entry_anystatus(t) ==
    LET k == Klass(t)
    IN  /\ pc[t] = "query"
        /\ Backend = "ldap"
        /\ FilterFits(lk[t].op, lk[t].key)
        /\ \E d \in SearchedDirs(t) : \E r \in Matches(d, k, Attr(t), lk[t].key) :
             LET res == IF Missing(k, r)
                        THEN [status |-> "NO_SUCH_ATTRIBUTE", buf |-> buf[t]]
                        ELSE Parse(k, buf[t], r, now)
             IN  /\ status' = [status EXCEPT ![t] = res.status]
                 /\ buf' = [buf EXCEPT ![t] = res.buf]
                 /\ pc' = [pc EXCEPT ![t] = IF TTL # 0 THEN "insert" ELSE "done"]
        /\ UNCHANGED <<env, cache, lk, start, fetched>>

\* The search returns entries; the first one (server order) is checked for
\* required attributes and parsed into the local struct, stamped with the
\* time of the parse, which may be later than the moment the server
\* answered from (SearchedDirs).  On success with caching enabled the thread goes on to
\* cache_insert.
idmap_query_attrs_entry(t) ==
    LET k == Klass(t)
    IN  /\ pc[t] = "query"
        /\ Backend = "ldap"
        /\ FilterFits(lk[t].op, lk[t].key)
        /\ \E d \in SearchedDirs(t) : \E r \in Matches(d, k, Attr(t), lk[t].key) :
             LET res == IF Missing(k, r)
                        THEN [status |-> "NO_SUCH_ATTRIBUTE", buf |-> buf[t]]
                        ELSE Parse(k, buf[t], r, now)
             IN  /\ status' = [status EXCEPT ![t] = res.status]
                 /\ buf' = [buf EXCEPT ![t] = res.buf]
                 /\ pc' = [pc EXCEPT ![t] = AfterQuery(res.status)]
        /\ UNCHANGED <<env, cache, lk, start, fetched>>

\* The Cygwin branch of idmap_lookup_user/group: the local account is
\* found and (on the principal path) the principal check passes; the
\* struct is filled in and stamped.  With caching enabled the thread goes
\* on to cache_insert.
cygwin_lookup_found(t) ==
    LET k == Klass(t)
    IN  /\ pc[t] = "query"
        /\ Backend = "cygwin"
        /\ \E d \in SearchedDirs(t) : \E r \in CygwinMatches(d, k, Attr(t), lk[t].key) :
             /\ CygwinAccepts(k, Attr(t), lk[t].key, r)
             /\ buf' = [buf EXCEPT ![t] = CygwinEntry(k, Attr(t), lk[t].key, r, now)]
        /\ status' = [status EXCEPT ![t] = "NO_ERROR"]
        /\ pc' = [pc EXCEPT ![t] = AfterQuery("NO_ERROR")]
        /\ UNCHANGED <<env, cache, lk, start, fetched>>

\* status = ERROR_NOT_FOUND: no such local account, or the principal check
\* fails.  The local struct is left as cache_lookup filled it.
cygwin_lookup_not_found(t) ==
    LET k == Klass(t)
    IN  /\ pc[t] = "query"
        /\ Backend = "cygwin"
        /\ \E d \in SearchedDirs(t) :
              \A r \in CygwinMatches(d, k, Attr(t), lk[t].key) :
                 ~CygwinAccepts(k, Attr(t), lk[t].key, r)
        /\ status' = [status EXCEPT ![t] = "NOT_FOUND"]
        /\ pc' = [pc EXCEPT ![t] = "done"]
        /\ UNCHANGED <<env, cache, lk, buf, start, fetched>>

\* Mutant: an entry already in the cache is left as it is.
cache_insert_overwrite_keep(t) ==
    /\ pc[t] = "insert"
    /\ list_search(Klass(t), lk[t].op, lk[t].key) # 0
    /\ fetched' = Fetch(t)
    /\ pc' = [pc EXCEPT ![t] = "done"]
    /\ UNCHANGED <<env, cache, lk, buf, status, start>>

\* cache_insert, under the exclusive lock: overwrite the first entry the
\* comparator matches ...
cache_insert_overwrite(t) ==
    LET k == Klass(t)
        i == list_search(k, lk[t].op, lk[t].key)
    IN  /\ pc[t] = "insert"
        /\ i # 0
        /\ cache' = [cache EXCEPT ![k][i] = entry_copy(@, buf[t])]
        /\ fetched' = Fetch(t)
        /\ pc' = [pc EXCEPT ![t] = "done"]
        /\ UNCHANGED <<env, lk, buf, status, start>>

\* Mutant: a new entry is added without searching for an existing one.
cache_insert_new_nosearch(t) ==
    LET k == Klass(t)
    IN  /\ pc[t] = "insert"
        /\ Len(cache[k]) < MaxEntries
        /\ cache' = [cache EXCEPT ![k] = <<entry_copy(CallocEntry(k), buf[t])>> \o @]
        /\ fetched' = Fetch(t)
        /\ pc' = [pc EXCEPT ![t] = "done"]
        /\ UNCHANGED <<env, lk, buf, status, start>>

\* ... or allocate a new entry and add it at the head of the list ...
cache_insert_new(t) ==
    LET k == Klass(t)
    IN  /\ pc[t] = "insert"
        /\ list_search(k, lk[t].op, lk[t].key) = 0
        /\ Len(cache[k]) < MaxEntries
        /\ cache' = [cache EXCEPT ![k] = <<entry_copy(CallocEntry(k), buf[t])>> \o @]
        /\ fetched' = Fetch(t)
        /\ pc' = [pc EXCEPT ![t] = "done"]
        /\ UNCHANGED <<env, lk, buf, status, start>>

\* ... or fail to allocate it.  The caller ignores cache_insert's status:
\* the lookup still succeeds.
cache_insert_alloc_fail(t) ==
    LET k == Klass(t)
    IN  /\ pc[t] = "insert"
        /\ list_search(k, lk[t].op, lk[t].key) = 0
        /\ AllocCanFail \/ Len(cache[k]) >= MaxEntries
        /\ pc' = [pc EXCEPT ![t] = "done"]
        /\ UNCHANGED <<env, cache, lk, buf, status, start, fetched>>

\* nfs41_idmap_uid_to_name copies the user name, nfs41_idmap_gid_to_group
\* the group name, into the caller's buffer of NameLen bytes:
\* StringCchCopyA fails when the name and its NUL do not fit.
\* Mutant: the terminating NUL is not counted.
UidToNameOverflow_nonul(b) == Len(b.username) > NameLen

UidToNameOverflow(b) == Len(b.username) >= NameLen

GidToGroupOverflow(b) == Len(b.name) >= NameLen

\* The public function's status once the answer is copied out: a failed
\* lookup returns its status; a failed copy ERROR_BUFFER_OVERFLOW.  The
\* other functions copy numbers.
CopyOut(op, st, b) ==
    IF /\ st = "NO_ERROR"
       /\ \/ op = "uid_to_name" /\ UidToNameOverflow(b)
          \/ op = "gid_to_group" /\ GidToGroupOverflow(b)
    THEN "BUFFER_OVERFLOW" ELSE st

\* The public function copies the answer out (CopyOut) and returns the
\* status; the thread is free for its next upcall.
idmap_return(t) ==
    /\ pc[t] = "done"
    /\ pc' = [pc EXCEPT ![t] = "idle"]
    /\ lk' = [lk EXCEPT ![t] = [op |-> "none", key |-> Garbage]]
    /\ buf' = [buf EXCEPT ![t] = Garbage]
    /\ status' = [status EXCEPT ![t] = "NO_ERROR"]
    /\ start' = [start EXCEPT ![t] = 0]
    /\ UNCHANGED <<env, cache, fetched>>

\* The clock advances; the directory may change with it.
Tick ==
    /\ now < MaxTime
    /\ now' = now + 1
    /\ dir' \in DirStates
    /\ hist' = Append(hist, dir')
    /\ UNCHANGED <<cache, pc, lk, buf, status, start, fetched>>

Next ==
    \/ Tick
    \/ \E t \in Threads :
         \/ \E op \in Ops : \E key \in KeysOf(Lookup[op].attr) :
              \/ cache_lookup_hit(t, op, key)
              \/ cache_lookup_miss(t, op, key)
         \/ idmap_filter_overflow(t)
         \/ idmap_query_attrs_error(t)
         \/ idmap_query_attrs_entry(t)
         \/ cygwin_lookup_found(t)
         \/ cygwin_lookup_not_found(t)
         \/ cache_insert_overwrite(t)
         \/ cache_insert_new(t)
         \/ cache_insert_alloc_fail(t)
         \/ idmap_return(t)

Spec == Init /\ [][Next]_vars

-----------------------------------------------------------------------------
TypeOK ==
    /\ now \in 0..MaxTime
    /\ dir \in DirStates
    /\ hist \in Seq(DirStates) /\ Len(hist) = now + 1
    /\ \A k \in Klasses : cache[k] \in Seq(Entry(k))
    /\ pc \in [Threads -> {"idle", "query", "insert", "done"}]
    /\ \A t \in Threads : pc[t] # "idle" =>
          /\ lk[t].op \in Ops
          /\ lk[t].key \in KeysOf(Attr(t))
          /\ start[t] \in 0..now
    /\ \A t \in Threads : pc[t] = "insert" => buf[t] \in Entry(Klass(t))

\* The comparators a cache is searched with, and the key fields they read.
KeyAttrs == [user |-> {"username", "uid", "principal"}, group |-> {"name", "gid"}]

\* No duplicate keys (cache_insert searches again under the exclusive lock
\* before it allocates): while the directory does not change and its keys
\* are unique, no two entries of a cache share a key any comparator
\* searches by, even when several threads miss the same entry at once and
\* all insert it, each through a different comparator.  (An absent
\* principal is cached as "" and is never a lookup key.)
UniqueKeys ==
    \A k \in Klasses : \A i, j \in 1..Len(cache[k]) :
        i < j => \A a \in KeyAttrs[k] :
                    cache[k][i][a] = cache[k][j][a] => cache[k][i][a] = ""

\* Refresh (spec: "with cache_ttl = T > 0, a second identical lookup within
\* T seconds issues zero backend queries"): once a thread has put an answer
\* fetched at time q into the cache, the same lookup by it, begun before
\* q + cache_ttl, is answered from the cache and does not query again.
RefreshWithinTTL ==
    \A t \in Threads :
        /\ pc[t] = "query"
        /\ fetched[t].attr = Attr(t)
        /\ fetched[t].key = lk[t].key
        => start[t] - fetched[t].at >= TTL

\* Cygwin backend, entries agree with the accounts (spec 4.4: a user
\* answer is name, name@localdomain, uid and gid of one local account):
\* every cached user entry, however it was filled in (by name, by
\* principal or by uid) and whichever comparator finds it later, carries
\* the uid, gid and synthesized principal of the account it names.
CachedEntriesAgree ==
    \A i \in 1..Len(cache["user"]) :
        LET e == cache["user"][i]
        IN  \E r \in dir.user :
              /\ r.username = e.username
              /\ r.uid = e.uid /\ r.gid = e.gid
              /\ e.principal = Synth(r.username, LocalDomain)

\* Cygwin backend, principal to identity (spec 4.4: "succeed only if
\* re-synthesizing the principal from the found account reproduces the
\* original principal string exactly"; the strcmp of idmap_lookup_user is
\* there against cross-domain confusion): principal_to_ids of a principal
\* succeeds exactly when it is name@localdomain of a local account, and
\* then answers with that account.
PrincipalToIds ==
    \A t \in Threads :
        pc[t] = "done" /\ lk[t].op = "principal_to_ids" =>
            /\ (status[t] = "NO_ERROR") =
                   \E r \in dir.user : Synth(r.username, LocalDomain) = lk[t].key
            /\ status[t] = "NO_ERROR" =>
                   Synth(buf[t].username, LocalDomain) = lk[t].key

-----------------------------------------------------------------------------
(* Refinement: the threads' lookups, seen from their callers, are calls of *)
(* the facade IdmapFacade.  A thread that is not idle has been called with *)
(* its lookup; once it is done, its status and the fields of its struct    *)
(* (without the stamp) are the answer.                                     *)

\* The errors of a call whatever the directory holds: the search fails,
\* or, first of all, its filter does not fit.
FacadeCallErrors(c) ==
    IF FilterFits(c.op, c.value) THEN {"LDAP_ERROR"} ELSE {"BUFFER_OVERFLOW"}

\* What the caller reads of a struct idmap_user / idmap_group.
AnswerOf(b) == [f \in DOMAIN b \ {"last"} |-> b[f]]

\* The entries of directory d the search filter of call c selects.
FacadeEntries(d, c) ==
    {r \in d[Lookup[c.op].klass] : r[Lookup[c.op].attr] = c.value}

(* What the contract makes of an entry, written from the spec (4.3, 4.5)  *)
(* rather than from the parse above: the required attributes, the bounded *)
(* string fields, the unsigned numbers, the principal optional and empty  *)
(* when absent, and a returned name bounded by the caller's buffer.       *)
SpecRequired == [user |-> {"username", "uid", "gid"}, group |-> {"name", "gid"}]

\* The string a lookup writes into a caller's buffer (spec 6, 7).
OutName == [op \in AllOps |-> CASE op = "uid_to_name"  -> {"username"}
                                 [] op = "gid_to_group" -> {"name"}
                                 [] OTHER               -> {}]

\* The errors entry r may cause for call c (the code reports one of them).
EntryFaults(c, r) ==
    LET k == Lookup[c.op].klass
    IN  (IF \E a \in SpecRequired[k] : r[a] = Absent
         THEN {"NO_SUCH_ATTRIBUTE"} ELSE {})
        \cup (IF \E a \in DOMAIN r : r[a] = LongValue
              THEN {"BUFFER_OVERFLOW"} ELSE {})
        \cup (IF \E a \in DOMAIN r : r[a] = NotNum
              THEN {"INVALID_PARAMETER"} ELSE {})
        \cup (IF \E a \in OutName[c.op] :
                    r[a] \notin {Absent, LongValue} /\ Len(r[a]) >= NameLen
              THEN {"BUFFER_OVERFLOW"} ELSE {})

FacadeFaults(d, c) == UNION {EntryFaults(c, r) : r \in FacadeEntries(d, c)}

\* The answer a faultless entry gives.
SpecAnswer(k, r) ==
    IF k = "group" THEN [name |-> r.name, gid |-> r.gid]
    ELSE [username |-> r.username, uid |-> r.uid, gid |-> r.gid,
          principal |-> IF r.principal = Absent THEN "" ELSE r.principal]

FacadeAnswers(d, c) ==
    {SpecAnswer(Lookup[c.op].klass, r) :
        r \in {r \in FacadeEntries(d, c) : EntryFaults(c, r) = {}}}

CallOf(t) ==
    IF pc[t] = "idle" THEN Garbage
    ELSE [op |-> lk[t].op, value |-> lk[t].key, start |-> start[t]]

ReplyOf(t) ==
    IF pc[t] # "done" THEN Garbage
    ELSE LET st == CopyOut(lk[t].op, status[t], buf[t])
         IN  [status |-> st,
              answer |-> IF st = "NO_ERROR" THEN AnswerOf(buf[t]) ELSE Garbage]

Facade == INSTANCE IdmapFacade
            WITH Keys <- [op \in AllOps |-> KeysOf(Lookup[op].attr)],
                 CallErrors <- FacadeCallErrors,
                 Faults <- FacadeFaults,
                 None <- Garbage,
                 Entries <- FacadeEntries,
                 Answers <- FacadeAnswers,
                 call <- [t \in Threads |-> CallOf(t)],
                 reply <- [t \in Threads |-> ReplyOf(t)]

\* The LDAP build implements the facade's contract (spec 4.5, 8): every
\* step of a lookup -- cache_lookup, the unlocked query and parse,
\* cache_insert, the return -- is a step of IdmapFacade or leaves what the
\* callers see unchanged, so every answer is a whole entry the directory
\* held for the key (never fields of two entries, even when a refresh
\* through one comparator overwrites an entry another comparator finds),
\* every error but a failed search is one an entry for the key causes (or
\* the key's own filter overflow, or the caller's buffer), NOT_FOUND is
\* returned only when the directory held no entry for the key during the
\* call, and a call's key and answer never change under it.
ImplementsFacade == Facade!Spec

=============================================================================
