# TLA+ models of the NFSv4.1 client identity mapper

This directory models `src/daemon/idmap.c`, the identity mapper of the
NFSv4.1 client daemon: it translates between NFS owner/group strings
(user names, group names, `user@domain` principals) and local numeric
uids/gids by querying an LDAP directory, and keeps two time-bounded caches
so that not every translation costs a round trip.  The other files under
`src/` (`src/mount/options.h`, `src/sys/wmlkm.h`) are declarations only.

## 1. Inventory

### Components

| Component | Code | State it keeps | Operations |
|---|---|---|---|
| Configuration model | `g_options`, `config_defaults`, `config_load`, `config_parse_pair`, `config_find_option`, `parse_uint` (idmap.c:81-385) | `struct idmap_config`: hostname, port, LDAP version, timeout, class and attribute names, base DN, `cache_ttl` | parse defaults, read `C:\etc\ms-nfs41-idmap.conf` line by line, apply options in order, abort on the first bad line |
| Generic TTL cache | `struct idmap_cache`, `cache_ops`, `cache_init`, `cache_lookup`, `cache_insert`, `cache_cleanup` (388-474) | a linked list of entries, head first, and an SRW lock | lookup (shared lock, copy out), insert (exclusive lock, search by the comparator, overwrite or allocate and prepend), cleanup |
| User / group entries | `struct idmap_user`, `struct idmap_group`, `*_cache_alloc/free/copy` (477-546) | username, principal, uid, gid, `last_updated`; name, gid, `last_updated` | allocate, free, copy all fields |
| LDAP backend | `idmap_filter`, `idmap_query_attrs` (558-656) | the shared `LDAP *` handle | build `(&(objectClass=C)(A=V))`, `ldap_search_st` subtree search, take the first entry, fetch required/optional attributes |
| Lookup core | `idmap_lookup_user`, `idmap_lookup_group` (658-932) | the caller's local `struct idmap_user/group` | cache check with TTL, query, parse attributes field by field, stamp, insert when `cache_ttl != 0` |
| Cygwin backend (build option `NFS41_DRIVER_FEATURE_IDMAPPER_CYGWIN`) | 719-815, 872-920 | none | resolve by name, principal or id through `cygwin_getent_passwd/group`, synthesize `name@localdomain` |
| Lifecycle | `nfs41_idmap_create`, `nfs41_idmap_free` (934-1021) | the context | allocate, copy local domain, init caches, load config, `ldap_init`, set version and time limit; free on any failure |
| Public lookups | `nfs41_idmap_name_to_uid`, `_name_to_ids`, `_uid_to_name`, `_principal_to_ids`, `_group_to_gid`, `_gid_to_group` and the comparators `username_cmp`, `uid_cmp`, `principal_cmp`, `group_cmp`, `gid_cmp` (1024-1293) | none | fill a `struct idmap_lookup` (class, attribute, type, comparator, key), run the lookup core, copy the answer out |

### How they interact

The daemon's upcall threads call the public lookups concurrently.  Each
lookup runs `cache_lookup` under the shared lock of one cache, releases it,
checks the copy's age against `cache_ttl` **outside the lock**, then (on a
miss or stale hit) issues an LDAP search on the one shared handle with no
lock at all, parses the answer into its local struct, stamps it, and
finally runs `cache_insert` under the exclusive lock, which searches again
with the lookup's comparator and overwrites the first match or prepends a
new entry.  Users are searched by three comparators (name, uid,
principal) over one list; groups by two (name, gid).  The directory can
change at any time between these steps.

### What is hard

* Interleavings of threads between `cache_lookup`, the unlocked query and
  `cache_insert`: two threads missing the same user, a slow thread
  overwriting a fresher entry with an older answer.
* One list searched by several keys: an insert through the uid comparator
  overwrites an entry the name comparator still finds; a changing
  directory leaves several entries for one uid.
* Partial failure: parsing writes the local struct field by field, over a
  stale cached copy; only the `status == 0` guard keeps a half-written
  struct out of the cache.
* Time: the `<` of the TTL test, stamps taken after the blocking search
  returns (so an answer can be older than its stamp), entries never
  evicted.
* Numeric conversions: `strtoul` behind `parse_uint`, `INT cache_ttl`
  filled through a `UINT`, the signed subtraction in `uid_cmp`.

### Properties that make each component correct

* Cache: no two entries share a key while the directory is stable
  (`UniqueKeys`); an entry is always complete (`TypeOK`).
* Lookup core + cache: a lookup as a whole behaves as the facade contract
  `IdmapFacade` describes: every successful answer is one whole entry the
  directory held for the key, each error is justified by the call, by an
  entry the directory held for the key or by the caller's buffer, and
  `NOT_FOUND` means the key was absent during the call
  (`ImplementsFacade`, a refinement); an answer just fetched is reused for `cache_ttl`
  ticks (`RefreshWithinTTL`, the spec's "second identical lookup within T
  seconds issues zero backend queries").
* `parse_uint`: accepts exactly the full, non-overflowing unsigned
  decimals (`AcceptsOnlyDecimal`, `AcceptsEveryFit`, `DigitStringsExact`).
* Configuration: `config_init` accepts exactly the files the spec's
  grammar accepts and ends with the options their last assignments give
  (`LoadAgrees`).
* Lifecycle: no LDAP handle or cache entry outlives the context,
  and a context left allocated was handed to the caller (`NoOrphan`);
  create returns `NO_ERROR` exactly when it set `*context_out`
  (`CreateResult`).
* Cygwin backend: `principal_to_ids` succeeds exactly for
  `name@localdomain` of a local account and answers with that account
  (`PrincipalToIds`), and cached entries agree with the accounts
  (`CachedEntriesAgree`).

The hazards, each at its line, are listed in `PROJECT.json`.

## 2. Plan

1. **`Idmap`** (done): public lookups, both caches, LDAP query, parsing, as
   concurrent threads with a clock and a changing directory.
2. **`ParseUint`** (done): `strtoul` and `parse_uint` over short strings
   with the word width reduced, checked against "unsigned decimal within
   range", with errno carried between calls.
3. **Cygwin backend** (done, in `Idmap` with `Backend = "cygwin"`): the
   Cygwin lookups with `snprintf` truncation at `VAL_LEN`.
4. **`ConfigParse`** (done): `config_init` as a state machine over a file
   of lines read through a short `fgets` buffer, checked against a loader
   written from the spec's grammar.
5. **`IdmapLifecycle`** (done): `nfs41_idmap_create`'s steps and error
   paths composed with `ConfigParse`, and `nfs41_idmap_free`.
6. **`IdmapFacade`** (done): the facade contract (a call is answered with
   an error or with an answer the directory gave for the key;
   every error justified by the call or by an entry the directory held;
   `NOT_FOUND` only if the directory lacked the key during the call), and
   `Idmap` shown to refine it (`ImplementsFacade`).
7. Liveness of lookups (not done): `ldap_search_st` is called with a NULL
   timeout (idmap.c:620), so nothing in the code bounds how long a search
   waits; "every lookup returns" holds only under a fairness assumption on
   the server that the code does not justify.

## 3. Modules

### `Idmap.tla`

Constants: `Threads`; the keys callers ask for (`UserNames`, `GroupNames`,
`Principals`, `Ids`); value abstractions `Absent` (attribute missing),
`LongValue` (string of `VAL_LEN` or more characters, rejected by
`StringCchCopyA`), `NotNum` (rejected by `parse_uint`), `Garbage`
(uninitialized stack memory); `DirStates` (the directory contents the
server may hold); `TTL` (`cache_ttl`); bounds `MaxTime`, `MaxEntries`;
`AllocCanFail`; `Ops` (which public lookups the threads call);
`RecordFetches` (whether to keep the history `RefreshWithinTTL` reads);
`LongKey` (a name too long for the LDAP filter); `NameLen` (the `len` of
the buffer the caller of `uid_to_name` or `gid_to_group` passes).

State and correspondence:

| Variable | Code |
|---|---|
| `cache[k]` | `context->users.head` / `context->groups.head`, head first |
| `pc[t]`, `lk[t]` | where thread `t` is in `idmap_lookup_user/group`, and its `struct idmap_lookup` (operation and key) |
| `buf[t]`, `status[t]` | the local `struct idmap_user/group` and `status` |
| `now`, `dir` | `UTIL_GETRELTIME()` and the LDAP server's contents |
| `hist`, `start` | the directory per tick and when the thread's lookup began: a blocked search answers from the directory at some moment in between (`SearchedDirs`) |
| `fetched` | history for `RefreshWithinTTL`: the last answer the thread cached |

Actions: `cache_lookup_hit` / `cache_lookup_miss` (lines 674-685 with
`cache_lookup`), `idmap_query_attrs_error` (filter overflow, search
failure, no entry), `idmap_query_attrs_entry` (first entry in server
order, required attributes, the parse of lines 689-718 / 856-871 with its
partial writes, stamp, and the `status == 0 && cache_ttl` decision),
with `entry_copy` (`user_cache_copy` / `group_cache_copy`) for every copy
into or out of the cache,
`cache_insert_overwrite` / `cache_insert_new` / `cache_insert_alloc_fail`
(lines 424-453), `idmap_return`, and the environment's `Tick` (clock
advances, directory may change).  `cache_lookup` and `cache_insert` are
atomic steps because they hold the SRW lock for their whole body.  The
search, parse and stamp are one step of the thread because they touch no
shared state, but the server's answer is not taken at that instant:
`ldap_search_stA` blocks, so the entry comes from the directory at any
moment between the thread's `cache_lookup` (`start[t]`) and the parse
(`now`), and the stamp (line 718) is the time of the parse.  A thread
delayed in or after the search thus caches an answer older than its
stamp.

The Cygwin build (`Backend = "cygwin"`) replaces the two LDAP actions by
`cygwin_lookup_found` and `cygwin_lookup_not_found`, the `#else` branches
of `idmap_lookup_user/group` (lines 719-815, 872-920): `CygwinMatches` is
`cygwin_getent_passwd/group` by name, by the part of a principal before
its first `@` (`StripAt`, lines 752-757) or by id; `CygwinEntry` is what
the branch writes, its principal made by `Synth` (`snprintf(...,
"%s@%s", ...)` cut to `VAL_LEN - 1` characters); `CygwinAccepts` is the
`strcmp` of line 766.  Here `dir` is the local account database and
names are real TLA+ strings, because the properties are about their
concatenation and truncation; `VAL_LEN` is 8 instead of 257 so that a
principal of length `VAL_LEN - 1` fits in a short string.

Each public function (`nfs41_idmap_name_to_uid` ... `nfs41_idmap_gid_to_group`,
lines 1024-1293) is a definition giving its `struct idmap_lookup` (class
and attribute searched); `Lookup` collects them.  `AfterQuery` is the
`status == NO_ERROR && cache_ttl` test after the query (lines 816-827)
that sends the thread to `cache_insert` or straight to return.

`FilterFits` is `idmap_filter`'s `StringCchPrintfA` into `FILTER_LEN`
bytes: a numeric filter needs at most 92 characters and always fits, a
string filter overflows for `LongKey`; `idmap_filter_overflow` returns
`ERROR_BUFFER_OVERFLOW` before any query.  `CopyOut` is the copy into
the caller's buffer of `uid_to_name` (`UidToNameOverflow`,
`StringCchCopyA(name, len, user.username)`, lines 1144-1149) and of
`gid_to_group` (`GidToGroupOverflow`, `group.name`, lines 1282-1287),
which fails when the name and its NUL do not fit in `NameLen` bytes; it
decides the status the caller sees (`ReplyOf`), after the entry has been
cached.

Abstractions: the LDAP filter string and search are replaced by the set
of directory entries whose attribute equals the key (the filter's
meaning); which matching entry is "first" is nondeterministic; any search
may fail (network).  String values are short strings or `LongValue`;
numeric parsing is accept/reject (the conversion itself is the
`ParseUint` module's subject).

### `IdmapFacade.tla`

The contract of the six public lookups, with caches, LDAP and parsing
left out.  State: the clock, the directory and its history, and per
thread the pending `call` (`[op, value, start]`) and its `reply`
(`[status, answer]`).  Actions: `Call`, `Answer` (an error of
`CallErrors`, one the call meets whatever the directory holds; an error
of `Faults`, one caused by an entry the directory held for the key in
`Window`: with caching off the moments of the call, with caching on any
moment up to now, because `lastUpdated` is stamped after the query (spec
4.5 step 3) and `cache_ttl` bounds the stamp's age, not the answer's;
`NOT_FOUND` if at some moment since the call the directory held no
entry for the key; `NO_ERROR` with an answer the directory gave in
`Window`), `CallAnswered` (a call answered in the same step: a fresh
cache hit), `Return` and `Tick`.  The error and answer sets are
parameters (`CallErrors`, `Entries`, `Faults`, `Answers`), so the module
is the same for every lookup.

`Idmap` instantiates it as `Facade` with the refinement mapping
`CallOf(t)` (the thread's operation, key and start, `Garbage` when idle),
`ReplyOf(t)` (status and `AnswerOf(buf[t])`, the fields the function
copies to its caller, once the thread is past its query or cache hit),
`FacadeEntries` (the directory records whose attribute equals the key)
and `FacadeCallErrors` (the search fails, or the filter overflows).
`EntryFaults` and `FacadeAnswers` are written from the spec (sections
4.3 and 4.5), not from `Parse`: a missing required attribute (name, uid,
gid; the principal is optional), an overlong string, a non-number, or
for `uid_to_name` and `gid_to_group` a name that does not fit the
caller's buffer (`OutName`) are the
errors an entry may cause; a faultless entry answers with its fields,
the principal `""` when absent.  So a parse that checks the wrong
attributes or reports the wrong error breaks the refinement.  The
cache misses, the insert steps and the allocation failures of the insert
are stuttering steps of the facade; `ImplementsFacade == Facade!Spec` is
checked as a temporal property.

### `ParseUint.tla`

`parse_uint` (lines 226-242) and the `strtoul(str, &endp, 10)` it calls,
for a thread that parses one value after another (as
`idmap_lookup_user` parses uidNumber then gidNumber, and every lookup
after the previous one on the same thread).  A string is a sequence of
one-character strings; `strtoul` skips blanks, takes an optional sign and
the longest digit run (`RunLen`), converts it (`DecValue`), returns
`ULONG_MAX` with `ERANGE` on overflow, negates modulo `2^Width` after a
`-`, and reports `endp = str` when there are no digits.  `errno` is a
variable because nothing in the code clears it.  `Width` is 4 bits
(`ULONG_MAX = 15`) so that "15" fits and "19" overflows with two
characters; `MC_ParseUint` enumerates every string of up to 3 characters
over blank, `+`, `-`, `1`, `5`, `9`.

### `ConfigParse.tla`

`config_init` (lines 365-385): `Init` is `config_defaults` (the table's
defaults parsed into their fields, lines 245-276); `config_load_nofile` /
`config_load_open` are the two outcomes of `fopen`; `config_load_line` is
one iteration of the `fgets` loop (lines 315-358) and `config_load_eof`
its end.  `fgets` reads at most `BUF - 1` characters, so a physical line
(with its `'\n'`) longer than that leaves its rest in `pending` for the
next iteration, as in the code.  The loop body (`LoadChunk`) skips blank
and comment buffers, then runs `config_parse_pair` (lines 156-224: cut at
`#`, key up to `=`, a quoted value up to the next `"` or the rest of the
line, blanks trimmed), `config_find_option` (case-insensitive name) and
`Store`: `parse_uint` of an instance of `ParseUint` for `TYPE_INT`,
`StringCchCopyNA` (fails with `BUFFER_OVERFLOW` and truncates when the
value and its NUL do not fit) for `TYPE_STR`.  Any failure breaks out of
the loop.  `errno` at each `parse_uint` is chosen freely between `ERANGE`
and another value, because any earlier library call may have set it.

The option table is reduced to two options with one-letter names, `t`
(`TYPE_INT`, default "6") and `b` (`TYPE_STR`, `max_len` 3), which covers
both store paths, case folding and the overflow of a string field; `BUF`
is 8 instead of 1024 so that splitting is reachable with short lines.
The history variable `read` records the physical lines begun.
`LoadAgrees` compares the loader with `RefLoad`, a fold of `SpecLine`
(section 4.1 of the spec: strip from `#`, skip blank lines, the whole
line must be `key = value` or `key = "value"`) over those lines.

### `IdmapLifecycle.tla`

`nfs41_idmap_create` (lines 935-1009) and `nfs41_idmap_free` (lines
1011-1021), for both builds (`Builds`), composed with `config_init` through
`CP == INSTANCE ConfigParse`: the variables of `ConfigParse` are shared,
and `config_init_step` is a step of `CP!Next` while create is at
`config_init`.  `lc` is where create stands (`calloc`, `config`,
`ldap_init`, `version`, `timeout`, then `returned`, and `torn_down` after
the owner's teardown); `ctx` is the context (`none`, `live`, `freed`);
`ldap` is `context->ldap` with the two options set on it; `entries`
counts the entries of both caches; `ret` and `out` are create's return
value and whether it assigned `*context_out`.

Each call is an `_ok` and a `_fail` action: `calloc_fail` returns
`GetLastError()`, chosen between `NO_ERROR` and `NOT_ENOUGH_MEMORY`
because the CRT's `calloc` does not call `SetLastError`; `calloc_ok`
includes `strcpy_s` and both `cache_init`s; a `localdomain_name` longer
than the field (`LongDomain`) makes `strcpy_s` call the CRT's
invalid-parameter handler, whose default ends the process
(`strcpy_s_terminate`, `lc = "terminated"`), while a handler that returns
leaves the field empty and create goes on as in `calloc_ok` (the
`context == NULL` test after it cannot fire); `config_init_fail` /
`config_init_ok` test the status `ConfigParse` ends with; `ldap_init`,
the protocol-version and time-limit `ldap_set_option` calls fail through
`ldap_fail` (`out_err_free`: `nfs41_idmap_free`, return the mapped
error); the time limit is set only when the loaded `ldap_timeout` is
non-zero (`create_return` otherwise).  After a successful create the
owner's lookups add cache entries (`cache_fill`, up to `MaxEntries`) and
the owner calls `nfs41_idmap_free` (`idmap_teardown`).  In the Cygwin
build (`cygwin_create`, lines 996-1002) create skips the LDAP calls and
only forces `timeout = 6000`, which nothing reads.  Resources are
abstracted to "allocated / bound / how many": which bytes a handle holds
does not matter to who frees it.

`MC_IdmapLifecycle` gives the option table two options, `t` for
`ldap_timeout` (`TYPE_INT`, default "0") and `b` (`TYPE_STR`, 3 bytes),
so that the configuration decides whether the time-limit call is made.

## 4. Runs

| Run | Config | What it shows |
|---|---|---|
| `users_dynamic` | 2 threads; name and uid lookups; the directory swaps alice's and bob's uids on any tick; TTL 2, clock 0..2; one cache entry (a second one fails to allocate) | `ImplementsFacade`: every answer is a whole entry the directory held for the key, even after a refresh through the uid comparator overwrites the entry the name comparator finds, and `NOT_FOUND` only when the key was absent, under arbitrary interleavings, blocked searches and directory changes |
| `error_paths` | 1 thread; all six lookups; a directory with a missing required attribute, overlong values, non-numeric ids and shared uids; a user name too long for the filter; a 5-byte caller buffer, too short for "alice" and "staff"; allocation may fail; clock 0..2 | `ImplementsFacade` and `TypeOK`: no half-parsed entry is cached or returned, every error is justified by the call, by an entry for the key or by the caller's buffer; `RefreshWithinTTL`: with one thread an answer just fetched is reused for `cache_ttl` ticks |
| `refresh_race` (violation) | 2 threads; one user in a static directory; name and uid lookups; allocation never fails; clock 0..3 | `RefreshWithinTTL` fails: the slower thread's older answer overwrites the fresher entry |
| `cygwin` | Cygwin build; 2 threads; user lookups by name, uid and principal (`alice@d`, length 7, and `bob@d`) | `UniqueKeys`, `CachedEntriesAgree`: entries filled through one path and found through another agree with the account |
| `cygwin_principal` (violation) | Cygwin build; 1 thread; `principal_to_ids` of `"bob@d"` and of `"bob@xyz"` (length `VAL_LEN - 1`) | `PrincipalToIds` fails: `NOT_FOUND` for the local account bob (and, with `"bob@xyz"` alone, the foreign principal maps to bob) |
| `parse_uint_digits` | all strings of up to 3 characters, any number of calls | `DigitStringsExact`: overflow rejected whatever errno held, accepted digit strings give their value |
| `parse_uint_spec` (violation) | same | `AcceptsOnlyDecimal` fails: `""` is accepted as 0 (also `" 5"`, `"+5"`, `"-1"`) |
| `parse_uint_errno` (violation) | same | `AcceptsEveryFit` fails: after `"19"` overflows, `"15"` (`ULONG_MAX`) is rejected |
| `lifecycle_create` | create in both builds, with a local domain name too long for its field, and with every failure of `calloc`, `config_init`, `ldap_init` and both `ldap_set_option`s; configuration files of up to 2 lines, each any line of up to 3 characters over blank, `=`, `#`, `"`, `t`, `T`, `b`, `7`, or one of 9 realistic lines; `BUF` 8; up to 2 cache entries before teardown | `LoadAgrees`, `TypeOK`: the loader agrees with the spec's file format and string fields stay in bounds; `NoOrphan` |
| `lifecycle_calloc` (violation) | an empty configuration file | `CreateResult` fails: `calloc` fails, `GetLastError()` is `NO_ERROR`, create returns success with `*context_out` unset |
| `config_junk` (violation) | the line `t="7"9` | `LoadAgrees` fails: text after the closing quote is ignored |
| `config_split` (violation) | the line `#      t=7`, longer than the buffer | `LoadAgrees` fails: the tail of the comment is applied as `t=7` |

Bounds: two threads are enough for every pairwise race between the
lookup's four steps; a clock of 0..2 with TTL 2 makes entries both fresh
and stale (age 0, 1, 2) and lets the directory change inside and at the
edge of the TTL, and a search begun at 0 can be stamped at 1 or 2;
`MaxEntries` 2-3 in `error_paths` and `cygwin` is the number of distinct
well-formed users, so it only binds when the directory changes; in
`users_dynamic` it is 1, which keeps the run under two minutes and still
lets a uid lookup overwrite the entry a name lookup cached.
`UniqueKeys` is checked in the Cygwin build, whose two threads miss the
same account through different comparators; the cache code it exercises
is the same in both builds.  `ParseUint` with 4 bits and 3 characters
reaches every path of `strtoul` (blank, sign, digits, no digits,
overflow, negation).  `lifecycle_create` enumerates every combination of the
special characters in a line, so the parser's branches (no `=`, empty
key, empty value, unterminated quote, quoted, unquoted, comment, case)
all occur, in files of two lines so that abort and overwrite happen;
the realistic lines set `ldap_timeout` to 0 or not, so both branches of
the time-limit test are taken.  Each run finishes in about a minute or
less (`users_dynamic`: 340,586 states).

Each property of a passing run is also checked against a mutant of the
code it is about (listed in `PROJECT.json`): a `user_cache_copy` that
leaves out the principal (breaks `ImplementsFacade` in `users_dynamic`),
a copy to the caller's buffer that does not count the NUL (breaks
`ImplementsFacade` in `error_paths`), a query that caches whatever its
status (breaks `TypeOK`), an insert without its re-search, an overwrite
that keeps the old fetch, a Cygwin entry whose gid is the uid, a
`parse_uint` without the `ERANGE` test, a string store without its
bound, a loader that does not break on a bad line, and a
`nfs41_idmap_free` that does not unbind.  TLC finds each of them.

Fairness: every run checks safety only, so none assumes fairness.
Create's termination is not stated: its model has no cycle and every
path ends by construction, so a liveness property would say nothing
about the code.  Lookups cannot be shown to return (section 2, item 7).

## 5. Findings

* `lifecycle_calloc` (idmap.c:943): when `calloc` fails, create returns
  `GetLastError()`, which `calloc` does not set; if the thread's last
  error is `NO_ERROR`, create reports success and leaves `*context_out`
  unset, and the caller uses an uninitialized pointer.

* `refresh_race`: `cache_insert` (idmap.c:438) overwrites unconditionally,
  timestamp included.  When two threads fetch the same user, the one whose
  answer is older but arrives later replaces the fresher entry, so an
  identical lookup inside the TTL of the fresher answer queries LDAP
  again, contrary to the spec's "a second identical lookup within T
  seconds issues zero backend queries".  The answers are still whole
  directory entries (`ImplementsFacade` holds); the cost is extra
  queries and non-monotonic reads.

* `cygwin_principal` (idmap.c:763, 766): the Cygwin principal path builds
  `principal_name` from `lookup->value`, the whole principal, so it
  compares `bob@d@d` with `bob@d` and fails for every local account.
  The only principals that pass are those of length `VAL_LEN - 1` (256),
  where `snprintf` cuts `value@domain` back to `value`; for those the
  domain is never checked.
* `parse_uint_spec` (idmap.c:231): the empty string, leading blanks, `+`
  and `-` are accepted; `"-1"` becomes 4294967295.
* `parse_uint_errno` (idmap.c:238): `errno` is not cleared before
  `strtoul`, so a stale `ERANGE` rejects 4294967295.
* `config_junk` (idmap.c:203): a quoted value ends at its closing quote
  and the rest of the line is ignored, where the spec says any line that
  is not exactly one pair aborts loading.
* `config_split` (idmap.c:315): a line longer than the 1024-byte buffer
  is read in pieces, and the tail of a long comment is applied as an
  assignment.

## 6. Not modelled (yet)

* In the lifecycle: teardown racing lookups still running (spec 4.2:
  `clear()` is for teardown only; the owner must stop them first), and
  which name an emptied `localdomain_name` gives Cygwin principals (the
  lifecycle does not carry the name; `Idmap` takes it as a constant).  The error
  code of a failed `ldap_init` is taken as an error.
* The full option table: `ConfigParse` keeps one option of each type;
  the others go through the same two store paths.
* `cache_ttl` as a signed `INT` filled through `UINT` (a configured value
  of 2^31 or more): what the TTL test does with it depends on the type of
  `UTIL_DIFFRELTIME`, defined outside this repository.  The subtraction in
  `uid_cmp` may wrap, but it is only compared with zero, so equality is
  exact; not a hazard.
* Growth of the caches: entries are never evicted (spec section 2 calls
  this deliberate).  Exploratory runs show identical duplicate entries and
  more user entries than users while the directory changes; no property
  bounds the size because the spec sets no bound.
* `LdapGetLastError` after a failed `ldap_init` is taken as some error.
* The age of a cached answer: the stamp is taken after the blocking
  search (line 718), so an answer can be arbitrarily older than its
  stamp; the code and the spec bound only the stamp's age, by the TTL
  test itself, so no property states a bound.
* `nfs41_idmap_name_to_ids`' early return on a NULL context (lines
  1084-1085): the model's threads always have a context.
* `src/mount/options.h`, `src/sys/wmlkm.h`: declarations of code that is
  not in this repository.
* Logging (`eprintf`, `DPRINTF`) and the exact text of filters and
  messages.
