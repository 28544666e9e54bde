---------------------------- MODULE IdmapLifecycle ----------------------------
(***************************************************************************)
(* nfs41_idmap_create and nfs41_idmap_free of src/daemon/idmap.c (both     *)
(* builds), composed with config_init (module ConfigParse): the context is  *)
(* allocated, its caches initialized, the configuration loaded, the LDAP   *)
(* handle opened and its options set from the configuration; any failure   *)
(* after the allocation frees everything through nfs41_idmap_free.  After  *)
(* a successful create the owner fills the caches with lookups and tears   *)
(* the context down with nfs41_idmap_free.                                 *)
(*                                                                         *)
(* Resources are abstracted to what the properties tell apart: whether    *)
(* the context is allocated, whether an LDAP handle is bound (and which    *)
(* options were set on it), and how many cache entries exist.              *)
(***************************************************************************)
EXTENDS Naturals

CONSTANTS
    Lines, MaxLines, BUF, Options, Width,   \* those of ConfigParse
    TimeoutOpt,   \* the option ldap_timeout (TYPE_INT)
    Builds,       \* builds checked: "ldap", "cygwin" (NFS41_DRIVER_FEATURE_IDMAPPER_CYGWIN);
                  \* nothing before the #ifndef depends on the build
    MaxEntries,   \* cache entries the owner's lookups create, at most
    LongDomain    \* whether the caller's localdomain_name may exceed NFS41_HOSTNAME_LEN

VARIABLES
    cfg, status, phase, pending, read,  \* config_init (ConfigParse)
    lc,       \* where create (or, after it, the owner) is
    ctx,      \* the context: "none", "live" (allocated) or "freed"
    ldap,     \* context->ldap: bound, and the options set on it
    entries,  \* entries in the user and group caches together
    ret,      \* nfs41_idmap_create's return value
    out       \* *context_out has been set

CP == INSTANCE ConfigParse

cvars == <<cfg, status, phase, pending, read>>
lvars == <<lc, ctx, ldap, entries, ret, out>>
vars == <<cvars, lvars>>

\* calloc zero-fills the context: no LDAP handle (a time limit of 0 is
\* no time limit set).
NoLdap == [bound |-> FALSE, version |-> FALSE, timelimit |-> 0]

Errors == {"NOT_ENOUGH_MEMORY", "INVALID_PARAMETER", "BUFFER_OVERFLOW", "LDAP_ERROR"}

\* Mutant: the LDAP connection is not unbound.
nfs41_idmap_free_nounbind ==
    /\ ctx' = "freed"
    /\ ldap' = ldap
    /\ entries' = 0

\* nfs41_idmap_free: ldap_unbind if a handle was opened, cache_cleanup of
\* both caches (every entry freed), free(context).
nfs41_idmap_free ==
    /\ ctx' = "freed"
    /\ ldap' = NoLdap
    /\ entries' = 0

\* The configuration is the context's: config_defaults runs in config_init
\* after calloc, so the defaults in cfg stand for the zeroed fields until
\* then; nothing reads them before.
Init ==
    /\ CP!Init
    /\ lc = "calloc"
    /\ ctx = "none"
    /\ ldap = NoLdap
    /\ entries = 0
    /\ ret = "NO_ERROR"
    /\ out = FALSE

\* calloc fails: status = GetLastError().  calloc sets errno, and
\* HeapAlloc does not call SetLastError, so the value is whatever the
\* thread's last error was, NO_ERROR included.
calloc_fail ==
    /\ lc = "calloc"
    /\ \E e \in {"NO_ERROR", "NOT_ENOUGH_MEMORY"} : ret' = e
    /\ lc' = "returned"
    /\ UNCHANGED <<cvars, ctx, ldap, entries, out>>

\* calloc succeeds; strcpy_s of the local domain name and cache_init of
\* both caches, which start empty.  A name that does not fit invokes the
\* CRT's invalid-parameter handler; a handler that returns leaves the
\* field empty, and create goes on (the status is cast away and the
\* context == NULL test after it cannot fire).
calloc_ok ==
    /\ lc = "calloc"
    /\ ctx' = "live"
    /\ lc' = "config"
    /\ UNCHANGED <<cvars, ldap, entries, ret, out>>

\* The default invalid-parameter handler ends the process inside strcpy_s.
strcpy_s_terminate ==
    /\ lc = "calloc"
    /\ LongDomain
    /\ ctx' = "live"
    /\ lc' = "terminated"
    /\ UNCHANGED <<cvars, ldap, entries, ret, out>>

\* A step of config_init (config_defaults, config_load).
config_init_step ==
    /\ lc = "config"
    /\ CP!Next
    /\ UNCHANGED lvars

\* config_init returned an error: goto out_err_free.
config_init_fail ==
    /\ lc = "config"
    /\ phase = "done"
    /\ status # "NO_ERROR"
    /\ ret' = status
    /\ nfs41_idmap_free
    /\ lc' = "returned"
    /\ UNCHANGED <<cvars, out>>

config_init_ok ==
    /\ lc = "config"
    /\ phase = "done"
    /\ status = "NO_ERROR"
    /\ lc' = "ldap_init"
    /\ UNCHANGED <<cvars, ctx, ldap, entries, ret, out>>

\* A failing LDAP call: its error mapped by LdapMapErrorToWin32, then
\* out_err_free.
ldap_fail ==
    /\ ret' = "LDAP_ERROR"
    /\ nfs41_idmap_free
    /\ lc' = "returned"
    /\ UNCHANGED <<cvars, out>>

\* ldap_init(hostname, port) returns NULL.
ldap_init_fail ==
    /\ lc = "ldap_init"
    /\ "ldap" \in Builds
    /\ ldap_fail

ldap_init_ok ==
    /\ lc = "ldap_init"
    /\ "ldap" \in Builds
    /\ ldap' = [NoLdap EXCEPT !.bound = TRUE]
    /\ lc' = "version"
    /\ UNCHANGED <<cvars, ctx, entries, ret, out>>

\* ldap_set_option(LDAP_OPT_PROTOCOL_VERSION) fails.
set_version_fail ==
    /\ lc = "version"
    /\ ldap_fail

set_version_ok ==
    /\ lc = "version"
    /\ ldap' = [ldap EXCEPT !.version = TRUE]
    /\ lc' = "timeout"
    /\ UNCHANGED <<cvars, ctx, entries, ret, out>>

\* *context_out = context; return NO_ERROR.
Succeed ==
    /\ out' = TRUE
    /\ ret' = "NO_ERROR"
    /\ lc' = "returned"

\* config.timeout is 0: no time limit is set.
create_return ==
    /\ lc = "timeout"
    /\ cfg[TimeoutOpt] = 0
    /\ Succeed
    /\ UNCHANGED <<cvars, ctx, ldap, entries>>

\* ldap_set_option(LDAP_OPT_TIMELIMIT, &config.timeout) fails.
set_timelimit_fail ==
    /\ lc = "timeout"
    /\ cfg[TimeoutOpt] # 0
    /\ ldap_fail

set_timelimit_ok ==
    /\ lc = "timeout"
    /\ cfg[TimeoutOpt] # 0
    /\ ldap' = [ldap EXCEPT !.timelimit = cfg[TimeoutOpt]]
    /\ Succeed
    /\ UNCHANGED <<cvars, ctx, entries>>

\* The Cygwin build opens no LDAP connection: it forces config.timeout to
\* 6000 (read by nothing in that build) and succeeds.
cygwin_create ==
    /\ lc = "ldap_init"
    /\ "cygwin" \in Builds
    /\ Succeed
    /\ UNCHANGED <<cvars, ctx, ldap, entries>>

\* The owner's lookups insert cache entries (cache_insert, new entry).
cache_fill ==
    /\ lc = "returned"
    /\ out
    /\ ctx = "live"
    /\ entries < MaxEntries
    /\ entries' = entries + 1
    /\ UNCHANGED <<cvars, lc, ctx, ldap, ret, out>>

\* The owner calls nfs41_idmap_free on the context create gave it.
idmap_teardown ==
    /\ lc = "returned"
    /\ out
    /\ ctx = "live"
    /\ nfs41_idmap_free
    /\ lc' = "torn_down"
    /\ UNCHANGED <<cvars, ret, out>>

\* The steps of nfs41_idmap_create itself.
CreateStep ==
    \/ calloc_fail \/ calloc_ok \/ strcpy_s_terminate
    \/ config_init_step \/ config_init_fail \/ config_init_ok
    \/ ldap_init_fail \/ ldap_init_ok \/ cygwin_create
    \/ set_version_fail \/ set_version_ok
    \/ create_return \/ set_timelimit_fail \/ set_timelimit_ok

Next == CreateStep \/ cache_fill \/ idmap_teardown

Spec == Init /\ [][Next]_vars

-----------------------------------------------------------------------------
TypeOK ==
    /\ CP!TypeOK
    /\ lc \in {"calloc", "config", "ldap_init", "version", "timeout",
               "returned", "torn_down", "terminated"}
    /\ ctx \in {"none", "live", "freed"}
    /\ ldap \in [bound : BOOLEAN, version : BOOLEAN,
                 timelimit : 0..CP!PU!ULONG_MAX]
    /\ entries \in 0..MaxEntries
    /\ ret \in {"NO_ERROR"} \cup Errors
    /\ out \in BOOLEAN

\* The file format (spec 4.1) as config_init sees it inside create.
LoadAgrees == CP!LoadAgrees

\* No orphaned resource (error paths goto out_err_free; spec 3: the facade
\* owns the connection and both caches): an LDAP handle or cache entry
\* exists only while the context does, and once create has returned, an
\* allocated context is one the caller was handed in *context_out.
NoOrphan ==
    /\ (ldap.bound \/ entries > 0) => ctx = "live"
    /\ lc \in {"returned", "torn_down"} /\ ctx = "live" => out

\* create's contract (spec 7: construction failures are returned as
\* errors): it returns NO_ERROR exactly when it has set *context_out.
CreateResult == lc = "returned" => ((ret = "NO_ERROR") = out)

=============================================================================
