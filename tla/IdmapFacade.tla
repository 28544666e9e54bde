------------------------------ MODULE IdmapFacade ------------------------------
(***************************************************************************)
(* What the mapper facade promises its callers (spec 4.5 and 8), with the *)
(* caches, the LDAP query and the parsing left out.  A thread calls one    *)
(* of the public lookups with a key; at some later moment the call is      *)
(* answered, either with an error or with the answer the directory gave   *)
(* for that key at some moment up to the answer (during the call itself   *)
(* when caching is off).  An error is justified:                          *)
(* by the call itself (the backend failing, a key that cannot be put in a *)
(* query), by an entry the directory held for the key in that window      *)
(* (incomplete, unparsable, too long), or, for NOT_FOUND, by the directory *)
(* holding no entry for the key at some moment of the call.  The          *)
(* answer stays put until the function returns.  A fresh cache hit is a   *)
(* call answered in the same step.                                         *)
(***************************************************************************)
EXTENDS Naturals, Sequences

CONSTANTS
    Threads,       \* the caller's threads
    Ops,           \* the public lookups called
    Keys,          \* Keys[op]: the keys op is called with
    DirStates,     \* what the directory may hold
    TTL,           \* cache_ttl
    MaxTime,       \* bound on the clock
    CallErrors(_), \* CallErrors(c): the errors call c may meet whatever the directory holds
    Faults(_, _),  \* Faults(d, c): the errors the entries of d that call c names cause
    None,          \* no call, or no answer yet
    Entries(_, _), \* Entries(d, c): the directory entries of d that call c names
    Answers(_, _)  \* Answers(d, c): the answers d gives to call c

VARIABLES
    now,    \* the clock
    dir,    \* what the directory holds now
    hist,   \* hist[s+1]: what it held at time s
    call,   \* call[t]: [op, value, start] of thread t's lookup, or None
    reply   \* reply[t]: [status, answer] once the lookup is answered, or None

vars == <<now, dir, hist, call, reply>>

\* The moments whose directory an answer to call c may come from.  With
\* caching off, the call's own query; with caching on, any earlier query:
\* lastUpdated is stamped when the answer is parsed (spec 4.5, step 3),
\* and cache_ttl bounds the stamp's age, not how long the query that
\* produced the answer was blocked before it.
Window(c) == IF TTL = 0 THEN c.start..now ELSE 0..now

\* The replies allowed to call c now.
Replies(c) ==
    {[status |-> e, answer |-> None] : e \in CallErrors(c)}
    \cup {[status |-> e, answer |-> None] :
              e \in UNION {Faults(hist[s + 1], c) : s \in Window(c)}}
    \cup {[status |-> "NOT_FOUND", answer |-> None] :
              s \in {s \in c.start..now : Entries(hist[s + 1], c) = {}}}
    \cup {[status |-> "NO_ERROR", answer |-> a] :
              a \in UNION {Answers(hist[s + 1], c) : s \in Window(c)}}

Init ==
    /\ now = 0
    /\ dir \in DirStates
    /\ hist = <<dir>>
    /\ call = [t \in Threads |-> None]
    /\ reply = [t \in Threads |-> None]

\* A public lookup is called.
Call(t, op, key) ==
    /\ call[t] = None
    /\ call' = [call EXCEPT ![t] = [op |-> op, value |-> key, start |-> now]]
    /\ UNCHANGED <<now, dir, hist, reply>>

\* The call is answered.
Answer(t) ==
    /\ call[t] # None
    /\ reply[t] = None
    /\ \E r \in Replies(call[t]) : reply' = [reply EXCEPT ![t] = r]
    /\ UNCHANGED <<now, dir, hist, call>>

\* A call answered at once (a fresh cache hit).
CallAnswered(t, op, key) ==
    LET c == [op |-> op, value |-> key, start |-> now]
    IN  /\ call[t] = None
        /\ call' = [call EXCEPT ![t] = c]
        /\ \E r \in Replies(c) : reply' = [reply EXCEPT ![t] = r]
        /\ UNCHANGED <<now, dir, hist>>

\* The function returns to its caller.
Return(t) ==
    /\ reply[t] # None
    /\ call' = [call EXCEPT ![t] = None]
    /\ reply' = [reply EXCEPT ![t] = None]
    /\ UNCHANGED <<now, dir, hist>>

\* Time passes; the directory may change.
Tick ==
    /\ now < MaxTime
    /\ now' = now + 1
    /\ dir' \in DirStates
    /\ hist' = Append(hist, dir')
    /\ UNCHANGED <<call, reply>>

Next ==
    \/ Tick
    \/ \E t \in Threads :
         \/ \E op \in Ops : \E key \in Keys[op] :
              Call(t, op, key) \/ CallAnswered(t, op, key)
         \/ Answer(t)
         \/ Return(t)

Spec == Init /\ [][Next]_vars

=============================================================================
