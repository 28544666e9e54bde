------------------------------ MODULE ParseUint ------------------------------
(***************************************************************************)
(* parse_uint() of src/daemon/idmap.c and the strtoul() it calls, for a    *)
(* daemon thread that parses one attribute value after another (the        *)
(* uidNumber/gidNumber values of idmap_lookup_user/group, the numeric      *)
(* options of config_load).  errno is thread-local and nothing resets it,  *)
(* so it carries over from one call to the next.                           *)
(*                                                                         *)
(* A string is a sequence of one-character strings over Chars; ULONG is  *)
(* Width bits wide (32 in the build, fewer here so that overflow is        *)
(* reachable with short strings).                                          *)
(***************************************************************************)
EXTENDS Integers, Sequences, SequencesExt

CONSTANTS
    Chars,      \* the characters input strings are made of
    MaxLen,     \* longest input string
    Width       \* bits of ULONG / UINT

Digit == ("0" :> 0) @@ ("1" :> 1) @@ ("2" :> 2) @@ ("3" :> 3) @@ ("4" :> 4) @@
         ("5" :> 5) @@ ("6" :> 6) @@ ("7" :> 7) @@ ("8" :> 8) @@ ("9" :> 9)

ASSUME MaxLen \in Nat /\ Width \in Nat \ {0}

ULONG_MAX == 2^Width - 1

Inputs == SeqOf(Chars, MaxLen)

\* Length of the longest prefix of s[from+1..] whose characters are in cs.
RunLen(s, from, cs) ==
    CHOOSE n \in 0..(Len(s) - from) :
        /\ \A i \in (from + 1)..(from + n) : s[i] \in cs
        /\ from + n = Len(s) \/ s[from + n + 1] \notin cs

\* The decimal value of a digit string, most significant digit first.
DecValue(ds) ==
    LET v[n \in 0..Len(ds)] == IF n = 0 THEN 0 ELSE 10 * v[n - 1] + Digit[ds[n]]
    IN  v[Len(ds)]

\* The digits' magnitude mag, ending at index end: above ULONG_MAX it gives
\* ULONG_MAX and ERANGE; otherwise a '-' negates it modulo 2^Width.
Converted(mag, end, neg) ==
    IF mag > ULONG_MAX THEN [val |-> ULONG_MAX, end |-> end, erange |-> TRUE]
    ELSE [val |-> IF neg THEN (2^Width - mag) % 2^Width ELSE mag,
          end |-> end, erange |-> FALSE]

\* nd digits follow index from.  No digits: nothing is converted and endp
\* is str itself.
DigitsAt(s, from, nd, neg) ==
    IF nd = 0 THEN [val |-> 0, end |-> 0, erange |-> FALSE]
    ELSE Converted(DecValue(SubSeq(s, from + 1, from + nd)), from + nd, neg)

\* An optional sign (sg = 1) follows sp white-space characters.
SignAt(s, sp, sg) ==
    DigitsAt(s, sp + sg, RunLen(s, sp + sg, DOMAIN Digit), sg = 1 /\ s[sp + 1] = "-")

\* strtoul(str, &endp, 10): skip white space, take an optional sign and
\* the longest run of digits.  On success errno is left as it was.
strtoul(s) ==
    LET sp == RunLen(s, 0, {" "})
    IN  SignAt(s, sp, IF sp < Len(s) /\ s[sp + 1] \in {"+", "-"} THEN 1 ELSE 0)

VARIABLES
    errno,    \* the thread's errno: "ERANGE" or "OTHER" (0 at thread start)
    input,    \* the string last passed to parse_uint
    ok,       \* its result
    id        \* *id_out: written only when parse_uint succeeds

vars == <<errno, input, ok, id>>

Init ==
    /\ errno = "OTHER"
    /\ input = <<>>
    /\ ok = FALSE
    /\ id = 0

\* Mutant: the overflow test is dropped.
Checked_noerange(s, r, e) ==
    LET e2 == IF r.erange THEN "ERANGE" ELSE e
    IN  IF r.end < Len(s)
        THEN [ok |-> FALSE, val |-> 0, errno |-> e2]
        ELSE [ok |-> TRUE, val |-> r.val, errno |-> e2]

\* parse_uint's tests of strtoul's result r, errno having been e: the
\* whole string must be converted, and a result of ULONG_MAX with errno
\* == ERANGE is an overflow.  The result, the value *id_out receives on
\* success, and errno afterwards.
Checked(s, r, e) ==
    LET e2 == IF r.erange THEN "ERANGE" ELSE e
    IN  IF r.end < Len(s) \/ (r.val = ULONG_MAX /\ e2 = "ERANGE")
        THEN [ok |-> FALSE, val |-> 0, errno |-> e2]
        ELSE [ok |-> TRUE, val |-> r.val, errno |-> e2]

\* parse_uint(str, &id) called with errno = e.
parse_uint_call(s, e) == Checked(s, strtoul(s), e)

\* The thread's call returned r: id is written only on success.
Returned(s, r) ==
    /\ input' = s
    /\ errno' = r.errno
    /\ ok' = r.ok
    /\ id' = IF r.ok THEN r.val ELSE id

\* The thread calls parse_uint(s, &id).
parse_uint(s) == Returned(s, parse_uint_call(s, errno))

Next == \E s \in Inputs : parse_uint(s)

Spec == Init /\ [][Next]_vars

-----------------------------------------------------------------------------
\* The strings the specification allows for a numeric field: a full,
\* non-overflowing unsigned decimal integer.
IsDecimal(s) == Len(s) > 0 /\ \A i \in 1..Len(s) : s[i] \in DOMAIN Digit

\* Overflow is rejected (the ERANGE test of parse_uint): a digit string
\* too large for ULONG is never accepted, whatever errno held before, and
\* an accepted digit string yields exactly its decimal value.
DigitStringsExact ==
    IsDecimal(input) =>
        /\ DecValue(input) > ULONG_MAX => ~ok
        /\ ok => id = DecValue(input)

\* Specification (config invariant): a value is accepted only when it is a
\* full unsigned decimal integer that fits, and then as that integer.
AcceptsOnlyDecimal ==
    ok => IsDecimal(input) /\ DecValue(input) <= ULONG_MAX /\ id = DecValue(input)

\* Comment "result must fit in 32 bits": every digit string whose value
\* fits in ULONG, ULONG_MAX included, is accepted.
AcceptsEveryFit ==
    IsDecimal(input) /\ DecValue(input) <= ULONG_MAX => ok

=============================================================================
