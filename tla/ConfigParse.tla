----------------------------- MODULE ConfigParse -----------------------------
(***************************************************************************)
(* The configuration model of src/daemon/idmap.c: config_defaults fills    *)
(* the struct idmap_config from the option table g_options, config_load    *)
(* reads the file with fgets into a buffer of BUF bytes, and each chunk is *)
(* trimmed, split by config_parse_pair, matched by config_find_option      *)
(* (case-insensitive) and stored with parse_uint or StringCchCopyNA.       *)
(*                                                                         *)
(* Lines are sequences of one-character strings; option names are short    *)
(* sequences too (the table's real names only matter to _stricmp).         *)
(***************************************************************************)
EXTENDS Integers, Sequences, SequencesExt

CONSTANTS
    Lines,      \* the physical lines (without '\n') a file may contain
    MaxLines,   \* longest file, in physical lines
    BUF,        \* sizeof(buffer) of config_load (1024 in the build)
    Options,    \* g_options: name |-> [type, def, max_len]
    Width       \* bits of ULONG / UINT

PU == INSTANCE ParseUint WITH Chars <- {}, MaxLen <- 0, errno <- "OTHER",
                              input <- <<>>, ok <- FALSE, id <- 0

ASSUME MaxLines \in Nat /\ BUF \in Nat /\ BUF >= 2
ASSUME \A o \in DOMAIN Options : Options[o].type \in {"INT", "STR"}

\* isspace() over the characters of the model.
Space == {" ", "\n"}

\* _stricmp compares after folding case.
Lower(c) == IF c = "T" THEN "t" ELSE IF c = "B" THEN "b" ELSE c

\* Index of the first c in s, 0 if none (strchr).
Find(s, c) == SelectInSeq(s, LAMBDA x : x = c)

\* Number of leading white-space characters (while (isspace(*pos)) pos++).
SpaceRun(s) ==
    CHOOSE n \in 0..Len(s) :
        /\ \A i \in 1..n : s[i] \in Space
        /\ n = Len(s) \/ s[n + 1] \notin Space

\* s without its trailing white space (while (len && isspace(s[len-1]))).
TrimRight(s) ==
    LET n == CHOOSE m \in 0..Len(s) :
                 /\ \A i \in (m + 1)..Len(s) : s[i] \in Space
                 /\ m = 0 \/ s[m] \notin Space
    IN  SubSeq(s, 1, n)

Fail == [status |-> "INVALID_PARAMETER", key |-> <<>>, value |-> <<>>]

\* The line up to its first '#' (strchr, then *pos = '\0').
Uncomment(line) ==
    LET h == Find(line, "#") IN IF h = 0 THEN line ELSE SubSeq(line, 1, h - 1)

\* s without its leading white space.
TrimLeft(s) == SubSeq(s, SpaceRun(s) + 1, Len(s))

\* A quoted value: r follows the opening '"', q is the index of the
\* closing one in r (0 if none).
Quoted(key, r, q) ==
    IF q = 0 THEN Fail
    ELSE [status |-> "NO_ERROR", key |-> key, value |-> SubSeq(r, 1, q - 1)]

\* The pair from its trimmed key and the text after the '=' and its blanks
\* (eq is the index of the '=', 0 if none).
MakePair(key, rest, eq) ==
    IF eq = 0 \/ key = <<>> \/ rest = <<>> THEN Fail
    ELSE IF rest[1] = "\""
         THEN Quoted(key, Tail(rest), Find(Tail(rest), "\""))
    ELSE [status |-> "NO_ERROR", key |-> key, value |-> TrimRight(rest)]

\* The key runs from the first non-blank to the '=', trailing blanks
\* removed; the value part starts after the '=' and its blanks.
SplitPair(l, eq) ==
    MakePair(TrimRight(SubSeq(l, SpaceRun(l) + 1, eq - 1)),
             TrimLeft(SubSeq(l, eq + 1, Len(l))), eq)

\* config_parse_pair: cut at '#'; the key must not be empty; after the
\* '=' and its blanks there must be something: a '"' takes the value up to
\* the next '"' (which must exist), anything else takes the rest of the
\* line with trailing blanks removed.
config_parse_pair(line) ==
    LET l == Uncomment(line) IN SplitPair(l, Find(l, "="))

\* config_find_option: the option whose name equals the key ignoring case;
\* {} when there is none.
config_find_option(key) ==
    {o \in DOMAIN Options :
        Len(o) = Len(key) /\ \A i \in 1..Len(o) : Lower(key[i]) = Lower(o[i])}

\* parse_uint's result r stored into the TYPE_INT option o.
StoreInt(cfg, o, r) ==
    IF r.ok THEN [status |-> "NO_ERROR", cfg |-> [cfg EXCEPT ![o] = r.val]]
    ELSE [status |-> "INVALID_PARAMETER", cfg |-> cfg]

\* Mutant: the length of a string value is not checked.
Store_nobound(cfg, o, v, e) ==
    IF Options[o].type = "INT" THEN StoreInt(cfg, o, PU!parse_uint_call(v, e))
    ELSE [status |-> "NO_ERROR", cfg |-> [cfg EXCEPT ![o] = v]]

\* Storing value v into option o: parse_uint for TYPE_INT (errno as the
\* library left it), StringCchCopyNA for TYPE_STR, which fails when the
\* value and its NUL do not fit and then leaves the value truncated.
Store(cfg, o, v, e) ==
    IF Options[o].type = "INT" THEN StoreInt(cfg, o, PU!parse_uint_call(v, e))
    ELSE IF Len(v) < Options[o].max_len
         THEN [status |-> "NO_ERROR", cfg |-> [cfg EXCEPT ![o] = v]]
         ELSE [status |-> "BUFFER_OVERFLOW",
               cfg |-> [cfg EXCEPT ![o] = SubSeq(v, 1, Options[o].max_len - 1)]]

\* A parsed line: an unknown key fails, a known one is stored.
LoadPair(cfg, pr, e) ==
    IF pr.status # "NO_ERROR" THEN [status |-> pr.status, cfg |-> cfg]
    ELSE LET os == config_find_option(pr.key)
         IN  IF os = {} THEN [status |-> "INVALID_PARAMETER", cfg |-> cfg]
             ELSE Store(cfg, CHOOSE o \in os : TRUE, pr.value, e)

\* The body of config_load's loop for one buffer: blank and comment lines
\* are skipped; otherwise parse, find, store, and any failure breaks.
LoadChunk(cfg, chunk, e) ==
    LET p == SpaceRun(chunk)
    IN  IF p = Len(chunk) \/ chunk[p + 1] = "#"
        THEN [status |-> "NO_ERROR", cfg |-> cfg]
        ELSE LoadPair(cfg, config_parse_pair(chunk), e)

\* config_defaults: every default of the table parsed into its field.
Defaults ==
    [o \in DOMAIN Options |->
        IF Options[o].type = "INT" THEN PU!parse_uint_call(Options[o].def, "OTHER").val
        ELSE Options[o].def]
DefaultsOK ==
    \A o \in DOMAIN Options :
        IF Options[o].type = "INT" THEN PU!parse_uint_call(Options[o].def, "OTHER").ok
        ELSE Len(Options[o].def) < Options[o].max_len

-----------------------------------------------------------------------------
VARIABLES
    cfg,      \* the option fields of struct idmap_config
    status,   \* config_init's status
    phase,    \* "open", "read" (in the fgets loop) or "done"
    pending,  \* the rest of a physical line longer than the buffer
    read      \* history: the physical lines config_load has begun to read

vars == <<cfg, status, phase, pending, read>>

\* config_init: config_defaults, then (if they parse) config_load.
Init ==
    /\ cfg = Defaults
    /\ status = IF DefaultsOK THEN "NO_ERROR" ELSE "INVALID_PARAMETER"
    /\ phase = IF DefaultsOK THEN "open" ELSE "done"
    /\ pending = <<>>
    /\ read = <<>>

\* fopen fails: not an error, the defaults stay.
config_load_nofile ==
    /\ phase = "open"
    /\ phase' = "done"
    /\ UNCHANGED <<cfg, status, pending, read>>

config_load_open ==
    /\ phase = "open"
    /\ phase' = "read"
    /\ UNCHANGED <<cfg, status, pending, read>>

\* fgets returns NULL at the end of the file; fclose.
config_load_eof ==
    /\ phase = "read"
    /\ pending = <<>>
    /\ phase' = "done"
    /\ UNCHANGED <<cfg, status, pending, read>>

\* Mutant: a failing line does not end the loop.
ReadChunk_nobreak(d, n, r) ==
    /\ pending' = SubSeq(d, n + 1, Len(d))
    /\ read' = IF pending = <<>> THEN Append(read, SubSeq(d, 1, Len(d) - 1)) ELSE read
    /\ cfg' = r.cfg
    /\ status' = r.status
    /\ phase' = "read"

\* The buffer holds the first n characters of d, handled with result r:
\* the rest of d is left for the next fgets, and a failure breaks out of
\* the loop.
ReadChunk(d, n, r) ==
    /\ pending' = SubSeq(d, n + 1, Len(d))
    /\ read' = IF pending = <<>> THEN Append(read, SubSeq(d, 1, Len(d) - 1)) ELSE read
    /\ cfg' = r.cfg
    /\ status' = r.status
    /\ phase' = IF r.status = "NO_ERROR" THEN "read" ELSE "done"

\* fgets into a buffer of BUF bytes reads n characters of d.
ReadLine(d, n, e) == ReadChunk(d, n, LoadChunk(cfg, SubSeq(d, 1, n), e))

\* One iteration of the fgets loop: fgets reads up to BUF - 1 characters,
\* stopping after a '\n' (a longer physical line is left for the next
\* iteration).  errno is whatever earlier library calls left.
config_load_line ==
    /\ phase = "read"
    /\ pending # <<>> \/ Len(read) < MaxLines
    /\ \E d \in IF pending # <<>> THEN {pending} ELSE {l \o <<"\n">> : l \in Lines},
         e \in {"OTHER", "ERANGE"} :
         ReadLine(d, IF Len(d) < BUF THEN Len(d) ELSE BUF - 1, e)

Next ==
    \/ config_load_nofile
    \/ config_load_open
    \/ config_load_eof
    \/ config_load_line

Spec == Init /\ [][Next]_vars

-----------------------------------------------------------------------------
TypeOK ==
    /\ \A o \in DOMAIN Options :
          IF Options[o].type = "INT" THEN cfg[o] \in 0..PU!ULONG_MAX
          ELSE cfg[o] \in Seq(STRING) /\ Len(cfg[o]) < Options[o].max_len
    /\ status \in {"NO_ERROR", "INVALID_PARAMETER", "BUFFER_OVERFLOW"}
    /\ phase \in {"open", "read", "done"}
    /\ read \in Seq(Lines) /\ Len(read) <= MaxLines

\* The file format of the specification (section 4.1), for one physical
\* line: everything from '#' on is stripped; a blank line is skipped;
\* otherwise the line is exactly  key = value  or  key = "value"  with
\* blanks around the parts, the key not empty, a quoted value taken
\* verbatim and an unquoted one with its trailing blanks removed.
\* SpecPair takes the key and the value part of a line whose '=' is at
\* index eq; SpecTrimmed the line t with its outer blanks removed.
SpecPair(key, rest, eq) ==
    IF eq = 0 \/ key = <<>> \/ rest = <<>> THEN [kind |-> "error"]
    ELSE IF rest[1] # "\"" THEN [kind |-> "pair", key |-> key, value |-> rest]
    ELSE IF Len(rest) >= 2 /\ Find(Tail(rest), "\"") = Len(rest) - 1
         THEN [kind |-> "pair", key |-> key, value |-> SubSeq(rest, 2, Len(rest) - 1)]
    ELSE [kind |-> "error"]

SpecSplit(t, eq) ==
    SpecPair(TrimRight(SubSeq(t, 1, eq - 1)), TrimLeft(SubSeq(t, eq + 1, Len(t))), eq)

SpecTrimmed(t) == IF t = <<>> THEN [kind |-> "blank"] ELSE SpecSplit(t, Find(t, "="))

SpecLine(line) == SpecTrimmed(TrimRight(TrimLeft(Uncomment(line))))

\* Loading a file the way section 4.1 describes: lines in order, the first
\* bad line, unknown key or unstorable value aborts, later lines overwrite
\* earlier ones.  Values are converted as parse_uint converts them (the
\* conversion itself is the subject of the ParseUint runs).
RefStored(r) == [ok |-> r.status = "NO_ERROR", cfg |-> r.cfg]

RefPair(acc, sl, os) ==
    IF ~acc.ok \/ sl.kind = "blank" THEN acc
    ELSE IF sl.kind = "error" \/ os = {} THEN [acc EXCEPT !.ok = FALSE]
    ELSE RefStored(Store(acc.cfg, CHOOSE o \in os : TRUE, sl.value, "OTHER"))

RefStep(acc, sl) ==
    RefPair(acc, sl, IF sl.kind = "pair" THEN config_find_option(sl.key) ELSE {})

RefLoad(ls) ==
    LET acc[n \in 0..Len(ls)] ==
            IF n = 0 THEN [ok |-> DefaultsOK, cfg |-> Defaults]
            ELSE RefStep(acc[n - 1], SpecLine(ls[n]))
    IN  acc[Len(ls)]

\* The loader ended with status and options cfg; r is the reference load.
AgreesWith(r) == (status = "NO_ERROR") = r.ok /\ (r.ok => cfg = r.cfg)

\* config_load follows the file format (spec 4.1): when it is done,
\* config_init succeeds exactly when the lines read form a valid file,
\* and then every option holds the value of its last assignment, or its
\* default.
LoadAgrees == phase = "done" => AgreesWith(RefLoad(read))

=============================================================================
