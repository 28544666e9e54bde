-------------------------- MODULE MC_IdmapLifecycle --------------------------
(* Two options stand for the table: "t" for ldap_timeout (TYPE_INT,        *)
(* default "0") and "b" for ldap_base (TYPE_STR, 3 bytes, default "b").    *)
(* ULONG is 4 bits wide and the fgets buffer 8 bytes.                      *)
EXTENDS IdmapLifecycle, SequencesExt

\* A TLA+ string as the sequence of its characters.
Chars(str) == [i \in 1..Len(str) |-> SubSeq(str, i, i)]

MCOptions ==
    (Chars("t") :> [type |-> "INT", def |-> Chars("0"), max_len |-> 0]) @@
    (Chars("b") :> [type |-> "STR", def |-> Chars("b"), max_len |-> 3])

MCTimeout == Chars("t")

\* Lines of a realistic file: the timeout set, set in the other case and
\* quoted, set to a value that overflows, a string option, one too long
\* for its field, a comment, a blank line, an unknown key and a line
\* without '='.
MCLifecycleLines ==
    {Chars(l) : l \in {"t = 7", "T=\"9\"", "t = 77", "b = bb", "b=bbbb",
                       "# t=9", "", "x = 7", "t 7"}}

\* Every line of up to 3 characters over the characters the parser treats
\* specially, both cases of an option name, a digit and a value letter,
\* with the realistic lines.
MCAllLines ==
    SeqOf({" ", "=", "#", "\"", "t", "T", "b", "7"}, 3) \cup MCLifecycleLines

\* A file that configures nothing: create's error paths come from calloc
\* and the LDAP calls only.
MCEmptyFile == {Chars("")}
=============================================================================
