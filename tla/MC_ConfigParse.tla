--------------------------- MODULE MC_ConfigParse ---------------------------
(* Two options stand for the table: "t" for cache_ttl (TYPE_INT, default   *)
(* "6") and "b" for ldap_base (TYPE_STR, 3 bytes, default "b").  ULONG is  *)
(* 4 bits wide and the fgets buffer 8 bytes.                               *)
EXTENDS ConfigParse

\* A TLA+ string as the sequence of its characters.
Chars(str) == [i \in 1..Len(str) |-> SubSeq(str, i, i)]

MCOptions ==
    (Chars("t") :> [type |-> "INT", def |-> Chars("6"), max_len |-> 0]) @@
    (Chars("b") :> [type |-> "STR", def |-> Chars("b"), max_len |-> 3])

\* A value followed by text after its closing quote.
MCJunkLines == {Chars("t=\"7\"9")}

\* A comment line longer than the fgets buffer.
MCLongComment == {Chars("#      t=7")}

=============================================================================
