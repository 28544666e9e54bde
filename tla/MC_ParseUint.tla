---------------------------- MODULE MC_ParseUint ----------------------------
(* parse_uint with a 4-bit ULONG: ULONG_MAX is 15, so "15" is the largest  *)
(* value that fits and "19", "99" overflow; inputs of up to 3 characters   *)
(* cover white space, both signs, empty strings and a trailing space.   *)
EXTENDS ParseUint

MCChars == {" ", "+", "-", "1", "5", "9"}

=============================================================================
