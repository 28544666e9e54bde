\* parse_uint over every string of up to 3 characters, ULONG 4 bits wide.
CONSTANTS
    Chars <- MCChars
    MaxLen = 3
    Width = 4
SPECIFICATION Spec
INVARIANT DigitStringsExact
