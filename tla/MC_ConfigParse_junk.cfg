\* A line with text after the closing quote.
CONSTANTS
    Lines <- MCJunkLines
    MaxLines = 1
    BUF = 8
    Options <- MCOptions
    Width = 4
SPECIFICATION Spec
CHECK_DEADLOCK FALSE
INVARIANT LoadAgrees
