\* A comment line longer than the buffer.
CONSTANTS
    Lines <- MCLongComment
    MaxLines = 1
    BUF = 8
    Options <- MCOptions
    Width = 4
SPECIFICATION Spec
CHECK_DEADLOCK FALSE
INVARIANT LoadAgrees
