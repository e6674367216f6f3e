CONSTANTS
    Char <- MCChar
    Input <- MCInput
    Width = 4
    MaxMethod = 2
    MaxUri = 5
    MaxVersion = 9
    MaxHeaders = 2
    MaxName = 2
    MaxValue = 2
    MaxRaw = 31
SPECIFICATION Spec
INVARIANTS LastHeaderExists BodyAsAnnounced SplitAtSpaces PathIsSafe
CHECK_DEADLOCK FALSE
