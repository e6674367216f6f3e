CONSTANTS
    MaxLen = 7
    MaxOdd = 2
    Chars <- MCChars
    Readable <- MCReadable
SPECIFICATION Spec
INVARIANTS TypeOK StackIsPath StatementsUsable TreeIsText NothingLost
CHECK_DEADLOCK FALSE
