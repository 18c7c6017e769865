SPECIFICATION Spec
CONSTANTS
    Char = {"a", "equals", "space", "nl", "hash", "backslash", "quote"}
    MaxText = 2
    MaxWords = 0
    MaxWord = 3
    ArgLimit = 2
    WordLenLimit = 2
    EncodeRoom = 5
CHECK_DEADLOCK FALSE
INVARIANTS EofForcesParsing
