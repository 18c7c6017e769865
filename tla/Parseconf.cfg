SPECIFICATION Spec
CONSTANTS
    Char = {"a", "equals", "space", "nl", "hash", "backslash", "quote"}
    MaxText = 5
    MaxWords = 2
    MaxWord = 2
    ArgLimit = 2
    WordLenLimit = 2
    EncodeRoom = 4
CHECK_DEADLOCK FALSE
INVARIANTS WordsStartEmpty ReadsAsDescribed MessagesArrive
