SPECIFICATION FairSpec
CONSTANTS
    status = status
    load = load
    OL = OL
    None = None
    Wait = Wait
    Var <- MCVar
    Status = status
    Value <- OneValue
    MaxAge = 1
    WireRoom = 2
    AskRoom = 4
    Modes = {"auto", "yes"}
    Prompt = {TRUE, FALSE}
    MaxChanges = 2
    MaxFailures = 1
INVARIANTS CopyFollowsDriver VerdictIsCurrent
PROPERTIES SilenceIsNoticed DataComesBack
