SPECIFICATION FairSpec
CONSTANTS
    status = status
    load = load
    OL = OL
    None = None
    Wait = Wait
    Var <- MCVar
    Status = status
    Value <- OneValue
    MaxAge = 1
    WireRoom = 2
    AskRoom = 4
    Modes = {"auto"}
    Prompt = {TRUE, FALSE}
    MaxChanges = 2
    MaxFailures = 0
PROPERTIES AutoFallsBack
