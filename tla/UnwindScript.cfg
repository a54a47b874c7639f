SPECIFICATION FairSpec
CONSTANTS
    FRAMES_MAX = 3
    STACK_MAX = 24
    EXCEPTION_HANDLER_MAX = 3
    MAX_LOCALS = 2
    MAX_OPEN = 2
    REPL = FALSE
    Calls = {"native", "magic"}
    Forms = {}
INVARIANTS
    StackLayout
    HandlersMatchTries
    StaysDefined
PROPERTIES
    FinallyNotSkipped
    CatchNotSkipped
    UnwindingEnds
    ImplementsStructuredControl
CHECK_DEADLOCK FALSE
