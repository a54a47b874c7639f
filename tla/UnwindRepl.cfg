SPECIFICATION Spec
CONSTANTS
    FRAMES_MAX = 3
    STACK_MAX = 24
    EXCEPTION_HANDLER_MAX = 2
    MAX_LOCALS = 2
    MAX_OPEN = 2
    REPL = TRUE
    Calls = {"native", "magic", "toString"}
    Forms = {}
PROPERTIES
    OnlySwallowedUnwindsStay
    LinesEndClean
CHECK_DEADLOCK FALSE
