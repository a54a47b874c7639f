SPECIFICATION Spec
CONSTANTS
    FRAMES_MAX = 2
    STACK_MAX = 8
    EXCEPTION_HANDLER_MAX = 2
    MAX_LOCALS = 1
    MAX_OPEN = 2
    REPL = FALSE
    Calls = {"native", "check", "toString"}
    Forms = {"catchReturn", "nestedReturn", "finallyReturn", "callbackReturn", "breakTry"}
INVARIANTS
    TypeOK
    RunNesting
CHECK_DEADLOCK FALSE
