CONSTANTS
    None = None
    Characters <- MCCharacters
    Searches <- MCUnmatched
    Class <- MCClass
    MAX_REGEX_GROUPS = 2
    MAX_REPEAT = 4096
    MAX_DEPTH = 100000
SPECIFICATION MCSpec
INVARIANT CapturesAreOfTheMatch
