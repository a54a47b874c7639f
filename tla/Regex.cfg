CONSTANTS
    None = None
    Characters <- MCCharacters
    Searches <- MCSearches
    Class <- MCClass
    MAX_REGEX_GROUPS = 2
    MAX_REPEAT = 4096
    MAX_DEPTH = 100000
SPECIFICATION MCSpec
INVARIANTS
    ParsesThePattern
    MatchIsAWay
    BacktracksWhereTried
    ReplacingByItself
    EveryMatchOnce
PROPERTIES
    StaysInText
    MovesOn
    SearchEnds
