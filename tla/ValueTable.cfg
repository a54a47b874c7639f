SPECIFICATION Spec
CONSTANTS
    one = one
    oneDouble = oneDouble
    before = before
    nan = nan
    v = v
    Nil = Nil
    True = True
    Keys <- MCKeys
    Values <- MCValues
    NaNs = {nan}
    Class <- MCClass
    Hash <- MCHash
    MIN_CAPACITY = 4
    MAX_CAPACITY = 8
INVARIANTS
    TypeOK
    CountsExact
    ProbesEnd
    Findable
    SizeExact
PROPERTIES
    ImplementsDictionary
