SPECIFICATION WalkSpec
CONSTANTS
    one = one
    oneDouble = oneDouble
    collides = collides
    last = last
    Nil = Nil
    True = True
    Keys <- MCKeys
    Values = {Nil}
    NaNs = {}
    Class <- MCClass
    Hash <- MCHash
    MIN_CAPACITY = 4
    MAX_CAPACITY = 8
INVARIANTS
    EachLastingEntryOnce
    StoredUnderItsKey
    ReadsInBounds
