CONSTANTS
    Addr <- MCAddr
    None = None
    Tombstone = Tombstone
    Contents = {a, b}
    Hash <- MCHash
    Containers <- MCContainers
    Appends = {"guarded", "popped"}
    StackMax = 2
    MIN_CAPACITY = 2
SPECIFICATION Spec
INVARIANTS
    NothingDangles
    Interned
PROPERTIES
    FreesAllGarbage
    CollectionEnds
CHECK_DEADLOCK FALSE
