CONSTANTS
    LocalsMax = 16
    IntBits = 8
    FramesMax = 6
    HandlersMax = 16
    Keys <- OptionalRestKeys
    Programs <- MCPrograms
SPECIFICATION MCSpec
INVARIANT ArgumentsBound
