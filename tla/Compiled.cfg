CONSTANTS
    LocalsMax = 16
    IntBits = 8
    FramesMax = 6
    HandlersMax = 16
    Keys <- SafeKeys
    Programs <- MCPrograms
SPECIFICATION MCSpec
INVARIANTS
    StackMatchesLocals
    UpvaluesOrdered
    HandlersLive
    ArgumentsBound
PROPERTIES
    ShowsWhatItMeans
    LoadedOnce
    ComesToItsEnd
    KeepsVariables
