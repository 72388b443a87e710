SPECIFICATION StructuresSpec
CONSTANTS
    Capacity = 4
    Generations = 2
    MaxReleases = 3
    Keys = {1, 2, 3, 4, 5, 6, 7}
    Texts <- MCTexts
    MaxNesting = 2
    MaxTokens = 8
    BufferSizes = {2, 3}
    Lengths = {0, 1, 2, 3, 4}
    MaxDynamicSize = 1000
    MaxGiven = 8
INVARIANTS FreelistSound StaleHandleRejected LiveHandleResolves ReadsGrammar TextKept
PROPERTIES ImplementsHandleSet ImplementsOrderedSet
CHECK_DEADLOCK FALSE
