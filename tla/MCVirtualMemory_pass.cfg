\* Clients that use whole pages and words that are no present entries.
SPECIFICATION Spec
CONSTANTS
    code_pool = code_pool
    heap_pool = heap_pool
    Pools <- Both
    Base <- BothBase
    Length <- BothLength
    PageSize = 8
    ProcessFrames = 16
    Sizes <- Mixed
    Values <- Even
    ReleasesUnfilled = FALSE
    MaxAllocations = 2
INVARIANTS
    TypeOK
    FramesOnce
    DataKept
    FaultIsLocal
    NeverHalts
CHECK_DEADLOCK FALSE
