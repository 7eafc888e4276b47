\* All six kernels, from power-on, on small machines that every test just fits into:
\* the fifteen frames that mp2 can take, two tables and four pages in mp3, three regions
\* of half a page to one and a half in each pool of mp4.
SPECIFICATION Spec
CONSTANTS
    Columns = 2
    Rows = 2
    TabStop = 2
    Hz = 2
    Seconds = 2
    Allocations = 6
    Mp2Base = 16
    Mp2Size = 16
    Entries = 16
    Mp3Size = 16
    Accesses = 40
    HoleOffset = 8
    HoleSize = 2
    TableWords = 8
    Mp4Size = 16
    Regions = 3
    RegionSize = 4
    Threads = 4
    BlockNumbers = {0, 255, 256, 20479}
    MaxTicks = 5
    MaxKeys = 1
INVARIANTS
    BootSafe
    InterruptsHandled
    MemoryHolds
    HardwareTakes
PROPERTIES
    MainEnds
CHECK_DEADLOCK FALSE
