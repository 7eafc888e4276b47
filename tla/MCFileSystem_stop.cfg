\* Several handles on a file, mounting again, stops at any write.
SPECIFICATION Spec
CONSTANTS
    f1 = f1
    f2 = f2
    f3 = f3
    h1 = h1
    h2 = h2
    a = a
    b = b
    Ids = {f1, f2, f3}
    NoId = NoId
    Handles = {h1, h2}
    NoHandle = NoHandle
    Texts <- OneText
    Counts = {1}
    Zero = Zero
    MAX_INODES = 2
    NumBlocks = 5
    BlockSize = 2
    DiskSize = 5
    Overwritten = Overwritten
    Uses <- Careless
    Quiet = Quiet
SYMMETRY Symmetry
INVARIANTS
    BlocksKeptApart
PROPERTY
    StopKeepsFiles
