\* Files used one handle at a time, as kernel.C does.
SPECIFICATION Spec
CONSTANTS
    f1 = f1
    f2 = f2
    f3 = f3
    h1 = h1
    h2 = h2
    a = a
    b = b
    Ids = {f1, f2, f3}
    NoId = NoId
    Handles = {h1, h2}
    NoHandle = NoHandle
    Texts <- MCTexts
    Counts = {2}
    Zero = Zero
    MAX_INODES = 2
    NumBlocks = 5
    BlockSize = 2
    DiskSize = 5
    Overwritten = Overwritten
    Uses <- NoUse
    Quiet = Quiet
INVARIANTS
    TypeOK
    BlocksReusable
PROPERTY
    ImplementsFileStore
