\* Four threads; thread2 and thread3 use the disk, as in mp6 main().
SPECIFICATION FairSpec
CONSTANTS
    thread1 = thread1
    thread2 = thread2
    thread3 = thread3
    thread4 = thread4
    Compute = {thread1, thread4}
    Users = {thread2, thread3}
    StartOrder <- Order
    NBlocks = 2
    Null = Null
    Garbage = Garbage
INVARIANTS
    TypeOK
    AtOnePlace
    NeverDispatchesNull
PROPERTY
    ComputeRuns
