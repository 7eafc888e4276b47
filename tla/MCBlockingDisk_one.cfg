\* Four threads; only thread2 uses the disk.
SPECIFICATION FairSpec
CONSTANTS
    thread1 = thread1
    thread2 = thread2
    thread3 = thread3
    thread4 = thread4
    Compute = {thread1, thread3, thread4}
    Users = {thread2}
    StartOrder <- Order
    NBlocks = 3
    Null = Null
    Garbage = Garbage
PROPERTIES
    UsersProgress
    ImplementsDisk
