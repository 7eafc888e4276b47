\* Five threads, three of which return after three bursts, in every kernel that
\* compiles in some of the calls of pass_on_CPU, or none like the committed one.
\* The model stops when thread_shutdown finds no thread to yield to.
SPECIFICATION FairSpec
CONSTANTS
    thread1 = thread1
    thread2 = thread2
    thread3 = thread3
    thread4 = thread4
    thread5 = thread5
    Null = Null
    Threads <- Five
    StartOrder <- Order5
    Returning = {thread1, thread2, thread4}
    Bursts = 3
INVARIANTS
    TypeOK
    ShutdownIsFinal
    Uninterrupted
    Terminate6Correct
PROPERTY
    ReadyRuns
CHECK_DEADLOCK FALSE
