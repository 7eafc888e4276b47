\* Two pools of 8 and 16 frames and a hole of 6; up to four sequences out.
SPECIFICATION Spec
CONSTANTS
    KernelBase = 8
    KernelFrames = 8
    ProcessBase = 16
    ProcessFrames = 16
    HoleBase = 24
    HoleFrames = 6
    MaxRun = 4
    MaxHeld = 4
    UIntMod = 32
INVARIANTS
    TypeOK
    HeldIntact
    HeldDisjoint
    NeverAborts
    BooksRight
PROPERTY
    ImplementsAllocator
