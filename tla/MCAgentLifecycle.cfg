\* Two of the four probes: a Close may be between them.
SPECIFICATION FairSpec
CONSTANTS
    Probe = {kprobe, kretprobe}
    ChanCap = 1
INVARIANTS
    PanicOnlyAfterCancel
    CleanExit
PROPERTIES
    CancelEnds
    ExportsUnlessStopped
CHECK_DEADLOCK FALSE
