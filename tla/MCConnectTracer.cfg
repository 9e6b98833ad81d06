\* Two threads, two connects each; both capacities are reached.
SPECIFICATION Spec
CONSTANTS
    Thread = {t1, t2}
    MapCap = 1  RingCap = 1
    None = None
    MaxConnects = 2
    MaxSkipped = 1
SYMMETRY Threads
INVARIANTS
    OneEventPerConnect
    EventsOfTheirConnect
    RecordsLeakOnlyBySkips
CHECK_DEADLOCK FALSE
