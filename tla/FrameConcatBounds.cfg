CONSTANTS
    Diagrams <- MCDiagrams
    LiveLimit = 4
SPECIFICATION Spec
INVARIANTS
    TypeOK
    LiveCountsDistinct
    SegmentsWithinLive
    AtMostOneMerged
    MemoryBounded
