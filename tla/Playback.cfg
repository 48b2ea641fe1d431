\* A streamed recording with memory for three of its four chunks, and one loaded whole that an admin edits.
SPECIFICATION Spec
CONSTANTS
    None = None
    unit = unit
    EndFrame = 3
    ChunkSize = 1
    PrefetchFrom = 0
    MaxInMemory = 3
    Entities = {unit}
    Life <- OneLife
    KillFrames = {1, 3}
    Sessions <- FourSessions
    MaxAdvance = 2
    MaxStray = 1
    MaxSaves = 2
INVARIANTS TypeOK CacheConsistent ShownIsCurrent FocusHolds PlayingHasLoop
PROPERTIES EvictsLeastRecent Advances
CONSTRAINT Bounded
CHECK_DEADLOCK FALSE
