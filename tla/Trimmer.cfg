SPECIFICATION Spec
CONSTANTS
    Durations = {2, 3}
    FrameMs = 2
    Proximities = {1}
    MaxChunks = 2
    ScrubTo = {1, 2}
INVARIANTS
    ChunksPartition
    ScrubHasItsPage
PROPERTIES
    NoEditsRejected
    SkipsDisabled
