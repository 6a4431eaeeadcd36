\* Uploads: one stream of two slots, three uploads, a budget two oversized slots
\* exceed. Readbacks: one output of two slots, four frames, a budget two
\* oversized slots exceed. Backends: one slot at a time of either direction.
CONSTANTS
    Streams = {stream1}
    Slots = {s1, s2}
    MaxSlots = 2
    InitialSlots = 1
    MaxUploads = 3
    Estimate = 1
    ActualBytes = {1, 2}
    Budget = 3
    ReadbackSlots = {r1, r2}
    InitialReadbackSlots = 1
    ReadbackBudget = 3
    MaxFrames = 4
    Backends = {b1}
    None = None
SPECIFICATION AllSpec
INVARIANTS
    SlotsAndBytesAreAccountedFor
    TransfersAreUndisturbed
PROPERTIES
    TransfersEnd
    ReadbackDeliversFrames
