\* Source: five frames through a queue of two. Pacing: two rates, two readback
\* streams, a queue of two and one slot of the pipeline. Screen: two windows, the
\* same queue. Times in units of which a frame takes two or three.
CONSTANTS
    Capacity = 2
    MaxFrames = 5
    None = None
    Handles = {st1, st2}
    Dimensions = {hd}
    Windows = {w1, w2}
    Unset = Unset
    ObservationCount = 2
    AllowedLateness = 1
    Durations = {2, 3}
    PacingHorizon = 8
    ScreenHorizon = 6
    Duration = 2
    Buffers = {1}
    QueueHeadroom = 1
    PipelineHeadroom = 1
SPECIFICATION AllSpec
INVARIANTS
    FramesAreAccountedFor
    QueueIsBounded
    UploadsAreSettled
    RepeatsAreRetained
    PipelineHasSlots
    PresenterFollowsSettings
PROPERTIES
    PlayedInOrder
    OutputsPlayInOrder
    CadencesCatchUp
