\* An input or an output of a device; two captures or playbacks alive at once, two
\* formats, one frame in the source queue, one ahead on the device. The system stops
\* when the nodes and the registry are gone.
CONSTANTS
    Graphs <- InputOrOutput
    Captures = {c1, c2}
    Modes = {m1, m2}
    FirstMode = m1
    QueueBound = 1
    TaskBound = 1
    Playbacks = {p1, p2}
    Target = 1
    Headroom = 1
    Reserve = 1
    PipelineBound = 1
    None = None
    Unset = Unset
SPECIFICATION SystemSpec
INVARIANTS
    DevicesHaveOneUser
    PlaybacksFollowTheirSettings
PROPERTIES
    DevicesAreGivenBack
    PrerollEnds
CHECK_DEADLOCK FALSE
