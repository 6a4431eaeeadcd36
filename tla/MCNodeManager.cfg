CONSTANTS
    app = app
    a = a
    b = b
    c = c
    settings = settings
    effect = effect
    unknown = unknown
    opt1 = opt1
    opt2 = opt2
    bad = bad
    none = none
    Ids = {app, a, b, c}
    SettingsId = app
    Types = {settings, effect}
    SettingsType = settings
    UnknownType = unknown
    Ifaces <- MCIfaces
    Inputs = {"in"}
    Single <- MCIfaces
    NodeIfaces <- MCNodeIfaces
    Accepts <- MCAccepts
    Options = {opt1, opt2}
    TypeOptions <- MCTypeOptions
    DefaultOptions = opt1
    BadOptions = bad
    Requests <- MCRequests
    NoNode = none
CONSTRAINT MCBacklog
SYMMETRY MCSymmetry
SPECIFICATION Spec
INVARIANTS
    TypeOK
    GraphConsistent
    GraphAcyclic
    FramesSeeAGraph
PROPERTIES
    PreparedDiesOnRenderThread
    SnapshotCatchesUp
    BroadcastsTellTheCommand
