CONSTANTS
    s1 = s1
    s2 = s2
    sw = sw
    mix = mix
    o1 = o1
    o2 = o2
    br1 = br1
    br2 = br2
    Nodes = {s1, s2, sw, mix, o1, o2}
    Outputs = {o1, o2}
    MayReturnEarly = {mix}
    Branches = {br1, br2}
    RoutesOf <- MCRoutesOf
    Graphs <- MCGraphs
SPECIFICATION Spec
INVARIANTS
    NodesRunOnce
    ExecutedWereSubmitted
    ReadsAreComplete
PROPERTY
    FrameCompletes
