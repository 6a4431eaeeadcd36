SPECIFICATION PartsSpec
CONSTANTS
    c1 = c1
    c2 = c2
    n1 = n1
    n2 = n2
    n3 = n3
    l1 = l1
    low = low
    wrong = wrong
    d1 = d1
    d2 = d2
    card = card
    other = other
    locked = locked
    warm = warm
    None = None
    Clients <- TwoClients
    Ids <- ThreeIds
    InitialNodes <- FirstIds
    Locals <- OneLocal
    Values <- TwoValues
    Default = low
    Corrected <- Corrections
    MaxConns = 2
    MaxEdits = 3
    Devices = {d1, d2}
    Names = {card, other}
    Outputs = {d1, d2}
    Signals = {locked}
    Temperatures = {warm}
    Unknown = Unknown
    NoDevice = NoDevice
    Scenarios <- PlayingOrShowing
    ChangeBound = 3
SYMMETRY Symmetry
CHECK_DEADLOCK FALSE
INVARIANTS SettledEditorsAgree DevicesAreShown
