\* Two nodes with two fields each, one session, two writes.
CONSTANTS
    Nodes = {n1, n2}
    Fields = {f1, f2}
    Values = {v1, v2}
    Absent = absent
    Conns = {c1}
    NoConn = none
    NoNode = none
    MaxWrites = 2
SPECIFICATION Spec
INVARIANTS
    StatusIsKept
PROPERTY
    ClientsCatchUp
