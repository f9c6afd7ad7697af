CONSTANTS
    n1 = n1
    n2 = n2
    a = a
    b = b
    i1 = i1
    i2 = i2
    i3 = i3
    Nodes <- MCNodes
    IPs = {a, b}
    Address <- MCAddress
    PublicIPs <- MCOwn
    Ids = {i1, i2, i3}
SYMMETRY Symmetry
SPECIFICATION Spec
INVARIANTS
    TypeOK
    LeavesNothing
PROPERTIES
    ServingKept
