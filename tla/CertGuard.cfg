CONSTANTS
    x1 = x1
    x2 = x2
    x3 = x3
    y1 = y1
    a = a
    b = b
    Hosts <- MCHosts
    Apexes = {a, b}
    ApexOf <- MCApexOf
    Handshakes = {h1, h2}
    Limits <- MCLimits
    Retention = 3
    MaxNow = 4
SYMMETRY Symmetry
SPECIFICATION Spec
INVARIANTS
    TypeOK
    NothingForgotten
    DiskCurrent
    OvershootBounded
