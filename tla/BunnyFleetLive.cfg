CONSTANTS
    n1 = n1
    n2 = n2
    a = a
    b = b
    i1 = i1
    i2 = i2
    i3 = i3
    Nodes = {n1}
    IPs = {a, b}
    Address <- MCAddress1
    PublicIPs <- MCBoth1
    Ids = {i1, i2, i3}
SPECIFICATION FairSpec
PROPERTIES
    Healed
