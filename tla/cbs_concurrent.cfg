\* A volume of two disks, whose goroutines fail one by one, a volume id that
\* names no disk, two nodes and one that is no CVM instance: every overlap of
\* two calls, publish, unpublish, expand or delete, with crashes.
SPECIFICATION Spec
CONSTANTS
    c1 = c1
    c2 = c2
    d1 = d1
    d2 = d2
    n1 = n1
    n2 = n2
    nx = nx
    v1 = v1
    vbad = vbad
    Disks = {d1, d2}
    Volumes = {v1, vbad}
    DisksOf <- TwoDisks
    Nodes = {n1, n2, nx}
    SupportedNodes = {n1, n2}
    NoNode = NoNode
    NoVolume = NoVolume
    Calls = {c1, c2}
    MaxSize = 2
SYMMETRY Symmetry
INVARIANTS
    TypeOK
    PublishedWhenAlone
    UnpublishedWhenAlone
    DeletedIsGone
