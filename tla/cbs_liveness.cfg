\* Every call is answered, and expansions of one disk to different sizes, old and
\* new, overlap; no symmetry, as one property is temporal.
SPECIFICATION FairSpec
CONSTANTS
    c1 = c1
    c2 = c2
    d1 = d1
    d2 = d2
    n1 = n1
    n2 = n2
    nx = nx
    v1 = v1
    vbad = vbad
    Disks = {d1}
    Volumes = {v1}
    DisksOf <- OneDisk
    Nodes = {n1, n2}
    SupportedNodes = {n1, n2}
    NoNode = NoNode
    NoVolume = NoVolume
    Calls = {c1, c2}
    MaxSize = 3
INVARIANTS
    ExpandedToSize
PROPERTIES
    CallsAreAnswered
