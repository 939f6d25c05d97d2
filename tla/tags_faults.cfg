\* Requests may fail, disks appear and the container restarts: three disks, two
\* workers.  No symmetry, as one property is temporal.
SPECIFICATION TagsFairSpec
CONSTANTS
    k1 = k1
    k2 = k2
    v1 = v1
    d1 = d1
    d2 = d2
    d3 = d3
    NoTag = NoTag
    Keys = {k1, k2}
    Values = {v1}
    Disks = {d1, d2, d3}
    MaxWorkers = 2
    MaxChanges = 2
    TagsFaults = {"api", "file", "create", "restart"}
INVARIANTS
    TagsTypeOK
    RecordedRoundIsComplete
PROPERTIES
    RoundsEnd
