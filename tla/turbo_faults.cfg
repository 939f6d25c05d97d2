\* A node with two volumes of one file system, of which one may have two calls
\* running, or a controller with one volume and three calls, with every fault.
SPECIFICATION DriverSpec
CONSTANTS
    v1 = v1
    v2 = v2
    k1 = k1
    s1 = s1
    c1 = c1
    c2 = c2
    c3 = c3
    w1 = w1
    w2 = w2
    w3 = w3
    NoSource = NoSource
    NoKey = NoKey
    Volumes = {v1, v2}
    Keys = {k1}
    KeyOf <- Shared
    SourceOf <- SharedSource
    Calls = {c1, c2, c3}
    VolumeOf <- MCVolumeOf
    Faults = {"mount", "config", "giveup", "crash", "reboot"}
    PvNames <- MCPvNames
    TurboClasses <- MCClasses
    Exports <- MCExports
    ClusterId = "cls"
    Workers = {w1, w2, w3}
    NoWorker = NoWorker
    ControllerFaults = {"check", "mount", "dir", "unmount", "giveup", "restart"}
SYMMETRY Symmetry
INVARIANTS
    DriverTypeOK
    StagedIsMounted
    NoHollowTarget
    NoLeakedMount
    CreatedHasDirectory
    DeletedHasNoDirectory
CHECK_DEADLOCK FALSE
