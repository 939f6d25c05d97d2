CONSTANTS
    n1 = n1
    f1 = f1
    f2 = f2
    r1 = r1
    r2 = r2
    c1 = c1
    c2 = c2
    t1 = t1
    t2 = t2
    None = None
    Claims <- MCClaims
    FileSystems = {f1, f2}
    Classes <- MCClasses
    Rpcs = {r1, r2}
    CloudFaults = {"query", "lost", "giveup", "restart"}
    Targets <- MCTargets
    ClaimOf <- MCClaimOf
    NodeOf <- MCNodeOf
    ReadOnly <- MCReadOnly
    NodeRpcs = {c1, c2}
    NodeFaults = {"check", "mount", "unmount", "giveup", "restart", "reboot"}
SPECIFICATION Spec
SYMMETRY Symmetry
INVARIANTS
    TypeOK
    MountedAsAsked
    DeletedIsGone
PROPERTY
    ImplementsCsiVolume
CHECK_DEADLOCK FALSE
