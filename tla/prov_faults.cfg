\* Two calls at a time for a claim of every kind of class, with every topology
\* and quota and every fault.  No symmetry, as one property is temporal.
SPECIFICATION FairSpec
CONSTANTS
    c1 = c1
    c2 = c2
    d1 = d1
    d2 = d2
    n1 = n1
    Claims = {n1}
    Calls = {c1, c2}
    Disks = {d1, d2}
    GB <- MCGB
    Zones <- MCZones
    ZoneName <- MCZoneName
    HomeZone = "ap-1"
    NoZone = "none"
    Requests <- MCRequests
    Requirements <- MCRequirements
    Quotas <- MCQuotas
    Faults = {"query", "create", "short", "stuck", "restart"}
INVARIANTS
    TypeOK
    OneVolumePerClaim
    GivenIsUsable
    PlacedWhereAsked
    MadeAsOffered
PROPERTIES
    CallsAreAnswered
