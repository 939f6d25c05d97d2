\* Two goosefs-lite volumes of one pod; nothing fails.
\* The system stops once all pods are gone.
SPECIFICATION Spec
CONSTANTS
    t1 = t1
    t2 = t2
    v1 = v1
    v2 = v2
    v3 = v3
    v4 = v4
    v5 = v5
    c1 = c1
    c2 = c2
    j1 = j1
    j2 = j2
    None = None
    Pods = {"p1"}
    Targets = {t1, t2}
    Volumes = {v1, v2, v3, v4, v5}
    PodOf <- OnePod
    Claims <- GoosefsClaims
    Options <- MCOptions
    Keys = {"timeout"}
    Calls = {c1, c2}
    Jobs = {j1, j2}
    Faults = {}
CHECK_DEADLOCK FALSE
INVARIANTS
    OwnSecret
