\* Two volumes that share a config file, or two volumes that are refused;
\* everything may fail, three or four kinds of faults in one behaviour.
SPECIFICATION Spec
CONSTANTS
    t1 = t1
    t2 = t2
    v2 = v2
    w2 = w2
    noUrl = noUrl
    badArgs = badArgs
    c1 = c1
    c2 = c2
    p1 = p1
    p2 = p2
    None = None
    Targets = {t1, t2}
    Volumes = {v2, w2, noUrl, badArgs}
    Claims <- MCClaims
    Options <- MCOptions
    Calls = {c1, c2}
    Procs = {p1, p2}
    Faults <- MCFaults
SYMMETRY Symmetry
INVARIANTS
    TypeOK
    AnswersAreTrue
    MountedAsAsked
