\* Two calls at a time, with every fault.
SPECIFICATION Spec
CONSTANTS
    a = a
    b = b
    s1 = s1
    s2 = s2
    s3 = s3
    c1 = c1
    c2 = c2
    NoName = NoName
    NoId = NoId
    Names = {a, b}
    SnapIds = {s1, s2, s3}
    Calls = {c1, c2}
    Faults = {"describe", "lost", "store", "restart"}
SYMMETRY Symmetry
INVARIANTS
    TypeOK
    DeletedMeansGone
    AnswersOwnSnapshot
    LiveIsTracked
