\* A volume of every kind, used by two pods; commands fail, the plugin and the
\* node restart, and the kubelet gives up on calls, which run beside later ones.
SPECIFICATION Spec
CONSTANTS
    p1 = p1
    p2 = p2
    c1 = c1
    c2 = c2
    NoPod = NoPod
    Volumes <- MCVolumes
    Pods = {p1, p2}
    Calls = {c1, c2}
    MaxSize = 2
    Faults = {"timeout", "mount", "lvm", "resize", "crash", "reboot"}
SYMMETRY Symmetry
INVARIANTS
    TypeOK
    PublishedIsReal
    UnstagedIsUnmounted
    ExpandedFs
PROPERTIES
    NoDataLoss
