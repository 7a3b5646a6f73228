SPECIFICATION Spec
CONSTANTS
    Mode = "upgrade"
    Pods = {p1, p2}
    RoleClaims = {rc1}
    Attached = {rc1}
    MaxRows = 4
    MaxOwn = 1
    SeqStep = 2
    MaxFaults = 1
    MaxEdits = 1
    DisturbReroute = TRUE
SYMMETRY PodSymmetry
INVARIANTS
    SourceDsnPreserved
    LossBoundedByTargetWrites
    NoIdCollision
