SPECIFICATION Spec
CONSTANTS
    Mode = "migration"
    Pods = {p1, p2}
    RoleClaims = {rc1}
    Attached = {rc1}
    MaxRows = 1
    MaxOwn = 0
    SeqStep = 4
    MaxFaults = 1
    MaxEdits = 0
    DisturbReroute = TRUE
INVARIANT
    SourceDsnPreserved
