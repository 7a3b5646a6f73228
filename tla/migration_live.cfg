SPECIFICATION FairSpec
CONSTANTS
    Mode = "upgrade"
    Pods = {p1, p2}
    RoleClaims = {rc1}
    Attached = {rc1}
    MaxRows = 2
    MaxOwn = 1
    SeqStep = 4
    MaxFaults = 1
    MaxEdits = 1
    DisturbReroute = FALSE
PROPERTY
    MigrationCompletes
