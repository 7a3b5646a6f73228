SPECIFICATION Spec
CONSTANTS
    Mode = "migration"
    Pods = {p1, p2}
    RoleClaims = {rc1, rc2}
    Attached = {rc1, rc2}
    MaxRows = 2
    MaxOwn = 1
    SeqStep = 4
    MaxFaults = 2
    MaxEdits = 1
    DisturbReroute = TRUE
SYMMETRY PodSymmetry
INVARIANTS
    TypeOK
    ActsOnRecordedState
    SuperuserIsTemporary
    RoleClaimsFollow
PROPERTIES
    PopulatedTargetNeverDropped
    KeepsCutoverPromise
