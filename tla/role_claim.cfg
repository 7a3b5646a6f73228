CONSTANTS
    r1 = r1
    r2 = r2
    Roles = {r1, r2}
    Maps <- MCMaps
    FirstMaps <- MCFirstMaps
    MaxFaults = 1
    MaxEdits = 2
    MaxEvents = 2
    MaxSource = 1
SPECIFICATION FairSpec
CHECK_DEADLOCK FALSE
INVARIANTS UserCanLogIn GoneLeavesNoUser
PROPERTIES CopyFollows RolesFollow DeletionCompletes
