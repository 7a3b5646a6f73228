SPECIFICATION FairSpec
CONSTANTS
    MaxEdits = 1
    MaxChanges = 1
    MaxRotations = 3
    MaxFaults = 2
    PortOf <- Ports
    NCommands = 2
    MaxExits = 2
    MaxOther = 2
CHECK_DEADLOCK FALSE
INVARIANTS
    StoredWhole
    CommandsAgree
    NothingLost
PROPERTIES
    UpdateRefusedForCause
    MountsAskedSecret
    SideCarsImplementSecretUse
    SideCarsFollow
