CONSTANTS
    MultiAZ = TRUE
    MaxErrors = 1
    MaxCrashes = 1
    MaxReturns = 1
SPECIFICATION FairSpec
CHECK_DEADLOCK FALSE
INVARIANTS WholeHost ForgottenReleased
PROPERTIES TaggedBeforeRetired HostComes HostGoes
