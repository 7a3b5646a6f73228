CONSTANTS
    n1 = n1
    n2 = n2
    Starts <- MCStarts
    Names = {n1, n2}
    MaxErrors = 2
    MaxCrashes = 1
    MaxEdits = 1
SPECIFICATION FairSpec
INVARIANTS SoundUntilFailure RenameBlocked
PROPERTIES PasswordInUseKept EventuallyUsable RotationContinues
