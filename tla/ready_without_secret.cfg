CONSTANTS
    n1 = n1
    n2 = n2
    Starts <- MCAdopting
    Names = {n1}
    MaxErrors = 1
    MaxCrashes = 0
    MaxEdits = 0
SPECIFICATION Spec
INVARIANT UsableWhenSettled
