CONSTANTS
    Classes <- MCClasses
    DefaultClass = "small"
    Versions <- MCVersions
    DefaultVersion <- MCDefaultVersion
    Requests <- MCShapeRemoved
    MaxFaults = 0
    MaxEdits = 1
SPECIFICATION Spec
INVARIANT DataFollows
