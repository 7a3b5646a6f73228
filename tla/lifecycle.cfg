CONSTANTS
    Classes <- MCClasses
    DefaultClass = "small"
    Versions <- MCVersions
    DefaultVersion <- MCDefaultVersion
    Requests <- MCUpgrades
    MaxFaults = 1
    MaxEdits = 4
SPECIFICATION FairSpec
INVARIANTS DataFollows ActiveHostKept GoneReleasesHost
  
