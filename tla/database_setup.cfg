CONSTANTS
    Default = {"citext", "hstore"}
    Special = {"pg_cron"}
    Configs <- MCConfigs
    MaxFaults = 2
    MaxEdits = 1
SPECIFICATION FairSpec
INVARIANTS ReadyIsComplete RightsAsAsked
PROPERTIES SetupCompletes
