SPECIFICATION FairSpec
CONSTANTS
    Keys = {1, 2}
    Mains = {m1, m2}
    None = None
    Edited = {"settings", "blacklist", "forward_zones", "blocklists"}
    MaxEdits = 2
    MaxFaults = 1
    MaxRestarts = 1
INVARIANTS
    VersionStandsForState
    WholeSections
PROPERTY
    EventuallyMirrors
