SPECIFICATION Spec
CONSTANTS
    a = a
    b = b
    x = x
    y = y
    Urls = {a, b}
    Domains = {x, y}
    Versions = {1, 2, 3}
    Names <- MCNames
    Validated = {a}
    MaxId = 2
    MaxHandlers = 1
    Budget <- SafetyBudget
INVARIANTS
    PrimaryIsOldest
    CacheNeverPoisoned
    LiveSourcesAreSaved
    EditNotForgotten
PROPERTY
    InstallsWholeListing
