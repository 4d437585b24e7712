SPECIFICATION ListsSpec
CHECK_DEADLOCK FALSE
CONSTANTS
    Domains = {x, y}
    Handlers = {h1, h2}
    MaxEdits = 3
    MaxFaults = 1
    MaxRestarts = 1
SYMMETRY HandlerSymmetry
INVARIANTS
    MirrorsUnlessDisturbed
PROPERTY
    StoresOwnEdit
