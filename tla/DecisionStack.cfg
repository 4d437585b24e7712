SPECIFICATION Spec
CHECK_DEADLOCK FALSE
CONSTANTS
    Targets = {t}
    Modes = {nx, null}
    None = None
    Pauses = {1}
    MaxSwaps = 3
    MaxNow = 1
INVARIANTS
    DecisionIsAtomic
    StandingDecisionHolds
