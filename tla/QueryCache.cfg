SPECIFICATION FairSpec
CHECK_DEADLOCK FALSE
CONSTANTS
    Names = {n}
    Queries = {q1, q2}
    Targets = {t}
    Pool = Pool
    None = None
    Ttls = {0, 3}
    NegativeCap = 1
    Bounds <- TwoBounds
    Timeout = 1
    MaxQueries = 2
    MaxEdits = 2
    MaxNow = 4
INVARIANTS
    OnlyStraddlersAreStale
    StaleAnswersExpire
PROPERTIES
    EveryQueryIsAnswered
