SPECIFICATION Spec
CONSTANTS
    Threads = {t1, t2}
    Viewers = {v1}
    Names = {n1, n2}
    Outcomes = {"blocked"}
    Capacity = 1
    ChannelCapacity = 2
    MaxTracked = 1
    PageSize = 1
    MaxEvents = 3
SYMMETRY Symmetry
INVARIANTS
    FiguresCoverRows
    HistoryIsWhole
    NothingTwice
