SPECIFICATION FairSpec
CHECK_DEADLOCK FALSE
CONSTANTS
    UdpSockets = 2
    UdpPermits = 1
    Connections = {c1}
    ChannelCap = 2
    BatchCap = 2
    PurgeBatch = 1
    Retentions = {1}
    Left = 2
    MaxMessages = 3
    MaxUpsets = 1
    MaxDay = 2
INVARIANTS
    LossesAreCounted
    BufferedTailIsWritten
    RetentionHolds
PROPERTY
    StopsByItself
