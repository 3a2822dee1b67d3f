CONSTANTS
    NumSenders = 2
    MaxBatches = 1
    Limit = 1
    Threads = 1
    MaxFaults = 1
SPECIFICATION FairSpec
PROPERTY ChannelsClose
CHECK_DEADLOCK FALSE
