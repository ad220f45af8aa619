SPECIFICATION FairSpec
CONSTANTS
    Byte = {0, 1}
    MinSize = 2
    AvgSize = 4
    MaxSize = 6
    Cut <- MCCut
    Width = 4
    Gear <- SmallGear
    MaxStream = 11
    MaxFeed = 3
INVARIANTS StreamEqualsWhole BufferBounded
PROPERTIES FeedReturns
CHECK_DEADLOCK FALSE
