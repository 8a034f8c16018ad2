SPECIFICATION FairSpec
CONSTANTS
    b1 = b1
    b2 = b2
    b3 = b3
    NoBuf = NoBuf
    Bufs <- MCBufs
    RingSize = 9
    RecHeader = 1
    Alignment = 1
    PacketMax = 3
    ShortSizes = {0, 1, 3}
    MaxDatagrams = 4
    MaxDepth = 1
CHECK_DEADLOCK FALSE
INVARIANTS
    OneWakeup
    OneHolder
    AssertsHold
PROPERTIES
    IsMailbox
    EventuallyDelivered
