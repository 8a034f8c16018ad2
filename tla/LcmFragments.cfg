SPECIFICATION Spec
CONSTANTS
    t1 = t1  t2 = t2  t3 = t3  t4 = t4  s1 = s1  s2 = s2  s3 = s3
    Threads = {t1, t2, t3, t4}
    Sources = {s1, s2, s3}
    SourceOf <- MCSourceOf
    NoThread = NoThread
    Mtu = 3
    NameSize = 2
    Sizes <- MCSizes
    MaxFragments = 65535
    MaxMessage = 100
    MaxTotal = 2
    MaxBufs = 1
    MaxPublished = 3
    MaxWire = 2
    MaxTwice = 1
INVARIANTS
    TableSound
    Whole
CHECK_DEADLOCK FALSE
SYMMETRY Symmetry
