SPECIFICATION PartsSpec
CONSTANTS
    Size = 40
    RecHeader = 3
    Alignment = 4
    Lens = {0, 2, 6, 10}
    b1 = b1
    b2 = b2
    b3 = b3
    b4 = b4
    Bufs = {b1, b2, b3, b4}
    NoBuf = NoBuf
    HeadField = HeadField
    m1 = m1
    m2 = m2
    m3 = m3
    Declared <- MCDecl
    Rates <- MCRates
    Hz = 12
    Scale = 2
    MaxCalls = 40
    Inputs <- MCInputs
    Words <- MCWords
    NumberOf <- MCNumberOf
    Samples <- MCSamples
    Junk = {0, 1}
    Configurations <- MCConfigurations
INVARIANTS
    Disjoint
    GapBounded
    TurnCounts
    SizesFirst
    Interop
    MemoryExact
    AsDeclared
    DeclaredBeforeUse
PROPERTIES
    ImplementsPool
    Lexed
\* a program stops when its messages are sent, the generator when its code is
\* written, the queue when every struct is lost to the race
CHECK_DEADLOCK FALSE
