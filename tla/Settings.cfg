SPECIFICATION ProgramSpec
CONSTANTS
    Decl <- MCDecl
    Custom = {"quux"}
    Fields = {"x", "e"}
    Enums = {"e"}
    Lo <- MCLo
    Hi <- MCHi
    Dflt <- MCDflt
    Bodies <- MCBodies
    NaN = NaN
    MaxMsgs = 2
    MaxArrivals = 3
    Off = Off
    MaxMessages = 4
    MaxTotal = 1
    MaxReceived = 5
    MaxFailures = 2
INVARIANTS
    Handshake
    NoneStranded
    PartsInUse
\* a class whose arrivals are used up stops, as does a provider that is destroyed
CHECK_DEADLOCK FALSE
PROPERTIES
    BoundsKept
    IsStore
    EventuallyHandled
    AllHandled
    SetupReturns
