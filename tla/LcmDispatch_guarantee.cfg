SPECIFICATION Spec
CONSTANTS
    Channels = {"a", "b"}
    MaxSubs = 4
    Matches <- MCMatches
    MaxDepth = 1
CHECK_DEADLOCK FALSE
INVARIANT
    DispatchGuarantee
