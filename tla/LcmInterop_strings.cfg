SPECIFICATION InteropSpec
CONSTANTS
    Inputs <- MCInputs
    Words <- MCWords
    NumberOf <- MCNumberOf
    Samples <- MCSamples
    Junk = {0, 1}
INVARIANTS StringsAreUtf8
CHECK_DEADLOCK FALSE
