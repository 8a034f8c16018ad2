SPECIFICATION InteropSpec
CONSTANTS
    Inputs <- MCInputs
    Words <- MCWords
    NumberOf <- MCNumberOf
    Samples <- MCSamples
    Junk = {0, 1}
INVARIANTS FingerprintsTell
CHECK_DEADLOCK FALSE
