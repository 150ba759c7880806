SPECIFICATION Spec
CONSTANTS
    kDigitBits = 3
    kMintDigits = 2
    kSmiBits = 4
    kSignificandSize = 4
    kExponentSize = 4
    kRadix = 2
    kDivisorLog = 2
    kLog2Dividend = 1
    kLog2Divisor = 1
    kByteBits = 1
    Receivers <- MCReceivers
    Arguments <- MCArguments
    TestSlowPath = {FALSE, TRUE}
INVARIANTS
    SmallestRepresentation
CHECK_DEADLOCK FALSE
