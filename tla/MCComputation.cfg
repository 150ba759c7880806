SPECIFICATION ComputationSpec
CONSTANTS
    kDigitBits = 3
    kMintDigits = 2
    kSmiBits = 4
    kSignificandSize = 4
    kExponentSize = 4
    kRadix = 2
    kDivisorLog = 2
    kLog2Dividend = 1
    kLog2Divisor = 1
    kByteBits = 1
    Receivers <- MCReceivers
    Arguments <- MCArguments
    TestSlowPath = {FALSE, TRUE}
    kBitsPerByte = 2
    kWordBytes = 3
    kFNVPrime = 5
    Salts = {0}
    Randoms = {0, 9}
    Worlds <- MCWorlds
    Indices <- MCIndices
    Integers64 <- MCIntegers64
    MaxCalls = 1
    Arities = {9}
    ClosureArities = {7}
    Copies = {2}
    Temporaries = {9}
    Operands <- MCOperands
    Lengths = {5, 64}
    LeafCost = 4
    LengthCost = 2
    MaxVisits = 4
    HandlersResume = FALSE
    kMaxTemps = 35
    StackSizes = {29}
    MaxContexts = 4
    MaxClosures = 1
    MaxBci = 2
    MaxDepth = 2
    MaxTurns = 1
    MaxReflections = 1
    Methods = {"m", "ensure", "root"}
    UnwindProtect = {"ensure"}
    SimulationRoot = {"root"}
    Dispatch = "dispatch"
    CannotReturn = "cannotReturn"
    AboutToReturn = "aboutToReturn"
INVARIANTS
    NumbersExact ElementsExact StringsEqualByContents RunsAsCompiled StackAsTracked AnswersSound
PROPERTIES ImplementsContexts EnsureNotSkipped
CHECK_DEADLOCK FALSE
