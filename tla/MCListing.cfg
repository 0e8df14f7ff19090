SPECIFICATION LSpec
CONSTANTS
    PageBits = 2
    SizeBits = 4
    MinPageSize = 2
    AmountBits = 8
    MantissaBits = 4
    NotANumber = NotANumber
    ParseError = ParseError
    MaxRows = 5
    Requested <- Amounts
    FirstPages <- ZeroOrBelow
    AskedSizes = {3, 9, NotANumber}
    GrpcSizes = {13}
    Ties = FALSE
INVARIANT NoneMissed
INVARIANT RepeatsBounded
INVARIANT AmountsSurvive
PROPERTY WalkEnds
