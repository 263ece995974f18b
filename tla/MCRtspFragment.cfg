SPECIFICATION Spec
CONSTANTS
    None = None
    Token <- Strings
    Numeral <- Decimal
    CutAnywhere = TRUE
    Callable <- SessionMethods
    MaxRequests = 1
    MaxFrames = 0
    MaxCuts = 1
INVARIANT RequestsIntact
CHECK_DEADLOCK FALSE
