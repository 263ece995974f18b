SPECIFICATION Spec
CONSTANTS
    None = None
    Token <- Strings
    Numeral <- Decimal
    CutAnywhere = FALSE
    Callable <- SessionMethods
    MaxRequests = 2
    MaxFrames = 1
    MaxCuts = 1
INVARIANTS StreamsIntact SessionCarried
PROPERTIES AnswersTheRequest RequestsAnswered
CHECK_DEADLOCK FALSE
