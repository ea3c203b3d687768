SPECIFICATION SessionSpec
CONSTANTS
    Inputs <- MCInputs
    Harvard = FALSE
    Messages <- MCMessages
INVARIANTS
    TypeOK
    KeysAgree
    GenuineFramesAccepted
    CompressionExact
    NoCoefficientOverflow
    NothingLeftBehind
    AeadExact
CHECK_DEADLOCK FALSE
