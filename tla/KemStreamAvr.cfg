SPECIFICATION Spec
CONSTANTS
    Inputs <- MCOneInput
    Harvard = TRUE
INVARIANT
    PreservesWireBytes
CHECK_DEADLOCK FALSE
