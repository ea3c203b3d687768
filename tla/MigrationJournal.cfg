SPECIFICATION Spec
CONSTANTS
    GenMax = 4
    Epochs <- MCEpochs
    Keys = {k1, k2}
    ReadFaults = FALSE
    Empty = Empty
    Torn = Torn
    Fault = Fault
    NoRecord = NoRecord
INVARIANTS
    TypeOK
    DurableView
PROPERTIES
    OneWayPolicy
    ImplementsRegister
    NeverBricked
