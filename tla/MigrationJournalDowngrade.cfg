SPECIFICATION Spec
CONSTANTS
    GenMax = 4
    Epochs <- MCEpochs
    Keys = {k1, k2}
    ReadFaults = TRUE
    Empty = Empty
    Torn = Torn
    Fault = Fault
    NoRecord = NoRecord
PROPERTIES
    NoDowngradeCommit
