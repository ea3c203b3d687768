SPECIFICATION FairSpec
CONSTANTS
    MaxConnects = 3
    MaxServerNonces = 3
    MaxRestarts = 1
    maximum_retries = 1
    FragmentCount = 2
    SidOf <- MCSidOf
    Sids = {0, 1, 2}
    Epochs = {1, 2}
    Keys = {k1, k2}
    ClientEpoch = 1
    ClientKey = k1
    NoSession = NoSession
    NoChunk = NoChunk
    Junk = Junk
    NoKeys = NoKeys
INVARIANTS
    TypeOK
    Agreement
    OneSessionPerConnect
PROPERTIES
    ConnectReturns
    LateCloseIsFinal
    NoReplayedSession
    IdempotentPeer
