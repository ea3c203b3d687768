SPECIFICATION DeviceSpec
CONSTANTS
    SeqMax = 8
    BadKey = BadKey
    Manifests <- MCManifests
    SigningLeaf <- MCSigningLeaf
    Digest <- MCDigest
    Output <- MCOutput
    Calls <- MCCalls
INVARIANTS TypeOK CommandActsOnce PassIsTruthful NonceNeverReused NeitherEndAhead VerdictExact
