\* Four power cycles, three handshakes of the peer, the state file may vanish;
\* MaxBoots stays below UINT32_MAX, so the generation does not wrap.
SPECIFICATION Spec
CONSTANTS
    UINT32_MAX = 7
    Manifests <- MCManifests
    MaxBoots = 4
    MaxChallenges = 3
    FileMayVanish = TRUE
INVARIANTS TypeOK OneSessionPerEpoch LiveIsDurableOnBothSides
PROPERTIES DurableNeverRegresses EpochNeverReused
