SPECIFICATION Spec
CONSTANTS
    UINT32_MAX = 7
    Manifests <- MCManifests
    MaxBoots = 2
    MaxChallenges = 2
    FileMayVanish = TRUE
PROPERTIES FileLossDetected
