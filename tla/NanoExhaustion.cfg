\* As many power cycles as there are epochs and two more: the generation
\* counter, one ahead of the epoch, wraps first.
SPECIFICATION Spec
CONSTANTS
    UINT32_MAX = 3
    Manifests <- MCManifests
    MaxBoots = 5
    MaxChallenges = 1
    FileMayVanish = FALSE
PROPERTIES ExhaustionIsFailClosed
