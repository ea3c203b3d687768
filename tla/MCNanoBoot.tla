----------------------------- MODULE MCNanoBoot -----------------------------
\* A genuine manifest, one with a wrong signature, one whose policy sequence
\* is not above the stored one.
EXTENDS NanoBoot

MCManifests == {[sequence |-> 1, signed |-> TRUE],
                [sequence |-> 1, signed |-> FALSE],
                [sequence |-> 0, signed |-> TRUE]}
=============================================================================
