---------------------------- MODULE MCKemStream ----------------------------
(* Instance of the streaming encapsulation for TLC. *)
EXTENDS KemStream

\* The largest canonical coefficient on either side of a byte triple, and
\* keys with one coefficient that is q or all ones.
MCKeys == {<<3328, 1023>>, <<256, 3328>>, <<3329, 0>>, <<0, 3329>>, <<4095, 4095>>}

\* base + i runs over every value from -1792 to 1791: inverse_ntt leaves
\* magnitudes up to 1753 before its last loop.
MCBases == {256 * k - 1792 : k \in 0..13}

\* Every key, base and phase with clean reads; and every set of passes that
\* are served other bytes, on a canonical key and on one that is not.
MCInputs ==
    [key : MCKeys, base : MCBases, phase : {0, 1}, misread : {{}}]
    \cup [key : {<<3328, 1023>>, <<0, 3329>>}, base : {0}, phase : {0},
          misread : SUBSET Passes]

\* One input, for the build with separate address spaces.
MCOneInput == [key : {<<3328, 1023>>}, base : {0}, phase : {0}, misread : {{}}]

\* barrett_reduce is exact and centred on the whole of int16_t: the bound
\* that the magnitude analysis uses.
ASSUME BarrettAssumption ==
    \A v \in -32768..32767 :
        /\ barrett_reduce(v) \in -BarrettBound..BarrettBound
        /\ (v - barrett_reduce(v)) % MLKEM_Q = 0
=============================================================================
