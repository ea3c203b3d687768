-------------------------- MODULE MCSessionCrypto --------------------------
(* Instance of the session's cryptography for TLC. *)
EXTENDS SessionCrypto, MCKemStream

\* Lengths around every boundary of words and blocks, up to the largest
\* record; some of them also with bytes that are zero or equal the padding.
MCLengths == {0, 1, 7, 8, 9, 15, 16, 17, 24, 31, 32, 33, 47, 48}
MCMessages ==
    {[k \in 1..n |-> {<<"byte">>}] : n \in MCLengths}
    \cup {[k \in 1..n |-> b] : n \in {1, 8, 16, 48}, b \in {{}, Mark}}
=============================================================================
