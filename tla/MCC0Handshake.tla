--------------------------- MODULE MCC0Handshake ---------------------------
(* Instances of the handshake for TLC. *)
EXTENDS C0Handshake

\* Session identifiers of successive connects differ, as they nearly always
\* do; those of the first and the third connect collide.
MCSidOf(n) == 1 + (n % 2)
=============================================================================
