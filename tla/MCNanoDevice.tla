---------------------------- MODULE MCNanoDevice ----------------------------
(* Instance of the NanoPQ device for TLC. *)
EXTENDS NanoDevice

\* Three messages; the hashes of the second and the third are all ones and
\* all zeros, so that every digit and index meets its extremes.
MCManifests == {1, 2, 3}
MCDigest(m) == [k \in 1..32 |-> CASE m = 2 -> 255 [] m = 3 -> 0
                                  [] m = 1 -> (57 * k + 11 * k * k + 130) % 256
                                  [] OTHER -> (91 * k + 17) % 256]
MCSigningLeaf(m) == CASE m = 1 -> 18 [] m = 2 -> 31 [] m = 3 -> 0

\* The values that layers 2 and 3 sign are all zeros and all ones.
MCOutput(x) ==
    [k \in 1..16 |->
        CASE x.kind = "node" /\ x.layer = 1 -> 0
          [] x.kind = "node" /\ x.layer = 2 -> 255
          [] x.kind = "junk" -> (201 * k + 77) % 256
          [] OTHER -> (37 * x.layer + 5 * x.leaf + 3 * Value(LowBits(x.tree, 16))
                         + 29 * k * k + 41 * k) % 256]

SlhCall(m, signed, changes) ==
    [algorithm |-> "SLH", lms_type |-> 0, ots_type |-> 0, length |-> 7856,
     message |-> m, signed |-> signed, width |-> 0, changes |-> changes]
LmsCall(m, signed, w, changes) ==
    [algorithm |-> "LMS", lms_type |-> 5, ots_type |-> OtsType(w),
     length |-> IF w = 4 THEN 2348 ELSE 1292,
     message |-> m, signed |-> signed, width |-> w, changes |-> changes]

Damaged(k) == <<Change(k, Junk)>>
Swapped(s, k) == <<Change(k, s[k + 1]), Change(k + 1, s[k])>>

\* Genuine signatures, one of another message, damaged values in every part
\* of a signature, two values exchanged, and keys and lengths that do not fit.
MCCalls ==
    {SlhCall(m, m, <<>>) : m \in MCManifests}
    \cup {SlhCall(2, 3, <<>>)}
    \cup {SlhCall(1, 1, Damaged(k)) : k \in {1, 2, 14, 183, 184, 219, 227, 491}}
    \cup {SlhCall(2, 2, Swapped(SlhSignatures[2], k)) : k \in {3, 200, 225, 447}}
    \cup {[SlhCall(1, 1, <<>>) EXCEPT !.length = 7840]}
    \cup {LmsCall(m, m, w, <<>>) : m \in MCManifests, w \in {4, 8}}
    \cup {LmsCall(3, 2, w, <<>>) : w \in {4, 8}}
    \cup {LmsCall(1, 1, w, Damaged(k)) : w \in {4, 8}, k \in {3, 4, 37}}
    \cup {LmsCall(1, 1, 4, Damaged(k)) : k \in {68, 70, 72, 76}}
    \cup {LmsCall(1, 1, 4, <<Change(k, Bytes(b))>>) :
            k \in {1, 2, 71}, b \in {<<0, 0, 0, 18>>, <<0, 0, 0, 31>>, <<0, 0, 0, 32>>,
                                     <<0, 0, 0, 3>>, <<0, 0, 0, 5>>, <<1, 0, 0, 5>>}}
    \cup {LmsCall(2, 2, w, Swapped(LmsSignatures[2, w], k)) : w \in {4, 8}, k \in {5, 35}}
    \cup {[LmsCall(1, 1, 4, <<>>) EXCEPT !.ots_type = t, !.length = n, !.lms_type = y] :
            t \in {3, 4, 2}, n \in {2348, 1292}, y \in {5, 6}}

\* The HMAC inputs of protocol.c, a root key or a label, a zero byte and up to
\* a frame of data, and its transcript.
ASSUME HashAssumption ==
    /\ \A n \in 17..89 : HmacExact(n)
    /\ HashExact(<<16, 48, 60>>)

\* Every payload length that npq_seal takes, with its header of 13 bytes.
ASSUME AeadAssumption ==
    \A n \in 0..24 :
        AeadExactFor("key", "nonce", [k \in 1..13 |-> {<<"header", k>>}],
                     [k \in 1..n |-> {<<"payload", k>>}])
=============================================================================
