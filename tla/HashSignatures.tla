--------------------------- MODULE HashSignatures ---------------------------
(***************************************************************************)
(* SLH-DSA-SHA2-128s (FIPS 205) and LMS with SHA-256 and height 5 (RFC     *)
(* 8554) as the standards define them, with an ideal hash: what the NanoPQ *)
(* verifiers are compared with.                                            *)
(*                                                                         *)
(* A value is named by its place in the signer's key (a chain element, a   *)
(* tree node).  The hash of genuine values, under the address or prefix    *)
(* that the standard gives to that place, is the next genuine value; every *)
(* other hash is Junk.                                                     *)
(***************************************************************************)
EXTENDS Integers, Sequences, SequencesExt

CONSTANTS Digest(_),   \* 32 bytes of the hash of a message; Digest(0): of none
          Output(_)    \* 16 bytes of a value that is signed in its turn

\* A value: kind, place of its tree, leaf and two coordinates in the tree.
\* Plain bytes of a signature are kept in "tree".
Term(kind, layer, tree, leaf, a, b) ==
    [kind |-> kind, layer |-> layer, tree |-> tree, leaf |-> leaf, a |-> a, b |-> b]
Junk          == Term("junk", 0, <<>>, 0, 0, 0)
Bytes(bytes)  == Term("bytes", 0, bytes, 0, 0, 0)
Randomizer(m, q) == Term("randomizer", 0, <<>>, q, 0, m)

\* FoldLeft over a long sequence, piece by piece: each piece starts from a
\* value that is already known, which limits TLC's depth.
Fold(op(_, _), base, s) ==
    LET pieces == [k \in 1..((Len(s) + 15) \div 16) |->
                      SubSeq(s, 16 * k - 15, IF 16 * k < Len(s) THEN 16 * k ELSE Len(s))]
        run(x, piece) == [start \in {x} |-> FoldLeft(op, start, piece)][x]
    IN  FoldLeft(run, base, pieces)

\* A number in n bytes, and a long number as its bits, lowest first.
ToByte(value, n) == [k \in 1..n |-> (value \div 256^(n - k)) % 256]
BitsOf(byte) == [n \in 1..8 |-> (byte \div 2^(n - 1)) % 2]
Value(bits) == FoldLeftDomain(LAMBDA sum, k : sum + bits[k] * 2^(k - 1), 0, bits)
ToBits(bytes) ==
    FlattenSeq([k \in DOMAIN bytes |-> BitsOf(bytes[Len(bytes) + 1 - k])])
EightBytes(bits) ==
    LET bit(k) == IF k \in DOMAIN bits THEN bits[k] ELSE 0
    IN  [k \in 1..8 |-> Value([n \in 1..8 |-> bit(8 * (8 - k) + n)])]

Sibling(index) == IF index % 2 = 0 THEN index + 1 ELSE index - 1

\* x and y are the two children of one node.
Siblings(x, y) == x.b % 2 = 0 /\ y = [x EXCEPT !.b = @ + 1]

-----------------------------------------------------------------------------
(* FIPS 205, SHA2-128s. *)

Layers == 7
TreeHeight == 9
ForsHeight == 12
ForsTrees == 14
WotsLength == 35

WOTS_HASH == 0
WOTS_PK == 1
TREE == 2
FORS_TREE == 3
FORS_ROOTS == 4

\* ADRS, 32 bytes, compressed to 22 (section 11.2).
Adrs(layer, tree, type, w1, w2, w3) ==
    LET full == ToByte(layer, 4) \o <<0, 0, 0, 0>> \o EightBytes(tree)
                \o ToByte(type, 4) \o ToByte(w1, 4) \o ToByte(w2, 4) \o ToByte(w3, 4)
    IN  <<full[4]>> \o SubSeq(full, 9, 16) \o SubSeq(full, 20, 32)

\* F, H and T of values under an address.
SlhHash(address, data) ==
    LET x == data[1]
        up == [x EXCEPT !.a = @ + 1, !.b = @ \div 2]
        is(type, w1, w2, w3) == address = Adrs(x.layer, x.tree, type, w1, w2, w3)
        pair == Len(data) = 2 /\ Siblings(x, data[2])
    IN  CASE /\ x.kind = "chain" /\ Len(data) = 1
             /\ is(WOTS_HASH, x.leaf, x.a, x.b)    -> [x EXCEPT !.b = @ + 1]
          [] /\ x.kind = "chain" /\ Len(data) > 1
             /\ data = [i \in 1..WotsLength |-> [x EXCEPT !.a = i - 1, !.b = 15]]
             /\ is(WOTS_PK, x.leaf, 0, 0)
                              -> Term("node", x.layer, x.tree, 0, 0, x.leaf)
          [] x.kind = "node" /\ pair /\ is(TREE, 0, up.a, up.b)            -> up
          [] /\ x.kind = "secret" /\ Len(data) = 1
             /\ is(FORS_TREE, x.leaf, 0, x.b)        -> [x EXCEPT !.kind = "fors"]
          [] x.kind = "fors" /\ pair /\ is(FORS_TREE, x.leaf, up.a, up.b)  -> up
          [] /\ x.kind = "fors" /\ Len(data) > 2
             /\ data = [i \in 1..ForsTrees |-> [x EXCEPT !.a = ForsHeight, !.b = i - 1]]
             /\ is(FORS_ROOTS, x.leaf, 0, 0)
                              -> Term("forspk", 0, x.tree, x.leaf, 0, 0)
          [] OTHER -> Junk

\* The hash of the randomizer, the key and the message.
SlhMessageHash(r, m) == Digest(IF r = Randomizer(m, 0) THEN m ELSE 0)

SlhRoot == Term("node", Layers - 1, <<>>, 0, TreeHeight, 0)

\* The digits that WOTS signs: those of the message and of the checksum.
Base16(bytes) ==
    FlattenSeq([k \in DOMAIN bytes |-> <<bytes[k] \div 16, bytes[k] % 16>>])
WotsDigits(bytes) ==
    LET digits == Base16(bytes)
        csum == Fold(LAMBDA sum, d : sum + 15 - d, 0, digits)
    IN  digits \o SubSeq(Base16(ToByte(csum * 16, 2)), 1, 3)

\* A signature is the sequence of its values, here of message m.
SlhSignature(m) ==
    LET idx == SubSeq(ToBits(SubSeq(Digest(m), 22, 28)), 1, 54)
        tree(l) == SubSeq(idx, TreeHeight * l + 1, 54)
        leaf(l) == Value(IF l = 0
                         THEN SubSeq(ToBits(SubSeq(Digest(m), 29, 30)), 1, TreeHeight)
                         ELSE SubSeq(idx, TreeHeight * (l - 1) + 1, TreeHeight * l))
        md == Base16(SubSeq(Digest(m), 1, 21))
        fors(i) == i * 2^ForsHeight + 256 * md[3 * i + 1] + 16 * md[3 * i + 2] + md[3 * i + 3]
        forsPart(i) ==
            <<Term("secret", 0, tree(0), leaf(0), 0, fors(i))>>
            \o [j \in 1..ForsHeight |->
                  Term("fors", 0, tree(0), leaf(0), j - 1, Sibling(fors(i) \div 2^(j - 1)))]
        signed(l) == IF l = 0 THEN Term("forspk", 0, tree(0), leaf(0), 0, 0)
                     ELSE Term("node", l - 1, tree(l - 1), 0, TreeHeight, 0)
        xmssPart(l) ==
            LET digits == WotsDigits(Output(signed(l)))
                t == tree(l)
                q == leaf(l)
            IN  [i \in 1..WotsLength |-> Term("chain", l, t, q, i - 1, digits[i])]
                \o [j \in 1..TreeHeight |->
                      Term("node", l, t, 0, j - 1, Sibling(q \div 2^(j - 1)))]
    IN  <<Randomizer(m, 0)>>
        \o FlattenSeq([i \in 1..ForsTrees |-> forsPart(i - 1)])
        \o FlattenSeq([l \in 1..Layers |-> xmssPart(l - 1)])

-----------------------------------------------------------------------------
(* RFC 8554, LMS_SHA256_M32_H5 with LMOTS_SHA256_N32_W4 or _W8. *)

LmsHeight == 5
LmsType == 5
OtsType(w) == IF w = 4 THEN 3 ELSE 4
OtsLength(w) == IF w = 4 THEN 67 ELSE 34
OtsShift(w) == IF w = 4 THEN 4 ELSE 0

D_PBLC == <<128, 128>>
D_MESG == <<129, 129>>
D_LEAF == <<130, 130>>
D_INTR == <<131, 131>>

\* The hash of the identifier, a prefix and values, for digits of w bits.
LmsHash(w, prefix, data) ==
    LET x == data[1]
        parent == [x EXCEPT !.b = @ \div 2]
    IN  CASE /\ x.kind = "lmots" /\ Len(data) = 1
             /\ prefix = ToByte(x.leaf, 4) \o ToByte(x.a, 2) \o ToByte(x.b, 1)
                              -> [x EXCEPT !.b = @ + 1]
          [] /\ x.kind = "lmots" /\ Len(data) > 1
             /\ data = [i \in 1..OtsLength(w) |-> [x EXCEPT !.a = i - 1, !.b = 2^w - 1]]
             /\ prefix = ToByte(x.leaf, 4) \o D_PBLC
                              -> Term("otskey", 0, <<>>, x.leaf, 0, 0)
          [] /\ x.kind = "otskey"
             /\ prefix = ToByte(2^LmsHeight + x.leaf, 4) \o D_LEAF
                              -> Term("lms", 0, <<>>, 0, 0, 2^LmsHeight + x.leaf)
          [] /\ x.kind = "lms" /\ Len(data) = 2 /\ Siblings(x, data[2])
             /\ prefix = ToByte(parent.b, 4) \o D_INTR                     -> parent
          [] OTHER -> Junk

LmsMessageHash(prefix, r, m) ==
    Digest(IF /\ r = Randomizer(m, r.leaf)
              /\ prefix = ToByte(r.leaf, 4) \o D_MESG THEN m ELSE 0)

LmsRoot == Term("lms", 0, <<>>, 0, 0, 1)

\* coef and Cksm of sections 3.1.3 and 4.4.
Coef(bytes, i, w) ==
    (bytes[(i * w) \div 8 + 1] \div 2^(8 - (w * (i % (8 \div w)) + w))) % 2^w
Cksm(bytes, w) ==
    LET coefs == [i \in 1..(256 \div w) |-> Coef(bytes, i - 1, w)]
    IN  Fold(LAMBDA sum, c : sum + 2^w - 1 - c, 0, coefs) * 2^OtsShift(w)

\* The signature of message m with one-time key q.
LmsSignature(m, q, w) ==
    LET signed == Digest(m) \o ToByte(Cksm(Digest(m), w), 2)
        node(level) == (2^LmsHeight + q) \div 2^level
    IN  <<Bytes(ToByte(q, 4)), Bytes(ToByte(OtsType(w), 4)), Randomizer(m, q)>>
        \o [i \in 1..OtsLength(w) |->
              Term("lmots", 0, <<>>, q, i - 1, Coef(signed, i - 1, w))]
        \o <<Bytes(ToByte(LmsType, 4))>>
        \o [k \in 1..LmsHeight |-> Term("lms", 0, <<>>, 0, 0, Sibling(node(k - 1)))]
=============================================================================
