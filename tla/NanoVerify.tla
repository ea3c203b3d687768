----------------------------- MODULE NanoVerify -----------------------------
(***************************************************************************)
(* The two streaming signature verifiers of the NanoPQ firmware, lms.c and *)
(* slhdsa.c, at their real parameters.  Each step pulls one value from the *)
(* reader and folds it into what the code keeps between two reads: the     *)
(* address bytes, the node, the unfinished hash, indices and counters.     *)
(* HashSignatures has the ideal hash and the signatures; a hash counts     *)
(* only if sha256.c forms the blocks of the whole message (NanoHash).      *)
(***************************************************************************)
EXTENDS NanoHash, TLC

CONSTANTS Manifests,       \* the messages
          SigningLeaf(_),  \* the one-time key that signed a message (LMS)
          Calls            \* the calls that are made

VARIABLES call,     \* the arguments, and the signature that arrives
          vpc,      \* which read comes next
          v,        \* the verifier's context and local values
          verdict,  \* what it returned
          broken    \* history: has the reader failed?

verifyVars == <<call, vpc, v, verdict, broken>>

\* The signatures of all messages.
SlhSignatures == [m \in Manifests |-> SlhSignature(m)]
LmsSignatures == [m \in Manifests, w \in {4, 8} |-> LmsSignature(m, SigningLeaf(m), w)]

Signature(c) ==
    IF c.algorithm = "SLH" THEN SlhSignatures[c.signed]
    ELSE LmsSignatures[c.signed, c.width]

NoCall == [algorithm |-> "none", lms_type |-> 0, ots_type |-> 0, length |-> 0,
           message |-> 0, signed |-> 0, width |-> 0, changes |-> <<>>]

\* The frame of a verifier that is not running.
NoFrame ==
    [read |-> 0, consumed |-> 0, address |-> <<>>, node |-> Junk,
     aggregate |-> [prefix |-> <<>>, values |-> <<>>], tree |-> <<>>, leaf |-> 0,
     layer |-> 0, i |-> 0, j |-> 0, digest |-> <<>>, checksum |-> <<>>,
     encoded_q |-> <<>>, encoded_type |-> <<>>, width |-> 0]

\* Another value at a place of the signature.
Change(k, value) == [at |-> k, value |-> value]

\* The next value of the signature: call.changes replaces some of them.
Component ==
    LET k == v.read + 1
        here == SelectSeq(call.changes, LAMBDA c : c.at = k)
    IN  IF here # <<>> THEN here[1].value ELSE Signature(call)[k]

\* read_signature and read_part, of n bytes.
After(n) == [v EXCEPT !.read = @ + 1, !.consumed = @ + n]

Return(status) == verdict' = status /\ vpc' = "done"

\* A hash that is fed piece by piece.
Open(prefix) == [prefix |-> prefix, values |-> <<>>]
Feed(aggregate, x) == [aggregate EXCEPT !.values = Append(@, x)]

-----------------------------------------------------------------------------
(* slhdsa.c: numbers, addresses and hashes. *)

SLH_N == 16
SLH_D == 7
SLH_HP == 9
SLH_A == 12
SLH_K == 14
SLH_WOTS_LEN == 35
SLH_MD_BYTES == 21
QP_SLHDSA_SIGNATURE_BYTES == 7856

\* A 64-bit number is the sequence of its bits, lowest first.
LowBits(bits, n) == SubSeq(bits, 1, IF n < Len(bits) THEN n ELSE Len(bits))
ShiftRight(bits, n) == SubSeq(bits, n + 1, Len(bits))

write_be32(value) == ToByte(value, 4)
write_be64(bits) == [k \in 1..8 |-> Value(LowBits(ShiftRight(bits, 8 * (8 - k)), 8))]
read_be_uint(bytes) == FoldLeft(LAMBDA value, byte : BitsOf(byte) \o value, <<>>, bytes)

\* bytes written at an offset of the address.
Written(address, offset, bytes) ==
    SubSeq(address, 1, offset) \o bytes
    \o SubSeq(address, offset + Len(bytes) + 1, Len(address))

address_zero == [k \in 1..22 |-> 0]
address_set_layer(address, layer) == Written(address, 0, <<layer % 256>>)
address_set_tree(address, tree) == Written(address, 1, write_be64(tree))

\* Faulty variant of address_set_type_and_clear: the key pair stays.
address_set_type_and_keep(address, type) ==
    Written(Written(address, 9, <<type>>), 14, [k \in 1..8 |-> 0])

address_set_type_and_clear(address, type) ==
    Written(Written(address, 9, <<type>>), 10, [k \in 1..12 |-> 0])
address_set_type_and_clear_not_keypair(address, type) ==
    Written(Written(address, 9, <<type>>), 14, [k \in 1..8 |-> 0])
address_set_keypair(address, keypair) == Written(address, 10, write_be32(keypair))
address_set_chain_or_height(address, value) == Written(address, 14, write_be32(value))
address_set_hash_or_index(address, value) == Written(address, 18, write_be32(value))

\* The lengths of what each hash is fed after the seed block.
Fed(n) == <<22>> \o [k \in 1..n |-> SLH_N]
FStreams == SeededExact(Fed(1))
HStreams == SeededExact(Fed(2))
WotsStreams == SeededExact(Fed(SLH_WOTS_LEN))
ForsStreams == SeededExact(Fed(SLH_K))
MessageStreams == HashExact(<<16, 16, 16, 2, 14, 48>>) /\ HashExact(<<16, 16, 32, 4>>)

hash_f(address, x) == IF FStreams THEN SlhHash(address, <<x>>) ELSE Junk
hash_h(address, left, right) ==
    IF HStreams THEN SlhHash(address, <<left, right>>) ELSE Junk
hash_finish_n(aggregate) ==
    IF WotsStreams /\ ForsStreams THEN SlhHash(aggregate.prefix, aggregate.values) ELSE Junk

\* The address and the value after a chain's steps.
chain(address, value, start, steps) ==
    FoldLeft(LAMBDA s, j :
                 LET a == address_set_hash_or_index(s.address, j)
                 IN  [address |-> a, value |-> hash_f(a, s.value)],
             [address |-> address, value |-> value],
             [k \in 1..steps |-> start + k - 1])

\* Digit i of a message, the high half of each byte first.
HalfByte(message, i) ==
    IF i % 2 = 1 THEN message[i \div 2 + 1] % 16 ELSE message[i \div 2 + 1] \div 16

wots_checksum(message) ==
    16 * Fold(LAMBDA sum, i : sum + 15 - HalfByte(message, i), 0,
              [k \in 1..32 |-> k - 1])

wots_digit_at(message, checksum, i) ==
    IF i < 32 THEN HalfByte(message, i)
    ELSE (checksum \div 2^(12 - 4 * (i - 32))) % 16

\* Twelve bits that start at a byte, or in the middle of one.
fors_index_at(md, i) ==
    LET k == (i * 12) \div 8 + 1
    IN  IF i % 2 = 0 THEN md[k] * 16 + md[k + 1] \div 16
        ELSE (md[k] % 16) * 256 + md[k + 1]

h_message(randomizer, message) ==
    IF MessageStreams THEN SlhMessageHash(randomizer, message) ELSE Digest(0)

\* One level up: node is the left or the right child.
Climb(address, node, sibling, index, level) ==
    IF (index \div 2^level) % 2 = 0 THEN hash_h(address, node, sibling)
    ELSE hash_h(address, sibling, node)

-----------------------------------------------------------------------------
(* qp_slhdsa_sha2_128s_verify_stream. *)

StartSlh(c) ==
    IF c.length # QP_SLHDSA_SIGNATURE_BYTES
    THEN Return("BAD_LENGTH") /\ UNCHANGED v
    ELSE /\ v' = NoFrame
         /\ vpc' = "randomizer" /\ UNCHANGED verdict

\* fors_public_key_from_signature up to its loop.
BeginFors(w) ==
    LET roots == address_set_type_and_clear_not_keypair(w.address, FORS_ROOTS)
    IN  [w EXCEPT !.aggregate = Open(roots), !.i = 0,
                  !.address = address_set_type_and_clear_not_keypair(roots, FORS_TREE)]

ReadRandomizer ==
    /\ vpc = "randomizer"
    /\ LET digest == h_message(Component, call.message)
           tree == LowBits(read_be_uint(SubSeq(digest, SLH_MD_BYTES + 1, SLH_MD_BYTES + 7)), 54)
           leaf == Value(LowBits(read_be_uint(SubSeq(digest, SLH_MD_BYTES + 8,
                                                     SLH_MD_BYTES + 9)), 9))
           typed == address_set_type_and_clear_not_keypair(
                        address_set_tree(address_zero, tree), FORS_TREE)
       IN  v' = BeginFors([After(SLH_N) EXCEPT
                              !.digest = digest, !.tree = tree, !.leaf = leaf,
                              !.address = address_set_keypair(typed, leaf)])
    /\ vpc' = "fors"
    /\ UNCHANGED <<call, verdict, broken>>

ForsTreeIndex == v.i * 2^SLH_A + fors_index_at(v.digest, v.i)

ReadForsSecret ==
    /\ vpc = "fors"
    /\ LET a == address_set_hash_or_index(address_set_chain_or_height(v.address, 0),
                                          ForsTreeIndex)
       IN  v' = [After(SLH_N) EXCEPT !.address = a, !.node = hash_f(a, Component), !.j = 0]
    /\ vpc' = "fors_path"
    /\ UNCHANGED <<call, verdict, broken>>

\* A layer of the verify loop and xmss_public_key_from_signature up to its
\* loop.  The message that is signed stays in node, where the root will go.
BeginXmss(w) ==
    LET placed == address_set_keypair(address_set_tree(
                      address_set_layer(address_zero, w.layer), w.tree), w.leaf)
        pk == address_set_type_and_clear_not_keypair(placed, WOTS_PK)
    IN  [w EXCEPT !.aggregate = Open(pk), !.i = 0,
                  !.address = address_set_type_and_clear_not_keypair(pk, WOTS_HASH)]

ReadForsSibling ==
    /\ vpc = "fors_path"
    /\ LET a == address_set_hash_or_index(
                    address_set_chain_or_height(v.address, v.j + 1),
                    ForsTreeIndex \div 2^(v.j + 1))
           node == Climb(a, v.node, Component, fors_index_at(v.digest, v.i), v.j)
           w == [After(SLH_N) EXCEPT !.address = a, !.node = node, !.j = @ + 1]
           fed == Feed(v.aggregate, node)
       IN  \/ /\ v.j + 1 < SLH_A
              /\ v' = w /\ UNCHANGED vpc
           \/ /\ v.j + 1 = SLH_A /\ v.i + 1 < SLH_K
              /\ v' = [w EXCEPT !.aggregate = fed, !.i = @ + 1]
              /\ vpc' = "fors"
           \/ /\ v.j + 1 = SLH_A /\ v.i + 1 = SLH_K
              /\ v' = BeginXmss([w EXCEPT !.node = hash_finish_n(fed), !.layer = 0])
              /\ vpc' = "wots"
    /\ UNCHANGED <<call, verdict, broken>>

ReadWots ==
    /\ vpc = "wots"
    /\ LET message == Output(v.node)
           digit == wots_digit_at(message, wots_checksum(message), v.i)
           done == chain(address_set_chain_or_height(v.address, v.i), Component,
                         digit, 15 - digit)
           fed == Feed(v.aggregate, done.value)
           w == [After(SLH_N) EXCEPT !.address = done.address, !.aggregate = fed, !.i = @ + 1]
       IN  \/ /\ v.i + 1 < SLH_WOTS_LEN
              /\ v' = w /\ UNCHANGED vpc
           \/ /\ v.i + 1 = SLH_WOTS_LEN
              /\ v' = [w EXCEPT !.node = hash_finish_n(fed), !.i = 0,
                                !.address = address_set_type_and_clear(@, TREE)]
              /\ vpc' = "xmss_path"
    /\ UNCHANGED <<call, verdict, broken>>

ReadXmssSibling ==
    /\ vpc = "xmss_path"
    /\ LET a == address_set_hash_or_index(
                    address_set_chain_or_height(v.address, v.i + 1),
                    v.leaf \div 2^(v.i + 1))
           w == [After(SLH_N) EXCEPT !.address = a, !.i = @ + 1,
                     !.node = Climb(a, @, Component, v.leaf, v.i)]
       IN  \/ /\ v.i + 1 < SLH_HP
              /\ v' = w /\ UNCHANGED <<vpc, verdict>>
           \/ /\ v.i + 1 = SLH_HP /\ v.layer + 1 < SLH_D
              /\ v' = BeginXmss([w EXCEPT !.leaf = Value(LowBits(v.tree, 9)),
                                          !.tree = ShiftRight(v.tree, SLH_HP),
                                          !.layer = @ + 1])
              /\ vpc' = "wots" /\ UNCHANGED verdict
           \/ /\ v.i + 1 = SLH_HP /\ v.layer + 1 = SLH_D
              /\ v' = w
              /\ Return(IF w.consumed # QP_SLHDSA_SIGNATURE_BYTES THEN "BAD_LENGTH"
                        ELSE IF w.node = SlhRoot THEN "OK" ELSE "BAD_SIGNATURE")
    /\ UNCHANGED <<call, broken>>

-----------------------------------------------------------------------------
(* lms.c. *)

NPQ_LMS_TYPE_SHA256_M32_H5 == 5
NPQ_LMS_HEIGHT == 5

\* The parameters of a one-time signature type: digit width, number of
\* chains, shift of the checksum, length of the signature.
OtsParameters ==
    [type \in {3, 4} |->
        IF type = 3 THEN [width |-> 4, p |-> 67, checksum_shift |-> 4, length |-> 2348]
        ELSE [width |-> 8, p |-> 34, checksum_shift |-> 0, length |-> 1292]]

load_u32_be(bytes) ==
    bytes[1] * 2^24 + bytes[2] * 2^16 + bytes[3] * 2^8 + bytes[4]
store_u16_be(value) == ToByte(value, 2)
store_u32_be(value) == ToByte(value, 4)

LmsMessageStreams == HashExact(<<16, 4, 2, 32, 48>>)
LmsKeyStreams(p) == HashExact(<<16, 4, 2>> \o [k \in 1..p |-> 32])
LmsStreams ==
    /\ \A n \in {55, 54, 86} : HashExact(<<n>>)
    /\ LmsKeyStreams(67) /\ LmsKeyStreams(34)

\* The hash of the identifier and a block that starts with the prefix.
Hashed(prefix, data) == IF LmsStreams THEN LmsHash(v.width, prefix, data) ELSE Junk

hash_chain_step(encoded_q, chain_index, iteration, input) ==
    Hashed(encoded_q \o store_u16_be(chain_index) \o <<iteration>>, <<input>>)
hash_lms_node(node_number, domain, data) ==
    Hashed(store_u32_be(node_number) \o domain, data)

\* Faulty variant of coefficient_at: the digits of a byte in reverse order.
coefficient_at_reversed(message_hash, checksum, index, width) ==
    LET n == 256 \div width
        bytes == IF index < n THEN message_hash ELSE checksum
        at == IF index < n THEN index ELSE index - n
    IN  (bytes[at \div (8 \div width) + 1] \div 2^(width * (at % (8 \div width)))) % 2^width

coefficient_at(message_hash, checksum, index, width) ==
    LET n == 256 \div width
        bytes == IF index < n THEN message_hash ELSE checksum
        at == IF index < n THEN index ELSE index - n
        per == 8 \div width
    IN  (bytes[at \div per + 1] \div 2^(8 - width - width * (at % per))) % 2^width

LmsChecksum(message_hash, o) ==
    LET add(sum, i) == sum + 2^o.width - 1 - coefficient_at(message_hash, <<>>, i, o.width)
    IN  store_u16_be(Fold(add, 0, [k \in 1..(256 \div o.width) |-> k - 1])
                       * 2^o.checksum_shift)

\* The guards of npq_lms_sha256_m32_h5_verify_stream.
StartLms(c) ==
    CASE c.ots_type \notin DOMAIN OtsParameters
           -> Return("BAD_PARAMETER") /\ UNCHANGED v
      [] /\ c.ots_type \in DOMAIN OtsParameters
         /\ c.length # OtsParameters[c.ots_type].length
           -> Return("BAD_LENGTH") /\ UNCHANGED v
      [] /\ c.ots_type \in DOMAIN OtsParameters
         /\ c.length = OtsParameters[c.ots_type].length
         /\ c.lms_type # NPQ_LMS_TYPE_SHA256_M32_H5
           -> Return("BAD_PARAMETER") /\ UNCHANGED v
      [] OTHER
           -> /\ v' = [NoFrame EXCEPT !.width = OtsParameters[c.ots_type].width]
              /\ vpc' = "q" /\ UNCHANGED verdict

Ots == OtsParameters[call.ots_type]

ReadQ ==
    /\ vpc = "q"
    /\ v' = [After(4) EXCEPT !.encoded_q = Component.tree]
    /\ vpc' = "ots_type"
    /\ UNCHANGED <<call, verdict, broken>>

ReadOtsType ==
    /\ vpc = "ots_type"
    /\ v' = [After(4) EXCEPT !.encoded_type = Component.tree]
    /\ vpc' = "lms_randomizer"
    /\ UNCHANGED <<call, verdict, broken>>

\* The plain fields are checked once all three are there.
ReadLmsRandomizer ==
    /\ vpc = "lms_randomizer"
    /\ \/ /\ \/ load_u32_be(v.encoded_q) >= 2^NPQ_LMS_HEIGHT
             \/ load_u32_be(v.encoded_type) # call.ots_type
          /\ v' = After(32)
          /\ Return("BAD_SIGNATURE")
       \/ /\ load_u32_be(v.encoded_q) < 2^NPQ_LMS_HEIGHT
          /\ load_u32_be(v.encoded_type) = call.ots_type
          /\ LET prefix == v.encoded_q \o <<129, 129>>
                 digest == IF LmsMessageStreams
                           THEN LmsMessageHash(prefix, Component, call.message)
                           ELSE Digest(0)
             IN  v' = [After(32) EXCEPT !.digest = digest,
                           !.checksum = LmsChecksum(digest, Ots), !.i = 0,
                           !.aggregate = Open(v.encoded_q \o <<128, 128>>)]
          /\ vpc' = "lms_chain" /\ UNCHANGED verdict
    /\ UNCHANGED <<call, broken>>

ReadLmsChain ==
    /\ vpc = "lms_chain"
    /\ LET coefficient == coefficient_at(v.digest, v.checksum, v.i, Ots.width)
           step(x, iteration) == hash_chain_step(v.encoded_q, v.i, iteration, x)
           todo == [k \in 1..(2^Ots.width - 1 - coefficient) |-> coefficient + k - 1]
           end == Fold(step, Component, todo)
           fed == Feed(v.aggregate, end)
           w == [After(32) EXCEPT !.aggregate = fed, !.i = @ + 1]
       IN  \/ /\ v.i + 1 < Ots.p
              /\ v' = w /\ UNCHANGED vpc
           \/ /\ v.i + 1 = Ots.p
              /\ v' = [w EXCEPT !.node = Hashed(fed.prefix, fed.values)]
              /\ vpc' = "lms_type"
    /\ UNCHANGED <<call, verdict, broken>>

ReadLmsType ==
    /\ vpc = "lms_type"
    /\ \/ /\ load_u32_be(Component.tree) # NPQ_LMS_TYPE_SHA256_M32_H5
          /\ v' = After(4)
          /\ Return("BAD_SIGNATURE")
       \/ /\ load_u32_be(Component.tree) = NPQ_LMS_TYPE_SHA256_M32_H5
          /\ LET number == 2^NPQ_LMS_HEIGHT + load_u32_be(v.encoded_q)
             IN  v' = [After(4) EXCEPT !.leaf = number, !.i = 0,
                           !.node = hash_lms_node(number, <<130, 130>>, <<@>>)]
          /\ vpc' = "lms_path" /\ UNCHANGED verdict
    /\ UNCHANGED <<call, broken>>

\* leaf is node_number.
ReadLmsSibling ==
    /\ vpc = "lms_path"
    /\ LET up == v.leaf \div 2
           pair == IF v.leaf % 2 = 1 THEN <<Component, v.node>> ELSE <<v.node, Component>>
           w == [After(32) EXCEPT !.node = hash_lms_node(up, <<131, 131>>, pair),
                                  !.leaf = up, !.i = @ + 1]
       IN  /\ v' = w
           /\ \/ w.i < NPQ_LMS_HEIGHT /\ UNCHANGED <<vpc, verdict>>
              \/ /\ w.i = NPQ_LMS_HEIGHT
                 /\ Return(IF w.node = LmsRoot THEN "OK" ELSE "BAD_SIGNATURE")
    /\ UNCHANGED <<call, broken>>

-----------------------------------------------------------------------------

\* authorize_post_quantum calls the verifier it was built with.
Verify ==
    /\ vpc = "idle"
    /\ \E c \in Calls :
         /\ call' = c
         /\ IF c.algorithm = "SLH" THEN StartSlh(c) ELSE StartLms(c)
    /\ UNCHANGED broken

\* The reader returns 0.  The last type code is read and checked in one
\* condition.
ReaderFails ==
    /\ vpc \notin {"idle", "done", "live"}
    /\ Return(IF vpc = "lms_type" THEN "BAD_SIGNATURE" ELSE "IO_ERROR")
    /\ broken' = TRUE
    /\ UNCHANGED <<call, v>>

\* Its caller has the verdict and the number of bytes; the frame is gone.
Accepted == verdict = "OK" /\ v.consumed = call.length
VerifierReturns ==
    /\ vpc = "done"
    /\ ~Accepted
    /\ vpc' = "idle" /\ call' = NoCall /\ v' = NoFrame
    /\ verdict' = "none" /\ broken' = FALSE

VerifyInit ==
    /\ call = NoCall /\ vpc = "idle" /\ v = NoFrame
    /\ verdict = "none" /\ broken = FALSE

-----------------------------------------------------------------------------

\* The signature that arrives is the signer's, whole, and of this message,
\* and the key and the length are of the type that made it.
Genuine(c) ==
    /\ c.signed = c.message
    /\ \A k \in DOMAIN c.changes : c.changes[k].value = Signature(c)[c.changes[k].at]
    /\ IF c.algorithm = "SLH" THEN c.length = 7856
       ELSE /\ c.lms_type = LmsType /\ c.ots_type = OtsType(c.width)
            /\ c.length = IF c.width = 4 THEN 2348 ELSE 1292

\* Both verifiers accept exactly the genuine signatures, after reading every
\* byte of them: no address byte, digit, index or half-fed hash left from an
\* earlier value makes them refuse one, and none of the signature's values
\* can be changed unnoticed.
VerdictExact ==
    vpc = "done" => (Accepted <=> Genuine(call) /\ ~broken)
=============================================================================
