----------------------------- MODULE StreamHash -----------------------------
(***************************************************************************)
(* The two streaming hashes of the C0-PQLink device, the block buffer of   *)
(* core/sha256.c with the HMAC and HKDF built on it and the sponge of      *)
(* core/keccak.c.  The compression and the permutation are ideal: a        *)
(* SHA-256 digest stands for the exact sequence of blocks transformed, a   *)
(* sponge output for the exact sequence of inputs absorbed and the place   *)
(* it was squeezed from.                                                   *)
(***************************************************************************)
EXTENDS Integers, Sequences, SequencesExt

BlockBytes == 64
LengthAt == 56    \* where the length field starts in the last block

PadMark == <<"pad", 128>>
PadZero == <<"pad", 0>>

\* The eight bytes of the message length in bits, big endian.
LengthField(bytes) == [k \in 1..8 |-> <<"length", k, 8 * bytes>>]

Zeros(n) == [k \in 1..n |-> PadZero]

\* s cut into consecutive pieces of n elements; the last may be shorter.
Pieces(s, n) ==
    [k \in 1..((Len(s) + n - 1) \div n) |->
        SubSeq(s, n * (k - 1) + 1, IF n * k < Len(s) THEN n * k ELSE Len(s))]

-----------------------------------------------------------------------------
(* SHA-256: the bytes buffered, all bytes counted, the blocks transformed. *)

c0_sha256_init == [buffer |-> <<>>, total |-> 0, blocks |-> <<>>]

\* Faulty variant of c0_sha256_update: a block that the input exactly
\* completes is transformed but stays in the buffer.
c0_sha256_update_sticky(ctx, input) ==
    LET room == BlockBytes - Len(ctx.buffer)
        take == IF Len(input) < room THEN Len(input) ELSE room
        head == ctx.buffer \o SubSeq(input, 1, take)
        rest == SubSeq(input, take + 1, Len(input))
    IN  [buffer |-> IF rest # <<>> THEN rest ELSE head,
         total |-> ctx.total + Len(input),
         blocks |-> IF Len(head) = BlockBytes
                    THEN Append(ctx.blocks, head) ELSE ctx.blocks]

\* Fill a started block first, transform whole blocks straight from the
\* input, and leave the remainder at the start of the buffer.
c0_sha256_update(ctx, input) ==
    LET started == Len(ctx.buffer) # 0
        room == BlockBytes - Len(ctx.buffer)
        take == IF ~started THEN 0 ELSE IF Len(input) < room THEN Len(input) ELSE room
        head == ctx.buffer \o SubSeq(input, 1, take)
        filled == started /\ Len(head) = BlockBytes
        rest == SubSeq(input, take + 1, Len(input))
        whole == Len(rest) \div BlockBytes
        tail == SubSeq(rest, whole * BlockBytes + 1, Len(rest))
    IN  IF input = <<>> THEN ctx
        ELSE [buffer |-> IF tail # <<>> THEN tail ELSE IF filled THEN <<>> ELSE head,
              total |-> ctx.total + Len(input),
              blocks |-> ctx.blocks \o (IF filled THEN <<head>> ELSE <<>>)
                           \o [k \in 1..whole |->
                                 SubSeq(rest, BlockBytes * (k - 1) + 1, BlockBytes * k)]]

\* The mark, zeros up to the length field (through a further block when the
\* mark leaves no room for it), and the length.
c0_sha256_final(ctx) ==
    LET marked == Append(ctx.buffer, PadMark)
        over == Len(marked) > LengthAt
        last == IF over THEN <<>> ELSE marked
    IN  ctx.blocks
        \o (IF over THEN <<marked \o Zeros(BlockBytes - Len(marked))>> ELSE <<>>)
        \o <<last \o Zeros(LengthAt - Len(last)) \o LengthField(ctx.total)>>

\* FIPS 180-4: the blocks of a message given as a whole.
Sha256Blocks(message) ==
    LET n == Len(message)
        k == CHOOSE z \in 0..63 : (n + 1 + z + 8) % BlockBytes = 0
    IN  Pieces(Append(message, PadMark) \o Zeros(k) \o LengthField(n), BlockBytes)

-----------------------------------------------------------------------------
(* HMAC and HKDF.  A tag is known by the blocks of its two hashes; the     *)
(* inner digest enters the outer hash as 32 bytes that stand for it.       *)

\* A byte of a key block, combined with the inner or the outer pad.
Masked(bytes, mask) == [k \in DOMAIN bytes |-> <<"xor", mask, bytes[k]>>]

DigestBytes(blocks) == [k \in 1..32 |-> <<"digest", blocks, k>>]
InnerBytes == [k \in 1..32 |-> <<"inner", k>>]

\* A key in a zeroed block; one longer than a block is hashed first.
ZeroPadded(key) == key \o Zeros(BlockBytes - Len(key))
KeyBlock(key) ==
    IF Len(key) <= BlockBytes THEN ZeroPadded(key)
    ELSE ZeroPadded(DigestBytes(c0_sha256_final(c0_sha256_update(c0_sha256_init, key))))

\* Faulty variant of c0_hmac_sha256_init: the unused part of the key block is
\* not fed to the inner hash.
c0_hmac_sha256_init_unpadded(key) ==
    [inner |-> c0_sha256_update(c0_sha256_init, Masked(key, 54)),
     outer_pad |-> Masked(KeyBlock(key), 92)]

c0_hmac_sha256_init(key) ==
    [inner |-> c0_sha256_update(c0_sha256_init, Masked(KeyBlock(key), 54)),
     outer_pad |-> Masked(KeyBlock(key), 92)]

c0_hmac_sha256_update(ctx, input) ==
    [ctx EXCEPT !.inner = c0_sha256_update(@, input)]

c0_hmac_sha256_final(ctx) ==
    [inner |-> c0_sha256_final(ctx.inner),
     outer |-> c0_sha256_final(
                 c0_sha256_update(c0_sha256_update(c0_sha256_init, ctx.outer_pad),
                                  InnerBytes))]

\* The tag of a message handed over in one piece.
c0_hmac_sha256(key, input) ==
    c0_hmac_sha256_final(c0_hmac_sha256_update(c0_hmac_sha256_init(key), input))

\* Without a salt the HMAC key is empty.
c0_hkdf_sha256_extract(salt, material) == c0_hmac_sha256(salt, material)

\* The first block of output, the only one the protocol asks for: nothing
\* precedes it, and the counter follows the info string.
c0_hkdf_sha256_expand(prk, info) ==
    LET previous == c0_hmac_sha256_update(c0_hmac_sha256_init(prk), <<>>)
    IN  c0_hmac_sha256_final(
            c0_hmac_sha256_update(c0_hmac_sha256_update(previous, info),
                                  <<<<"counter", 1>>>>))

\* RFC 2104 and RFC 5869, from messages given as a whole and keys of at most
\* a block.  An absent salt is 32 zero bytes.
RfcHmac(key, message) ==
    LET block == [k \in 1..BlockBytes |-> IF k <= Len(key) THEN key[k] ELSE PadZero]
    IN  [inner |-> Sha256Blocks(Masked(block, 54) \o message),
         outer |-> Sha256Blocks(Masked(block, 92) \o InnerBytes)]
RfcExtract(salt, material) ==
    RfcHmac(IF salt = <<>> THEN Zeros(32) ELSE salt, material)
RfcExpand(prk, info) == RfcHmac(prk, Append(info, <<"counter", 1>>))

-----------------------------------------------------------------------------
(* Keccak: what was absorbed, whether squeezing has begun, and how far.    *)

keccak_init(kind) ==
    [kind |-> kind, absorbed |-> <<>>, squeezing |-> FALSE, position |-> 0]

\* An absorb after the first squeeze is silently ignored.
c0_keccak_absorb(ctx, input) ==
    IF ctx.squeezing THEN ctx ELSE [ctx EXCEPT !.absorbed = Append(@, input)]

c0_keccak_finalize(ctx) == [ctx EXCEPT !.squeezing = TRUE]

\* The next output of a sponge, and the sponge after n bytes of it.
Squeezed(ctx) == <<ctx.kind, ctx.absorbed, ctx.position>>
c0_keccak_squeeze(ctx, n) == [c0_keccak_finalize(ctx) EXCEPT !.position = @ + n]

\* The zeroed context of a workspace that holds nothing.
ZeroSponge == keccak_init("none")
=============================================================================
