------------------------------ MODULE NanoHash ------------------------------
(***************************************************************************)
(* The hash and the cipher of the NanoPQ firmware (sha256.c and            *)
(* ascon_aead128.c beside main.c), as seen by their callers: how input     *)
(* handed over in pieces becomes blocks, and what the two shortcuts, a     *)
(* hash that starts after a first block and an HMAC without a key block,   *)
(* amount to.  A context is written as in StreamHash.                      *)
(***************************************************************************)
EXTENDS StreamHash, AsconStream, HashSignatures

qp_sha256_init == [buffer |-> <<>>, total |-> 0, blocks |-> <<>>]

\* Fill the block, transform it when it is full, go on with the rest.
qp_sha256_update(ctx, data) ==
    LET joined == ctx.buffer \o data
        full == Len(joined) \div BlockBytes
    IN  [buffer |-> SubSeq(joined, full * BlockBytes + 1, Len(joined)),
         total |-> ctx.total + Len(data),
         blocks |-> ctx.blocks \o SubSeq(Pieces(joined, BlockBytes), 1, full)]

\* The mark goes into the block first, so that 56 bytes including it still
\* leave room for the length.
final_transform(ctx) ==
    LET marked == Append(ctx.buffer, PadMark)
        over == Len(marked) > LengthAt
        last == IF over THEN <<>> ELSE marked
    IN  ctx.blocks
        \o (IF over THEN <<marked \o Zeros(BlockBytes - Len(marked))>> ELSE <<>>)
        \o <<last \o Zeros(LengthAt - Len(last)) \o LengthField(ctx.total)>>

\* The state after a first block that holds the seed and 48 zeros.
qp_sha256_fips205_seed(seed) == <<seed \o Zeros(BlockBytes - Len(seed))>>

\* Faulty variant of SeededContext: the first block is not counted.
SeededContextUncounted(seed) ==
    [buffer |-> <<>>, total |-> 0, blocks |-> qp_sha256_fips205_seed(seed)]

\* hash_start: a context that continues from that state.
SeededContext(seed) ==
    [buffer |-> <<>>, total |-> BlockBytes, blocks |-> qp_sha256_fips205_seed(seed)]

\* The same for an HMAC key of 32 bytes and the inner or the outer pad.
hmac_prefix(key, mask) ==
    [buffer |-> <<>>, total |-> BlockBytes,
     blocks |-> <<Masked(key \o Zeros(BlockBytes - Len(key)), mask)>>]

\* The inner digest is written to tag, and the outer hash reads it from there.
qp_hmac_sha256_32(key, message) ==
    [inner |-> final_transform(qp_sha256_update(hmac_prefix(key, 54), message)),
     outer |-> final_transform(qp_sha256_update(hmac_prefix(key, 92), InnerBytes))]

\* Line for line the cipher of the C0 client.
npq_ascon_aead128_encrypt(table, key, nonce, data, plaintext) ==
    c0_ascon_aead128_encrypt(table, key, nonce, data, plaintext)
npq_ascon_aead128_decrypt(table, key, nonce, data, ciphertext, tag) ==
    c0_ascon_aead128_decrypt(table, key, nonce, data, ciphertext, tag)
-----------------------------------------------------------------------------
(* What the callers rely on, for pieces of the given lengths.              *)

SomeBytes(tag, n) == [k \in 1..n |-> <<"byte", tag, k>>]

PiecesOf(lengths) == [i \in DOMAIN lengths |-> SomeBytes(i, lengths[i])]

\* A hash of the pieces is the hash of the whole message.
HashExact(lengths) ==
    final_transform(Fold(qp_sha256_update, qp_sha256_init, PiecesOf(lengths)))
      = Sha256Blocks(Fold(LAMBDA s, t : s \o t, <<>>, PiecesOf(lengths)))

\* The same after the seed and 48 zeros.
SeededExact(lengths) ==
    LET seed == SomeBytes(0, 16)
    IN  final_transform(Fold(qp_sha256_update, SeededContext(seed), PiecesOf(lengths)))
          = Sha256Blocks(seed \o Zeros(48) \o Fold(LAMBDA s, t : s \o t, <<>>, PiecesOf(lengths)))

HmacExact(length) ==
    qp_hmac_sha256_32(SomeBytes(0, 32), SomeBytes(1, length))
      = RfcHmac(SomeBytes(0, 32), SomeBytes(1, length))

\* A sealed payload is what the standard makes of it, and opens again.
AeadExactFor(key, nonce, data, plaintext) ==
    LET sealed == npq_ascon_aead128_encrypt(<<>>, key, nonce, data, plaintext)
        wanted == NistEncrypt(sealed.table, key, nonce, data, plaintext)
    IN  /\ sealed.ciphertext = wanted.ciphertext /\ sealed.tag = wanted.tag
        /\ npq_ascon_aead128_decrypt(sealed.table, key, nonce, data,
                                     sealed.ciphertext, sealed.tag)
             = [status |-> "OK", plaintext |-> plaintext]
=============================================================================
