----------------------------- MODULE KemStream -----------------------------
(***************************************************************************)
(* Key encapsulation inside c0pq_client_connect: c0_mlkem512_encapsulate   *)
(* reads the pinned public key through a callback, regenerates its         *)
(* polynomials as it needs them and hands the ciphertext out in pieces of  *)
(* five and one bytes; write_ciphertext feeds each piece to the transcript *)
(* hash and to 48-byte fragments; both ends then derive the session keys.  *)
(*                                                                         *)
(* Sizes are the real ones.  A ciphertext byte is its position, and a      *)
(* polynomial is the sequence of terms summed into it together with a      *)
(* bound on its coefficients; the coefficients that are compressed and     *)
(* packed are numbers.  SHA-256 blocks and Keccak are ideal.  Fragments    *)
(* are stop-and-wait (C0Handshake models their exchange): an exchange ends *)
(* with the peer's answer or fails, delivered or not.                      *)
(*                                                                         *)
(* The public key is read five times over and read_public_key cannot fail: *)
(* a pass may be served other bytes than the pinned key's (the MicroPython *)
(* reader answers 0 when its Python function raises; a buffer may change). *)
(* On a build with separate address spaces (AVR) the table zetas, which is *)
(* in program flash, holds its values only when read through load_zeta.    *)
(***************************************************************************)
EXTENDS KemArithmetic, StreamHash

\* The passes over the public key: hashed, checked, its last 32 bytes, and
\* its two polynomials.
Passes == {"hash", "check", "rho", "t0", "t1"}

\* What one connect depends on: two coefficients of the public key, the base
\* such that coefficient i of a transform's result is base + i, an int16_t,
\* the phase such that message bit i is the parity of i + phase, and the
\* passes that are served other bytes.
Input == [key : (0..4095) \X (0..4095), base : -32768..(32768 - MLKEM_N),
          phase : 0..1, misread : SUBSET Passes]

CONSTANTS Inputs,    \* the inputs explored
          Harvard    \* whether program flash has an address space of its own

ASSUME InputsAssumption == Inputs \subseteq Input /\ Harvard \in BOOLEAN

FragmentBytes == 48
FragmentCount == 16
PrefixBytes == 17         \* transcript_prefix
HelloCoreBytes == 44
ChallengeCoreBytes == 68

Noise1 == 3   \* MLKEM_ETA1
Noise2 == 2   \* MLKEM_ETA2

VARIABLES
    pc,          \* where c0pq_client_connect is
    key, base, phase, misread,   \* inputs
    row, column, index,  \* the loop counters of the encapsulation
    workspace,   \* the caller's workspace
    keyHash,     \* public_key_hash
    secret,      \* shared_secret
    pending, fragmentIndex, failure,   \* the ciphertext_writer
    transcript,  \* the SHA-256 context of the transcript
    keys,        \* session_keys, overlaid on the workspace
    result,      \* the status the current call returns
    written,     \* history: the polynomials handed out, in order
    chunk,       \* history: the last bytes handed out and where they belong
    peak,        \* history: the largest bound on an int16_t value
    refused,     \* history: an end refused the other's genuine frame
    received     \* the peer's session.ciphertext by fragment

inputs == <<key, base, phase, misread>>
loop == <<row, column, index>>
writer == <<pending, fragmentIndex, failure>>
history == <<written, chunk, peak>>
peer == <<received, refused>>
vars == <<pc, inputs, loop, workspace, keyHash, secret, writer, transcript,
          keys, result, history, peer>>

Zero == <<"zero">>
NoChunk == [poly |-> 0, at |-> 0, bytes |-> <<>>]

\* An all-zero polynomial, and a workspace after secure_zero.
ZeroPoly == [terms |-> <<>>, bound |-> 0]
ZeroWorkspace == [sponge |-> ZeroSponge, rho |-> Zero, coins |-> Zero,
                  accumulator |-> ZeroPoly, temporary |-> ZeroPoly]

Bytes(name, n) == [k \in 1..n |-> <<name, k - 1>>]
CiphertextBytes == 768
Ciphertext(from, n) == [k \in 1..n |-> <<"ciphertext", from + k - 1>>]

\* The largest of the bounds met so far and the given ones.
Larger(bounds) == Max(bounds \cup {peak})
-----------------------------------------------------------------------------
(* The tags of the handshake.  A 32-byte key enters by name.  The peer     *)
(* computes the same tags from whole messages.                             *)

Key32(name) == Bytes(name, 32)

\* A label is known by its length and what it is for.
Label(name, n) == Bytes(<<"label", name>>, n)

\* Label, then data, under a 32-byte key.
c0pq_auth_tag(secretKey, label, data) ==
    LET labelled == c0_hmac_sha256_update(c0_hmac_sha256_init(secretKey), label)
    IN  c0_hmac_sha256_final(c0_hmac_sha256_update(labelled, data))
c0pq_verify_auth_tag(tag, secretKey, label, data) ==
    tag = c0pq_auth_tag(secretKey, label, data)

\* authTag of the peer.
PeerTag(secretKey, label, data) == RfcHmac(secretKey, label \o data)

\* The peer's tag passes the device's check, which computes the tag and
\* compares, as the peer's check does with the device's.
TagsMatch(secretKey, label, data) ==
    c0pq_verify_auth_tag(PeerTag(secretKey, label, data), secretKey, label, data)

\* The early secret, and the key that authenticates a Hello.
EarlyMatches == c0_hkdf_sha256_extract(<<>>, Key32("psk")) = RfcExtract(<<>>, Key32("psk"))
c0pq_derive_hello_key == c0_hkdf_sha256_expand(Key32("early"), Label("hello key", 16))

\* The key that authenticates everything up to Finished: suite and epoch, the
\* key identifier and both nonces under the early secret.
c0pq_derive_session_auth_key ==
    LET labelled == c0_hmac_sha256_update(c0_hmac_sha256_init(Key32("early")),
                                          Label("session auth", 19))
        policy == c0_hmac_sha256_update(labelled, Bytes("suite epoch", 10))
        pinned == c0_hmac_sha256_update(policy, Bytes("key id", 16))
        device == c0_hmac_sha256_update(pinned, Bytes("device nonce", 16))
    IN  c0_hmac_sha256_final(c0_hmac_sha256_update(device, Bytes("server nonce", 16)))
PeerSessionAuthKey ==
    RfcHmac(Key32("early"),
            Label("session auth", 19) \o Bytes("suite epoch", 10)
            \o Bytes("key id", 16) \o Bytes("device nonce", 16)
            \o Bytes("server nonce", 16))

\* Hello and Challenge were exchanged before the encapsulation starts.
GreetingVerifies ==
    /\ EarlyMatches
    /\ c0pq_derive_hello_key = RfcExpand(Key32("early"), Label("hello key", 16))
    /\ TagsMatch(Key32("hello key"), Label("hello frame", 18),
                 Bytes("hello", HelloCoreBytes))
    /\ c0pq_derive_session_auth_key = PeerSessionAuthKey
    /\ TagsMatch(Key32("session auth key"), Label("challenge frame", 22),
                 Bytes("challenge", ChallengeCoreBytes))

\* Header, index, count, length and payload; and header, index, status.
FragmentCore(f, payload) == Bytes("header", 10) \o <<f, FragmentCount, Len(payload)>> \o payload
AckCore(f) == Bytes("header", 10) \o <<f, 0>>

\* The peer accepts the fragment and the device the acknowledgement.
FragmentVerifies(f, payload) ==
    /\ TagsMatch(Key32("session auth key"), Label("ciphertext fragment", 26),
                 FragmentCore(f, payload))
    /\ TagsMatch(Key32("session auth key"), Label("ciphertext ack", 21), AckCore(f))

\* c0pq_finished_tag covers the frame's header and the transcript hash.
FinishedCore(type) == Bytes(<<"header", type>>, 10) \o Bytes("transcript", 32)
FinishedVerifies ==
    \A type \in {"DEVICE_FINISHED", "SERVER_FINISHED"} :
        TagsMatch(Key32(type), Label("finished tag", 19), FinishedCore(type))
-----------------------------------------------------------------------------
(* Sampling: every polynomial is regenerated from a seed through the one   *)
(* Keccak context of the workspace.                                        *)

\* sample_cbd: the context restarted on coins and nonce, and the noise
\* polynomial squeezed from it, of magnitude at most eta.
CbdSponge(nonce) ==
    c0_keccak_finalize(c0_keccak_absorb(keccak_init("shake256"),
                                        <<"prf", workspace.coins, nonce>>))
sample_cbd(nonce, eta) ==
    [terms |-> <<<<"cbd", eta, Squeezed(CbdSponge(nonce))>>>>, bound |-> eta]

\* sample_ntt_reader_init: the context restarted on rho and the indices.
NttSponge(x, y) ==
    c0_keccak_finalize(
        c0_keccak_absorb(c0_keccak_absorb(keccak_init("shake128"), workspace.rho),
                         <<"index", x, y>>))

ntt(poly) == [poly EXCEPT !.bound = NttBound(@)]

\* accumulator + left * right, where left's coefficients are at most "bound"
\* and the products of odd coefficients are multiplied by "zeta".
MultiplyAdd(accumulator, left, bound, right, zeta) ==
    [terms |-> Append(accumulator.terms, <<"product", left, right.terms, zeta>>),
     bound |-> accumulator.bound
                 + BaseMultiplyBound(bound, right.bound,
                                     IF zeta = "zetas" THEN ZetaBound ELSE 32768)]

\* What indexing the table reads: its values, or whatever SRAM holds there.
DirectZetas == IF Harvard THEN {"zetas", "sram"} ELSE {"zetas"}

\* matrix_product_add: the row and column indices select the entry, whose
\* coefficients are sampled below q.
matrix_product_add(accumulator, vector, x, y, zeta) ==
    MultiplyAdd(accumulator, Squeezed(NttSponge(x, y)), MLKEM_Q - 1, vector, zeta)

\* barrett_reduce on every coefficient, inverse_ntt, then the noise.
Finished(accumulator, noise) ==
    [terms |-> accumulator.terms \o noise.terms,
     bound |-> InverseNttBound(BarrettBound).b + noise.bound]

\* The accumulator before a column is added: cleared for the first one.
Cleared == IF column = 0 THEN ZeroPoly ELSE workspace.accumulator

-----------------------------------------------------------------------------
(* c0_mlkem512_encapsulate up to the first ciphertext byte.                *)

Init ==
    /\ \E i \in Inputs : /\ key = i.key /\ base = i.base /\ phase = i.phase
                         /\ misread = i.misread
    /\ pc = "random"
    /\ row = 0 /\ column = 0 /\ index = 0
    /\ workspace = ZeroWorkspace /\ keyHash = Zero /\ secret = Zero
    /\ pending = <<>> /\ fragmentIndex = 0 /\ failure = "OK"
    /\ transcript =
         c0_sha256_update(
           c0_sha256_update(
             c0_sha256_update(c0_sha256_init, Bytes("prefix", PrefixBytes)),
             Bytes("hello", HelloCoreBytes)),
           Bytes("challenge", ChallengeCoreBytes))
    /\ keys = Zero /\ result = "OK"
    /\ written = <<>> /\ chunk = NoChunk /\ peak = 0
    /\ refused = ~GreetingVerifies
    /\ received = [f \in 0..(FragmentCount - 1) |-> <<>>]

\* The local randomness: without it nothing is read or written.
random_bytes ==
    /\ pc = "random"
    /\ \/ pc' = "validate" /\ UNCHANGED result
       \/ pc' = "returned" /\ result' = "ERR_RNG"
    /\ UNCHANGED <<inputs, loop, workspace, keyHash, secret, writer, transcript,
                   keys, history, peer>>

\* Both coefficients of a byte triple lie below q.
Canonical(triple) == \A c \in Range(Decode12(triple)) : c < MLKEM_Q

\* What a pass over the public key yields.
Served(pass, bytes) == IF pass \in misread THEN <<"other", pass>> ELSE bytes

\* Hash all 800 bytes, check the 256 triples (all but one of which are
\* canonical in every key), and keep the last 32 bytes as rho.  Other bytes
\* may pass the check or not.
validate_and_hash_public_key ==
    /\ pc = "validate"
    /\ LET sponge == c0_keccak_absorb(keccak_init("sha3_256"), Served("hash", <<"key">>))
       IN  \/ /\ "check" \in misread \/ Canonical(Encode12(key[1], key[2]))
              /\ workspace' = [ZeroWorkspace EXCEPT
                                  !.sponge = c0_keccak_squeeze(sponge, 32),
                                  !.rho = Served("rho", <<"rho">>)]
              /\ keyHash' = Squeezed(sponge)
              /\ pc' = "derive"
              /\ UNCHANGED result
           \/ /\ "check" \in misread \/ ~Canonical(Encode12(key[1], key[2]))
              /\ workspace' = ZeroWorkspace
              /\ keyHash' = Zero
              /\ result' = "ERR_KEY_ENCODING"
              /\ pc' = "returned"
    /\ UNCHANGED <<inputs, loop, secret, writer, transcript, keys, history,
                   peer>>

\* The shared secret, then the coins, from one SHA3-512 output.
derive_k_and_coins ==
    /\ pc = "derive"
    /\ LET sponge == c0_keccak_absorb(
                        c0_keccak_absorb(keccak_init("sha3_512"), <<"message">>),
                        keyHash)
           half == c0_keccak_squeeze(sponge, 32)
       IN  /\ secret' = Squeezed(sponge)
           /\ workspace' = [workspace EXCEPT
                              !.sponge = c0_keccak_squeeze(half, 32),
                              !.coins = Squeezed(half)]
    /\ pc' = "u"
    /\ UNCHANGED <<inputs, loop, keyHash, writer, transcript, keys, result,
                   history, peer>>

\* One column of row "row" of u: r is sampled again for every row.
accumulate_u ==
    /\ pc = "u" /\ column < MLKEM_K
    /\ \E zeta \in DirectZetas :
         LET vector == ntt(sample_cbd(column, Noise1))
             sum == matrix_product_add(Cleared, vector, row, column, zeta)
         IN  /\ workspace' = [workspace EXCEPT !.sponge = NttSponge(row, column),
                                               !.temporary = vector,
                                               !.accumulator = sum]
             /\ peak' = Larger({vector.bound, sum.bound})
    /\ column' = column + 1
    /\ UNCHANGED <<pc, inputs, row, index, keyHash, secret, writer, transcript,
                   keys, result, written, chunk, peer>>

\* The nonce of the noise added to row r of u.
NoiseNonce(r) == MLKEM_K + r

\* The end of a sum: reduce, transform back, add noise; it is written next.
FinishPoly(nonce) ==
    /\ LET noise == sample_cbd(nonce, Noise2)
           sum == Finished(workspace.accumulator, noise)
       IN  /\ workspace' = [workspace EXCEPT !.sponge = CbdSponge(nonce),
                                             !.temporary = noise,
                                             !.accumulator = sum]
           /\ peak' = Larger({InverseNttBound(BarrettBound).peak, sum.bound})
           /\ written' = Append(written, sum.terms)
    /\ index' = 0
    /\ UNCHANGED <<inputs, row, column, keyHash, secret, writer, transcript,
                   keys, result, chunk, peer>>

finish_u ==
    /\ pc = "u" /\ column = MLKEM_K
    /\ FinishPoly(NoiseNonce(row))
    /\ pc' = "write_u"

\* The pass that reads polynomial j of the public key.
TPass(j) == IF j = 0 THEN "t0" ELSE "t1"

\* One column of v: r once more, times the public key's polynomial, whose
\* bytes are read and decoded again, this time without a check: a decoded
\* coefficient has twelve bits.
accumulate_v ==
    /\ pc = "v" /\ column < MLKEM_K
    /\ LET vector == ntt(sample_cbd(column, Noise1))
           sum == MultiplyAdd(Cleared, Served(TPass(column), <<"t", column>>), 4095,
                              vector, "zetas")
       IN  /\ workspace' = [workspace EXCEPT !.sponge = CbdSponge(column),
                                             !.temporary = vector,
                                             !.accumulator = sum]
           /\ peak' = Larger({vector.bound, sum.bound})
    /\ column' = column + 1
    /\ UNCHANGED <<pc, inputs, row, index, keyHash, secret, writer, transcript,
                   keys, result, written, chunk, peer>>

finish_v ==
    /\ pc = "v" /\ column = MLKEM_K
    /\ FinishPoly(2 * MLKEM_K)
    /\ pc' = "write_v"
-----------------------------------------------------------------------------
(* write_ciphertext and the two loops that call it.                        *)

\* Faulty variant of Leftover: what follows a full fragment is dropped.
LeftoverDropped(data, take) == <<>>

\* The bytes of data that follow a full fragment.
Leftover(data, take) == SubSeq(data, take + 1, Len(data))

\* Hand bytes to the writer.  They enter the transcript first; a fragment is
\* flushed as soon as it is full.  The peer stores an authentic fragment that
\* reaches it, and the writer goes on only with an authentic acknowledgement.
write_ciphertext(data, ok) ==
    LET space == FragmentBytes - Len(pending)
        take == IF Len(data) < space THEN Len(data) ELSE space
        filled == pending \o SubSeq(data, 1, take)
        full == Len(filled) = FragmentBytes
        stored == [received EXCEPT ![fragmentIndex] = filled]
        accepted == ~refused'
    IN  /\ failure = "OK" /\ fragmentIndex < FragmentCount
        /\ transcript' = c0_sha256_update(transcript, data)
        /\ refused' = (refused \/ (full /\ ~FragmentVerifies(fragmentIndex, filled)))
        /\ IF ok
           THEN /\ accepted
                /\ pending' = IF full THEN Leftover(data, take) ELSE filled
                /\ fragmentIndex' = fragmentIndex + (IF full THEN 1 ELSE 0)
                /\ received' = IF full THEN stored ELSE received
                /\ UNCHANGED failure
           ELSE /\ full
                /\ pending' = filled
                /\ failure' = "ERR_IO"
                /\ received' \in {received} \cup {r \in {stored} : accepted}
                /\ UNCHANGED fragmentIndex

\* Faulty variant of WipeSecret: the error return keeps the shared secret.
WipeSecretSkipped == secret' = secret

WipeSecret == secret' = Zero

\* A write failed: the encapsulation clears everything and returns.
Abandon ==
    /\ WipeSecret
    /\ workspace' = ZeroWorkspace /\ keyHash' = Zero
    /\ result' = "ERR_IO"
    /\ pc' = "returned"
    /\ UNCHANGED <<loop, keys, written>>

\* The coefficients compressed at position i: a transform's result, scaled
\* by the last loop of inverse_ntt, plus noise.
NoiseAt(i) == (i % 5) - 2
Coefficient(i) == fqmul(base + i, Scale) + NoiseAt(i)
MessageBit(i) == (i + phase) % 2

\* Four coefficients of u in five bytes.
write_compressed_u ==
    /\ pc = "write_u"
    /\ LET bytes == Pack10([k \in 1..4 |-> compress10(Coefficient(index + k - 1))])
           data == Ciphertext(320 * row + 5 * (index \div 4), 5)
           last == index + 4 = MLKEM_N
       IN  /\ chunk' = [poly |-> row + 1, at |-> index, bytes |-> bytes]
           /\ \/ /\ write_ciphertext(data, TRUE)
                 /\ index' = index + 4
                 /\ row' = IF last THEN row + 1 ELSE row
                 /\ column' = IF last THEN 0 ELSE column
                 /\ pc' = CASE ~last -> "write_u"
                            [] last /\ row + 1 < MLKEM_K -> "u"
                            [] OTHER -> "v"
                 /\ UNCHANGED <<workspace, keyHash, secret, result, keys,
                                written, peak>>
              \/ write_ciphertext(data, FALSE) /\ Abandon /\ UNCHANGED peak
    /\ UNCHANGED inputs

\* Two coefficients of v, each with its message bit, in one byte.  After the
\* last byte the encapsulation clears its workspace and returns.
write_compressed_v ==
    /\ pc = "write_v"
    /\ LET value(i) == Coefficient(i) + 1665 * MessageBit(i)
           bytes == Pack4(<<compress4(value(index)), compress4(value(index + 1))>>)
           data == Ciphertext(640 + index \div 2, 1)
           last == index + 2 = MLKEM_N
       IN  /\ chunk' = [poly |-> MLKEM_K + 1, at |-> index, bytes |-> bytes]
           /\ peak' = Larger({workspace.accumulator.bound + 1665})
           /\ \/ /\ write_ciphertext(data, TRUE)
                 /\ index' = index + 2
                 /\ workspace' = IF last THEN ZeroWorkspace ELSE workspace
                 /\ keyHash' = IF last THEN Zero ELSE keyHash
                 /\ pc' = IF last THEN "returned" ELSE "write_v"
                 /\ UNCHANGED <<row, column, secret, result, keys, written>>
              \/ write_ciphertext(data, FALSE) /\ Abandon
    /\ UNCHANGED inputs

-----------------------------------------------------------------------------
(* The key schedule and the Finished exchange.                             *)

\* The labels of the session keys and their lengths in bytes.
KeyLabels == [device_finished |-> 22, server_finished |-> 22,
              client_traffic |-> 21, server_traffic |-> 21,
              client_nonce |-> 19, server_nonce |-> 19,
              client_chain |-> 19, server_chain |-> 19]

\* The info string: the label, a zero byte and the transcript hash.
TextLabelInfo(label) ==
    Label(label, KeyLabels[label]) \o <<PadZero>> \o Bytes("transcript", 32)
expand_text_label(prk, label) == c0_hkdf_sha256_expand(prk, TextLabelInfo(label))

\* c0pq_derive_session_keys: the keys are known by the shared secret and the
\* transcript hash they depend on and by the tags computed on the way.
c0pq_derive_session_keys(shared, digest) ==
    [from |-> <<shared, digest>>,
     early |-> c0_hkdf_sha256_extract(<<>>, Key32("psk")),
     derived |-> c0_hkdf_sha256_expand(Key32("early"), Label("derived", 14)),
     handshake |-> c0_hkdf_sha256_extract(Key32("derived"), Key32("shared")),
     outputs |-> [label \in DOMAIN KeyLabels |->
                    expand_text_label(Key32("handshake"), label)]]

\* deriveSessionKeys of the peer.
PeerSessionKeys(shared, digest) ==
    [from |-> <<shared, digest>>,
     early |-> RfcExtract(<<>>, Key32("psk")),
     derived |-> RfcExpand(Key32("early"), Label("derived", 14)),
     handshake |-> RfcExtract(Key32("derived"), Key32("shared")),
     outputs |-> [label \in DOMAIN KeyLabels |->
                    RfcExpand(Key32("handshake"), TextLabelInfo(label))]]

\* All sixteen fragments were acknowledged and nothing is left over.
Complete == pending = <<>> /\ fragmentIndex = FragmentCount /\ failure = "OK"

\* connect goes on with the whole ciphertext only: transcript hash, session
\* keys over the workspace, and the shared secret is cleared.
derive_session_keys ==
    /\ pc = "returned" /\ result = "OK" /\ Complete
    /\ keys' = c0pq_derive_session_keys(secret, c0_sha256_final(transcript))
    /\ secret' = Zero
    /\ transcript' = c0_sha256_init
    /\ pc' = "finish"
    /\ UNCHANGED <<inputs, loop, workspace, keyHash, writer, result, history,
                   peer>>

\* connect's failure label: reached from Finished without an answer or with
\* one that does not carry the expected tag.
ConnectFails ==
    /\ \/ /\ pc = "returned" /\ (result # "OK" \/ ~Complete)
          /\ UNCHANGED refused
       \/ /\ pc = "finish"
          /\ refused' = (refused \/ ~FinishedVerifies)
    /\ pc' = "failed"
    /\ workspace' = ZeroWorkspace /\ keys' = Zero /\ secret' = Zero
    /\ transcript' = c0_sha256_init
    /\ UNCHANGED <<inputs, loop, keyHash, writer, result, history, received>>

\* What the peer computes from its own copy of the ciphertext: the transcript
\* in one piece and the decapsulated secret, which is the device's only if
\* the ciphertext is the one FIPS 203 defines for the key and the message.
FipsSponge(kind, absorbed, position) == <<kind, absorbed, position>>
FipsHash == FipsSponge("sha3_256", <<<<"key">>>>, 0)
FipsSecret(at) == FipsSponge("sha3_512", <<<<"message">>, FipsHash>>, at)
FipsNoise(eta, nonce) ==
    <<"cbd", eta, FipsSponge("shake256", <<<<"prf", FipsSecret(32), nonce>>>>, 0)>>
FipsProduct(left, j) == <<"product", left, <<FipsNoise(3, j)>>, "zetas">>
FipsU(i) ==
    [j \in 1..MLKEM_K |->
        FipsProduct(FipsSponge("shake128", <<<<"rho">>, <<"index", i, j - 1>>>>, 0), j - 1)]
    \o <<FipsNoise(2, MLKEM_K + i)>>
FipsV ==
    [j \in 1..MLKEM_K |-> FipsProduct(<<"t", j - 1>>, j - 1)]
    \o <<FipsNoise(2, 2 * MLKEM_K)>>
FipsCiphertext == [i \in 1..MLKEM_K |-> FipsU(i - 1)] \o <<FipsV>>

PeerCiphertext == FlattenSeq([f \in 1..FragmentCount |-> received[f - 1]])

decapsulate ==
    IF /\ PeerCiphertext = Ciphertext(0, CiphertextBytes)
       /\ written = FipsCiphertext
       /\ key[1] < MLKEM_Q /\ key[2] < MLKEM_Q
    THEN FipsSecret(0)
    ELSE <<"implicit rejection">>

PeerKeys ==
    PeerSessionKeys(decapsulate,
                    Sha256Blocks(Bytes("prefix", PrefixBytes)
                                 \o Bytes("hello", HelloCoreBytes)
                                 \o Bytes("challenge", ChallengeCoreBytes)
                                 \o PeerCiphertext))

\* Both Finished tags verify: both ends hold the same keys and the same tags
\* over the transcript hash.  The client copies its record keys and clears the
\* workspace, and the session keys with it.
exchange_finished ==
    /\ pc = "finish"
    /\ keys = PeerKeys /\ FinishedVerifies
    /\ pc' = "established"
    /\ workspace' = ZeroWorkspace /\ keys' = Zero
    /\ UNCHANGED <<inputs, loop, keyHash, secret, writer, transcript,
                   result, history, peer>>

Next ==
    \/ random_bytes \/ validate_and_hash_public_key \/ derive_k_and_coins
    \/ accumulate_u \/ finish_u \/ write_compressed_u
    \/ accumulate_v \/ finish_v \/ write_compressed_v
    \/ derive_session_keys \/ exchange_finished \/ ConnectFails

Spec == Init /\ [][Next]_vars
-----------------------------------------------------------------------------
(* Properties. *)

\* Every variable keeps its type: a fragment under construction is never
\* longer than a fragment, and the buffered part of the transcript is never a
\* whole block (core/sha256.c stores both lengths in a uint8_t).
TypeOK ==
    /\ pc \in {"random", "validate", "derive", "u", "write_u", "v", "write_v",
               "returned", "finish", "established", "failed"}
    /\ \E i \in Inputs : <<key, base, phase, misread>> = <<i.key, i.base, i.phase, i.misread>>
    /\ row \in 0..MLKEM_K /\ column \in 0..MLKEM_K /\ index \in 0..MLKEM_N
    /\ Len(pending) \in 0..FragmentBytes
    /\ fragmentIndex \in 0..FragmentCount
    /\ failure \in {"OK", "ERR_IO"}
    /\ result \in {"OK", "ERR_RNG", "ERR_KEY_ENCODING", "ERR_IO"}
    /\ Len(transcript.buffer) < BlockBytes
    /\ \A f \in 0..(FragmentCount - 1) : Len(received[f]) \in {0, FragmentBytes}

\* The bytes used are those of a canonical key.  The check pass computes
\* nothing, so what it is served matters only to its own verdict.
PinnedKeyUsed == misread \subseteq {"check"} /\ key[1] < MLKEM_Q /\ key[2] < MLKEM_Q

\* When the encapsulation and every fragment exchange succeeded, the keys the
\* device derived from its streamed transcript and its shared secret are the
\* keys the peer derives from the reassembled ciphertext in one piece, exactly
\* if every pass over the public key was served the pinned key: no honest
\* handshake is refused at Finished, and none is established over a key that
\* was read differently from one pass to the next, or that reached use though
\* it is not canonical.  This needs every piece written in order, the chunked
\* SHA-256, HMAC and HKDF equal to the whole ones, and every polynomial
\* regenerated from the seed and nonce that FIPS 203 prescribes.
KeysAgree ==
    /\ pc = "returned" /\ result = "OK" => Complete
    /\ pc = "finish" => (keys = PeerKeys <=> PinnedKeyUsed)
    /\ pc = "established" => PinnedKeyUsed

\* Neither end refuses a genuine frame of the other: the tags of Hello,
\* Challenge, fragments, acknowledgements and Finished, which the device
\* computes in pieces over a label and a frame (crypto.c), are the tags the
\* peer computes, block boundaries and the empty salt of HKDF included.
GenuineFramesAccepted == ~refused

\* When every read is served the pinned key, each polynomial handed out is the
\* one FIPS 203 prescribes, in order: "The function preserves ML-KEM
\* mathematics and wire bytes" (include/c0pqlink/mlkem512_stream.h).
PreservesWireBytes == PinnedKeyUsed => IsPrefix(written, FipsCiphertext)

\* The residue modulo q of the coefficient at position i, computed without
\* the Montgomery and Barrett tricks: 169 is the inverse of 2^16.
Residue(i) == ((base + i) * Scale * 169 + NoiseAt(i)) % MLKEM_Q

\* FIPS 203 Compress: x * 2^d / q rounded to the nearest integer, mod 2^d.
FipsCompress(x, power) == ((2 * x * power + MLKEM_Q) \div (2 * MLKEM_Q)) % power

\* The 10-bit and 4-bit values a receiver unpacks from a piece of ciphertext.
Unpacked(c) ==
    IF c.poly <= MLKEM_K
    THEN LET b == c.bytes
         IN  << b[1] + (b[2] % 4) * 256, (b[2] \div 4) + (b[3] % 16) * 64,
                (b[3] \div 16) + (b[4] % 64) * 16, (b[4] \div 64) + b[5] * 4 >>
    ELSE << c.bytes[1] % 16, c.bytes[1] \div 16 >>

\* Every piece of ciphertext unpacks to exactly FIPS 203's compression of the
\* coefficients (with the message bits in v): the reduction constants, the
\* multiply-and-shift divisions at their width and the bit packing of
\* write_compressed_u and write_compressed_v are exact, not approximate.
CompressionExact ==
    chunk # NoChunk =>
        LET inU == chunk.poly <= MLKEM_K
            expected(i) ==
                IF inU THEN FipsCompress(Residue(i), 1024)
                ELSE FipsCompress((Residue(i) + 1665 * MessageBit(i)) % MLKEM_Q, 16)
        IN  Unpacked(chunk) =
              [k \in 1..(IF inU THEN 4 ELSE 2) |-> expected(chunk.at + k - 1)]

\* No sum of the transforms, of the matrix products or of the noise and
\* message additions leaves int16_t in any of the loops: their casts lose
\* nothing, whatever the key, the coins and the message.
NoCoefficientOverflow == peak <= Int16Max

\* However the encapsulation returns, its workspace and the key hash are
\* cleared, and it leaves a shared secret only when the whole ciphertext was
\* accepted; connect leaves no secret and no session keys however it ends.
NothingLeftBehind ==
    /\ pc = "returned" =>
         /\ workspace = ZeroWorkspace /\ keyHash = Zero
         /\ secret # Zero <=> result = "OK"
    /\ pc \in {"established", "failed"} =>
         workspace = ZeroWorkspace /\ secret = Zero /\ keys = Zero
=============================================================================
