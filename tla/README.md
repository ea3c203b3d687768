# TLA+ verification of C0-PQLink and NanoPQ SecureLink

The repository holds two small post-quantum link stacks for microcontrollers:
**C0-PQLink** (a C client with a JavaScript reference peer over datagrams) and
**NanoPQ SecureLink** (AVR firmware with a C host peer over a serial line).
This directory models their stateful parts in TLA+, checks the models with TLC
and proves with TLAPS, for every value of the constants, nearly all of the safety
properties that the runs check.
`PROJECT.json` lists every component, run, property, hazard and theorem, and maps
every definition to the lines it models.

## Inventory

### C0-PQLink

| Component | State | Operations | Interaction | What makes it correct |
|---|---|---|---|---|
| Migration journal, `src/session/migration.c` | two 52-byte storage slots | load, initialize, commit | storage callbacks that may tear, lie or fail | an acknowledged policy is never lost or weakened |
| Client handshake, `src/session/fragment.c` | client state, session id, frame buffer, fragment writer, secrets | init, connect, close | transport, RNG and public-key callbacks | agreement with the peer, failure leaves no keys, connect returns |
| Frame codec, `src/session/preflight.c` | none | encode, decode and verify | used by the client | tags bind what is compared |
| Record layer, `src/session/ratchet.c` | two sequence numbers, two chain keys | seal, open | caller retains and retransmits frames | no nonce reuse, no replay, ratchets in step |
| Reference peer, `reference-peer/protocol.mjs` | session map, per-session chunks, keys, caches | handleHello, handleFragment, finishSession, handleData | one datagram at a time (`udp-peer.mjs`) | idempotent answers, at most one session per connect |
| Key schedule and cores, `src/session/crypto.c`, `src/core/*` | hash contexts, workspace | HKDF, ML-KEM encapsulation, SHA-256, Keccak, Ascon | called by the above | equal to the standards |
| Wrappers, `src/C0PQLink.cpp`, `micropython/` | a client object | forward to C; callbacks into the application | application code, which may raise or call close | no session over a key that was misread, none after close |

### NanoPQ SecureLink

| Component | State | Operations | Interaction | What makes it correct |
|---|---|---|---|---|
| Boot and EEPROM journal, `main.c` | two EEPROM slots, RAM record | state_load, state_persist, epoch increment | power loss at any write | enrolment and epoch never go back, epochs never reused |
| Enrolment, `main.c`, `nanopq_peer.c` | authorised flag, policy sequence | manifest check, streamed signature | serial line with flow control | only a signed, newer policy is persisted |
| Session protocol, `protocol.c` | sequence numbers, chains | hello, challenge, finished, seal, open | both ends | keys bound to epoch and both nonces |
| Host peer, `nanopq_peer.c` | latest-epoch file | establish_session, live demo | serial line | one accepted session per epoch |
| Verifiers, `lms.c`, `slhdsa.c` | address bytes, one node, an unfinished hash | verify_stream | reader callback, one value at a time | accept exactly the genuine signatures |
| Hash and cipher, `sha256.c`, `ascon_aead128.c` | block buffer, permutation state | update, final, HMAC, encrypt, decrypt | called by the above | the blocks of the whole message |

### What is hard here

Interrupted and misreported storage writes; storage reads that fail once; lost,
repeated, reordered and stale datagrams against a client whose send and receive
buffers are the same array; 32-bit session identifiers; a peer that keeps its
sessions in memory only; retransmission against a one-entry response cache;
counters at the end of their width; a ciphertext that never exists as a whole,
cut at different places by the encapsulation, the fragments and the hash blocks;
16-bit arithmetic that must not overflow for any input; a public key that is read
five times through a callback that cannot report a failure; callbacks that call
back into the client; 491 signature values folded through one address and one
node buffer; EEPROM updates that are three separate
writes; a state file that may be gone.  The list of the most important, line by
line, is `hazards` in `PROJECT.json`.

## Modules

| Module | Models | Used by |
|---|---|---|
| `PolicyRegister` | abstract: an atomic register whose policy state and epoch only grow | refinement target |
| `MigrationJournal` | `migration.c` and its storage | `MCMigrationJournal` |
| `MigrationJournalProofs` | theorems about it | |
| `C0Handshake` | `fragment.c`, `preflight.c` with `handleHello`, `handleFragment`, `finishSession` | `MCC0Handshake` |
| `C0HandshakeProofs` | theorems about it | |
| `KemArithmetic` | reduction, compression, packing and magnitude bounds of `mlkem512_stream.c` | `KemStream` |
| `StreamHash` | block buffer, HMAC and HKDF of `sha256.c`, the sponge of `keccak.c` | `KemStream`, `NanoHash` |
| `CoreProofs` | theorems about the buffer, HMAC and HKDF, and about the Ascon cipher | `KemStreamProofs`, `NanoLinkProofs` |
| `KemStream` | `c0_mlkem512_encapsulate` inside `c0pq_client_connect`, `write_ciphertext`, tags and session keys of `crypto.c` and `preflight.c`, the key reader of the bindings | `SessionCrypto`, `MCKemStream` |
| `AsconStream` | `ascon_aead128.c` of both stacks, and the cipher of NIST SP 800-232 | `SessionCrypto`, `NanoHash` |
| `SessionCrypto` | KemStream's handshake followed by the first record: `ratchet.c` with `sealRecord`, `openRecord` | `MCSessionCrypto` |
| `KemStreamProofs` | theorems about the encapsulation, its tags and keys, and the first record | |
| `RecordLayer` | `ratchet.c` with `openRecord`, `sealRecord`, `handleData` | `MCRecordLayer` |
| `RecordLayerProofs` | theorems about it | |
| `NanoBoot` | boot, EEPROM journal and handshake of `main.c`, `protocol.c` frames, `establish_session` of `nanopq_peer.c` | `MCNanoBoot` |
| `NanoBootProofs` | theorems about it | |
| `NanoEnroll` | `authorize_post_quantum` with the verifier's reads (`lms.c`, `slhdsa.c`), `run_enrollment` | `MCNanoEnroll` |
| `NanoEnrollProofs` | theorems about it | |
| `NanoLink` | the firmware's live loop, `npq_seal` and `npq_open`, `run_live_demo` | `NanoDevice` |
| `HashSignatures` | reference: SLH-DSA-SHA2-128s (FIPS 205) and LMS (RFC 8554) with an ideal hash | `NanoVerify` |
| `NanoHash` | the firmware's `sha256.c`, its HMAC and its cipher | `NanoVerify` |
| `NanoVerify` | `lms.c` and `slhdsa.c`, one action per read | `NanoDevice` |
| `NanoDevice` | composition: verification, then the live loop, as `main` runs them | `MCNanoDevice` |
| `NanoLinkProofs` | theorems about the live session inside it, the verifiers' reads, and `NanoHash` | |

Definitions called "faulty variant" are not part of any specification.  Each
replaces the definition it precedes to confirm that the property named with it
in `PROJECT.json` (`mutants`) is violated by that error.

**MigrationJournal.**  `slots` is the storage; a slot is a record that
`decode_record` accepts, `Empty`, or `Torn`.  `migration_initialize` and
`migration_commit` run up to the write; `write_record` is the storage callback
(any of the old content, an erased slot, torn bytes or the record; reported
either way); `verify_record` is the read-back; `Crash` is a power failure
between or during them.  `ReadFaults` says whether a read may fail.  `view` is
the record last returned by load or acknowledged: what the caller believes.

**C0Handshake.**  `net` keeps every frame ever sent and hands any of them to a
receiver, so loss, repetition, reordering and delay need no actions of their
own.  Tags are ideal: a frame is the tuple of values its tag covers.  The client
variables are those of `send_and_receive`: `step` says which of the three
callers runs, `attempt` is its loop counter, `buffer` the shared frame buffer; a
frame that is not the expected one leaves `Junk` in it.  `SidOf` maps the
128-bit nonce to the 32-bit identifier; the instance makes two connects collide.
A peer handler that throws changes nothing, so a rejected frame is a stutter.
`close_in_callback` is an application that calls close from a callback of the
running connect, which the Arduino and MicroPython bindings make easy: the
session identifier becomes 0 and connect goes on.  A close from the callback that
draws the device nonce is part of `connect` itself: connect assigns the session
identifier only afterwards, so such a close leaves nothing but the state READY.
The history variable `closed` tells the two apart (`"late"`, `"early"`).

**KemStream.**  Refines the one step of C0Handshake that produces the ciphertext.
All sizes are the real ones (256 coefficients, 768 bytes, 16 fragments, 64-byte
blocks).  A polynomial is two things at once: the sequence of terms summed into
it, which tells from which seed, nonce and index each was sampled, and a bound on
its coefficients, pushed through every layer of both transforms.  The terms of
the finished polynomials are compared with FIPS 203's (`FipsCiphertext`).
Ciphertext bytes are positions for the writer, the transcript and the peer, and
numbers where they are packed: `base` and `phase` choose coefficients and message
bits, and `Coefficient` runs them through the last loop of `inverse_ntt`,
the noise, the reduction and the compression.  The final flush of connect for a
partial fragment is never due (768 = 16 * 48); `Complete` contains its check.
The values of `ntt` and `sample_cbd` are not computed.  An input also says which of
the five passes over the public key are served other bytes (`misread`), as the
MicroPython reader does when the Python function raises.  Every tag and key is
the pair of block sequences of its HMAC, fed as the device feeds it, and the peer
(`RfcHmac`) forms the blocks of the whole message; a tag verifies when they are
equal.  `Harvard` selects a build whose flash is not in the data address space:
a plain index into `zetas` then reads something else.

**AsconStream, SessionCrypto.**  The permutation is ideal: its inputs are
numbered as they are met, and an output byte is a symbol with that number.  A byte
is the set of symbols XORed in it.  All the rest of the cipher, blocks, last part,
padding and the merge at decryption, is byte by byte.  The first record of a
session is sealed by either end, possibly altered on its way (`Arriving`), and
opened by the other.

**RecordLayer.**  Starts in an established session.  A key is the mode and the
number of ratchet steps behind it; the two ends choose their modes
independently.  Retransmission is again `net`; `GiveUp` is a caller that has
used its retries.  The peer's handler may answer, answer nothing, or throw after
`openRecord` has committed.

**NanoBoot.**  `state_persist` is two actions, because from the write that
clears a slot's magic to the one that sets it the slot is not valid whatever it
holds; power may fail between them.  `line` is the serial line with
replay.  The peer's file write is atomic (temporary file and rename).  A
failed read on either side ends in `fatal_blink` or in process exit.

**NanoEnroll.**  `toDevice` is a byte stream: a signature byte is its position
in the signature of a manifest, so a lost byte shifts what the verifier reads,
and a byte that comes after a timeout is taken for the length of a frame
(`ReceiveStray`).  The verifier is its reads: `Parts` are the lengths it asks
for, `CheckedParts` where LMS looks at plain fields, and its verdict is that
every byte read is the one of the signature of the manifest still in
`npq_frame`.  Opening the port resets the device and empties the line, as
`open_serial` does.  `state_persist` is one step here; NanoBoot has its writes.

**NanoLink.**  Starts where NanoBoot ends, in an established session.  `line`
keeps every frame of both ends, so frames may be repeated and reflected; any
frame may also arrive damaged (`FrameRejected`).  The host's script is the table
`Waits` with its successor `Following`; anything it does not wait for ends it.

**NanoVerify, HashSignatures, NanoHash.**  A value of a signature is named by its
place in the signer's key.  The ideal hash maps genuine values to the next genuine
value when the address or prefix bytes are those the standard gives to the place,
and anything else to `Junk`.  The verifiers compute these bytes as the code does,
in place in one address buffer, at the real parameters (35 chains, 14 trees, 7
layers, 54-bit tree indices; 34 or 67 chains), and a hash counts only if
the blocks that `sha256.c` forms are those of the whole message.  Any read may
fail.  Messages are numbers; `Digest` and `Output` choose hash values.

**NanoDevice.**  The verifier runs until a signature is accepted and only then
does the live loop start.  What lies between is NanoBoot's.

## Runs

| Run | Instance | Result |
|---|---|---|
| `journal` | generations up to 4, two epochs, two keys, no read faults | passes |
| `journal_downgrade` | the same with read faults | violated, see Findings |
| `handshake` | 3 connects, 3 server nonces, 1 peer restart, 1 retry, 2 fragments, 2 identifiers | passes, with liveness; 355,000 states, about a minute |
| `handshake_retry` | the same | violated, see Findings |
| `kem` | real sizes; 5 keys around q, every coefficient from -1792 to 1791, two message patterns, any set of passes misread, any fragment exchange may fail, 22 first records with every kind of alteration | passes; 94,000 states, about two minutes |
| `kem_avr` | one input, separate address spaces | violated, see Findings |
| `records` | sequence numbers 0 to 4, all four mode pairs | passes |
| `nano_boot` | 4 power cycles, 3 challenges, counters to 7, the file may vanish | passes |
| `nano_enroll` | 2 manifests, a signature of 5 bytes in 4 parts, 2 host processes, 3 faults | passes, with liveness |
| `nano_link` | genuine, damaged, exchanged and misfitting signatures of 3 messages for both verifiers; then sequence numbers to 8, both LED settings, with and without the tamper demo | passes; 25,000 states, depth 493 |
| `nano_exhaustion` | 5 power cycles, counters to 3 | violated, see Findings |
| `nano_file_loss` | 2 power cycles | violated, see Findings |

**Bounds.**  Journal: four generations let both slots be rewritten twice and the
limit be reached.  Handshake: three connects give a collision of identifiers
(first and third) with another session in between; one retry is the smallest
number with a first and a last attempt; two fragments give a first, a last and a
wrong Ack; a restart costs a server nonce, so three nonces allow two sessions
before or after it.  Encapsulation: nothing is scaled; the coefficient range covers all that
`inverse_ntt` can leave before its last loop (1753), and the one
coefficient pair of the key that varies takes the largest legal value, q and all
ones on either side of a byte triple.  All 32 sets of misread passes are tried on a
canonical key and on one that is not.  First records have the lengths around every word and block
boundary up to the largest, some with bytes that look like padding.  Records: five sequence numbers include the limit and enough
answers in flight for stale ones.  Nano: four boots rewrite both slots, and
three challenges allow a replayed handshake beside two genuine ones.  Enrolment:
four parts give a first, a checked, a longer and a last one; three faults allow a
timeout, a lost byte and a power failure in one attempt, and the second host a
clean retry after it.  Link: the full tamper demo needs sequence numbers 0 to 5,
so eight let stray rounds happen inside it and let a lone device reach the limit.
Signatures: nothing is scaled; the hashes of two messages, and the values signed
by two layers, are all ones and all zeros, so that every digit, chain and index
meets both ends of its range; damaged values are the first, the last and those
around every change of part.

**Assumptions TLC evaluates** on finite domains with these runs:
`BarrettAssumption` (the reduction is exact and centred for every `int16_t`),
`HashAssumption` (the firmware's HMAC for every input length `protocol.c` uses,
and its transcript hash), `AeadAssumption` (the firmware's cipher for every
payload length `npq_seal` takes).

**Fairness.**  `ConnectReturns` needs weak fairness of the client's own steps
inside `connect`: `receive_frame` takes `timeout_ms` and returns, so the loop of
`send_and_receive` always has a next step.  Nothing is assumed of the network,
the peer or the application.  `EnrolmentCompletes` needs weak fairness of the
firmware and of the host process, each a single loop that runs whenever it has
input; it promises nothing once a timeout, a loss or a reset has happened.

**Deadlock** is checked in every run but `nano_enroll`, `kem` and `kem_avr`: an
enrolled device and a host that has ended, and a connect that has returned and
its one record, have nothing left to do in those modules.

### What the properties say

* Journal: `DurableView`, `OneWayPolicy`, `ImplementsRegister` (what a caller saw
  is never lost or weakened; the two slots and their writes look like one atomic
  register), `NeverBricked`.  A first write that tears leaves a journal that
  `initialize` refuses for ever; these say that it happens only before anything
  was acknowledged.
* Handshake: `Agreement`, `OneSessionPerConnect`, `NoReplayedSession`,
  `IdempotentPeer`, `ConnectReturns`, `LateCloseIsFinal` (a connect closed from a
  callback later than the one that draws its nonce ends failed and without keys;
  only the cleared session identifier sees to that, since `connect` sets its state
  without looking at it).  It does not hold of an earlier close: see the
  remark after the findings.
* Encapsulation: `KeysAgree` (whenever encapsulation and fragments succeed, the
  keys from the streamed ciphertext equal the peer's from the whole one, and no
  session is established over a key that was not the pinned one),
  `GenuineFramesAccepted` (no tag of either end is refused by the other because
  of how its input was cut), `CompressionExact`, `NoCoefficientOverflow`,
  `NothingLeftBehind`.
* First record: `AeadExact` (a record is the one of SP 800-232 and opens to its
  message; every alteration is refused and leaves no plaintext behind).
* Records: `NonceNeverReused`, `ExactlyOnceInOrder`, `AnswersMatch`,
  which includes their order, `RatchetInStep`, `SequencesNeverWrap`.  `open_record` has no
  limit of its own; the run shows that the limit in `seal_record` and a peer that
  only answers keep the receive counter from wrapping.
* Nano: `DurableNeverRegresses`, `EpochNeverReused`, `OneSessionPerEpoch`,
  `LiveIsDurableOnBothSides`.
* Enrolment: `AuthorizedByGenuine`, `PassIsDurable`, `FlowControl`,
  `EnrolmentCompletes`.  The run also contains the race between the device's wait
  for the manifest and a host that is slow to open the port: the host then reads
  the refusal of the earlier round as its own and fails, and nothing becomes
  durable.
* Link: `CommandActsOnce`, `PassIsTruthful`, `NonceNeverReused`,
  `NeitherEndAhead`.
* Verifiers: `VerdictExact` (a signature is accepted exactly when it is the
  genuine one of the message and every read succeeded).

### Findings

1. `journal_downgrade`.  `c0pq_migration_load` ignores a failed read when the
   other slot is valid.  A single read failure of the newer slot makes commit
   compare with the older record, accept a lower policy state and overwrite the
   newer record.  `docs/MIGRATION.md` states the one-way rule without exception.
2. `handshake_retry`.  All three callers of `send_and_receive` pass one buffer as
   outgoing and incoming frame; after an unexpected frame the remaining attempts
   send that frame's bytes.  `docs/PROTOCOL.md` says the current frame is retried.
   `Agreement` still holds: the cost is a failed connect.
3. `nano_exhaustion`.  Enrolment persists once before the first epoch, so the
   EEPROM generation is one ahead of the epoch and wraps to 0 first.  The next
   boot then loads the older slot and repeats the last epoch on every boot; the
   blink loop for an exhausted epoch is never reached.
4. `nano_file_loss`.  A missing state file reads as epoch 0, exactly as on first
   use; `docs/PHYSICAL-NANO.md` says the deletion is detected.  The `nano_boot`
   run, in which the file may vanish, shows that even so no epoch is confirmed
   twice: the device alone guarantees that.
5. `kem_avr`.  `matrix_product_add` indexes the flash table `zetas` directly
   (`mlkem512_stream.c:396`); every other use goes through `load_zeta`.  Where flash
   has its own address space (AVR), the products are computed with other
   numbers and the ciphertext is not the one of FIPS 203, although
   `mlkem512_stream.h` promises the same wire bytes.  The handshake then fails at
   Finished.

### A close that is lost

Not a finding, because no document, comment or test of the repository says
what a close inside a callback does; but a caller should know it.  `connect`
calls the random source for the device nonce (`fragment.c:303`), then assigns the
session identifier (`:311`), and at the end sets ESTABLISHED without looking at
the state (`:447`).  A close from that one callback therefore has no effect:
connect may return success, with traffic keys, on a client that was closed while
it ran.  The model contains this close (`closed = "early"`), every other property
of the `handshake` run is checked with it, and `LateCloseIsFinal` claims
nothing about it.  With `closed # "no"` in place of `closed = "late"` the
property is false.

## Proofs

A theorem about a protocol is about the specification its run checks, with no
bound on the constants: where a run has three connects or four boots, the theorem
has any number.  Each rests on an inductive invariant that TLC checked on the
run's instance before it was proved; a proof has one step per action.  The
theorems about hashes and the cipher are about operators, for messages of any
length.

### MigrationJournalProofs

For every width of the generation counter and every set of epochs and keys
(`ConstantsAssumption`: the markers differ from records, epochs are numbers).

| Theorem | Statement | Reads may fail? |
|---|---|---|
| `TypeCorrect` | `Spec => []TypeOK` | yes |
| `JournalNeverBricked` | `Spec => NeverBricked` | yes |
| `JournalDurable` | `Spec => []DurableView` | no |
| `JournalOneWay` | `Spec => OneWayPolicy` | no |
| `JournalImplementsRegister` | `Spec => ImplementsRegister` | no |

`DurableView` is not inductive: that a torn write loses nothing depends on the
slot being written holding the older record.  `JournalInv` adds `OrderedSlots`
(the record load does not select is older and no stronger) and
`PendingSucceeds` (a record under way is the direct successor of the other
slot's, and before the write its slot is not the selected one).  The lemma
`WriteKeepsOrder` states what the storage may do to these facts in one write,
`NoEarlierTrans` that the order on records is transitive.  With read faults
`OrderedSlots` fails (finding 1), so `JournalNeverBricked` rests on a weaker
invariant, `SafeOther`: while a write is pending, the other slot decodes
or nothing does.  TLC runs `NeverBricked` without read faults only.

### C0HandshakeProofs

For any number of connects, fragments, retries, server nonces and restarts, and
every map from nonces to session identifiers, collisions included
(`HandshakeAssumption`, `MarkersAssumption`: marker values are not frames,
transcripts or sessions).  All are stated for `FairSpec`; none uses the fairness.

| Theorem | Statement |
|---|---|
| `HandshakeTypeCorrect` | `[]TypeOK` |
| `MutualAgreement` | `[]Agreement` |
| `OneAcceptedPerConnect` | `[]OneSessionPerConnect` |
| `SessionsAreNotReplayed` | `NoReplayedSession` |
| `PeerIsIdempotent` | `IdempotentPeer` |
| `LateCloseEndsFailed` | `LateCloseIsFinal` |

The network keeps every frame, so `Agreement` needs to know what frames can exist.
`HandshakeInv` says what the client knows at each point of connect
(`ClientPoint`) and what an intact buffer holds (`BufferHolds`); that one nonce
is proved for one transcript only (`FinishedFrames`), that fragments carry the
ciphertext of the nonce they are authenticated for and a Server Finished answers
an accepted transcript (`OtherFrames`); that a session's chunks all come from its
own client and no two sessions share a server nonce (`SessionTable`); and that an
accepted transcript was proved by the client and its server nonce is spent
(`AcceptedOnce`).  `LateCloseIsFinal` follows because no frame on the network
carries the cleared identifier.

### RecordLayerProofs

For every width of the sequence number and every pair of modes
(`SeqMaxAssumption`, `NoFrameAssumption`, `BadKeyAssumption`).

| Theorem | Statement |
|---|---|
| `RecordTypeCorrect` | `Spec => []TypeOK` |
| `NoncesAreFresh` | `Spec => []NonceNeverReused` |
| `DeliveredExactlyOnce` | `Spec => []ExactlyOnceInOrder` |
| `AnswersAreTheirs` | `Spec => []AnswersMatch` |
| `RatchetsInStep` | `Spec => []RatchetInStep` |
| `CountersNeverWrap` | `Spec => SequencesNeverWrap` |

`RecordInv` ties the counters to the histories (`Histories`), the frames of either
direction to their content and key (`ClientFrames`, `PeerFrames`), the one-entry
cache to the network (`Cached`), and the replies taken so far to those still under
way (`Answers`: replies yet to come are about later requests).  `StopAndWait`
says that a caller that never gave up has at most one record unanswered; it is
what lets a reply be matched by position.  That the receive counter of
`open_record` cannot wrap, though nothing there looks, follows from
`Len(replies) <= peerSend <= peerRecv <= Len(sealed) <= SeqMax`.

### CoreProofs

About `sha256.c` alone, for messages of every length over any set of bytes and
every way to cut them:

| Theorem | Statement |
|---|---|
| `UpdateHolds` | a context that holds `m` holds `m \o x` after `c0_sha256_update` of `x` |
| `FinalIsSha256` | `c0_sha256_final` gives the blocks of FIPS 180-4 of the whole message |
| `HmacIsRfc` | `c0_hmac_sha256` is RFC 2104, for keys of at most a block |
| `ExtractIsRfc`, `ExpandIsRfc` | HKDF is RFC 5869, with the first block of output |

`Holds(ctx, m)` is the invariant of the streaming interface: the whole blocks of
`m` are transformed, the rest is buffered, the length is counted.  `HmacFed` is
the same for an HMAC context.

About `ascon_aead128.c` alone, for every key, nonce, message and non-empty
associated data (every caller authenticates a header), of every length:

| Theorem | Statement |
|---|---|
| `EncryptIsNist` | encryption is that of SP 800-232, which pads first and splits then |
| `DecryptInverts` | decryption of what encryption returned gives the message back |
| `TamperingIsRefused` | associated data of the same length, ciphertext or tag with any change is refused, and only zeros are written |

The permutation's table makes these precise.  Sealing starts with an empty table
and meets every input for the first time, so its inputs are recorded in the order
of the blocks, each known by the number of the output it continues from
(`Chained`, `Live`).  A second computation over that table either feeds the
recorded inputs, and then it meets the recorded outputs (`Replays`); or at some
block it feeds something else.  From there on its capacity carries a number that
no recorded input carries, so it never meets a recorded input again (`Strayed`),
and its tag is not the recorded one.  `EncryptIsNist` and `DecryptInverts` replay
to the end; for `TamperingIsRefused` the first altered byte gives the block where
the computation strays.  That two outputs of the permutation are never equal by
chance is the idealisation, as for any ideal permutation; it is not a statement
about Ascon's own strength.

### KemStreamProofs

About `SessionSpec` (the encapsulation with its fragments and the first record)
for every key, every `int16_t` coefficient base, message pattern and set of
misread passes (`InputsAssumption`), and every set of record messages of up to 48
bytes (`MessagesAssumption`):

| Theorem | Statement | Separate address spaces? |
|---|---|---|
| `KemTypeCorrect` | `[]TypeOK` | yes |
| `CoefficientsNeverOverflow` | `[]NoCoefficientOverflow` | yes |
| `NoSecretLeftBehind` | `[]NothingLeftBehind` | yes |
| `CompressionIsFips` | `[]CompressionExact` | yes |
| `CiphertextIsWhole` | when the encapsulation returns success, the sixteen fragments at the peer are the 768 bytes in order | yes |
| `NoGenuineFrameRefused` | `[]GenuineFramesAccepted` | yes |
| `RecordsAreExact` | `[]AeadExact` | yes |
| `KeysAlwaysAgree` | `[]KeysAgree` | no |
| `WireBytesPreserved` | `[]PreservesWireBytes` | no |

`KemInv` counts bytes: the loop positions (`Loops`), the writer and the buffered
part of the transcript (`Writer`), that fragments and pending bytes are the
ciphertext in order (`InOrder`) and how many bytes each loop position has handed
out (`InFragments`, which is why 48-byte fragments come out even with pieces of
5 and 1), which secrets exist when (`Secrets`), and the coefficient bounds
(`Magnitudes`; the seven layers of both transforms are evaluated in the lemmas).
`KeyInv` adds what the values are: the transcript holds the greeting and every
byte handed out (`Hashed`, by `UpdateHolds`), and seeds, columns, polynomials and
keys are given by formulas in the set of misread passes (`Seeds`, `Columns`,
`Polynomials`, `Derived`).  The lemma `DeviceIsFips` compares those formulas with
FIPS 203's.  The hypothesis `~Harvard` is needed: without it the promise is false
(finding 5).

`CompressionExact` is arithmetic.  The lemma `Barrett` shows that
`barrett_reduce` is exact and centred for every `int16_t`, which the run's
`BarrettAssumption` only evaluates; the same is shown of Montgomery's reduction,
and that the multiplications by 80635 and 1290167 in the compressions round as a
division by q does, for every residue.  Packing is then four numbers of 10
bits in five bytes.

`RecordInv` says what the variables of the first record are once one exists: one
end sealed a message under the key both ends select, what arrived is that
record or one of the kinds of alteration, and the answer and the next keys are
those that opening it gives.  That both ends select one key follows from
`HmacIsRfc`; the rest is `EncryptIsNist`, `DecryptInverts` and
`TamperingIsRefused`.

### NanoBootProofs

For every counter width, every set of manifests and any number of challenges, with
a file that may vanish (`WidthAssumption`, `BootsAssumption`, `VanishAssumption`,
`ManifestAssumption`).

| Theorem | Statement | Hypothesis |
|---|---|---|
| `BootTypeCorrect` | `Spec => []TypeOK` | none |
| `JournalCorrect` | `Spec => []JournalInv` | `MaxBoots < UINT32_MAX` |
| `JournalNeverRegresses` | `Spec => DurableNeverRegresses` | the same |
| `EpochsAreFresh` | `Spec => EpochNeverReused` | the same |
| `OneSessionOfEachEpoch` | `Spec => []OneSessionPerEpoch` | the same |
| `LiveIsDurable` | `Spec => []LiveIsDurableOnBothSides` | the same |

`JournalInv` needs the parity of the generations in the slots (`SlotParity`: a
write never touches the durable slot), the relation of RAM to EEPROM at each point
of `main` (`RamFollows`) and one generation per boot and one for enrolment
(`GenerationBound`).  `LineInv` adds that every epoch on the line is durable
(`EpochsAreDurable`), that the device proves its key once per epoch
(`OneProofPerEpoch`), and what the peer's program point says about line and file
(`PeerFollows`, `FileFollows`).  The hypothesis keeps the generation below its
wrap; beyond it the results are false (finding 3).

### NanoEnrollProofs

For every signature length, every split of it into parts, every set of manifests
and any number of hosts and faults (`ManifestsAssumption`,
`SignatureBytesAssumption`, `PartsAssumption`, `PartsSumAssumption`,
`BoundsAssumption`).

| Theorem | Statement |
|---|---|
| `OnlyGenuineAuthorizes` | `Spec => []AuthorizedByGenuine` |
| `PassLeavesAuthorized` | `Spec => []PassIsDurable` |
| `EnrolmentTypeCorrect` | `Spec => []TypeOK` |
| `VerifierPacesTheHost` | `Spec => []FlowControl` |

`EnrolInv` follows every byte from the host's file to the verifier: what is on the
line and what was read belongs to the host of now, at the position it has in that
host's file (`BytesOfHost`); the frame buffer holds that host's manifest from
ENROLL_BEGIN until the persist (`FrameOfHost`); an authorized policy is that
manifest, and RESULT 1 is never on the line without it (`PolicyOfHost`,
`AnswersTrue`).  The lemma `VerifiedIsGenuine` concludes that a verifier that has
read a whole signature read the host's own file.  That the parts add up to the
signature's length is not needed for the first two theorems.  The other two need
it: `StepInv` says how many bytes were read at each part (`ReadSoFar`) and, as
long as no fault has happened, whose turn it is and that no more is on the line
than the device is about to read (`Turns`, `QuietLine`).

### NanoLinkProofs

For every width of the sequence numbers, both LED settings, with and without the
tamper demo (`SeqMaxAssumption`, `BadKeyAssumption`), about `DeviceSpec`, in which
the live loop starts after a verification.

| Theorem | Statement |
|---|---|
| `LinkTypeCorrect` | `DeviceSpec => []TypeOK` |
| `TheCommandActsOnce` | `DeviceSpec => []CommandActsOnce` |
| `PassIsEarned` | `DeviceSpec => []PassIsTruthful` |
| `LinkNoncesAreFresh` | `DeviceSpec => []NonceNeverReused` |
| `EndsInStep` | `DeviceSpec => []NeitherEndAhead` |

`LinkInv` describes every frame that can be on the line (`LineFrames`), keeps chain
and counter of each end together and the device's count equal to what it acted on
(`SessionEnds`), and records how far the host is and which refusals and answers it
must have seen (`HostEnd`, `Script`); `PassIsTruthful` needs the last.

About the verifiers before it, for every set of calls and every hash:

| Theorem | Statement |
|---|---|
| `VerifierReadsExactly` | `DeviceSpec => []ReadsExactly`: no byte is asked for beyond the length of the call, so no verifier waits for a byte that no host sends, and none accepts before it has read all |

`ReadInv` gives the number of bytes consumed at every read as a function of the
loop counters (`SlhProgress`, `LmsProgress`), for both LMS digit widths.  The run
checks the other half of the same loops: `VerdictExact`.

About `sha256.c` and `ascon_aead128.c` of the firmware, for messages of every
length; `HashAssumption` and `AeadAssumption` evaluate the same facts for the
lengths `protocol.c` uses:

| Theorem | Statement |
|---|---|
| `FirmwareUpdateHolds` | `qp_sha256_update` feeds a context, wherever the input is cut |
| `FirmwareFinalIsSha256` | `final_transform` gives the blocks of FIPS 180-4 |
| `SeededHashHolds` | the saved state after the FIPS 205 seed block is a context that holds the seed and its 48 zeros |
| `FirmwareHmacIsRfc` | `qp_hmac_sha256_32`, from the saved state after the masked key, is RFC 2104 |
| `FirmwareAeadExact` | every payload of `npq_seal` is sealed as SP 800-232 says and opens again |

### Only model-checked

* Liveness: `ConnectReturns` and `EnrolmentCompletes`.  Liveness under fairness
  and ENABLED are outside the prover's reach.
* `VerdictExact`, the one safety invariant without a theorem.  For arbitrary
  `Calls` and `Digest` it is not one: nothing assumed of the constants keeps a
  call's altered values from being a valid signature of another digest, which
  for the instance's calls is a matter of evaluating them.  And that a
  genuine signature is accepted is about recursive functions over 491 values and
  over the bits of digests and addresses.
* `HashAssumption` and `AeadAssumption` as such: no proof uses them, and the
  theorems above say more.

The library's induction theorems take an operator as a parameter, which the
installed provers cannot instantiate.  Where a proof here needs an induction over
the blocks of a message it takes the least number of the set of counterexamples
(`WFMin` of `WellFoundedInduction`, which is about sets) and derives a
contradiction; what a recursive function is at each number comes from unfolding
its `CHOOSE`.

## Not modelled

* Ideal parts.  The SHA-2 compression function, the Keccak and Ascon permutations
  and ML-KEM decapsulation; in C0Handshake, RecordLayer, NanoBoot and NanoEnroll
  tags, records and signatures as a whole.  A 128-bit random value is never drawn
  twice, and a session identifier is never 0 (the code redraws nothing; one nonce
  in 2^32 starts that way, and `LateCloseIsFinal` assumes it does not).  CRC-16 in
  the Nano slots is ideal, which is sound for interrupted updates because the
  magic alone marks them.
* Values computed by the ML-KEM transforms and by the sampling; byte layouts.
* Callbacks: a connect or begin nested in a running connect.  MicroPython's close
  also wipes the workspace, which connect clears itself when it fails.  Argument
  conversion in the bindings and null-pointer checks.
* Ablation builds of the firmware (`QP_ABLATION_*`).
* The Arduino example, the simulator test bench, provisioning and build tools and
  the Qiskit studies: sequential scripts without protocol state.
* Concurrent callers of one client object: the C API is single-threaded by
  contract.

## Plan

1. Done: the models of both stacks, as listed under Modules.
2. Done: for every model a proof module with its safety and action properties, and
   the streaming hash.
3. Done: the arithmetic of `KemArithmetic` and the cipher of `AsconStream`, from
   which the values of the compression and of the first record follow; the
   firmware's own hash and cipher; how far the verifiers read.
4. Left to prove: `VerdictExact`, for calls that are assumed to be genuine or
   altered in one value.
5. Left for later models: ML-KEM noise sampling as numbers; the byte layout of
   C0's frames.
