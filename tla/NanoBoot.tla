------------------------------ MODULE NanoBoot ------------------------------
(***************************************************************************)
(* One boot-to-session life of the NanoPQ firmware and its host peer:      *)
(*                                                                         *)
(*   firmware/nanopq_secure_link/main.c   the two-slot EEPROM journal, the *)
(*       enrolment loop, the boot epoch and the device half of the         *)
(*       handshake;                                                        *)
(*   host/nanopq_peer.c                   the latest-epoch file and the    *)
(*       server half of the handshake;                                     *)
(*   firmware/nanopq_secure_link/protocol.c  what HELLO, CHALLENGE and the *)
(*       two FINISHED frames bind together.                                *)
(*                                                                         *)
(* The Nano may lose power between any two EEPROM writes, the peer process *)
(* may end between any two of its steps, and the serial line keeps every   *)
(* frame ever sent and may deliver any of them, any number of times, to    *)
(* either end.  Every tag is an HMAC under the device root, so a frame on  *)
(* the line was produced by one of the two ends: a frame is the tuple of   *)
(* the values its tag covers.                                              *)
(***************************************************************************)
EXTENDS Integers, FiniteSets

CONSTANTS
    UINT32_MAX,       \* the largest generation and boot epoch (2^32 - 1)
    Manifests,        \* policy manifests the line may offer to the Nano
    MaxBoots,         \* bound: power cycles of the Nano
    MaxChallenges,    \* bound: challenges the peer creates
    FileMayVanish     \* whether somebody may delete the peer's state file

ASSUME WidthAssumption  == UINT32_MAX \in Nat \ {0} /\ UINT32_MAX % 2 = 1
ASSUME BootsAssumption  == MaxBoots \in Nat /\ MaxChallenges \in Nat
ASSUME VanishAssumption == FileMayVanish \in BOOLEAN
ASSUME ManifestAssumption ==
    Manifests \subseteq [sequence : 0 .. UINT32_MAX, signed : BOOLEAN]

VARIABLES
    slots,      \* npq_eeprom_slots
    npq_state,  \* the RAM copy of the record
    dpc,        \* where the firmware is
    manifest,   \* the manifest whose signature is being verified
    challenge,  \* server nonce of the device's handshake
    line,       \* every frame ever sent over the UART
    latest,     \* epoch in the peer's state file, 0 when it does not exist
    ppc,        \* where the peer process is
    session,    \* <<boot epoch, server nonce>> of the peer's handshake
    boots,      \* power cycles so far
    challenges, \* server nonces drawn so far
    vanished    \* whether a non-empty state file has been deleted

deviceVars == <<slots, npq_state, dpc, manifest, challenge, boots>>
peerVars   == <<latest, ppc, session, challenges, vanished>>
vars       == <<slots, npq_state, dpc, manifest, challenge, line, latest, ppc,
                session, boots, challenges, vanished>>

Word == 0 .. UINT32_MAX

npq_state_record ==
    [generation : Word, boot_epoch : Word, authorized : {0, 1},
     policy_sequence : Word]

\* A slot that state_valid refuses: erased, or its magic is cleared.
Invalid == [generation |-> 0, boot_epoch |-> 0, authorized |-> 2,
            policy_sequence |-> 0]

NoManifest == [sequence |-> 0, signed |-> FALSE]

\* Frames of protocol.c, reduced to what their tags cover.  The client nonce
\* is a function of the epoch; the session id one of epoch and both nonces.
Hello(e)             == <<"HELLO", e, 0>>
Challenge(e, n)      == <<"CHALLENGE", e, n>>
ClientFinished(e, n) == <<"CLIENT_FINISHED", e, n>>
ServerFinished(e, n) == <<"SERVER_FINISHED", e, n>>

-----------------------------------------------------------------------------
(* The EEPROM journal.                                                     *)

\* Faulty variant of state_valid: the authorized field is not checked.
state_valid_unchecked(r) == r.authorized <= 2

\* The CRC and the magic reject a slot whose update was interrupted; the
\* authorized field must be 0 or 1.
state_valid(r) == r.authorized <= 1

state_defaults == [generation |-> 0, boot_epoch |-> 0, authorized |-> 0,
                   policy_sequence |-> 0]

\* The record state_load copies to RAM.
Loaded(s) ==
    IF ~state_valid(s[0]) /\ ~state_valid(s[1]) THEN state_defaults
    ELSE IF /\ state_valid(s[0])
            /\ state_valid(s[1]) => s[0].generation >= s[1].generation
         THEN s[0]
         ELSE s[1]

Increment(w) == (w + 1) % (UINT32_MAX + 1)

\* Faulty variant of PersistSlot: a journal that never changes slot.
PersistSlotFixed(r) == 0 * r.generation

\* The slot state_persist rewrites when RAM holds record r.
PersistSlot(r) == Increment(r.generation) % 2

\* state_persist, first write: the magic of the target slot becomes 0.  From
\* here to the last write the slot is not valid, whatever bytes it holds.
persist_clear(from, to) ==
    /\ dpc = from
    /\ slots' = [slots EXCEPT ![PersistSlot(npq_state)] = Invalid]
    /\ dpc' = to
    /\ UNCHANGED <<npq_state, manifest, challenge, line, boots, peerVars>>

\* state_persist, last write: the magic makes the new record valid; RAM
\* takes it over.
persist_write(from, to) ==
    /\ dpc = from
    /\ LET record == [npq_state EXCEPT !.generation = Increment(@)]
       IN  /\ slots' = [slots EXCEPT ![PersistSlot(npq_state)] = record]
           /\ npq_state' = record
    /\ dpc' = to
    /\ UNCHANGED <<manifest, challenge, line, boots, peerVars>>

-----------------------------------------------------------------------------
(* The firmware: main, authorize_post_quantum, establish_session.          *)

\* Reset: state_load, then the while loop's first test.
Boot ==
    /\ dpc = "off"
    /\ boots < MaxBoots
    /\ boots' = boots + 1
    /\ npq_state' = Loaded(slots)
    /\ dpc' = IF npq_state'.authorized = 0 THEN "authorize" ELSE "begin"
    /\ UNCHANGED <<slots, manifest, challenge, line, peerVars>>

\* ENROLL_BEGIN arrived with a manifest that manifest_valid accepts.  Any
\* other frame, or none, sends a negative result and repeats the loop.
AcceptManifest(m) ==
    /\ dpc = "authorize"
    /\ m.sequence > npq_state.policy_sequence
    /\ manifest' = m
    /\ dpc' = "verify"
    /\ UNCHANGED <<slots, npq_state, challenge, line, boots, peerVars>>

\* The streamed signature verifies: the record is authorised in RAM and
\* state_persist starts.
SignatureVerified ==
    /\ dpc = "verify"
    /\ manifest.signed
    /\ npq_state' = [npq_state EXCEPT !.authorized = 1,
                                      !.policy_sequence = manifest.sequence]
    /\ manifest' = NoManifest
    /\ dpc' = "auth_clear"
    /\ UNCHANGED <<slots, challenge, line, boots, peerVars>>

\* The signature is wrong, or the stream stops: the loop asks again.
SignatureRejected ==
    /\ dpc = "verify"
    /\ manifest' = NoManifest
    /\ dpc' = "authorize"
    /\ UNCHANGED <<slots, npq_state, challenge, line, boots, peerVars>>

\* Faulty variant of BeginEpoch: the session starts before the new epoch is
\* persisted.
BeginEpochVolatile ==
    /\ dpc = "begin"
    /\ npq_state.boot_epoch # UINT32_MAX
    /\ npq_state' = [npq_state EXCEPT !.boot_epoch = @ + 1]
    /\ dpc' = "hello"
    /\ UNCHANGED <<slots, manifest, challenge, line, boots, peerVars>>

\* main after the loop: fatal_blink at the last epoch, else ++boot_epoch.
BeginEpoch ==
    /\ dpc = "begin"
    /\ IF npq_state.boot_epoch = UINT32_MAX
       THEN dpc' = "blink" /\ UNCHANGED npq_state
       ELSE /\ npq_state' = [npq_state EXCEPT !.boot_epoch = @ + 1]
            /\ dpc' = "epoch_clear"
    /\ UNCHANGED <<slots, manifest, challenge, line, boots, peerVars>>

\* npq_make_hello and uart_send_frame.
SendHello ==
    /\ dpc = "hello"
    /\ line' = line \cup {Hello(npq_state.boot_epoch)}
    /\ dpc' = "await_challenge"
    /\ UNCHANGED <<slots, npq_state, manifest, challenge, boots, peerVars>>

\* npq_verify_challenge compares epoch and client nonce with the hello; the
\* session is derived and CLIENT_FINISHED sent.
ReceiveChallenge(n) ==
    /\ dpc = "await_challenge"
    /\ Challenge(npq_state.boot_epoch, n) \in line
    /\ challenge' = n
    /\ line' = line \cup {ClientFinished(npq_state.boot_epoch, n)}
    /\ dpc' = "await_finished"
    /\ UNCHANGED <<slots, npq_state, manifest, boots, peerVars>>

\* npq_verify_finished recomputes the tag over hello and challenge.
ReceiveServerFinished ==
    /\ dpc = "await_finished"
    /\ ServerFinished(npq_state.boot_epoch, challenge) \in line
    /\ dpc' = "live"
    /\ UNCHANGED <<slots, npq_state, manifest, challenge, line, boots,
                   peerVars>>

\* A timeout, or a frame that does not verify, ends in fatal_blink.
HandshakeFails ==
    /\ dpc \in {"await_challenge", "await_finished"}
    /\ dpc' = "blink"
    /\ UNCHANGED <<slots, npq_state, manifest, challenge, line, boots,
                   peerVars>>

\* Power loss or reset (the peer pulses DTR when it opens the port): RAM is
\* gone, the EEPROM stays as it is.
PowerLoss ==
    /\ dpc # "off"
    /\ dpc' = "off"
    /\ npq_state' = state_defaults
    /\ manifest' = NoManifest
    /\ challenge' = 0
    /\ UNCHANGED <<slots, line, boots, peerVars>>

-----------------------------------------------------------------------------
(* The host peer: main and establish_session.                              *)

PeerStart ==
    /\ ppc = "closed"
    /\ ppc' = "await_hello"
    /\ UNCHANGED <<deviceVars, line, latest, session, challenges, vanished>>

\* load_latest_epoch and the comparison that follows it.
EpochIsNew(e) == e > latest

\* A HELLO with a new epoch is answered with a fresh challenge.
PeerHello(e) ==
    /\ ppc = "await_hello"
    /\ Hello(e) \in line
    /\ EpochIsNew(e)
    /\ challenges < MaxChallenges
    /\ challenges' = challenges + 1
    /\ session' = <<e, challenges'>>
    /\ line' = line \cup {Challenge(e, challenges')}
    /\ ppc' = "await_finished"
    /\ UNCHANGED <<deviceVars, latest, vanished>>

\* Faulty variants of PeerStoresEpoch: the file is not written; the proof is
\* not bound to the challenge of this handshake.
PeerSkipsStore ==
    /\ ppc = "await_finished"
    /\ ClientFinished(session[1], session[2]) \in line
    /\ ppc' = "stored"
    /\ UNCHANGED <<deviceVars, line, latest, session, challenges, vanished>>

PeerStoresUnbound ==
    /\ ppc = "await_finished"
    /\ \E n \in 1 .. MaxChallenges : ClientFinished(session[1], n) \in line
    /\ latest' = session[1]
    /\ ppc' = "stored"
    /\ UNCHANGED <<deviceVars, line, session, challenges, vanished>>

\* CLIENT_FINISHED verifies; store_latest_epoch renames the new file in.
PeerStoresEpoch ==
    /\ ppc = "await_finished"
    /\ ClientFinished(session[1], session[2]) \in line
    /\ latest' = session[1]
    /\ ppc' = "stored"
    /\ UNCHANGED <<deviceVars, line, session, challenges, vanished>>

\* The server's key confirmation; run_live_demo follows.
PeerConfirms ==
    /\ ppc = "stored"
    /\ line' = line \cup {ServerFinished(session[1], session[2])}
    /\ ppc' = "live"
    /\ UNCHANGED <<deviceVars, latest, session, challenges, vanished>>

\* The peer rejects a frame, times out, fails to write, finishes or is
\* killed: the process ends and only the state file remains.
PeerExits ==
    /\ ppc # "closed"
    /\ ppc' = "closed"
    /\ session' = <<0, 0>>
    /\ UNCHANGED <<deviceVars, line, latest, challenges, vanished>>

\* Somebody deletes the state file; load_latest_epoch then returns 0.
FileVanishes ==
    /\ FileMayVanish
    /\ latest # 0
    /\ latest' = 0
    /\ vanished' = TRUE
    /\ UNCHANGED <<deviceVars, line, ppc, session, challenges>>

-----------------------------------------------------------------------------

Init ==
    /\ slots = [i \in {0, 1} |-> Invalid]
    /\ npq_state = state_defaults
    /\ dpc = "off"
    /\ manifest = NoManifest
    /\ challenge = 0
    /\ line = {}
    /\ latest = 0
    /\ ppc = "closed"
    /\ session = <<0, 0>>
    /\ boots = 0
    /\ challenges = 0
    /\ vanished = FALSE

Persist ==
    \/ persist_clear("auth_clear", "auth_write")
    \/ persist_write("auth_write", "begin")
    \/ persist_clear("epoch_clear", "epoch_write")
    \/ persist_write("epoch_write", "hello")

Device ==
    \/ Boot \/ (\E m \in Manifests : AcceptManifest(m))
    \/ SignatureVerified \/ SignatureRejected
    \/ Persist \/ BeginEpoch \/ SendHello
    \/ \E n \in 1 .. MaxChallenges : ReceiveChallenge(n)
    \/ ReceiveServerFinished \/ HandshakeFails \/ PowerLoss

Peer ==
    \/ PeerStart \/ (\E e \in Word : PeerHello(e))
    \/ PeerStoresEpoch \/ PeerConfirms \/ PeerExits \/ FileVanishes

Next == Device \/ Peer

Spec == Init /\ [][Next]_vars

-----------------------------------------------------------------------------
(* Properties.                                                             *)

DevicePC == {"off", "authorize", "verify", "auth_clear", "auth_write",
             "begin", "epoch_clear", "epoch_write", "hello",
             "await_challenge", "await_finished", "live", "blink"}

\* The state stays within the records, the 32-bit words and the program
\* points of the code; both slots hold a record or are refused.
TypeOK ==
    /\ slots \in [{0, 1} -> npq_state_record \cup {Invalid}]
    /\ npq_state \in npq_state_record
    /\ dpc \in DevicePC
    /\ manifest \in Manifests \cup {NoManifest}
    /\ challenge \in 0 .. MaxChallenges
    /\ line \subseteq {"HELLO", "CHALLENGE", "CLIENT_FINISHED",
                       "SERVER_FINISHED"} \X Word \X (0 .. MaxChallenges)
    /\ latest \in Word
    /\ ppc \in {"closed", "await_hello", "await_finished", "stored", "live"}
    /\ session \in Word \X (0 .. MaxChallenges)
    /\ boots \in 0 .. MaxBoots
    /\ challenges \in 0 .. MaxChallenges
    /\ vanished \in BOOLEAN

\* What the next boot would find: power may fail after any write, so this
\* is the durable state of the device.
Durable == Loaded(slots)

\* Whatever write power fails after, the enrolment, its policy sequence and
\* the boot epoch the next boot loads never go back (state_persist writes
\* only the slot state_load would not choose).
DurableNeverRegresses ==
    [][/\ Durable'.authorized >= Durable.authorized
       /\ Durable'.policy_sequence >= Durable.policy_sequence
       /\ Durable'.boot_epoch >= Durable.boot_epoch]_vars

\* The firmware never opens a handshake with an epoch that an earlier boot
\* has already put on the line: the client nonce, and through it the session
\* keys, are derived from the epoch alone on the device's side.
EpochNeverReused ==
    [][dpc = "hello" /\ dpc' = "await_challenge"
         => Hello(npq_state.boot_epoch) \notin line]_vars

\* The peer confirms at most one handshake of each boot epoch, whatever is
\* replayed and however often either end restarts.
OneSessionPerEpoch ==
    \A f, g \in line :
        f[1] = "SERVER_FINISHED" /\ g[1] = "SERVER_FINISHED" /\ f[2] = g[2]
            => f = g

\* A link that is live on the device can never be set up a second time: its
\* epoch is already durable in the peer's file and in the EEPROM.
LiveIsDurableOnBothSides ==
    dpc = "live" /\ ~vanished =>
        latest >= npq_state.boot_epoch /\ Durable = npq_state

\* docs/THREAT-MODEL.md 46, "boot-epoch exhaustion enters a fail-closed
\* blink loop": once the last epoch has been on the line, no boot opens
\* another handshake.
ExhaustionIsFailClosed ==
    [][Hello(UINT32_MAX) \in line
         => ~ (dpc = "hello" /\ dpc' = "await_challenge")]_vars

\* docs/PHYSICAL-NANO.md 86-88: deleting the peer's state file while the
\* EEPROM is kept is detected, so the peer opens no handshake after it.
FileLossDetected ==
    [][vanished /\ ppc = "await_hello" => ppc' # "await_finished"]_vars
=============================================================================
