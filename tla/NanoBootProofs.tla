--------------------------- MODULE NanoBootProofs ---------------------------
(***************************************************************************)
(* Proofs about boot, EEPROM journal and handshake of the NanoPQ firmware  *)
(* and its host peer, for every width of the counters, every set of        *)
(* manifests and every number of power cycles and challenges.  What        *)
(* depends on the journal is proved for fewer power cycles than the        *)
(* counters can hold; beyond that it is false (ExhaustionIsFailClosed).    *)
(***************************************************************************)
EXTENDS NanoBoot, TLAPS

-----------------------------------------------------------------------------
(* The inductive invariant. *)

\* state_persist keeps the records of odd generations in slot 1.
Parity(s) == \A i \in {0, 1} : state_valid(s[i]) => s[i].generation % 2 = i
SlotParity == Parity(slots)

\* What RAM holds beside the durable record, at every point of main.
RamFollows ==
    /\ dpc \in {"authorize", "verify"} =>
         npq_state = Durable /\ Durable.authorized = 0
    /\ dpc = "verify" => manifest.sequence > npq_state.policy_sequence
    /\ dpc \in {"auth_clear", "auth_write"} =>
         /\ Durable.authorized = 0
         /\ npq_state.authorized = 1
         /\ npq_state.generation = Durable.generation
         /\ npq_state.boot_epoch = Durable.boot_epoch
         /\ npq_state.policy_sequence > Durable.policy_sequence
    /\ dpc \in {"epoch_clear", "epoch_write"} =>
         /\ npq_state.authorized = Durable.authorized
         /\ npq_state.generation = Durable.generation
         /\ npq_state.boot_epoch = Durable.boot_epoch + 1
         /\ npq_state.policy_sequence = Durable.policy_sequence
    /\ dpc \in {"begin", "hello", "await_challenge", "await_finished", "live"} =>
         npq_state = Durable

\* The points of main at which this boot has not stored its epoch yet.
BeforeEpoch == {"authorize", "verify", "auth_clear", "auth_write", "begin",
                "epoch_clear", "epoch_write"}

\* One generation for each boot and one for the enrolment.
GenerationBound ==
    /\ Durable.generation <= boots + Durable.authorized
    /\ dpc \in BeforeEpoch => Durable.generation + 1 <= boots + Durable.authorized

JournalInv == TypeOK /\ SlotParity /\ RamFollows /\ GenerationBound

\* Every epoch on the line is durable, and the one about to be announced is
\* newer than all of them.
EpochsAreDurable ==
    /\ \A f \in line : f[2] <= Durable.boot_epoch
    /\ dpc = "hello" => \A f \in line : f[2] < npq_state.boot_epoch

\* The device proves its key once for each epoch, so it takes one challenge.
OneProofPerEpoch ==
    /\ \A f, g \in line :
         f[1] = "CLIENT_FINISHED" /\ g[1] = "CLIENT_FINISHED" /\ f[2] = g[2]
             => f = g
    /\ dpc = "await_challenge" =>
         \A f \in line : f[1] = "CLIENT_FINISHED" => f[2] < npq_state.boot_epoch

\* What the peer's program point says about the line.
PeerFollows ==
    /\ ppc \in {"await_finished", "stored", "live"} =>
         Challenge(session[1], session[2]) \in line
    /\ ppc \in {"stored", "live"} =>
         ClientFinished(session[1], session[2]) \in line
    /\ \A f \in line : f[1] = "SERVER_FINISHED" => ClientFinished(f[2], f[3]) \in line

\* A confirmation is on the line only after the file holds its epoch.
FileFollows ==
    /\ dpc = "live" => ServerFinished(npq_state.boot_epoch, challenge) \in line
    /\ ~vanished =>
         /\ \A f \in line : f[1] = "SERVER_FINISHED" => f[2] <= latest
         /\ ppc = "await_finished" => session[1] > latest
         /\ ppc = "stored" => session[1] <= latest

LineInv == EpochsAreDurable /\ OneProofPerEpoch /\ PeerFollows /\ FileFollows

-----------------------------------------------------------------------------
(* Facts about the journal's operators. *)

\* Reading two slots always gives a record.
LEMMA LoadedType ==
    ASSUME NEW s \in [{0, 1} -> npq_state_record \cup {Invalid}]
    PROVE  Loaded(s) \in npq_state_record
<1>1. state_defaults \in npq_state_record
  BY WidthAssumption DEF state_defaults, npq_state_record, Word
<1>2. ~state_valid(Invalid)
  BY DEF state_valid, Invalid
<1> QED
  BY <1>1, <1>2 DEF Loaded

\* Below the last value ++ adds one.
LEMMA IncrementExact ==
    ASSUME NEW w \in Word, w < UINT32_MAX
    PROVE  Increment(w) = w + 1 /\ w + 1 \in Word
BY WidthAssumption DEF Increment, Word

\* ++ never leaves the width.
LEMMA IncrementType ==
    ASSUME NEW w \in Word
    PROVE  Increment(w) \in Word
BY WidthAssumption DEF Increment, Word

\* One of the two slots is written.
LEMMA PersistSlotType ==
    ASSUME NEW r \in npq_state_record
    PROVE  PersistSlot(r) \in {0, 1}
<1>1. Increment(r.generation) \in Nat
  BY IncrementType, WidthAssumption DEF npq_state_record, Word
<1> QED
  BY <1>1 DEF PersistSlot

\* What state_load returns has the parity of the slot it comes from: the slot
\* that state_persist rewrites next is the other one.
LEMMA LoadedSlot ==
    ASSUME NEW s \in [{0, 1} -> npq_state_record \cup {Invalid}], Parity(s),
           NEW r \in npq_state_record,
           r.generation = Loaded(s).generation, r.generation < UINT32_MAX
    PROVE  \/ /\ PersistSlot(r) = 1 /\ state_valid(s[0]) /\ Loaded(s) = s[0]
           \/ /\ PersistSlot(r) = 0 /\ state_valid(s[1]) /\ Loaded(s) = s[1]
           \/ /\ PersistSlot(r) = 1 /\ ~state_valid(s[0]) /\ ~state_valid(s[1])
<1>1. r.generation \in Nat /\ r.generation \in Word
  BY WidthAssumption DEF npq_state_record, Word
<1>2. PersistSlot(r) = (r.generation + 1) % 2
  BY <1>1, IncrementExact DEF PersistSlot
<1>3. CASE ~state_valid(s[0]) /\ ~state_valid(s[1])
  <2>1. r.generation = 0
    BY <1>3 DEF Loaded, state_defaults
  <2> QED
    BY <1>2, <1>3, <2>1
<1>4. CASE Loaded(s) = s[0] /\ state_valid(s[0])
  <2>1. r.generation % 2 = 0
    BY <1>4 DEF Parity
  <2>2. (r.generation + 1) % 2 = 1
    BY <1>1, <2>1
  <2> QED
    BY <1>2, <1>4, <2>2
<1>5. CASE Loaded(s) = s[1] /\ state_valid(s[1])
  <2>1. r.generation % 2 = 1
    BY <1>5 DEF Parity
  <2>2. (r.generation + 1) % 2 = 0
    BY <1>1, <2>1
  <2> QED
    BY <1>2, <1>5, <2>2
<1> QED
  BY <1>3, <1>4, <1>5 DEF Loaded

\* The first write of state_persist does not change what the next boot loads.
LEMMA ClearKeeps ==
    ASSUME NEW s \in [{0, 1} -> npq_state_record \cup {Invalid}], Parity(s),
           NEW r \in npq_state_record,
           r.generation = Loaded(s).generation, r.generation < UINT32_MAX
    PROVE  LET t == [s EXCEPT ![PersistSlot(r)] = Invalid]
           IN  Loaded(t) = Loaded(s) /\ Parity(t)
<1> DEFINE t == [s EXCEPT ![PersistSlot(r)] = Invalid]
<1>1. ~state_valid(Invalid)
  BY DEF state_valid, Invalid
<1>2. PersistSlot(r) \in {0, 1}
  BY PersistSlotType
<1>3. \A i \in {0, 1} : t[i] = IF i = PersistSlot(r) THEN Invalid ELSE s[i]
  OBVIOUS
<1>4. Parity(t)
  BY <1>1, <1>3 DEF Parity
<1>5. Loaded(t) = Loaded(s)
  BY <1>1, <1>3, LoadedSlot DEF Loaded
<1> QED
  BY <1>4, <1>5

\* The last write of state_persist makes the new record the one the next boot
\* loads.
LEMMA WriteTakes ==
    ASSUME NEW s \in [{0, 1} -> npq_state_record \cup {Invalid}], Parity(s),
           NEW r \in npq_state_record,
           r.generation = Loaded(s).generation, r.generation < UINT32_MAX
    PROVE  LET record == [r EXCEPT !.generation = Increment(@)]
               t == [s EXCEPT ![PersistSlot(r)] = record]
           IN  Loaded(t) = record /\ Parity(t)
<1> DEFINE record == [r EXCEPT !.generation = Increment(@)]
           t == [s EXCEPT ![PersistSlot(r)] = record]
<1>1. r.generation \in Nat /\ r.generation \in Word
  BY WidthAssumption DEF npq_state_record, Word
<1>2. record.generation = r.generation + 1 /\ state_valid(record)
  BY <1>1, IncrementExact DEF npq_state_record, state_valid
<1>3. PersistSlot(r) \in {0, 1} /\ PersistSlot(r) = record.generation % 2
  BY <1>1, <1>2, IncrementExact, PersistSlotType DEF PersistSlot
<1>4. \A i \in {0, 1} : t[i] = IF i = PersistSlot(r) THEN record ELSE s[i]
  OBVIOUS
<1> HIDE DEF record, t
<1>5. Parity(t)
  BY <1>3, <1>4 DEF Parity
<1>6. Loaded(t) = record
  <2>1. CASE PersistSlot(r) = 1 /\ state_valid(s[0]) /\ Loaded(s) = s[0]
    BY <1>1, <1>2, <1>4, <2>1 DEF Loaded
  <2>2. CASE PersistSlot(r) = 0 /\ state_valid(s[1]) /\ Loaded(s) = s[1]
    BY <1>1, <1>2, <1>4, <2>2 DEF Loaded
  <2>3. CASE PersistSlot(r) = 1 /\ ~state_valid(s[0]) /\ ~state_valid(s[1])
    BY <1>2, <1>4, <2>3 DEF Loaded
  <2> QED
    BY <2>1, <2>2, <2>3, LoadedSlot
<1> QED
  BY <1>5, <1>6 DEF record, t

-----------------------------------------------------------------------------
(* Type correctness. *)

\* No step of the device or of the peer breaks a type.
LEMMA BootTypeStep == ASSUME TypeOK, [Next]_vars PROVE TypeOK'
<1> USE WidthAssumption, BootsAssumption
<1>1. CASE Boot
  BY <1>1, LoadedType DEF Boot, TypeOK, DevicePC, peerVars
<1>2. ASSUME NEW m \in Manifests, AcceptManifest(m) PROVE TypeOK'
  BY <1>2 DEF AcceptManifest, TypeOK, DevicePC, peerVars
<1>3. CASE SignatureVerified
  <2>1. manifest.sequence \in Word
    BY ManifestAssumption DEF TypeOK, NoManifest, Word
  <2>2. npq_state' \in npq_state_record
    BY <1>3, <2>1 DEF SignatureVerified, TypeOK, npq_state_record
  <2> QED
    BY <1>3, <2>2 DEF SignatureVerified, TypeOK, DevicePC, peerVars
<1>4. CASE SignatureRejected
  BY <1>4 DEF SignatureRejected, TypeOK, DevicePC, peerVars
<1>5. ASSUME NEW from, NEW to \in DevicePC, persist_clear(from, to)
      PROVE  TypeOK'
  BY <1>5, PersistSlotType DEF persist_clear, TypeOK, peerVars
<1>6. ASSUME NEW from, NEW to \in DevicePC, persist_write(from, to)
      PROVE  TypeOK'
  <2> DEFINE record == [npq_state EXCEPT !.generation = Increment(@)]
  <2>1. record \in npq_state_record
    BY IncrementType DEF TypeOK, npq_state_record
  <2> QED
    BY <1>6, <2>1, PersistSlotType DEF persist_write, TypeOK, peerVars
<1>7. CASE BeginEpoch
  <2>1. npq_state' \in npq_state_record
    BY <1>7 DEF BeginEpoch, TypeOK, npq_state_record, Word
  <2> QED
    BY <1>7, <2>1 DEF BeginEpoch, TypeOK, DevicePC, peerVars
<1>8. CASE SendHello
  BY <1>8 DEF SendHello, Hello, TypeOK, DevicePC, npq_state_record, peerVars
<1>9. ASSUME NEW n \in 1 .. MaxChallenges, ReceiveChallenge(n) PROVE TypeOK'
  BY <1>9 DEF ReceiveChallenge, ClientFinished, TypeOK, DevicePC,
              npq_state_record, peerVars
<1>10. CASE ReceiveServerFinished \/ HandshakeFails
  BY <1>10 DEF ReceiveServerFinished, HandshakeFails, TypeOK, DevicePC, peerVars
<1>11. CASE PowerLoss
  <2>1. state_defaults \in npq_state_record
    BY DEF state_defaults, npq_state_record, Word
  <2> QED
    BY <1>11, <2>1 DEF PowerLoss, TypeOK, DevicePC, peerVars
<1>12. CASE PeerStart
  BY <1>12 DEF PeerStart, TypeOK, deviceVars
<1>13. ASSUME NEW e \in Word, PeerHello(e) PROVE TypeOK'
  BY <1>13 DEF PeerHello, Challenge, TypeOK, deviceVars
<1>14. CASE PeerStoresEpoch
  BY <1>14 DEF PeerStoresEpoch, TypeOK, deviceVars
<1>15. CASE PeerConfirms
  BY <1>15 DEF PeerConfirms, ServerFinished, TypeOK, deviceVars
<1>16. CASE PeerExits
  BY <1>16 DEF PeerExits, TypeOK, deviceVars, Word
<1>17. CASE FileVanishes
  BY <1>17 DEF FileVanishes, TypeOK, deviceVars, Word
<1>18. CASE UNCHANGED vars
  BY <1>18 DEF vars, TypeOK
<1> QED
  BY <1>1, <1>2, <1>3, <1>4, <1>5, <1>6, <1>7, <1>8, <1>9, <1>10, <1>11,
     <1>12, <1>13, <1>14, <1>15, <1>16, <1>17, <1>18
     DEF Next, Device, Peer, Persist, DevicePC

\* A fresh device and a fresh peer have the types of the code.
LEMMA BootTypeInit == Init => TypeOK
<1> SUFFICES ASSUME Init PROVE TypeOK
  OBVIOUS
<1>1. slots \in [{0, 1} -> npq_state_record \cup {Invalid}]
  BY DEF Init
<1>2. npq_state \in npq_state_record
  BY WidthAssumption DEF Init, npq_state_record, state_defaults, Word
<1>3. /\ dpc \in DevicePC
      /\ manifest \in Manifests \cup {NoManifest}
      /\ line = {}
      /\ ppc \in {"closed", "await_hello", "await_finished", "stored", "live"}
      /\ vanished \in BOOLEAN
  BY Zenon DEF Init, DevicePC
<1>4. challenge = 0 /\ latest = 0 /\ session = <<0, 0>> /\ boots = 0 /\ challenges = 0
  BY DEF Init
<1> QED
  BY <1>1, <1>2, <1>3, <1>4, WidthAssumption, BootsAssumption DEF TypeOK, Word

\* Every variable of the device, the line and the peer keeps its type, also
\* when the counters wrap (main.c, nanopq_peer.c, all operations).
THEOREM BootTypeCorrect == Spec => []TypeOK
BY BootTypeInit, BootTypeStep, PTL DEF Spec
-----------------------------------------------------------------------------
(* The journal. *)

\* No step breaks the journal while the counters do not wrap.
LEMMA JournalStep ==
    ASSUME MaxBoots < UINT32_MAX, JournalInv, [Next]_vars
    PROVE  JournalInv'
<1> USE DEF JournalInv
<1>1. TypeOK /\ TypeOK'
  BY BootTypeStep
<1>2. /\ Durable \in npq_state_record
      /\ Durable.generation \in Nat /\ Durable.boot_epoch \in Nat
      /\ Durable.policy_sequence \in Nat /\ Durable.authorized \in {0, 1}
  BY <1>1, LoadedType, WidthAssumption DEF TypeOK, Durable, npq_state_record, Word
<1>3. boots \in Nat /\ boots <= MaxBoots /\ MaxBoots \in Nat /\ UINT32_MAX \in Nat
  BY <1>1, BootsAssumption, WidthAssumption DEF TypeOK
<1>4. UNCHANGED slots => SlotParity' /\ Durable' = Durable
  BY DEF SlotParity, Durable
<1>5. CASE Boot
  <2>1. UNCHANGED slots /\ boots' = boots + 1 /\ npq_state' = Durable
        /\ dpc' = IF Durable.authorized = 0 THEN "authorize" ELSE "begin"
    BY <1>5 DEF Boot, Durable
  <2>2. RamFollows'
    BY <1>2, <1>4, <2>1 DEF RamFollows
  <2>3. GenerationBound'
    BY <1>2, <1>3, <1>4, <2>1 DEF GenerationBound
  <2> QED
    BY <1>1, <1>4, <2>1, <2>2, <2>3
<1>6. ASSUME NEW m \in Manifests, AcceptManifest(m) PROVE JournalInv'
  <2>1. RamFollows'
    BY <1>4, <1>6 DEF AcceptManifest, RamFollows
  <2>2. GenerationBound'
    BY <1>4, <1>6 DEF AcceptManifest, GenerationBound, BeforeEpoch
  <2> QED
    BY <1>1, <1>4, <1>6, <2>1, <2>2 DEF AcceptManifest
<1>7. CASE SignatureVerified
  <2>1. npq_state \in npq_state_record
    BY <1>1 DEF TypeOK
  <2>2. RamFollows'
    BY <1>4, <1>7, <2>1 DEF SignatureVerified, RamFollows, npq_state_record
  <2>3. GenerationBound'
    BY <1>4, <1>7 DEF SignatureVerified, GenerationBound, BeforeEpoch
  <2> QED
    BY <1>1, <1>4, <1>7, <2>2, <2>3 DEF SignatureVerified
<1>8. CASE SignatureRejected
  <2>1. RamFollows'
    BY <1>4, <1>8 DEF SignatureRejected, RamFollows
  <2>2. GenerationBound'
    BY <1>4, <1>8 DEF SignatureRejected, GenerationBound, BeforeEpoch
  <2> QED
    BY <1>1, <1>4, <1>8, <2>1, <2>2 DEF SignatureRejected
<1>9. dpc \in {"auth_clear", "auth_write", "epoch_clear", "epoch_write"} =>
        npq_state.generation = Durable.generation /\ npq_state.generation < UINT32_MAX
  BY <1>2, <1>3 DEF RamFollows, GenerationBound, BeforeEpoch
<1>10. ASSUME NEW from, NEW to, persist_clear(from, to),
              \/ from = "auth_clear" /\ to = "auth_write"
              \/ from = "epoch_clear" /\ to = "epoch_write"
       PROVE  JournalInv'
  <2>1. Durable' = Durable /\ SlotParity'
    BY <1>1, <1>9, <1>10, ClearKeeps DEF persist_clear, TypeOK, Durable, SlotParity
  <2>2. RamFollows'
    BY <1>10, <2>1 DEF persist_clear, RamFollows
  <2>3. GenerationBound'
    BY <1>10, <2>1 DEF persist_clear, GenerationBound, BeforeEpoch
  <2> QED
    BY <1>1, <2>1, <2>2, <2>3
<1>11. ASSUME NEW from, NEW to, persist_write(from, to),
              \/ from = "auth_write" /\ to = "begin"
              \/ from = "epoch_write" /\ to = "hello"
       PROVE  JournalInv'
  <2>1. Durable' = npq_state' /\ SlotParity'
    BY <1>1, <1>9, <1>11, WriteTakes DEF persist_write, TypeOK, Durable, SlotParity
  <2>2. RamFollows'
    BY <1>11, <2>1 DEF persist_write, RamFollows
  <2>3. npq_state \in npq_state_record /\ npq_state.generation \in Word
    BY <1>1 DEF TypeOK, npq_state_record
  <2>4. /\ npq_state'.generation = npq_state.generation + 1
        /\ npq_state'.authorized = npq_state.authorized
    BY <1>9, <1>11, <2>3, IncrementExact DEF persist_write, npq_state_record
  <2>5. GenerationBound'
    BY <1>2, <1>3, <1>11, <2>1, <2>4
       DEF persist_write, GenerationBound, BeforeEpoch, RamFollows
  <2> QED
    BY <1>1, <2>1, <2>2, <2>5
<1>12. CASE BeginEpoch
  <2>1. npq_state \in npq_state_record
    BY <1>1 DEF TypeOK
  <2>2. RamFollows'
    BY <1>4, <1>12, <2>1 DEF BeginEpoch, RamFollows, npq_state_record
  <2>3. GenerationBound'
    BY <1>4, <1>12 DEF BeginEpoch, GenerationBound, BeforeEpoch
  <2> QED
    BY <1>1, <1>4, <1>12, <2>2, <2>3 DEF BeginEpoch
<1>13. ASSUME SendHello \/ ReceiveServerFinished \/ HandshakeFails \/ PowerLoss
              \/ \E n \in 1 .. MaxChallenges : ReceiveChallenge(n)
       PROVE  JournalInv'
  <2>1. /\ UNCHANGED <<slots, boots>>
        /\ \/ dpc' \in {"off", "blink"}
           \/ /\ dpc \in {"hello", "await_challenge", "await_finished"}
              /\ dpc' \in {"await_challenge", "await_finished", "live"}
              /\ UNCHANGED npq_state
    BY <1>13 DEF SendHello, ReceiveServerFinished, HandshakeFails, PowerLoss,
                 ReceiveChallenge
  <2>2. RamFollows' /\ GenerationBound'
    BY <1>4, <2>1 DEF RamFollows, GenerationBound, BeforeEpoch
  <2> QED
    BY <1>1, <1>4, <2>1, <2>2
<1>14. ASSUME Peer \/ UNCHANGED vars PROVE JournalInv'
  <2>1. UNCHANGED <<slots, npq_state, dpc, manifest, boots>>
    BY <1>14 DEF Peer, PeerStart, PeerHello, PeerStoresEpoch, PeerConfirms,
                 PeerExits, FileVanishes, deviceVars, vars
  <2>2. RamFollows' /\ GenerationBound'
    BY <1>4, <2>1 DEF RamFollows, GenerationBound
  <2> QED
    BY <1>1, <1>4, <2>1, <2>2
<1>15. CASE Persist
  BY <1>10, <1>11, <1>15 DEF Persist
<1> QED
  BY <1>5, <1>6, <1>7, <1>8, <1>12, <1>13, <1>14, <1>15 DEF Next, Device

\* An erased EEPROM satisfies the journal's invariant.
LEMMA JournalInit == Init => JournalInv
<1> SUFFICES ASSUME Init PROVE JournalInv
  OBVIOUS
<1>1. ~state_valid(Invalid)
  BY DEF state_valid, Invalid
<1>2. slots[0] = Invalid /\ slots[1] = Invalid
  BY DEF Init
<1>3. Durable = state_defaults /\ SlotParity
  BY <1>1, <1>2 DEF Durable, Loaded, SlotParity, Parity
<1>4. dpc = "off" /\ boots = 0
  BY DEF Init
<1>5. RamFollows /\ GenerationBound
  BY <1>3, <1>4 DEF RamFollows, GenerationBound, BeforeEpoch, state_defaults
<1> QED
  BY <1>3, <1>5, BootTypeInit DEF JournalInv

\* While the counters do not wrap, the journal keeps one generation for each
\* boot, its slots alternate, and RAM follows it (main.c, state_persist).
THEOREM JournalCorrect ==
    ASSUME MaxBoots < UINT32_MAX PROVE Spec => []JournalInv
BY JournalInit, JournalStep, PTL DEF Spec

\* Only the last write of state_persist changes what the next boot loads, and
\* that write takes RAM over, which is ahead of it.
LEMMA DurableStep ==
    ASSUME MaxBoots < UINT32_MAX, JournalInv, [Next]_vars
    PROVE  /\ Durable \in npq_state_record
           /\ Durable'.authorized >= Durable.authorized
           /\ Durable'.policy_sequence >= Durable.policy_sequence
           /\ Durable'.boot_epoch >= Durable.boot_epoch
<1>1. TypeOK /\ RamFollows /\ SlotParity /\ GenerationBound
  BY DEF JournalInv
<1>2. /\ Durable \in npq_state_record
      /\ Durable.generation \in Nat /\ Durable.boot_epoch \in Nat
      /\ Durable.policy_sequence \in Nat /\ Durable.authorized \in {0, 1}
  BY <1>1, LoadedType, WidthAssumption DEF TypeOK, Durable, npq_state_record, Word
<1>3. dpc \in {"auth_clear", "auth_write", "epoch_clear", "epoch_write"} =>
        npq_state.generation = Durable.generation /\ npq_state.generation < UINT32_MAX
  BY <1>1, <1>2, BootsAssumption, WidthAssumption
     DEF RamFollows, GenerationBound, BeforeEpoch, TypeOK
<1>4. ASSUME NEW from \in {"auth_clear", "epoch_clear"}, NEW to, persist_clear(from, to)
      PROVE  Durable' = Durable
  BY <1>1, <1>3, <1>4, ClearKeeps DEF persist_clear, TypeOK, Durable, SlotParity
<1>5. ASSUME NEW from \in {"auth_write", "epoch_write"}, NEW to, persist_write(from, to)
      PROVE  /\ Durable'.authorized >= Durable.authorized
             /\ Durable'.policy_sequence >= Durable.policy_sequence
             /\ Durable'.boot_epoch >= Durable.boot_epoch
  <2>1. Durable' = npq_state'
    BY <1>1, <1>3, <1>5, WriteTakes DEF persist_write, TypeOK, Durable, SlotParity
  <2>2. npq_state \in npq_state_record
    BY <1>1 DEF TypeOK
  <2>3. /\ npq_state'.authorized = npq_state.authorized
        /\ npq_state'.policy_sequence = npq_state.policy_sequence
        /\ npq_state'.boot_epoch = npq_state.boot_epoch
        /\ npq_state.policy_sequence \in Nat
    BY <1>5, <2>2, WidthAssumption DEF persist_write, npq_state_record, Word
  <2>4. dpc = "auth_write" \/ dpc = "epoch_write"
    BY <1>5 DEF persist_write
  <2> QED
    BY <1>1, <1>2, <2>1, <2>3, <2>4 DEF RamFollows
<1>6. ~Persist => UNCHANGED slots
  BY DEF Next, Device, Peer, Boot, AcceptManifest, SignatureVerified,
         SignatureRejected, BeginEpoch, SendHello, ReceiveChallenge,
         ReceiveServerFinished, HandshakeFails, PowerLoss, PeerStart, PeerHello,
         PeerStoresEpoch, PeerConfirms, PeerExits, FileVanishes, deviceVars, vars
<1>7. ~Persist => Durable' = Durable
  BY <1>6 DEF Durable
<1> QED
  BY <1>2, <1>4, <1>5, <1>7 DEF Persist

\* Enrolment, policy sequence and boot epoch survive a power failure after any
\* EEPROM write (main.c, state_persist and state_load).
THEOREM JournalNeverRegresses ==
    ASSUME MaxBoots < UINT32_MAX PROVE Spec => DurableNeverRegresses
<1>1. JournalInv /\ [Next]_vars =>
        [/\ Durable'.authorized >= Durable.authorized
         /\ Durable'.policy_sequence >= Durable.policy_sequence
         /\ Durable'.boot_epoch >= Durable.boot_epoch]_vars
  BY DurableStep
<1> QED
  BY <1>1, JournalCorrect, PTL DEF Spec, DurableNeverRegresses

-----------------------------------------------------------------------------
(* The handshake. *)

\* No step of either end, and no loss of the state file, breaks what the
\* frames on the line say.
LEMMA LineStep ==
    ASSUME MaxBoots < UINT32_MAX, JournalInv, LineInv, [Next]_vars
    PROVE  LineInv'
<1> USE DEF LineInv
<1>1. TypeOK /\ RamFollows /\ JournalInv'
  BY JournalStep DEF JournalInv
<1>2. /\ Durable \in npq_state_record /\ Durable.boot_epoch \in Nat
      /\ Durable' \in npq_state_record /\ Durable'.boot_epoch \in Nat
      /\ Durable'.boot_epoch >= Durable.boot_epoch
  BY <1>1, DurableStep, LoadedType, WidthAssumption
     DEF JournalInv, TypeOK, Durable, npq_state_record, Word
<1>3. \A f \in line : f[2] \in Nat /\ f = <<f[1], f[2], f[3]>>
  BY <1>1, WidthAssumption DEF TypeOK, Word
<1>4. latest \in Nat /\ session[1] \in Nat /\ npq_state.boot_epoch \in Nat
  BY <1>1, WidthAssumption DEF TypeOK, Word, npq_state_record
<1>5. CASE UNCHANGED line
  <2>1. (\A f \in line : f[2] <= Durable.boot_epoch)'
    BY <1>2, <1>3, <1>5 DEF EpochsAreDurable
  <2>2. dpc' = "hello" => \/ dpc = "hello" /\ UNCHANGED npq_state
                          \/ /\ dpc = "epoch_write"
                             /\ npq_state'.boot_epoch = npq_state.boot_epoch
    BY <1>1 DEF Next, Device, Persist, Peer, Boot, AcceptManifest, SignatureVerified,
         SignatureRejected, BeginEpoch, SendHello, ReceiveChallenge, persist_clear,
         persist_write, ReceiveServerFinished, HandshakeFails, PowerLoss, PeerStart,
         PeerHello, PeerStoresEpoch, PeerConfirms, PeerExits, FileVanishes, deviceVars,
         vars, TypeOK, npq_state_record
  <2>3. EpochsAreDurable'
    BY <1>1, <1>2, <1>3, <1>5, <2>1, <2>2 DEF EpochsAreDurable, RamFollows
  <2>4. dpc' = "await_challenge" => \/ dpc = "await_challenge" /\ UNCHANGED npq_state
                                    \/ SendHello
    BY DEF Next, Device, Persist, Peer, Boot, AcceptManifest, SignatureVerified,
         SignatureRejected, BeginEpoch, ReceiveChallenge, persist_clear,
         persist_write, ReceiveServerFinished, HandshakeFails, PowerLoss, PeerStart,
         PeerHello, PeerStoresEpoch, PeerConfirms, PeerExits, FileVanishes, deviceVars,
         vars
  <2>5. OneProofPerEpoch'
    BY <1>5, <2>4 DEF OneProofPerEpoch, EpochsAreDurable, SendHello
  <2>6. \/ PeerStart \/ PeerStoresEpoch \/ PeerExits \/ FileVanishes
        \/ UNCHANGED <<ppc, session, latest, vanished>>
        \/ PeerConfirms \/ \E e \in Word : PeerHello(e)
    BY DEF Next, Device, Persist, Peer, Boot, AcceptManifest, SignatureVerified,
         SignatureRejected, BeginEpoch, SendHello, ReceiveChallenge, persist_clear,
         persist_write, ReceiveServerFinished, HandshakeFails, PowerLoss, peerVars,
         vars
  <2>7. PeerFollows'
    BY <1>5, <2>6 DEF PeerFollows, PeerStart, PeerStoresEpoch, PeerExits, FileVanishes,
         PeerConfirms, PeerHello, ClientFinished, Challenge
  <2>8. dpc' = "live" =>
          ServerFinished(npq_state'.boot_epoch, challenge') \in line
    BY DEF FileFollows, Next, Device, Persist, Peer, Boot, AcceptManifest,
         SignatureVerified, SignatureRejected, BeginEpoch, SendHello, ReceiveChallenge,
         persist_clear, persist_write, ReceiveServerFinished, HandshakeFails,
         PowerLoss, PeerStart, PeerHello, PeerStoresEpoch, PeerConfirms, PeerExits,
         FileVanishes, deviceVars, vars
  <2>9. FileFollows'
    BY <1>3, <1>4, <1>5, <2>6, <2>8 DEF FileFollows, PeerStart, PeerStoresEpoch,
         PeerExits, FileVanishes, PeerConfirms, PeerHello, EpochIsNew
  <2> QED
    BY <2>3, <2>5, <2>7, <2>9
<1>6. CASE SendHello
  <2>1. /\ line' = line \cup {<<"HELLO", npq_state.boot_epoch, 0>>}
        /\ UNCHANGED <<ppc, session, latest, vanished, npq_state>>
        /\ dpc = "hello" /\ dpc' = "await_challenge" /\ Durable' = Durable
    BY <1>6 DEF SendHello, Hello, peerVars, Durable
  <2>2. EpochsAreDurable'
    BY <1>1, <1>2, <1>3, <1>4, <2>1 DEF EpochsAreDurable, RamFollows
  <2>3. OneProofPerEpoch'
    BY <1>3, <2>1 DEF OneProofPerEpoch, EpochsAreDurable
  <2>4. PeerFollows'
    BY <1>3, <2>1 DEF PeerFollows, ClientFinished, Challenge
  <2>5. FileFollows'
    BY <1>3, <2>1 DEF FileFollows
  <2> QED
    BY <2>2, <2>3, <2>4, <2>5
<1>7. ASSUME NEW n \in 1 .. MaxChallenges, ReceiveChallenge(n) PROVE LineInv'
  <2>1. /\ line' = line \cup {<<"CLIENT_FINISHED", npq_state.boot_epoch, n>>}
        /\ UNCHANGED <<ppc, session, latest, vanished, npq_state>>
        /\ dpc = "await_challenge" /\ dpc' = "await_finished" /\ Durable' = Durable
    BY <1>7 DEF ReceiveChallenge, ClientFinished, peerVars, Durable
  <2>2. EpochsAreDurable'
    BY <1>1, <1>2, <1>3, <1>4, <2>1 DEF EpochsAreDurable, RamFollows
  <2>3. OneProofPerEpoch'
    BY <1>3, <1>4, <2>1 DEF OneProofPerEpoch
  <2>4. PeerFollows'
    BY <1>3, <2>1 DEF PeerFollows, ClientFinished, Challenge
  <2>5. FileFollows'
    BY <1>3, <2>1 DEF FileFollows
  <2> QED
    BY <2>2, <2>3, <2>4, <2>5
<1>8. ASSUME NEW e \in Word, PeerHello(e) PROVE LineInv'
  <2>1. /\ line' = line \cup {<<"CHALLENGE", e, challenges'>>}
        /\ session' = <<e, challenges'>>
        /\ UNCHANGED <<latest, vanished, dpc, npq_state, challenge>>
        /\ ppc = "await_hello" /\ ppc' = "await_finished" /\ Durable' = Durable
        /\ e > latest /\ <<"HELLO", e, 0>> \in line /\ e \in Nat
    BY <1>8, WidthAssumption DEF PeerHello, Challenge, Hello, deviceVars, Durable, EpochIsNew, Word
  <2>2. EpochsAreDurable'
    BY <1>3, <2>1 DEF EpochsAreDurable
  <2>3. OneProofPerEpoch'
    BY <1>3, <2>1 DEF OneProofPerEpoch
  <2>4. PeerFollows'
    BY <1>3, <2>1 DEF PeerFollows, ClientFinished, Challenge
  <2>5. FileFollows'
    BY <1>3, <2>1 DEF FileFollows, ServerFinished
  <2> QED
    BY <2>2, <2>3, <2>4, <2>5
<1>9. CASE PeerConfirms
  <2>1. /\ line' = line \cup {<<"SERVER_FINISHED", session[1], session[2]>>}
        /\ UNCHANGED <<latest, vanished, dpc, npq_state, challenge, session>>
        /\ ppc = "stored" /\ ppc' = "live" /\ Durable' = Durable
    BY <1>9 DEF PeerConfirms, ServerFinished, deviceVars, Durable
  <2>2. EpochsAreDurable'
    BY <1>3, <2>1 DEF EpochsAreDurable, PeerFollows, ClientFinished
  <2>3. OneProofPerEpoch'
    BY <1>3, <2>1 DEF OneProofPerEpoch
  <2>4. PeerFollows'
    BY <1>3, <2>1 DEF PeerFollows, ClientFinished, Challenge
  <2>5. FileFollows'
    BY <1>3, <2>1 DEF FileFollows, ServerFinished
  <2> QED
    BY <2>2, <2>3, <2>4, <2>5
<1>10. \/ SendHello \/ (\E n \in 1 .. MaxChallenges : ReceiveChallenge(n))
       \/ (\E e \in Word : PeerHello(e)) \/ PeerConfirms \/ UNCHANGED line
  BY DEF Next, Device, Persist, Peer, Boot, AcceptManifest, SignatureVerified,
         SignatureRejected, BeginEpoch, persist_clear, persist_write,
         ReceiveServerFinished, HandshakeFails, PowerLoss, PeerStart,
         PeerStoresEpoch, PeerExits, FileVanishes, vars
<1> QED
  BY <1>5, <1>6, <1>7, <1>8, <1>9, <1>10

\* With nothing on the line there is nothing to say.
LEMMA LineInit == Init => LineInv
<1> SUFFICES ASSUME Init PROVE LineInv
  OBVIOUS
<1>1. line = {} /\ dpc = "off" /\ ppc = "closed"
  BY DEF Init
<1> QED
  BY <1>1 DEF LineInv, EpochsAreDurable, OneProofPerEpoch, PeerFollows, FileFollows

\* Journal and handshake together.
LEMMA BootInvariant ==
    ASSUME MaxBoots < UINT32_MAX PROVE Spec => [](JournalInv /\ LineInv)
<1>1. Init => JournalInv /\ LineInv
  BY JournalInit, LineInit
<1>2. JournalInv /\ LineInv /\ [Next]_vars => (JournalInv /\ LineInv)'
  BY JournalStep, LineStep
<1> QED
  BY <1>1, <1>2, PTL DEF Spec

\* No epoch opens two handshakes, whatever write power fails after: the epoch
\* is durable before HELLO announces it (main.c, ++boot_epoch, state_persist
\* and establish_session).
THEOREM EpochsAreFresh ==
    ASSUME MaxBoots < UINT32_MAX PROVE Spec => EpochNeverReused
<1>1. JournalInv /\ LineInv /\ [Next]_vars =>
        [dpc = "hello" /\ dpc' = "await_challenge"
            => Hello(npq_state.boot_epoch) \notin line]_vars
  <2> SUFFICES ASSUME JournalInv, LineInv, dpc = "hello",
                      Hello(npq_state.boot_epoch) \in line
               PROVE  FALSE
    OBVIOUS
  <2>1. npq_state.boot_epoch \in Nat
    BY WidthAssumption DEF JournalInv, TypeOK, npq_state_record, Word
  <2> QED
    BY <2>1 DEF LineInv, EpochsAreDurable, Hello
<1> QED
  BY <1>1, BootInvariant, PTL DEF Spec, EpochNeverReused

\* The peer confirms one handshake of each epoch, whatever is replayed and
\* even when its file is deleted (nanopq_peer.c, establish_session).
THEOREM OneSessionOfEachEpoch ==
    ASSUME MaxBoots < UINT32_MAX PROVE Spec => []OneSessionPerEpoch
<1>1. JournalInv /\ LineInv => OneSessionPerEpoch
  <2> SUFFICES ASSUME JournalInv, LineInv, NEW f \in line, NEW g \in line,
                      f[1] = "SERVER_FINISHED", g[1] = "SERVER_FINISHED",
                      f[2] = g[2]
               PROVE  f = g
    BY DEF OneSessionPerEpoch
  <2>1. f = <<f[1], f[2], f[3]>> /\ g = <<g[1], g[2], g[3]>>
    BY DEF JournalInv, TypeOK
  <2>2. <<"CLIENT_FINISHED", f[2], f[3]>> = <<"CLIENT_FINISHED", g[2], g[3]>>
    BY DEF LineInv, PeerFollows, OneProofPerEpoch, ClientFinished
  <2> QED
    BY <2>1, <2>2
<1> QED
  BY <1>1, BootInvariant, PTL

\* A live link's epoch is in the EEPROM and, unless the file was deleted, in
\* the peer's file: it cannot be set up again (main.c and nanopq_peer.c,
\* establish_session; store_latest_epoch precedes SERVER_FINISHED).
THEOREM LiveIsDurable ==
    ASSUME MaxBoots < UINT32_MAX PROVE Spec => []LiveIsDurableOnBothSides
<1>1. JournalInv /\ LineInv => LiveIsDurableOnBothSides
  <2> SUFFICES ASSUME JournalInv, LineInv, dpc = "live", ~vanished
               PROVE  latest >= npq_state.boot_epoch /\ Durable = npq_state
    BY DEF LiveIsDurableOnBothSides
  <2>1. latest \in Nat /\ npq_state.boot_epoch \in Nat
    BY WidthAssumption DEF JournalInv, TypeOK, npq_state_record, Word
  <2>2. npq_state.boot_epoch <= latest
    BY DEF LineInv, FileFollows, ServerFinished
  <2>3. Durable = npq_state
    BY DEF JournalInv, RamFollows
  <2> QED
    BY <2>1, <2>2, <2>3
<1> QED
  BY <1>1, BootInvariant, PTL
=============================================================================
