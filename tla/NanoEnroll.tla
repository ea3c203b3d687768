----------------------------- MODULE NanoEnroll -----------------------------
(***************************************************************************)
(* Enrolment of a NanoPQ device: the firmware's authorize_post_quantum     *)
(* (main.c) with the streaming LMS or SLH-DSA verifier that pulls the      *)
(* signature part by part, and the host's run_enrollment (nanopq_peer.c).  *)
(*                                                                         *)
(* The serial line is a byte stream without framing of its own: signature  *)
(* bytes are raw, a byte that is lost or late shifts everything after it,  *)
(* and a late signature byte is taken for the length of a frame.  Every    *)
(* device read may time out, the host may give up at any point, and the    *)
(* device may lose power.  Opening the port resets the device and drops    *)
(* what is on the line.                                                    *)
(***************************************************************************)
EXTENDS Naturals, Sequences

CONSTANTS Manifests,  \* policy sequences of the manifests manifest_valid takes
          Parts,      \* the lengths the verifier reads, in order
          SignatureBytes, \* NPQ_AUTH_SIGNATURE_BYTES, the sum of the parts
          CheckedParts, \* parts after which the verifier checks plain fields
          MaxHosts,   \* bound: host processes
          MaxFaults   \* bound: timeouts, lost bytes and resets

ASSUME ManifestsAssumption == Manifests \subseteq Nat \ {0}
ASSUME SignatureBytesAssumption == SignatureBytes \in Nat \ {0}
ASSUME PartsAssumption ==
    /\ Parts \in Seq(Nat \ {0}) /\ Parts # <<>>
    /\ CheckedParts \subseteq DOMAIN Parts

\* The parts make up the signature: the sums of the first ones end in its
\* length.
ASSUME PartsSumAssumption ==
    \E start \in [1..(Len(Parts) + 1) -> 0..SignatureBytes] :
        /\ start[1] = 0 /\ start[Len(Parts) + 1] = SignatureBytes
        /\ \A p \in 1..Len(Parts) : start[p + 1] = start[p] + Parts[p]

ASSUME BoundsAssumption == MaxHosts \in Nat /\ MaxFaults \in Nat

VARIABLES
    dpc,        \* where authorize_post_quantum is
    npq_frame,  \* policy sequence of the manifest in the frame buffer
    part,       \* the part of the signature being read
    got,        \* bytes of that part read so far
    consumed,   \* every signature byte the verifier has read
    policy,     \* EEPROM: policy_sequence of the authorized state, or 0
    hpc,        \* where the host process is
    files,      \* the manifest and the signature the host was given
    offset,     \* signature_offset
    toDevice,
    toHost,
    genuine,    \* history: manifests some host held with their signature
    calm,       \* history: no fault since this host process started
    hosts, faults

deviceVars == <<dpc, npq_frame, part, got, consumed, policy>>
hostVars   == <<hpc, files, offset, genuine, hosts>>
vars == <<dpc, npq_frame, part, got, consumed, policy, hpc, files, offset,
          toDevice, toHost, genuine, calm, hosts, faults>>

\* A byte on the line is its position in the signature of a manifest; of = 0
\* marks a damaged one.  The ENROLL_BEGIN frame is one unit.
Byte(m, j)  == [begin |-> FALSE, of |-> m, pos |-> j]
Begin(m)    == [begin |-> TRUE, of |-> m, pos |-> 0]

Signature(m)  == [j \in 1..SignatureBytes |-> Byte(m, j)]
Damaged(m, j) == [Signature(m) EXCEPT ![j] = Byte(0, j)]

\* Manifest 0 is one that manifest_valid refuses.
Files == [manifest  : Manifests \cup {0},
          signature : {Signature(m) : m \in Manifests}
                      \cup {Damaged(m, j) : m \in Manifests,
                                            j \in {1, SignatureBytes}}]

NoFiles == [manifest |-> 0, signature |-> <<>>]

Required  == [type |-> "ENROLL_REQUIRED", arg |-> 0]
Ready(n)  == [type |-> "CHUNK_READY", arg |-> n]
Result(s) == [type |-> "RESULT", arg |-> s]

-----------------------------------------------------------------------------
(* The firmware. *)

\* Frames nobody reads are dropped when a host opens the port.
SendToHost(f) ==
    toHost' = IF hpc \in {"first", "stream"} THEN Append(toHost, f) ELSE toHost

Fault == faults < MaxFaults /\ faults' = faults + 1 /\ calm' = FALSE
NoFault == UNCHANGED <<calm, faults>>

\* main calls authorize_post_quantum until it succeeds.
SendRequired ==
    /\ dpc = "enroll"
    /\ SendToHost(Required)
    /\ dpc' = "begin"
    /\ npq_frame' = 0 /\ part' = 1 /\ got' = 0 /\ consumed' = <<>>
    /\ UNCHANGED <<policy, hostVars, toDevice>>
    /\ NoFault

\* Every refusal: RESULT 0 and back to main's loop.
Refuse == SendToHost(Result(0)) /\ dpc' = "enroll"

ReceiveBegin ==
    /\ dpc = "begin"
    /\ toDevice # <<>> /\ Head(toDevice).begin
    /\ toDevice' = Tail(toDevice)
    /\ \/ /\ Head(toDevice).of \in Manifests
          /\ npq_frame' = Head(toDevice).of
          /\ dpc' = "request"
          /\ UNCHANGED toHost
       \/ /\ Head(toDevice).of \notin Manifests
          /\ Refuse /\ UNCHANGED npq_frame
    /\ UNCHANGED <<part, got, consumed, policy, hostVars>>
    /\ NoFault

\* A signature byte is taken for a frame's length: it and what follows it,
\* as far as that length goes, are read and refused.
ReceiveStray ==
    /\ dpc = "begin"
    /\ toDevice # <<>> /\ ~Head(toDevice).begin
    /\ \E n \in 1..Len(toDevice) :
         toDevice' = SubSeq(toDevice, n + 1, Len(toDevice))
    /\ Refuse
    /\ UNCHANGED <<npq_frame, part, got, consumed, policy, hostVars>>
    /\ NoFault

\* signature_reader announces the next part.
RequestPart ==
    /\ dpc = "request"
    /\ SendToHost(Ready(Parts[part]))
    /\ dpc' = "reading"
    /\ UNCHANGED <<npq_frame, part, got, consumed, policy, hostVars, toDevice>>
    /\ NoFault

\* What was read so far is the beginning of no signature.
Malformed == \E j \in DOMAIN consumed :
                 consumed[j].of = 0 \/ consumed[j].pos # j

\* LMS: the early returns on q and on the two type codes.  A malformed part
\* that is none of these fields is hashed like any other.
MalformedRejected ==
    /\ dpc = "request" /\ part - 1 \in CheckedParts /\ Malformed
    /\ Refuse
    /\ UNCHANGED <<npq_frame, part, got, consumed, policy, hostVars, toDevice>>
    /\ NoFault

\* Faulty variant of Verifies: the message is not bound to the signature.
VerifiesAnyMessage(bytes, m) == m # 0 /\ \E k \in Manifests : bytes = Signature(k)

\* The verdict and the length check after it: the bytes are the whole
\* signature of the manifest kept in the frame buffer.
Verifies(bytes, m) == bytes = Signature(m)

\* Faulty variant of LastOfPart: one byte more than announced is read.
LastOfPartLate == got = Parts[part]

\* uart_read_exact has one byte left to read.
LastOfPart == got + 1 = Parts[part]

\* uart_read_exact inside signature_reader, one byte; after the last byte of
\* the last part the verdict.
ReadByte ==
    /\ dpc = "reading"
    /\ toDevice # <<>>
    /\ toDevice' = Tail(toDevice)
    /\ consumed' = Append(consumed, Head(toDevice))
    /\ \/ /\ ~LastOfPart
          /\ got' = got + 1
          /\ UNCHANGED <<dpc, part, toHost>>
       \/ /\ LastOfPart /\ part < Len(Parts)
          /\ got' = 0 /\ part' = part + 1
          /\ dpc' = "request"
          /\ UNCHANGED toHost
       \/ /\ LastOfPart /\ part = Len(Parts)
          /\ got' = 0 /\ UNCHANGED part
          /\ IF Verifies(consumed', npq_frame)
             THEN dpc' = "persist" /\ UNCHANGED toHost
             ELSE Refuse
    /\ UNCHANGED <<npq_frame, policy, hostVars>>
    /\ NoFault

\* A read of a frame or of a part times out.
ReadTimeout ==
    /\ dpc \in {"begin", "reading"}
    /\ Refuse
    /\ UNCHANGED <<npq_frame, part, got, consumed, policy, hostVars, toDevice>>
    /\ Fault

\* Faulty variant of PersistedPolicy: state_persist is not called.
PersistedPolicyNone == policy

\* What state_persist makes durable.
PersistedPolicy == npq_frame

StatePersist ==
    /\ dpc = "persist"
    /\ policy' = PersistedPolicy
    /\ dpc' = "answer"
    /\ UNCHANGED <<npq_frame, part, got, consumed, hostVars, toDevice, toHost>>
    /\ NoFault

SendAccepted ==
    /\ dpc = "answer"
    /\ SendToHost(Result(1))
    /\ dpc' = "authorized"
    /\ UNCHANGED <<npq_frame, part, got, consumed, policy, hostVars, toDevice>>
    /\ NoFault

\* RAM after a reset; state_load decides whether enrolment is due.
Reset ==
    /\ dpc' = IF policy = 0 THEN "enroll" ELSE "authorized"
    /\ npq_frame' = 0 /\ part' = 1 /\ got' = 0 /\ consumed' = <<>>
    /\ UNCHANGED policy

PowerLoss ==
    /\ Reset
    /\ UNCHANGED <<hostVars, toDevice, toHost>>
    /\ Fault

-----------------------------------------------------------------------------
(* The host. *)

\* main and open_serial: the files are those of the command line.  A device
\* that is authorized already asks for no enrolment (NanoBoot).
HostStart ==
    /\ hpc \in {"idle", "pass", "fail"}
    /\ hosts < MaxHosts /\ hosts' = hosts + 1
    /\ policy = 0
    /\ \E f \in Files :
         /\ files' = f
         /\ genuine' = IF f.manifest \in Manifests
                          /\ f.signature = Signature(f.manifest)
                       THEN genuine \cup {f.manifest} ELSE genuine
    /\ hpc' = "first" /\ offset' = 0
    /\ toDevice' = <<>> /\ toHost' = <<>>
    /\ Reset
    /\ calm' = TRUE /\ UNCHANGED faults

HostReads == toHost # <<>> /\ toHost' = Tail(toHost)

\* main: the first frame asks for enrolment, or the process ends.
HostFirst ==
    /\ hpc = "first"
    /\ HostReads
    /\ IF Head(toHost).type = "ENROLL_REQUIRED"
       THEN hpc' = "stream" /\ toDevice' = Append(toDevice, Begin(files.manifest))
       ELSE hpc' = "fail" /\ UNCHANGED toDevice
    /\ UNCHANGED <<deviceVars, files, offset, genuine, hosts>>
    /\ NoFault

\* Faulty variant of ChunkAllowed: the last byte is never given.
ChunkAllowedShort(n) == n < Len(files.signature) - offset

ChunkAllowed(n) == n # 0 /\ n <= Len(files.signature) - offset

\* Faulty variant of Chunk: all that is left, however little was asked for.
ChunkAll(n) == SubSeq(files.signature, offset + 1, Len(files.signature) + 0 * n)

Chunk(n) == SubSeq(files.signature, offset + 1, offset + n)

HostChunk ==
    /\ hpc = "stream"
    /\ HostReads /\ Head(toHost).type = "CHUNK_READY"
    /\ LET n == Head(toHost).arg IN
       IF ChunkAllowed(n)
       THEN /\ toDevice' = toDevice \o Chunk(n)
            /\ offset' = offset + n
            /\ UNCHANGED hpc
       ELSE hpc' = "fail" /\ UNCHANGED <<toDevice, offset>>
    /\ UNCHANGED <<deviceVars, files, genuine, hosts>>
    /\ NoFault

HostResult ==
    /\ hpc = "stream"
    /\ HostReads /\ Head(toHost).type # "CHUNK_READY"
    /\ hpc' = IF /\ Head(toHost) = Result(1)
                 /\ offset = Len(files.signature)
              THEN "pass" ELSE "fail"
    /\ UNCHANGED <<deviceVars, files, offset, genuine, hosts, toDevice>>
    /\ NoFault

\* A read or write of the host fails, or the process is ended.
HostTimeout ==
    /\ hpc \in {"first", "stream"}
    /\ hpc' = "fail"
    /\ UNCHANGED <<deviceVars, files, offset, genuine, hosts, toDevice, toHost>>
    /\ Fault

\* The line drops one byte, or one frame to the host.
Lose ==
    /\ \/ /\ toDevice # <<>>
          /\ \E j \in DOMAIN toDevice :
               toDevice' = SubSeq(toDevice, 1, j - 1)
                           \o SubSeq(toDevice, j + 1, Len(toDevice))
          /\ UNCHANGED toHost
       \/ /\ toHost # <<>>
          /\ toHost' = Tail(toHost)
          /\ UNCHANGED toDevice
    /\ UNCHANGED <<deviceVars, hostVars>>
    /\ Fault

-----------------------------------------------------------------------------

Init ==
    /\ dpc = "enroll" /\ npq_frame = 0 /\ part = 1 /\ got = 0
    /\ consumed = <<>> /\ policy = 0
    /\ hpc = "idle" /\ files = NoFiles /\ offset = 0
    /\ toDevice = <<>> /\ toHost = <<>>
    /\ genuine = {} /\ calm = FALSE /\ hosts = 0 /\ faults = 0

DeviceStep ==
    \/ SendRequired \/ ReceiveBegin \/ ReceiveStray \/ RequestPart
    \/ MalformedRejected \/ ReadByte \/ StatePersist \/ SendAccepted

HostStep == HostFirst \/ HostChunk \/ HostResult

Next ==
    \/ DeviceStep \/ HostStep
    \/ HostStart \/ ReadTimeout \/ HostTimeout \/ PowerLoss \/ Lose

\* Both programs keep running; nothing is assumed about the faults.
Spec == Init /\ [][Next]_vars /\ WF_vars(DeviceStep) /\ WF_vars(HostStep)

-----------------------------------------------------------------------------
(* Properties. *)

\* The variables keep their types, and neither end runs past the signature:
\* the verifier reads no byte more than it announced and the host's
\* signature_offset stays within the file.
TypeOK ==
    /\ dpc \in {"enroll", "begin", "request", "reading", "persist", "answer",
                "authorized"}
    /\ npq_frame \in Manifests \cup {0} /\ policy \in Manifests \cup {0}
    /\ part \in DOMAIN Parts /\ got \in 0..(Parts[part] - 1)
    /\ Len(consumed) <= SignatureBytes
    /\ hpc \in {"idle", "first", "stream", "pass", "fail"}
    /\ files \in Files \cup {NoFiles}
    /\ offset \in 0..Len(files.signature)
    /\ genuine \subseteq Manifests /\ calm \in BOOLEAN
    /\ hosts \in 0..MaxHosts /\ faults \in 0..MaxFaults

\* The device is authorized for a policy only if some host held the manifest
\* together with its own whole signature, whatever was lost, late or left
\* over from an earlier attempt ("malformed or unauthenticated enrollment is
\* rejected and not persisted", docs/THREAT-MODEL.md).
AuthorizedByGenuine == policy # 0 => policy \in genuine

\* A host that reports the signature as verified leaves a device whose
\* EEPROM is authorized for that host's manifest, also when power fails
\* right after the answer.
PassIsDurable == hpc = "pass" => policy = files.manifest /\ policy # 0

\* "verifier-driven flow control": while no read has timed out and nothing
\* was reset, no byte is on its way to a device that is busy hashing, and
\* never more than the rest of the part it is reading: its UART holds two
\* bytes and has no handshake.
FlowControl ==
    calm =>
      /\ dpc = "reading" => Len(toDevice) <= Parts[part] - got
      /\ dpc \notin {"begin", "reading"} => toDevice = <<>>

\* With genuine files and no fault the two ends never wait for each other:
\* the enrolment ends in PASS.
EnrolmentCompletes ==
    (/\ hpc = "first" /\ calm /\ files.manifest \in Manifests
     /\ files.signature = Signature(files.manifest))
      ~> (hpc = "pass" \/ ~calm)
=============================================================================
