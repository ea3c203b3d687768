-------------------------- MODULE NanoEnrollProofs --------------------------
(***************************************************************************)
(* For every signature length, every split into parts, every set of        *)
(* manifests and every number of hosts and faults: a device is authorized  *)
(* only by a genuine signature, a host that reports PASS left it           *)
(* authorized, and the verifier paces the host.                            *)
(*                                                                         *)
(* EnrolInv follows a byte from the host's file to the verifier: all that  *)
(* is on the line, and all that was read, belongs to the host that runs    *)
(* now (opening the port resets the device and the line), at the position  *)
(* it has in that host's file.  StepInv counts the bytes and the turns.    *)
(***************************************************************************)
EXTENDS NanoEnroll, TLAPS

Units  == [begin : BOOLEAN, of : Nat, pos : Nat]
Frames == [type : {"ENROLL_REQUIRED", "CHUNK_READY", "RESULT"}, arg : Nat]

\* A unit that the host of now has written.
FromHost(u) ==
    IF u.begin THEN u.of = files.manifest
    ELSE u.pos \in 1..SignatureBytes /\ u = files.signature[u.pos]

SequencesTyped ==
    /\ toDevice \in Seq(Units) /\ consumed \in Seq(Units)
    /\ toHost \in Seq(Frames)
    /\ offset \in Nat /\ part \in 1..Len(Parts)

FilesTyped == files \in Files \cup {NoFiles}

BytesOfHost ==
    /\ \A i \in 1..Len(toDevice) : FromHost(toDevice[i])
    /\ \A i \in 1..Len(consumed) : FromHost(consumed[i])

FrameOfHost ==
    /\ npq_frame \in {0, files.manifest}
    /\ dpc \in {"request", "reading", "persist", "answer"} => npq_frame # 0
    /\ dpc = "persist" => consumed = Signature(npq_frame)

PolicyOfHost ==
    /\ policy # 0 => /\ policy = files.manifest
                     /\ policy \in Manifests
                     /\ files.signature = Signature(policy)
                     /\ dpc \in {"answer", "authorized"}
    /\ dpc = "answer" => policy # 0

GenuineRecorded ==
    files.manifest \in Manifests /\ files.signature = Signature(files.manifest)
        => files.manifest \in genuine

AnswersTrue ==
    /\ \A i \in 1..Len(toHost) : toHost[i] = Result(1) => policy # 0
    /\ hpc = "pass" => policy # 0

EnrolInv ==
    /\ SequencesTyped /\ FilesTyped /\ BytesOfHost /\ FrameOfHost
    /\ PolicyOfHost /\ GenuineRecorded /\ AnswersTrue

-----------------------------------------------------------------------------
(* What the host's files are. *)

\* A host's signature file is a sequence of bytes that knows its positions:
\* read_file_exact accepts no other length.
LEMMA FileShape ==
    ASSUME NEW f \in Files
    PROVE  /\ f.manifest \in Manifests \cup {0}
           /\ f.signature \in Seq(Units) /\ Len(f.signature) = SignatureBytes
           /\ \A j \in 1..SignatureBytes :
                ~f.signature[j].begin /\ f.signature[j].pos = j
<1> DEFINE Good(s) == \E val \in [1..SignatureBytes -> Nat] :
                        s = [j \in 1..SignatureBytes |-> Byte(val[j], j)]
<1>1. f.manifest \in Manifests \cup {0}
  BY DEF Files
<1>2. Good(f.signature)
  <2>1. CASE \E m \in Manifests : f.signature = Signature(m)
    <3>1. PICK m \in Manifests : f.signature = Signature(m)
      BY <2>1
    <3>2. m \in Nat
      BY ManifestsAssumption
    <3> DEFINE v == [j \in 1..SignatureBytes |-> m]
    <3>3. v \in [1..SignatureBytes -> Nat]
      BY <3>2
    <3>4. f.signature = [j \in 1..SignatureBytes |-> Byte(v[j], j)]
      BY <3>1 DEF Signature, Byte
    <3> QED  BY <3>3, <3>4
  <2>2. CASE \E m \in Manifests : \E k \in {1, SignatureBytes} :
                f.signature = Damaged(m, k)
    <3>1. PICK m \in Manifests, k \in {1, SignatureBytes} :
                 f.signature = Damaged(m, k)
      BY <2>2
    <3>2. m \in Nat
      BY ManifestsAssumption
    <3> DEFINE v == [j \in 1..SignatureBytes |-> IF j = k THEN 0 ELSE m]
    <3>3. v \in [1..SignatureBytes -> Nat]
      BY <3>2
    <3>4. f.signature = [j \in 1..SignatureBytes |-> Byte(v[j], j)]
      BY <3>1 DEF Signature, Damaged, Byte
    <3> QED  BY <3>3, <3>4
  <2> QED  BY <2>1, <2>2 DEF Files
<1>3. PICK val \in [1..SignatureBytes -> Nat] :
             f.signature = [j \in 1..SignatureBytes |-> Byte(val[j], j)]
  BY <1>2
<1>4. SignatureBytes \in Nat
  BY SignatureBytesAssumption
<1>5. \A j \in 1..SignatureBytes : /\ Byte(val[j], j) \in Units
                                   /\ ~Byte(val[j], j).begin
                                   /\ Byte(val[j], j).pos = j
  BY <1>4 DEF Byte, Units
<1>6. f.signature \in Seq(Units) /\ Len(f.signature) = SignatureBytes
  BY <1>3, <1>4, <1>5
<1> QED  BY <1>1, <1>3, <1>5, <1>6

\* A verifier that has read the whole signature of the manifest in the frame
\* buffer has read it from a host that holds both: bytes cannot change
\* position on the line without changing what is read.
LEMMA VerifiedIsGenuine ==
    ASSUME EnrolInv, npq_frame # 0, consumed = Signature(npq_frame)
    PROVE  /\ npq_frame = files.manifest /\ files.manifest \in Manifests
           /\ files.signature = Signature(files.manifest)
<1>1. npq_frame = files.manifest
  BY DEF EnrolInv, FrameOfHost
<1>2. files \in Files
  BY <1>1 DEF EnrolInv, FilesTyped, NoFiles
<1>3. files.manifest \in Manifests
  BY <1>1, <1>2, FileShape
<1>4. DOMAIN consumed = 1..Len(consumed) /\ DOMAIN consumed = 1..SignatureBytes
  <2>1. consumed \in Seq(Units)
    BY DEF EnrolInv, SequencesTyped
  <2>2. DOMAIN consumed = 1..Len(consumed)
    BY <2>1
  <2> QED  BY <2>2 DEF Signature
<1>5. \A j \in 1..SignatureBytes : files.signature[j] = Byte(npq_frame, j)
  <2> SUFFICES ASSUME NEW j \in 1..SignatureBytes
               PROVE  files.signature[j] = Byte(npq_frame, j)
    OBVIOUS
  <2>1. consumed[j] = Byte(npq_frame, j)
    BY DEF Signature
  <2>2. j \in 1..Len(consumed)
    BY <1>4
  <2>3. FromHost(consumed[j])
    BY <2>2 DEF EnrolInv, BytesOfHost
  <2> QED  BY <2>1, <2>3 DEF FromHost, Byte
<1>6. files.signature \in Seq(Units) /\ Len(files.signature) = SignatureBytes
  BY <1>2, FileShape
<1>7. files.signature = [j \in 1..SignatureBytes |-> files.signature[j]]
  BY <1>6
<1>8. files.signature = Signature(npq_frame)
  BY <1>5, <1>7 DEF Signature
<1> QED  BY <1>1, <1>3, <1>8

-----------------------------------------------------------------------------
(* Sequences. *)

LEMMA TailElements ==
    ASSUME NEW S, NEW s \in Seq(S), s # <<>>
    PROVE  /\ Head(s) \in S /\ Head(s) = s[1] /\ 1 \in 1..Len(s)
           /\ Tail(s) \in Seq(S)
           /\ \A i \in 1..Len(Tail(s)) : i + 1 \in 1..Len(s) /\ Tail(s)[i] = s[i + 1]
  OBVIOUS

LEMMA AppendElements ==
    ASSUME NEW S, NEW s \in Seq(S), NEW x \in S
    PROVE  /\ Append(s, x) \in Seq(S)
           /\ \A i \in 1..Len(Append(s, x)) :
                \/ i \in 1..Len(s) /\ Append(s, x)[i] = s[i]
                \/ Append(s, x)[i] = x
  OBVIOUS

LEMMA SubSeqElements ==
    ASSUME NEW S, NEW s \in Seq(S), NEW a \in Nat, NEW b \in Nat,
           a >= 1, b <= Len(s)
    PROVE  /\ SubSeq(s, a, b) \in Seq(S)
           /\ \A i \in 1..Len(SubSeq(s, a, b)) :
                \E k \in 1..Len(s) : SubSeq(s, a, b)[i] = s[k]
<1>1. CASE a > b
  BY <1>1
<1>2. CASE a <= b
  <2>1. SubSeq(s, a, b) \in Seq(S) /\ Len(SubSeq(s, a, b)) = b - a + 1
    BY <1>2
  <2>2. \A i \in 1..(b - a + 1) :
          a + i - 1 \in 1..Len(s) /\ SubSeq(s, a, b)[i] = s[a + i - 1]
    BY <1>2
  <2> QED  BY <2>1, <2>2
<1> QED  BY <1>1, <1>2

LEMMA ConcatElements ==
    ASSUME NEW S, NEW s \in Seq(S), NEW t \in Seq(S)
    PROVE  /\ s \o t \in Seq(S)
           /\ \A i \in 1..Len(s \o t) :
                \/ \E k \in 1..Len(s) : (s \o t)[i] = s[k]
                \/ \E k \in 1..Len(t) : (s \o t)[i] = t[k]
<1>1. s \o t \in Seq(S) /\ Len(s \o t) = Len(s) + Len(t)
  OBVIOUS
<1>2. \A i \in 1..(Len(s) + Len(t)) :
        \/ i \in 1..Len(s) /\ (s \o t)[i] = s[i]
        \/ i - Len(s) \in 1..Len(t) /\ (s \o t)[i] = t[i - Len(s)]
  OBVIOUS
<1> QED  BY <1>1, <1>2

-----------------------------------------------------------------------------
(* The invariant. *)

LEMMA InitEnrol == Init => EnrolInv
<1> SUFFICES ASSUME Init PROVE EnrolInv
  OBVIOUS
<1>1. SequencesTyped
  BY PartsAssumption DEF Init, SequencesTyped
<1>2. FilesTyped /\ FrameOfHost /\ PolicyOfHost
  BY DEF Init, FilesTyped, FrameOfHost, PolicyOfHost, NoFiles
<1>3. BytesOfHost /\ AnswersTrue
  BY DEF Init, BytesOfHost, AnswersTrue
<1>4. GenuineRecorded
  BY ManifestsAssumption DEF Init, GenuineRecorded, NoFiles
<1> QED  BY <1>1, <1>2, <1>3, <1>4 DEF EnrolInv

\* A frame the device sends is the only new one on the line to the host.
LEMMA Sending ==
    ASSUME toHost \in Seq(Frames), NEW f \in Frames, SendToHost(f)
    PROVE  /\ toHost' \in Seq(Frames)
           /\ \A i \in 1..Len(toHost') :
                \/ i \in 1..Len(toHost) /\ toHost'[i] = toHost[i]
                \/ toHost'[i] = f
  BY AppendElements DEF SendToHost

\* What no step of the device but StatePersist and ReadByte touches: the
\* files, and the policy, which is 0 while enrolment runs.
LEMMA KeepsHostFacts ==
    ASSUME EnrolInv, UNCHANGED <<files, genuine>>
    PROVE  FilesTyped' /\ GenuineRecorded'
  BY DEF EnrolInv, FilesTyped, GenuineRecorded, Signature, Byte, Files, NoFiles,
         Damaged

\* Refusals: the answer is RESULT 0, the verifier's bytes stay.
LEMMA RefuseKeeps ==
    ASSUME EnrolInv, Refuse, dpc \in {"begin", "request", "reading"},
           toDevice' \in Seq(Units),
           \A i \in 1..Len(toDevice') : FromHost(toDevice'[i]),
           consumed' \in Seq(Units),
           \A i \in 1..Len(consumed') : FromHost(consumed'[i]),
           UNCHANGED <<npq_frame, part, policy, hpc, files, offset, genuine>>
    PROVE  EnrolInv'
<1> USE DEF EnrolInv
<1>1. Result(0) \in Frames /\ Result(0) # Result(1)
  BY DEF Result, Frames
<1>2. /\ toHost' \in Seq(Frames)
      /\ \A i \in 1..Len(toHost') :
           \/ i \in 1..Len(toHost) /\ toHost'[i] = toHost[i]
           \/ toHost'[i] = Result(0)
  BY <1>1, Sending DEF Refuse, SequencesTyped
<1>3. SequencesTyped'
  BY <1>2 DEF SequencesTyped
<1>4. BytesOfHost'
  BY DEF BytesOfHost, FromHost
<1>5. FrameOfHost' /\ PolicyOfHost'
  BY DEF FrameOfHost, PolicyOfHost, Refuse
<1>6. AnswersTrue'
  BY <1>1, <1>2 DEF AnswersTrue, Result
<1>7. FilesTyped' /\ GenuineRecorded'
  BY KeepsHostFacts
<1> QED  BY <1>3, <1>4, <1>5, <1>6, <1>7

\* Steps of the device that only send a frame other than RESULT 1 or move on.
LEMMA DeviceStepKeeps ==
    ASSUME EnrolInv, DeviceStep
    PROVE  EnrolInv'
<1> USE DEF EnrolInv
<1>1. CASE SendRequired
  <2>1. Required \in Frames /\ Required # Result(1)
    BY DEF Required, Frames, Result
  <2>2. /\ toHost' \in Seq(Frames)
        /\ \A i \in 1..Len(toHost') :
             \/ i \in 1..Len(toHost) /\ toHost'[i] = toHost[i]
             \/ toHost'[i] = Required
    BY <1>1, <2>1, Sending DEF SendRequired, SequencesTyped
  <2>3. SequencesTyped'
    BY <1>1, <2>2, PartsAssumption DEF SequencesTyped, SendRequired, hostVars
  <2>4. BytesOfHost'
    BY <1>1 DEF BytesOfHost, FromHost, SendRequired, hostVars
  <2>5. FrameOfHost' /\ PolicyOfHost'
    BY <1>1 DEF FrameOfHost, PolicyOfHost, SendRequired, hostVars
  <2>6. AnswersTrue'
    BY <1>1, <2>1, <2>2 DEF AnswersTrue, SendRequired, hostVars, Result
  <2>7. FilesTyped' /\ GenuineRecorded'
    BY <1>1, KeepsHostFacts DEF SendRequired, hostVars
  <2> QED  BY <2>3, <2>4, <2>5, <2>6, <2>7
<1>2. CASE ReceiveBegin
  <2>1. /\ Head(toDevice) \in Units /\ FromHost(Head(toDevice))
        /\ toDevice' \in Seq(Units)
        /\ \A i \in 1..Len(toDevice') : FromHost(toDevice'[i])
    BY <1>2, TailElements DEF ReceiveBegin, SequencesTyped, BytesOfHost
  <2>2. CASE Head(toDevice).of \notin Manifests
    BY <1>2, <2>1, <2>2, RefuseKeeps
       DEF ReceiveBegin, SequencesTyped, BytesOfHost, hostVars
  <2>3. CASE Head(toDevice).of \in Manifests
    <3>1. /\ npq_frame' = files.manifest /\ npq_frame' # 0
          /\ dpc' = "request" /\ UNCHANGED toHost
      BY <1>2, <2>1, <2>3, ManifestsAssumption DEF ReceiveBegin, FromHost
    <3>2. SequencesTyped'
      BY <1>2, <2>1, <3>1 DEF SequencesTyped, ReceiveBegin, hostVars
    <3>3. BytesOfHost'
      BY <1>2, <2>1 DEF BytesOfHost, FromHost, ReceiveBegin, hostVars
    <3>4. FrameOfHost' /\ PolicyOfHost'
      BY <1>2, <3>1 DEF FrameOfHost, PolicyOfHost, ReceiveBegin, hostVars
    <3>5. AnswersTrue'
      BY <1>2, <3>1 DEF AnswersTrue, ReceiveBegin, hostVars, Result
    <3>6. FilesTyped' /\ GenuineRecorded'
      BY <1>2, KeepsHostFacts DEF ReceiveBegin, hostVars
    <3> QED  BY <3>2, <3>3, <3>4, <3>5, <3>6
  <2> QED  BY <2>2, <2>3
<1>3. CASE ReceiveStray
  <2>1. PICK n \in 1..Len(toDevice) :
               toDevice' = SubSeq(toDevice, n + 1, Len(toDevice))
    BY <1>3 DEF ReceiveStray
  <2>2. /\ toDevice' \in Seq(Units)
        /\ \A i \in 1..Len(toDevice') :
             \E k \in 1..Len(toDevice) : toDevice'[i] = toDevice[k]
    BY <2>1, SubSeqElements DEF SequencesTyped
  <2> QED  BY <1>3, <2>2, RefuseKeeps
              DEF ReceiveStray, SequencesTyped, BytesOfHost, hostVars
<1>4. CASE RequestPart
  <2> DEFINE f == Ready(Parts[part])
  <2>1. f \in Frames /\ f # Result(1)
    BY PartsAssumption DEF Ready, Result, Frames, SequencesTyped
  <2>2. /\ toHost' \in Seq(Frames)
        /\ \A i \in 1..Len(toHost') :
             \/ i \in 1..Len(toHost) /\ toHost'[i] = toHost[i]
             \/ toHost'[i] = f
    BY <1>4, <2>1, Sending DEF RequestPart, SequencesTyped
  <2> HIDE DEF f
  <2>3. SequencesTyped'
    BY <1>4, <2>2 DEF SequencesTyped, RequestPart, hostVars
  <2>4. BytesOfHost'
    BY <1>4 DEF BytesOfHost, FromHost, RequestPart, hostVars
  <2>5. FrameOfHost' /\ PolicyOfHost'
    BY <1>4 DEF FrameOfHost, PolicyOfHost, RequestPart, hostVars
  <2>6. AnswersTrue'
    BY <1>4, <2>1, <2>2 DEF AnswersTrue, RequestPart, hostVars, Result
  <2>7. FilesTyped' /\ GenuineRecorded'
    BY <1>4, KeepsHostFacts DEF RequestPart, hostVars
  <2> QED  BY <2>3, <2>4, <2>5, <2>6, <2>7
<1>5. CASE MalformedRejected
  BY <1>5, RefuseKeeps DEF MalformedRejected, SequencesTyped, BytesOfHost, hostVars
<1>6. CASE ReadByte
  <2>1. /\ Head(toDevice) \in Units /\ FromHost(Head(toDevice))
        /\ toDevice' \in Seq(Units)
        /\ \A i \in 1..Len(toDevice') : FromHost(toDevice'[i])
    BY <1>6, TailElements DEF ReadByte, SequencesTyped, BytesOfHost
  <2>2. /\ consumed' \in Seq(Units)
        /\ \A i \in 1..Len(consumed') : FromHost(consumed'[i])
    BY <1>6, <2>1, AppendElements DEF ReadByte, SequencesTyped, BytesOfHost
  <2>3. CASE Refuse /\ UNCHANGED part
    BY <1>6, <2>1, <2>2, <2>3, RefuseKeeps DEF ReadByte, hostVars
  <2>4. ASSUME UNCHANGED toHost, part' \in 1..Len(Parts),
               dpc' \in {"reading", "request", "persist"},
               dpc' = "persist" => consumed' = Signature(npq_frame)
        PROVE  EnrolInv'
    <3>1. SequencesTyped'
      BY <1>6, <2>1, <2>2, <2>4 DEF SequencesTyped, ReadByte, hostVars
    <3>2. BytesOfHost'
      BY <1>6, <2>1, <2>2 DEF BytesOfHost, FromHost, ReadByte, hostVars
    <3>3. FrameOfHost' /\ PolicyOfHost'
      BY <1>6, <2>4 DEF FrameOfHost, PolicyOfHost, ReadByte, hostVars, Signature
    <3>4. AnswersTrue'
      BY <1>6, <2>4 DEF AnswersTrue, ReadByte, hostVars, Result
    <3>5. FilesTyped' /\ GenuineRecorded'
      BY <1>6, KeepsHostFacts DEF ReadByte, hostVars
    <3> QED  BY <3>1, <3>2, <3>3, <3>4, <3>5
  <2>5. \/ Refuse /\ UNCHANGED part
        \/ /\ UNCHANGED toHost /\ part' \in 1..Len(Parts)
           /\ dpc' \in {"reading", "request", "persist"}
           /\ dpc' = "persist" => consumed' = Signature(npq_frame)
    BY <1>6, PartsAssumption DEF ReadByte, Verifies, SequencesTyped
  <2> QED  BY <2>3, <2>4, <2>5
<1>7. CASE StatePersist
  <2>1. /\ npq_frame # 0 /\ consumed = Signature(npq_frame)
        /\ policy' = npq_frame /\ dpc' = "answer"
    BY <1>7 DEF StatePersist, PersistedPolicy, FrameOfHost
  <2>2. /\ npq_frame = files.manifest /\ files.manifest \in Manifests
        /\ files.signature = Signature(files.manifest)
    BY <2>1, VerifiedIsGenuine
  <2>3. SequencesTyped'
    BY <1>7 DEF SequencesTyped, StatePersist, hostVars
  <2>4. BytesOfHost'
    BY <1>7 DEF BytesOfHost, FromHost, StatePersist, hostVars
  <2>5. FrameOfHost' /\ PolicyOfHost'
    BY <1>7, <2>1, <2>2
       DEF FrameOfHost, PolicyOfHost, StatePersist, hostVars, Signature
  <2>6. AnswersTrue'
    BY <1>7, <2>1 DEF AnswersTrue, StatePersist, hostVars, Result
  <2>7. FilesTyped' /\ GenuineRecorded'
    BY <1>7, KeepsHostFacts DEF StatePersist, hostVars
  <2> QED  BY <2>3, <2>4, <2>5, <2>6, <2>7
<1>8. CASE SendAccepted
  <2>1. Result(1) \in Frames
    BY DEF Result, Frames
  <2>2. toHost' \in Seq(Frames)
    BY <1>8, <2>1, Sending DEF SendAccepted, SequencesTyped
  <2>3. policy # 0 /\ policy' = policy
    BY <1>8 DEF SendAccepted, PolicyOfHost
  <2>4. SequencesTyped'
    BY <1>8, <2>2 DEF SequencesTyped, SendAccepted, hostVars
  <2>5. BytesOfHost'
    BY <1>8 DEF BytesOfHost, FromHost, SendAccepted, hostVars
  <2>6. FrameOfHost' /\ PolicyOfHost'
    BY <1>8 DEF FrameOfHost, PolicyOfHost, SendAccepted, hostVars, Signature
  <2>7. AnswersTrue'
    BY <2>3 DEF AnswersTrue
  <2>8. FilesTyped' /\ GenuineRecorded'
    BY <1>8, KeepsHostFacts DEF SendAccepted, hostVars
  <2> QED  BY <2>4, <2>5, <2>6, <2>7, <2>8
<1> QED  BY <1>1, <1>2, <1>3, <1>4, <1>5, <1>6, <1>7, <1>8 DEF DeviceStep

\* Timeouts, losses and resets take bytes away and add none.
LEMMA FaultKeeps ==
    ASSUME EnrolInv, ReadTimeout \/ PowerLoss \/ Lose
    PROVE  EnrolInv'
<1> USE DEF EnrolInv
<1>1. CASE ReadTimeout
  BY <1>1, RefuseKeeps DEF ReadTimeout, SequencesTyped, BytesOfHost, hostVars
<1>2. CASE PowerLoss
  <2>1. SequencesTyped'
    BY <1>2, PartsAssumption DEF SequencesTyped, PowerLoss, Reset, hostVars
  <2>2. BytesOfHost'
    BY <1>2 DEF BytesOfHost, FromHost, PowerLoss, Reset, hostVars
  <2>3. FrameOfHost' /\ PolicyOfHost'
    BY <1>2 DEF FrameOfHost, PolicyOfHost, PowerLoss, Reset, hostVars, Signature
  <2>4. AnswersTrue'
    BY <1>2 DEF AnswersTrue, PowerLoss, Reset, hostVars, Result
  <2>5. FilesTyped' /\ GenuineRecorded'
    BY <1>2, KeepsHostFacts DEF PowerLoss, hostVars
  <2> QED  BY <2>1, <2>2, <2>3, <2>4, <2>5
<1>3. CASE Lose
  <2>1. /\ toDevice' \in Seq(Units)
        /\ \A i \in 1..Len(toDevice') :
             \E k \in 1..Len(toDevice) : toDevice'[i] = toDevice[k]
    <3>1. CASE UNCHANGED toDevice
      BY <3>1 DEF SequencesTyped
    <3>2. CASE \E j \in DOMAIN toDevice :
                 toDevice' = SubSeq(toDevice, 1, j - 1)
                             \o SubSeq(toDevice, j + 1, Len(toDevice))
      <4>1. PICK j \in DOMAIN toDevice :
                   toDevice' = SubSeq(toDevice, 1, j - 1)
                               \o SubSeq(toDevice, j + 1, Len(toDevice))
        BY <3>2
      <4>2. toDevice \in Seq(Units) /\ j \in 1..Len(toDevice)
        BY DEF SequencesTyped
      <4> DEFINE a == SubSeq(toDevice, 1, j - 1)
                 b == SubSeq(toDevice, j + 1, Len(toDevice))
      <4>3. /\ a \in Seq(Units)
            /\ \A i \in 1..Len(a) : \E k \in 1..Len(toDevice) : a[i] = toDevice[k]
        BY <4>2, SubSeqElements
      <4>4. /\ b \in Seq(Units)
            /\ \A i \in 1..Len(b) : \E k \in 1..Len(toDevice) : b[i] = toDevice[k]
        BY <4>2, SubSeqElements
      <4>5. toDevice' = a \o b
        BY <4>1
      <4> HIDE DEF a, b
      <4>6. /\ a \o b \in Seq(Units)
            /\ \A i \in 1..Len(a \o b) :
                 \/ \E k \in 1..Len(a) : (a \o b)[i] = a[k]
                 \/ \E k \in 1..Len(b) : (a \o b)[i] = b[k]
        <5>1. a \in Seq(Units) /\ b \in Seq(Units)
          BY <4>3, <4>4
        <5> QED  BY ONLY <5>1, ConcatElements
      <4>7. \A i \in 1..Len(a \o b) :
              \E k \in 1..Len(toDevice) : (a \o b)[i] = toDevice[k]
        <5> TAKE i \in 1..Len(a \o b)
        <5>1. CASE \E k \in 1..Len(a) : (a \o b)[i] = a[k]
          BY <4>3, <5>1, Zenon
        <5>2. CASE \E k \in 1..Len(b) : (a \o b)[i] = b[k]
          BY <4>4, <5>2, Zenon
        <5> QED  BY <4>6, <5>1, <5>2
      <4> QED  BY <4>5, <4>6, <4>7
    <3> QED  BY <1>3, <3>1, <3>2 DEF Lose
  <2>2. /\ toHost' \in Seq(Frames)
        /\ \A i \in 1..Len(toHost') :
             \E k \in 1..Len(toHost) : toHost'[i] = toHost[k]
    <3>1. CASE UNCHANGED toHost
      BY <3>1 DEF SequencesTyped
    <3>2. CASE toHost # <<>> /\ toHost' = Tail(toHost)
      BY <3>2, TailElements DEF SequencesTyped
    <3> QED  BY <1>3, <3>1, <3>2 DEF Lose
  <2>3. SequencesTyped'
    BY <1>3, <2>1, <2>2 DEF SequencesTyped, Lose, deviceVars, hostVars
  <2>4. BytesOfHost'
    <3>1. \A i \in 1..Len(toDevice') : FromHost(toDevice'[i])
      BY <2>1 DEF BytesOfHost
    <3> QED  BY <1>3, <3>1 DEF BytesOfHost, FromHost, Lose, deviceVars, hostVars
  <2>5. FrameOfHost' /\ PolicyOfHost'
    BY <1>3 DEF FrameOfHost, PolicyOfHost, Lose, deviceVars, hostVars, Signature
  <2>6. AnswersTrue'
    BY <1>3, <2>2 DEF AnswersTrue, Lose, deviceVars, hostVars, Result
  <2>7. FilesTyped' /\ GenuineRecorded'
    BY <1>3, KeepsHostFacts DEF Lose, hostVars
  <2> QED  BY <2>3, <2>4, <2>5, <2>6, <2>7
<1> QED  BY <1>1, <1>2, <1>3

\* Steps of the host: what it writes is its own, and a new host starts on an
\* empty line with a device that was reset.
LEMMA HostKeeps ==
    ASSUME EnrolInv, HostStep \/ HostStart \/ HostTimeout
    PROVE  EnrolInv'
<1> USE DEF EnrolInv
<1>1. ASSUME toDevice' \in Seq(Units), offset' \in Nat,
             \A i \in 1..Len(toDevice') : FromHost(toDevice'[i]),
             toHost' \in Seq(Frames),
             \A i \in 1..Len(toHost') :
               \E k \in 1..Len(toHost) : toHost'[i] = toHost[k],
             hpc' = "pass" => policy # 0,
             UNCHANGED <<deviceVars, files, genuine>>
      PROVE  EnrolInv'
  <2>1. SequencesTyped'
    BY <1>1 DEF SequencesTyped, deviceVars
  <2>2. BytesOfHost'
    BY <1>1 DEF BytesOfHost, FromHost, deviceVars
  <2>3. FrameOfHost' /\ PolicyOfHost'
    BY <1>1 DEF FrameOfHost, PolicyOfHost, deviceVars, Signature
  <2>4. AnswersTrue'
    BY <1>1 DEF AnswersTrue, deviceVars, Result
  <2>5. FilesTyped' /\ GenuineRecorded'
    BY <1>1, KeepsHostFacts
  <2> QED  BY <2>1, <2>2, <2>3, <2>4, <2>5
<1>2. ASSUME HostReads
      PROVE  /\ toHost' \in Seq(Frames)
             /\ \A i \in 1..Len(toHost') :
                  \E k \in 1..Len(toHost) : toHost'[i] = toHost[k]
             /\ Head(toHost) \in Frames
             /\ Head(toHost) = Result(1) => policy # 0
  BY <1>2, TailElements DEF HostReads, SequencesTyped, AnswersTrue
<1>3. CASE HostFirst
  <2>1. HostReads /\ UNCHANGED <<deviceVars, files, offset, genuine>>
        /\ hpc' # "pass"
    BY <1>3 DEF HostFirst
  <2>2. Begin(files.manifest) \in Units /\ FromHost(Begin(files.manifest))
    <3>1. files.manifest \in Nat
      <4>1. CASE files \in Files
        <5>1. files.manifest \in Manifests \cup {0}
          BY <4>1, FileShape
        <5>2. \A x \in Manifests \cup {0} : x \in Nat
          BY ManifestsAssumption
        <5> QED  BY <5>1, <5>2, Zenon
      <4>2. CASE files = NoFiles
        BY <4>2 DEF NoFiles
      <4> QED  BY <4>1, <4>2 DEF FilesTyped
    <3> QED  BY <3>1 DEF Begin, Units, FromHost
  <2>3. /\ toDevice' \in Seq(Units)
        /\ \A i \in 1..Len(toDevice') : FromHost(toDevice'[i])
    <3>1. CASE UNCHANGED toDevice
      BY <3>1 DEF SequencesTyped, BytesOfHost
    <3>2. CASE toDevice' = Append(toDevice, Begin(files.manifest))
      BY <2>2, <3>2, AppendElements DEF SequencesTyped, BytesOfHost
    <3> QED  BY <1>3, <3>1, <3>2 DEF HostFirst
  <2> QED  BY <1>1, <1>2, <2>1, <2>3 DEF SequencesTyped
<1>4. CASE HostChunk
  <2>1. HostReads /\ UNCHANGED <<deviceVars, files, genuine>>
    BY <1>4 DEF HostChunk
  <2>2. CASE UNCHANGED <<toDevice, offset>> /\ hpc' = "fail"
    BY <1>1, <1>2, <2>1, <2>2 DEF SequencesTyped, BytesOfHost
  <2>3. CASE /\ ChunkAllowed(Head(toHost).arg) /\ UNCHANGED hpc
             /\ toDevice' = toDevice \o Chunk(Head(toHost).arg)
             /\ offset' = offset + Head(toHost).arg
    <3> DEFINE n == Head(toHost).arg
               c == Chunk(n)
    <3>1. n \in Nat /\ offset \in Nat
      BY <1>2, <2>1 DEF Frames, SequencesTyped
    <3>2. files \in Files
      <4>1. CASE files = NoFiles
        BY <2>3, <3>1, <4>1 DEF ChunkAllowed, NoFiles
      <4> QED  BY <4>1 DEF FilesTyped
    <3>3. /\ files.signature \in Seq(Units)
          /\ Len(files.signature) = SignatureBytes
          /\ \A j \in 1..SignatureBytes :
               ~files.signature[j].begin /\ files.signature[j].pos = j
      BY <3>2, FileShape
    <3>4. /\ c \in Seq(Units)
          /\ \A i \in 1..Len(c) :
               \E k \in 1..Len(files.signature) : c[i] = files.signature[k]
      <4>1. offset + 1 \in Nat /\ offset + n \in Nat /\ offset + 1 >= 1
            /\ offset + n <= Len(files.signature)
        BY <2>3, <3>1, <3>3, SignatureBytesAssumption DEF ChunkAllowed
      <4> DEFINE a == offset + 1
                 b == offset + n
      <4>2. a \in Nat /\ b \in Nat /\ a >= 1 /\ b <= Len(files.signature)
        BY <4>1
      <4>3. c = SubSeq(files.signature, a, b)
        BY DEF Chunk
      <4> HIDE DEF a, b, c
      <4>4. files.signature \in Seq(Units)
        BY <3>3
      <4> QED  BY ONLY <4>2, <4>3, <4>4, SubSeqElements
    <3>5. \A i \in 1..Len(c) : FromHost(c[i])
      <4> TAKE i \in 1..Len(c)
      <4>1. PICK k \in 1..Len(files.signature) : c[i] = files.signature[k]
        BY <3>4
      <4> QED  BY <3>3, <4>1 DEF FromHost
    <3>6. toDevice' = toDevice \o c /\ offset' \in Nat
      BY <2>3, <3>1
    <3> HIDE DEF c, n
    <3>7. /\ toDevice \o c \in Seq(Units)
          /\ \A i \in 1..Len(toDevice \o c) :
               \/ \E k \in 1..Len(toDevice) : (toDevice \o c)[i] = toDevice[k]
               \/ \E k \in 1..Len(c) : (toDevice \o c)[i] = c[k]
      BY <3>4, ConcatElements DEF SequencesTyped
    <3>8. \A i \in 1..Len(toDevice \o c) : FromHost((toDevice \o c)[i])
      <4> TAKE i \in 1..Len(toDevice \o c)
      <4>1. CASE \E k \in 1..Len(toDevice) : (toDevice \o c)[i] = toDevice[k]
        BY <4>1, Zenon DEF BytesOfHost
      <4>2. CASE \E k \in 1..Len(c) : (toDevice \o c)[i] = c[k]
        BY <3>5, <4>2, Zenon
      <4> QED  BY <3>7, <4>1, <4>2
    <3>9. hpc' = "pass" => policy # 0
      BY <1>4, <2>3 DEF HostChunk
    <3> QED  BY <1>1, <1>2, <2>1, <3>6, <3>7, <3>8, <3>9
  <2> QED  BY <1>4, <2>2, <2>3 DEF HostChunk
<1>5. CASE HostResult
  <2>1. /\ HostReads /\ UNCHANGED <<deviceVars, files, offset, genuine, toDevice>>
        /\ hpc' = "pass" => Head(toHost) = Result(1)
    BY <1>5 DEF HostResult
  <2> QED  BY <1>1, <1>2, <2>1 DEF SequencesTyped, BytesOfHost
<1>6. CASE HostTimeout
  <2>1. UNCHANGED <<deviceVars, files, offset, genuine, toDevice, toHost>>
        /\ hpc' # "pass"
    BY <1>6 DEF HostTimeout
  <2> QED  BY <1>1, <2>1 DEF SequencesTyped, BytesOfHost
<1>7. CASE HostStart
  <2>1. /\ policy = 0 /\ policy' = 0 /\ files' \in Files
        /\ toDevice' = <<>> /\ consumed' = <<>> /\ toHost' = <<>>
        /\ npq_frame' = 0 /\ part' = 1 /\ offset' = 0
        /\ hpc' = "first" /\ dpc' = "enroll"
    BY <1>7 DEF HostStart, Reset
  <2>2. SequencesTyped'
    BY <2>1, PartsAssumption DEF SequencesTyped
  <2>3. BytesOfHost' /\ AnswersTrue'
    BY <2>1 DEF BytesOfHost, AnswersTrue
  <2>4. FilesTyped' /\ FrameOfHost' /\ PolicyOfHost'
    BY <2>1 DEF FilesTyped, FrameOfHost, PolicyOfHost, Files, Signature, Damaged,
                Byte, NoFiles
  <2>5. GenuineRecorded'
    BY <1>7 DEF HostStart, GenuineRecorded, Signature
  <2> QED  BY <2>2, <2>3, <2>4, <2>5
<1> QED  BY <1>3, <1>4, <1>5, <1>6, <1>7 DEF HostStep

LEMMA NextEnrol == EnrolInv /\ [Next]_vars => EnrolInv'
<1> SUFFICES ASSUME EnrolInv, [Next]_vars PROVE EnrolInv'
  OBVIOUS
<1>1. CASE UNCHANGED vars
  <2> USE <1>1 DEF vars
  <2>1. SequencesTyped' /\ BytesOfHost'
    BY DEF EnrolInv, SequencesTyped, BytesOfHost, FromHost
  <2>2. FrameOfHost' /\ PolicyOfHost' /\ AnswersTrue'
    BY DEF EnrolInv, FrameOfHost, PolicyOfHost, AnswersTrue, Signature, Result
  <2>3. FilesTyped' /\ GenuineRecorded'
    BY KeepsHostFacts
  <2> QED  BY <2>1, <2>2, <2>3 DEF EnrolInv
<1>2. CASE Next
  BY <1>2, DeviceStepKeeps, FaultKeeps, HostKeeps DEF Next
<1> QED  BY <1>1, <1>2

-----------------------------------------------------------------------------
(* The theorems. *)

\* authorize_post_quantum never makes a policy durable that no host held with
\* its own signature, whatever the line and the resets do.
THEOREM OnlyGenuineAuthorizes == Spec => []AuthorizedByGenuine
<1>1. EnrolInv => AuthorizedByGenuine
  BY DEF EnrolInv, PolicyOfHost, GenuineRecorded, AuthorizedByGenuine
<1> QED  BY <1>1, InitEnrol, NextEnrol, PTL DEF Spec

\* run_enrollment reports PASS only for a device whose EEPROM holds the
\* authorization for this manifest.
THEOREM PassLeavesAuthorized == Spec => []PassIsDurable
<1>1. EnrolInv => PassIsDurable
  BY DEF EnrolInv, PolicyOfHost, AnswersTrue, PassIsDurable
<1> QED  BY <1>1, InitEnrol, NextEnrol, PTL DEF Spec

-----------------------------------------------------------------------------
(* Reading in step: how much the verifier has read, and whose turn it is.   *)

\* Where each part starts in the signature.
Start ==
    CHOOSE start \in [1..(Len(Parts) + 1) -> 0..SignatureBytes] :
        /\ start[1] = 0 /\ start[Len(Parts) + 1] = SignatureBytes
        /\ \A p \in 1..Len(Parts) : start[p + 1] = start[p] + Parts[p]

\* The verifier has read the parts before this one and "got" bytes of it.
ReadSoFar ==
    /\ got \in 0..(Parts[part] - 1)
    /\ Len(consumed) <= SignatureBytes
    /\ dpc = "begin" => part = 1 /\ got = 0 /\ consumed = <<>>
    /\ dpc = "request" => got = 0
    /\ dpc \in {"request", "reading"} => Len(consumed) = Start[part] + got

\* The types of the rest of the state.
RestTyped ==
    /\ dpc \in {"enroll", "begin", "request", "reading", "persist", "answer",
                "authorized"}
    /\ npq_frame \in Manifests \cup {0} /\ policy \in Manifests \cup {0}
    /\ hpc \in {"idle", "first", "stream", "pass", "fail"}
    /\ offset \in 0..Len(files.signature)
    /\ genuine \subseteq Manifests /\ calm \in BOOLEAN
    /\ hosts \in 0..MaxHosts /\ faults \in 0..MaxFaults

\* No more is on the line than the device is about to read.
QuietLine ==
    /\ dpc = "reading" => Len(toDevice) <= Parts[part] - got
    /\ dpc = "begin" => Len(toDevice) <= 1
    /\ dpc \notin {"begin", "reading"} => toDevice = <<>>

\* The two ends take turns.
Turns ==
    /\ hpc = "first" =>
         /\ toDevice = <<>>
         /\ \/ dpc = "enroll" /\ toHost = <<>>
            \/ dpc = "begin" /\ toHost = <<Required>>
    /\ hpc = "stream" =>
         \/ toHost = <<>> /\ dpc \in {"begin", "request", "reading", "persist", "answer"}
         \/ /\ toHost # <<>> /\ Head(toHost).type = "RESULT"
            /\ toDevice = <<>> /\ dpc \in {"enroll", "begin", "authorized"}
         \/ /\ toHost = <<Ready(Parts[part])>>
            /\ dpc = "reading" /\ got = 0 /\ toDevice = <<>>

StepInv == ReadSoFar /\ RestTyped /\ (calm => QuietLine /\ Turns)

\* The starts of the parts.
LEMMA StartFacts ==
    /\ Start \in [1..(Len(Parts) + 1) -> 0..SignatureBytes]
    /\ Start[1] = 0 /\ Start[Len(Parts) + 1] = SignatureBytes
    /\ \A p \in 1..Len(Parts) : Start[p + 1] = Start[p] + Parts[p]
BY PartsSumAssumption DEF Start

\* A part is not empty, and no longer than what is left of the signature.
LEMMA PartFacts ==
    ASSUME NEW p \in 1..Len(Parts)
    PROVE  /\ Parts[p] \in Nat /\ Parts[p] > 0 /\ 0 \in 0..(Parts[p] - 1)
           /\ Start[p] \in Nat /\ Start[p] + Parts[p] <= SignatureBytes
           /\ Start[p + 1] = Start[p] + Parts[p]
           /\ Len(Parts) \in Nat /\ SignatureBytes \in Nat
<1>1. Len(Parts) \in Nat /\ Parts[p] \in Nat \ {0} /\ SignatureBytes \in Nat
  BY PartsAssumption, SignatureBytesAssumption
<1>2. p \in 1..(Len(Parts) + 1) /\ p + 1 \in 1..(Len(Parts) + 1)
  BY <1>1
<1>3. Start[p] \in 0..SignatureBytes /\ Start[p + 1] \in 0..SignatureBytes
  BY <1>2, StartFacts
<1>4. Start[p + 1] = Start[p] + Parts[p]
  BY StartFacts
<1> QED  BY <1>1, <1>3, <1>4

\* The first part.
LEMMA FirstPart == 1 \in 1..Len(Parts) /\ Start[1] = 0
BY PartsAssumption, StartFacts

\* The file is a sequence of known length.
LEMMA FileLength == ASSUME FilesTyped PROVE Len(files.signature) \in Nat
BY FileShape, SignatureBytesAssumption DEF FilesTyped, NoFiles

\* Lengths of the sequences on the line.
LEMMA Lengths ==
    ASSUME NEW S, NEW s \in Seq(S)
    PROVE  /\ Len(s) \in Nat /\ (Len(s) = 0 <=> s = <<>>)
           /\ s # <<>> => Len(Tail(s)) = Len(s) - 1 /\ Tail(s) \in Seq(S)
           /\ \A x \in S : Len(Append(s, x)) = Len(s) + 1 /\ Append(s, x) # <<>>
           /\ \A x \in S : s # <<>> => Head(Append(s, x)) = Head(s)
           /\ \A x \in S : s = <<>> => Append(s, x) = <<x>>
<1>1. Len(s) \in Nat /\ (Len(s) = 0 <=> s = <<>>)
  OBVIOUS
<1>2. s # <<>> => Len(Tail(s)) = Len(s) - 1 /\ Tail(s) \in Seq(S)
  OBVIOUS
<1>3. ASSUME NEW x \in S
      PROVE  Len(Append(s, x)) = Len(s) + 1 /\ Append(s, x) # <<>>
  BY SMTT(30)
<1>4. ASSUME NEW x \in S, s # <<>> PROVE Head(Append(s, x)) = Head(s)
  BY <1>4
<1>5. ASSUME NEW x \in S, s = <<>> PROVE Append(s, x) = <<x>>
  BY <1>5
<1> QED  BY <1>1, <1>2, <1>3, <1>4, <1>5

\* A line with one frame on it.
LEMMA Single ==
    ASSUME NEW x
    PROVE  <<x>> # <<>> /\ Head(<<x>>) = x /\ Tail(<<x>>) = <<>> /\ Len(<<x>>) <= 1
  OBVIOUS

\* A line that is not empty and holds at most one unit holds one.
LEMMA OneUnit == ASSUME NEW n \in Nat, n # 0, n <= 1 PROVE n = 1
  OBVIOUS

\* The reads of the verifier.
LEMMA ReadsKeep ==
    ASSUME EnrolInv, ReadSoFar, [Next]_vars
    PROVE  ReadSoFar'
<1> USE DEF EnrolInv
<1>1. part \in 1..Len(Parts) /\ consumed \in Seq(Units) /\ toDevice \in Seq(Units)
  BY DEF SequencesTyped
<1>2. ASSUME UNCHANGED <<part, got, consumed>>,
             dpc' = "begin" => dpc = "begin",
             dpc' = "request" => dpc = "request" \/ dpc = "begin",
             dpc' = "reading" => dpc \in {"request", "reading"}
      PROVE  ReadSoFar'
  <2>1. dpc' = "request" /\ dpc = "begin" => Len(consumed') = Start[part'] + got' /\ got' = 0
    <3> SUFFICES ASSUME dpc = "begin" PROVE Len(consumed') = Start[part'] + got' /\ got' = 0
      OBVIOUS
    <3>1. part' = 1 /\ got' = 0 /\ consumed' = <<>>
      BY <1>2 DEF ReadSoFar
    <3>2. Len(<<>>) = 0
      OBVIOUS
    <3> QED  BY <3>1, <3>2, FirstPart
  <2>2. dpc' \in {"request", "reading"} => Len(consumed') = Start[part'] + got'
    BY <1>2, <2>1 DEF ReadSoFar
  <2>3. dpc' = "request" => got' = 0
    BY <1>2 DEF ReadSoFar
  <2> QED  BY <1>2, <2>2, <2>3 DEF ReadSoFar
<1>3. ASSUME part' = 1, got' = 0, consumed' = <<>>, dpc' \in {"begin", "enroll", "authorized"}
      PROVE  ReadSoFar'
  BY <1>3, FirstPart, PartFacts DEF ReadSoFar
<1>4. CASE SendRequired
  BY <1>3, <1>4 DEF SendRequired
<1>5. CASE ReceiveBegin \/ ReceiveStray \/ MalformedRejected \/ ReadTimeout
  BY <1>2, <1>5 DEF ReceiveBegin, ReceiveStray, MalformedRejected, ReadTimeout, Refuse
<1>6. CASE RequestPart \/ StatePersist \/ SendAccepted
  BY <1>2, <1>6 DEF RequestPart, StatePersist, SendAccepted
<1>7. CASE HostFirst \/ HostChunk \/ HostResult \/ HostTimeout \/ Lose
  BY <1>2, <1>7 DEF HostFirst, HostChunk, HostResult, HostTimeout, Lose, deviceVars
<1>8. CASE HostStart \/ PowerLoss
  <2>1. dpc' \in {"enroll", "authorized"} /\ part' = 1 /\ got' = 0 /\ consumed' = <<>>
    BY <1>8 DEF HostStart, PowerLoss, Reset
  <2> QED  BY <1>3, <2>1
<1>9. CASE UNCHANGED vars
  BY <1>2, <1>9 DEF vars
<1>10. CASE ReadByte
  <2>1. /\ dpc = "reading" /\ toDevice # <<>>
        /\ consumed' = Append(consumed, Head(toDevice))
    BY <1>10 DEF ReadByte
  <2>2. Len(consumed') = Len(consumed) + 1 /\ Len(consumed) = Start[part] + got
    BY <1>1, <2>1, TailElements, Lengths DEF ReadSoFar
  <2>3. /\ Parts[part] \in Nat /\ Parts[part] > 0
        /\ Start[part] \in Nat /\ Start[part] + Parts[part] <= SignatureBytes
        /\ Start[part + 1] = Start[part] + Parts[part] /\ SignatureBytes \in Nat
    BY <1>1, PartFacts
  <2>4. got \in 0..(Parts[part] - 1)
    BY DEF ReadSoFar
  <2>5. CASE ~LastOfPart /\ got' = got + 1 /\ UNCHANGED <<dpc, part, toHost>>
    <3>1. got' \in 0..(Parts[part] - 1) /\ Len(consumed') = Start[part] + got'
      BY <2>2, <2>3, <2>4, <2>5, SMTT(30) DEF LastOfPart
    <3>2. Len(consumed') <= SignatureBytes
      BY <2>3, <3>1
    <3> QED  BY <2>1, <2>5, <3>1, <3>2 DEF ReadSoFar
  <2>6. CASE /\ LastOfPart /\ part < Len(Parts) /\ got' = 0 /\ part' = part + 1
             /\ dpc' = "request"
    <3>1. part' \in 1..Len(Parts)
      BY <1>1, <2>6, PartsAssumption
    <3>2. Len(consumed') = Start[part'] + got' /\ Len(consumed') <= SignatureBytes
      <4>1. got = Parts[part] - 1
        BY <2>3, <2>4, <2>6 DEF LastOfPart
      <4>2. Len(consumed') = Start[part] + Parts[part]
        BY <2>2, <2>3, <4>1
      <4> QED  BY <2>3, <2>6, <4>2
    <3>3. got' \in 0..(Parts[part'] - 1)
      BY <2>6, <3>1, PartFacts
    <3> QED  BY <2>6, <3>2, <3>3 DEF ReadSoFar
  <2>7. CASE LastOfPart /\ got' = 0 /\ part' = part /\ dpc' \in {"persist", "enroll"}
    <3>1. Len(consumed') <= SignatureBytes /\ got' \in 0..(Parts[part] - 1)
      BY <2>2, <2>3, <2>4, <2>7, SMTT(30) DEF LastOfPart
    <3> QED  BY <2>7, <3>1 DEF ReadSoFar
  <2> QED  BY <1>10, <2>5, <2>6, <2>7 DEF ReadByte, Refuse
<1> QED  BY <1>4, <1>5, <1>6, <1>7, <1>8, <1>9, <1>10 DEF Next, DeviceStep, HostStep

\* The types of the rest.
LEMMA TypesKeep ==
    ASSUME EnrolInv, RestTyped, [Next]_vars
    PROVE  RestTyped'
<1> USE DEF EnrolInv
<1>1. calm' \in BOOLEAN
  <2>1. calm \in BOOLEAN
    BY DEF RestTyped
  <2>2. calm' = calm \/ calm' = FALSE \/ calm' = TRUE
    BY DEF Next, DeviceStep, HostStep, SendRequired, ReceiveBegin, ReceiveStray,
           RequestPart, MalformedRejected, ReadByte, StatePersist, SendAccepted,
           HostFirst, HostChunk, HostResult, HostStart, ReadTimeout, HostTimeout,
           PowerLoss, Lose, NoFault, Fault, vars
  <2> QED  BY <2>1, <2>2, Zenon
<1>2. faults' \in 0..MaxFaults
  <2>1. faults' = faults \/ (faults < MaxFaults /\ faults' = faults + 1)
    BY DEF Next, DeviceStep, HostStep, SendRequired, ReceiveBegin, ReceiveStray,
           RequestPart, MalformedRejected, ReadByte, StatePersist, SendAccepted,
           HostFirst, HostChunk, HostResult, HostStart, ReadTimeout, HostTimeout,
           PowerLoss, Lose, NoFault, Fault, vars
  <2> QED  BY <2>1, BoundsAssumption DEF RestTyped
<1>3. ASSUME DeviceStep \/ ReadTimeout \/ PowerLoss
      PROVE  /\ dpc' \in {"enroll", "begin", "request", "reading", "persist", "answer",
                          "authorized"}
             /\ npq_frame' \in Manifests \cup {0} /\ policy' \in Manifests \cup {0}
             /\ UNCHANGED hostVars
  BY <1>3 DEF DeviceStep, RestTyped, SendRequired, ReceiveBegin, ReceiveStray,
              RequestPart, MalformedRejected, ReadByte, StatePersist, SendAccepted,
              ReadTimeout, PowerLoss, Reset, Refuse, PersistedPolicy
<1>4. CASE DeviceStep \/ ReadTimeout \/ PowerLoss
  BY <1>1, <1>2, <1>3, <1>4 DEF RestTyped, hostVars
<1>5. CASE Lose \/ UNCHANGED vars
  BY <1>1, <1>2, <1>5 DEF RestTyped, Lose, vars, deviceVars, hostVars
<1>6. CASE HostFirst \/ HostResult \/ HostTimeout
  BY <1>1, <1>2, <1>6 DEF RestTyped, HostFirst, HostResult, HostTimeout, deviceVars
<1>7. CASE HostChunk
  <2>1. offset' \in 0..Len(files.signature)
    <3>1. offset \in 0..Len(files.signature) /\ Len(files.signature) \in Nat
      BY FileLength DEF RestTyped
    <3>2. Head(toHost).arg \in Nat
      <4>1. toHost # <<>> /\ toHost \in Seq(Frames)
        BY <1>7 DEF HostChunk, HostReads, SequencesTyped
      <4>2. Head(toHost) \in Frames
        BY <4>1, TailElements
      <4> QED  BY <4>2 DEF Frames
    <3> QED  BY <1>7, <3>1, <3>2 DEF HostChunk, ChunkAllowed
  <2>2. /\ UNCHANGED <<deviceVars, files, genuine, hosts>>
        /\ hpc' = hpc \/ hpc' = "fail"
    BY <1>7 DEF HostChunk
  <2> QED  BY <1>1, <1>2, <2>1, <2>2 DEF RestTyped, deviceVars
<1>8. CASE HostStart
  <2>1. /\ dpc' \in {"enroll", "authorized"} /\ npq_frame' = 0 /\ policy' = policy
        /\ hpc' = "first" /\ offset' = 0 /\ hosts < MaxHosts /\ hosts' = hosts + 1
    BY <1>8 DEF HostStart, Reset
  <2>2. genuine' \subseteq Manifests
    BY <1>8 DEF HostStart, RestTyped
  <2>3. Len(files'.signature) \in Nat
    BY <1>8, FileShape, SignatureBytesAssumption DEF HostStart
  <2>4. hosts' \in 0..MaxHosts
    BY <2>1, BoundsAssumption DEF RestTyped
  <2> QED  BY <1>1, <1>2, <2>1, <2>2, <2>3, <2>4 DEF RestTyped
<1> QED  BY <1>4, <1>5, <1>6, <1>7, <1>8 DEF Next, HostStep

\* What the device sends reaches a host that runs, behind what is there.
LEMMA SendFacts ==
    ASSUME EnrolInv, NEW f \in Frames, SendToHost(f)
    PROVE  /\ hpc \in {"first", "stream"} /\ toHost = <<>> => toHost' = <<f>>
           /\ hpc \in {"first", "stream"} /\ toHost # <<>> =>
                toHost' # <<>> /\ Head(toHost') = Head(toHost)
           /\ hpc \in {"first", "stream"} => toHost' # <<>>
BY Lengths DEF EnrolInv, SequencesTyped, SendToHost

\* Every refusal answers the host, with nothing on the line towards the
\* device any more.
LEMMA RefuseInTurn ==
    ASSUME EnrolInv, Refuse, UNCHANGED hpc, toDevice' = <<>>,
           hpc # "first", hpc = "stream" => toHost = <<>>
    PROVE  QuietLine' /\ Turns'
<1>1. Result(0) \in Frames /\ Result(0).type = "RESULT"
  BY DEF Result, Frames
<1>2. hpc = "stream" => toHost' = <<Result(0)>>
  BY <1>1, SendFacts DEF Refuse
<1>3. hpc = "stream" => toHost' # <<>> /\ Head(toHost').type = "RESULT"
  BY <1>1, <1>2, Single
<1> QED  BY <1>3 DEF QuietLine, Turns, Refuse

\* While nothing fails, the ends take turns: the host writes a part only when
\* the device has asked for it and is reading.
LEMMA TurnsKeep ==
    ASSUME EnrolInv, ReadSoFar, calm => QuietLine /\ Turns, [Next]_vars, calm'
    PROVE  QuietLine' /\ Turns'
<1>1. /\ part \in 1..Len(Parts) /\ toDevice \in Seq(Units) /\ toHost \in Seq(Frames)
      /\ Parts[part] \in Nat /\ got \in 0..(Parts[part] - 1)
  BY PartFacts DEF EnrolInv, SequencesTyped, ReadSoFar
<1>2. CASE HostStart
  <2>1. /\ policy = 0 /\ dpc' = "enroll" /\ hpc' = "first"
        /\ toDevice' = <<>> /\ toHost' = <<>>
    BY <1>2 DEF HostStart, Reset
  <2> QED  BY <2>1 DEF QuietLine, Turns
<1>3. CASE ~HostStart
  <2>1. calm /\ ~ReadTimeout /\ ~HostTimeout /\ ~PowerLoss /\ ~Lose
    BY <1>3 DEF Next, DeviceStep, HostStep, SendRequired, ReceiveBegin, ReceiveStray,
           RequestPart, MalformedRejected, ReadByte, StatePersist, SendAccepted,
           HostFirst, HostChunk, HostResult, ReadTimeout, HostTimeout,
           PowerLoss, Lose, NoFault, Fault, vars
  <2>2. QuietLine /\ Turns
    BY <2>1
  <2>3. CASE UNCHANGED vars
    BY <2>2, <2>3 DEF vars, QuietLine, Turns
  <2>4. CASE SendRequired
    <3>1. /\ dpc = "enroll" /\ dpc' = "begin" /\ SendToHost(Required)
          /\ UNCHANGED <<hpc, toDevice>> /\ toDevice = <<>>
      BY <2>2, <2>4 DEF SendRequired, hostVars, QuietLine
    <3>2. Required \in Frames
      BY DEF Required, Frames
    <3>3. hpc = "first" => toHost' = <<Required>>
      BY <2>2, <3>1, <3>2, SendFacts DEF Turns
    <3>4. hpc = "stream" => toHost' # <<>> /\ Head(toHost').type = "RESULT"
      BY <2>2, <3>1, <3>2, SendFacts DEF Turns
    <3>5. Len(toDevice') <= 1
      BY <1>1, <3>1, Lengths
    <3> QED  BY <3>1, <3>3, <3>4, <3>5 DEF QuietLine, Turns
  <2>5. CASE ReceiveBegin
    <3>1. dpc = "begin" /\ toDevice # <<>> /\ UNCHANGED hpc /\ toDevice' = Tail(toDevice)
      BY <2>5 DEF ReceiveBegin, hostVars
    <3>2. Len(toDevice') = 0 /\ toDevice' \in Seq(Units)
      <4>1. Len(toDevice) \in Nat /\ Len(toDevice) # 0 /\ Len(toDevice) <= 1
        BY <1>1, <2>2, <3>1, Lengths DEF QuietLine
      <4>2. Len(Tail(toDevice)) = Len(toDevice) - 1 /\ Tail(toDevice) \in Seq(Units)
        BY <1>1, <3>1, Lengths
      <4> QED  BY <3>1, <4>1, <4>2
    <3>3. toDevice' = <<>>
      BY <3>2, Lengths
    <3>4. hpc # "first" /\ (hpc = "stream" => toHost = <<>>)
      BY <2>2, <3>1 DEF Turns
    <3>5. CASE Refuse
      BY <3>1, <3>3, <3>4, <3>5, RefuseInTurn
    <3>6. CASE dpc' = "request" /\ UNCHANGED toHost
      BY <3>1, <3>3, <3>4, <3>6 DEF QuietLine, Turns
    <3> QED  BY <2>5, <3>5, <3>6 DEF ReceiveBegin
  <2>6. CASE ReceiveStray
    <3>1. dpc = "begin" /\ toDevice # <<>> /\ UNCHANGED hpc /\ Refuse
      BY <2>6 DEF ReceiveStray, hostVars
    <3>2. Len(toDevice) = 1
      <4>1. Len(toDevice) \in Nat /\ Len(toDevice) # 0 /\ Len(toDevice) <= 1
        BY <1>1, <2>2, <3>1, Lengths DEF QuietLine
      <4> QED  BY <4>1, OneUnit
    <3>3. PICK n \in 1..Len(toDevice) : toDevice' = SubSeq(toDevice, n + 1, Len(toDevice))
      BY <2>6 DEF ReceiveStray
    <3>4. toDevice' = SubSeq(toDevice, 2, 1)
      BY <3>2, <3>3
    <3>5. toDevice' = <<>>
      BY <1>1, <3>4
    <3>6. hpc # "first" /\ (hpc = "stream" => toHost = <<>>)
      BY <2>2, <3>1 DEF Turns
    <3> QED  BY <3>1, <3>5, <3>6, RefuseInTurn
  <2>7. CASE RequestPart
    <3>1. /\ dpc = "request" /\ dpc' = "reading" /\ SendToHost(Ready(Parts[part]))
          /\ UNCHANGED <<hpc, toDevice, part, got>> /\ toDevice = <<>> /\ got = 0
      BY <2>2, <2>7 DEF RequestPart, hostVars, QuietLine, ReadSoFar
    <3>2. Ready(Parts[part]) \in Frames
      BY <1>1 DEF Ready, Frames
    <3>3. hpc # "first" /\ (hpc = "stream" => toHost' = <<Ready(Parts[part])>>)
      BY <2>2, <3>1, <3>2, SendFacts DEF Turns
    <3>4. Len(toDevice') <= Parts[part] - got
      BY <1>1, <3>1, Lengths
    <3> QED  BY <3>1, <3>3, <3>4 DEF QuietLine, Turns
  <2>8. CASE MalformedRejected
    <3>1. dpc = "request" /\ UNCHANGED <<hpc, toDevice>> /\ Refuse /\ toDevice = <<>>
      BY <2>2, <2>8 DEF MalformedRejected, hostVars, QuietLine
    <3>2. hpc # "first" /\ (hpc = "stream" => toHost = <<>>)
      BY <2>2, <3>1 DEF Turns
    <3> QED  BY <3>1, <3>2, RefuseInTurn
  <2>9. CASE ReadByte
    <3>1. dpc = "reading" /\ toDevice # <<>> /\ UNCHANGED hpc /\ toDevice' = Tail(toDevice)
      BY <2>9 DEF ReadByte, hostVars
    <3>2. /\ Len(toDevice') = Len(toDevice) - 1 /\ Len(toDevice) \in Nat
          /\ toDevice' \in Seq(Units) /\ Len(toDevice) <= Parts[part] - got
      BY <1>1, <2>2, <3>1, Lengths DEF QuietLine
    <3>3. hpc # "first" /\ (hpc = "stream" => toHost = <<>>)
      BY <2>2, <3>1 DEF Turns
    <3>4. CASE ~LastOfPart /\ got' = got + 1 /\ UNCHANGED <<dpc, part, toHost>>
      <4>1. Len(toDevice') <= Parts[part'] - got'
        BY <1>1, <3>2, <3>4
      <4> QED  BY <3>1, <3>3, <3>4, <4>1 DEF QuietLine, Turns
    <3>5. CASE LastOfPart
      <4>1. Len(toDevice') = 0
        <5>1. Len(toDevice') \in Nat
          BY <3>2
        <5> QED  BY <1>1, <3>2, <3>5, <5>1 DEF LastOfPart
      <4>2. toDevice' = <<>>
        BY <3>2, <4>1, Lengths
      <4>3. CASE Refuse
        BY <3>1, <3>3, <4>2, <4>3, RefuseInTurn
      <4>4. CASE dpc' \in {"request", "persist"} /\ UNCHANGED toHost
        BY <3>1, <3>3, <4>2, <4>4 DEF QuietLine, Turns
      <4> QED  BY <2>9, <3>5, <4>3, <4>4 DEF ReadByte
    <3> QED  BY <2>9, <3>4, <3>5 DEF ReadByte
  <2>10. CASE StatePersist
    BY <2>2, <2>10 DEF StatePersist, hostVars, QuietLine, Turns
  <2>11. CASE SendAccepted
    <3>1. /\ dpc = "answer" /\ dpc' = "authorized" /\ SendToHost(Result(1))
          /\ UNCHANGED <<hpc, toDevice>> /\ toDevice = <<>>
      BY <2>2, <2>11 DEF SendAccepted, hostVars, QuietLine
    <3>2. Result(1) \in Frames /\ Result(1).type = "RESULT"
      BY DEF Result, Frames
    <3>3. hpc # "first" /\ (hpc = "stream" => toHost' = <<Result(1)>>)
      BY <2>2, <3>1, <3>2, SendFacts DEF Turns
    <3>4. hpc = "stream" => toHost' # <<>> /\ Head(toHost').type = "RESULT"
      BY <3>2, <3>3, Single
    <3> QED  BY <3>1, <3>3, <3>4 DEF QuietLine, Turns
  <2>12. CASE HostFirst
    <3>1. /\ hpc = "first" /\ toHost # <<>> /\ toHost' = Tail(toHost)
          /\ UNCHANGED deviceVars
      BY <2>12 DEF HostFirst, HostReads
    <3>2. dpc = "begin" /\ toHost = <<Required>> /\ toDevice = <<>>
      BY <2>2, <3>1 DEF Turns
    <3>3. toHost' = <<>>
      BY <3>1, <3>2, Single
    <3>4. /\ hpc' \in {"stream", "fail"}
          /\ toDevice' = toDevice \/ toDevice' = Append(toDevice, Begin(files.manifest))
      BY <2>12 DEF HostFirst
    <3>5. Len(toDevice') <= 1
      <4>1. toDevice' = <<>> \/ toDevice' = <<Begin(files.manifest)>>
        BY <3>2, <3>4
      <4>2. Len(<<>>) <= 1
        OBVIOUS
      <4> QED  BY <4>1, <4>2, Single
    <3> QED  BY <3>1, <3>2, <3>3, <3>4, <3>5 DEF QuietLine, Turns, deviceVars
  <2>13. CASE HostChunk
    <3> DEFINE n == Head(toHost).arg
    <3>1. /\ hpc = "stream" /\ toHost # <<>> /\ toHost' = Tail(toHost)
          /\ Head(toHost).type = "CHUNK_READY" /\ UNCHANGED <<deviceVars, files>>
      BY <2>13 DEF HostChunk, HostReads
    <3>2. /\ toHost = <<Ready(Parts[part])>> /\ dpc = "reading" /\ got = 0
          /\ toDevice = <<>>
      BY <2>2, <3>1 DEF Turns
    <3>3. n = Parts[part] /\ toHost' = <<>>
      BY <3>1, <3>2, Single DEF Ready
    <3>4. CASE hpc' = "fail" /\ UNCHANGED toDevice
      BY <2>2, <3>1, <3>4 DEF QuietLine, Turns, deviceVars
    <3>5. CASE ChunkAllowed(n) /\ toDevice' = toDevice \o Chunk(n) /\ UNCHANGED hpc
      <4>1. n \in Nat /\ offset \in Nat /\ n <= Len(files.signature) - offset
        BY <1>1, <3>3, <3>5 DEF ChunkAllowed, EnrolInv, SequencesTyped
      <4>2. files.signature \in Seq(Units) /\ Len(files.signature) \in Nat
        <5>1. files \in Files \/ files = NoFiles
          BY DEF EnrolInv, FilesTyped
        <5>2. CASE files \in Files
          BY <5>2, FileShape, SignatureBytesAssumption
        <5>3. CASE files = NoFiles
          <6>1. files.signature = <<>>
            BY <5>3 DEF NoFiles
          <6>2. <<>> \in Seq(Units) /\ Len(<<>>) = 0
            OBVIOUS
          <6> QED  BY <6>1, <6>2
        <5> QED  BY <5>1, <5>2, <5>3
      <4>3. Chunk(n) \in Seq(Units) /\ Len(Chunk(n)) = n
        BY <4>1, <4>2 DEF Chunk
      <4>4. Len(toDevice') = n
        BY <3>2, <3>5, <4>3
      <4>5. Len(toDevice') <= Parts[part] - got
        BY <1>1, <3>2, <3>3, <4>4
      <4> QED  BY <3>1, <3>2, <3>3, <3>5, <4>5 DEF QuietLine, Turns, deviceVars
    <3> QED  BY <2>13, <3>4, <3>5 DEF HostChunk
  <2>14. CASE HostResult
    <3>1. hpc' \in {"pass", "fail"} /\ UNCHANGED <<deviceVars, toDevice>>
      BY <2>14 DEF HostResult
    <3> QED  BY <2>2, <3>1 DEF QuietLine, Turns, deviceVars
  <2> QED
    BY <1>3, <2>1, <2>3, <2>4, <2>5, <2>6, <2>7, <2>8, <2>9, <2>10, <2>11, <2>12,
       <2>13, <2>14 DEF Next, DeviceStep, HostStep
<1> QED  BY <1>2, <1>3

\* The invariant of the turns and of the types, in every behaviour.
LEMMA StepInvariant == Spec => []StepInv
<1>1. Init => StepInv
  <2> SUFFICES ASSUME Init PROVE StepInv
    OBVIOUS
  <2>1. calm \in BOOLEAN /\ ~calm
    BY Zenon DEF Init
  <2>2. ReadSoFar
    BY FirstPart, PartFacts DEF Init, ReadSoFar
  <2>3. offset \in 0..Len(files.signature)
    BY DEF Init, NoFiles
  <2>4. RestTyped
    BY <2>1, <2>3, BoundsAssumption DEF Init, RestTyped
  <2> QED  BY <2>1, <2>2, <2>4 DEF StepInv
<1>2. EnrolInv /\ StepInv /\ [Next]_vars => StepInv'
  BY ReadsKeep, TypesKeep, TurnsKeep DEF StepInv
<1> QED  BY <1>1, <1>2, InitEnrol, NextEnrol, PTL DEF Spec

\* The device and the host keep their types, and neither runs past the end of
\* the signature, whatever is lost, late or reset.
THEOREM EnrolmentTypeCorrect == Spec => []TypeOK
<1>1. EnrolInv /\ StepInv => TypeOK
  <2>1. DOMAIN Parts = 1..Len(Parts)
    BY PartsAssumption
  <2> QED
    BY <2>1 DEF EnrolInv, StepInv, SequencesTyped, FilesTyped, ReadSoFar, RestTyped, TypeOK
<1> QED  BY <1>1, StepInvariant, InitEnrol, NextEnrol, PTL DEF Spec

\* run_enrollment never writes ahead of signature_reader: while no read has
\* timed out, what is on its way fits the part the device is reading.
THEOREM VerifierPacesTheHost == Spec => []FlowControl
<1>1. StepInv => FlowControl
  BY DEF StepInv, QuietLine, FlowControl
<1> QED  BY <1>1, StepInvariant, PTL
=============================================================================
