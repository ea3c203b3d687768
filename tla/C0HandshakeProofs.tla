------------------------- MODULE C0HandshakeProofs -------------------------
(***************************************************************************)
(* Proofs about the C0-PQLink handshake: connect and close of              *)
(* src/session/fragment.c against the peer of reference-peer/protocol.mjs, *)
(* for every number of connects, fragments, retries, peer restarts,        *)
(* epochs and keys, every map from nonces to session identifiers (they may *)
(* collide), and a network that loses, repeats and reorders frames.        *)
(***************************************************************************)
EXTENDS C0Handshake, TLAPS

-----------------------------------------------------------------------------
(* The inductive invariant. *)

\* The challenge the client has accepted in this connect.
OwnChallenge ==
    /\ challenge.epoch = ClientEpoch /\ challenge.key = ClientKey
    /\ challenge.nonce = nonce /\ challenge.snonce \in ServerNonces

\* What the client knows at each point of connect.
ClientPoint ==
    /\ closed # "no" => step # "none"
    /\ step # "none" =>
         /\ nonce = connects /\ nonce \in Nonces
         /\ sid = IF closed = "late" THEN NoSid ELSE SidOf(nonce)
         /\ state \in {"CONNECTING", "READY"} /\ keys = NoKeys
    /\ step = "fragment" => index < FragmentCount
    /\ step \in {"fragment", "finished"} => OwnChallenge
    /\ keys # NoKeys <=> state = "ESTABLISHED"
    /\ keys # NoKeys =>
         /\ nonce \in Nonces /\ OwnChallenge
         /\ keys = ClientTranscript /\ keys \in accepted

\* What the frame buffer holds, when an unexpected frame has not taken it.
BufferHolds ==
    step # "none" /\ buffer # Junk =>
        /\ step = "hello" => buffer.type = "HELLO" /\ buffer.sid # NoSid
        /\ step = "fragment" =>
             buffer.type = "FRAGMENT" /\ buffer.chunk = buffer.auth[3]
        /\ step = "finished" =>
             buffer.type = "DEVICE_FINISHED" /\ buffer.transcript = ClientTranscript

\* The client proves one transcript for each nonce.
FinishedFrames ==
    /\ \A f \in ToPeer("DEVICE_FINISHED") :
         /\ f.transcript.auth[3] <= connects
         /\ step # "none" /\ f.transcript.auth[3] = nonce =>
              step = "finished" /\ f.transcript = ClientTranscript
    /\ \A f, g \in ToPeer("DEVICE_FINISHED") :
         f.transcript.auth[3] = g.transcript.auth[3] => f.transcript = g.transcript

\* The other frames: hellos and answers name a session, fragments carry the
\* ciphertext of the nonce they are authenticated for, and a Server Finished
\* answers an accepted transcript.
OtherFrames ==
    /\ \A f \in ToPeer("HELLO") : f.sid # NoSid
    /\ \A f \in ToPeer("FRAGMENT") : f.chunk = f.auth[3]
    /\ \A f \in net : FromPeer(f) => f.sid # NoSid
    /\ \A f \in ToPeer("SERVER_FINISHED") : f.transcript \in accepted

\* The peer's sessions: one server nonce each, one client's ciphertext each.
SessionTable ==
    /\ sessions[NoSid] = NoSession
    /\ \A id \in Sids : sessions[id] # NoSession =>
         /\ sessions[id].snonce <= serverNonces
         /\ \A i \in Indices : sessions[id].received[i] \in {NoChunk, sessions[id].nonce}
         /\ sessions[id].established =>
              /\ \A i \in Indices : sessions[id].received[i] # NoChunk
              /\ Transcript(sessions[id], sessions[id].received) \in accepted
    /\ \A a, b \in Sids :
         /\ sessions[a] # NoSession /\ sessions[b] # NoSession
         /\ sessions[a].snonce = sessions[b].snonce
         => a = b

\* An accepted transcript was proved by the client, and its server nonce is
\* spent.
AcceptedOnce ==
    \A t \in accepted :
        /\ t.auth[4] <= serverNonces
        /\ \E f \in ToPeer("DEVICE_FINISHED") : f.transcript = t
        /\ \A id \in Sids :
             sessions[id] # NoSession /\ sessions[id].snonce = t.auth[4]
                => sessions[id].established

HandshakeInv == /\ TypeOK /\ ClientPoint /\ BufferHolds /\ FinishedFrames
                /\ OtherFrames /\ SessionTable /\ AcceptedOnce

-----------------------------------------------------------------------------
(* Facts about frames, keys and transcripts. *)

\* The fields of a frame, by its type.
LEMMA FrameFields ==
    ASSUME NEW f \in Frames
    PROVE  /\ f.sid \in Sids
           /\ f.type \in {"HELLO", "CHALLENGE", "FRAGMENT", "ACK",
                          "DEVICE_FINISHED", "SERVER_FINISHED"}
           /\ f.type = "HELLO" => f.epoch \in Epochs /\ f.nonce \in Nonces
           /\ f.type = "CHALLENGE" =>
                /\ f.epoch \in Epochs /\ f.key \in Keys
                /\ f.nonce \in Nonces /\ f.snonce \in ServerNonces
           /\ f.type = "FRAGMENT" =>
                f.auth \in AuthKeys /\ f.index \in Indices /\ f.chunk \in Nonces
           /\ f.type = "ACK" => f.auth \in AuthKeys /\ f.index \in Indices
           /\ f.type \in {"DEVICE_FINISHED", "SERVER_FINISHED"} =>
                f.transcript \in Transcripts
BY DEF Frames

\* The nonces in a key, and that both are numbers.
LEMMA AuthFields ==
    ASSUME NEW t \in Transcripts
    PROVE  t.auth \in AuthKeys /\ t.auth[3] \in Nat /\ t.auth[4] \in Nat
BY DEF Transcripts, AuthKeys, Nonces, ServerNonces

\* What goes into a session's key.
LEMMA AuthKeyFacts ==
    ASSUME NEW c, c.epoch \in Epochs, c.key \in Keys, c.nonce \in Nonces,
           c.snonce \in ServerNonces
    PROVE  /\ AuthKey(c) \in AuthKeys
           /\ AuthKey(c)[1] = c.epoch /\ AuthKey(c)[2] = c.key
           /\ AuthKey(c)[3] = c.nonce /\ AuthKey(c)[4] = c.snonce
BY DEF AuthKey, AuthKeys

\* A transcript of the peer's.
LEMMA TranscriptFacts ==
    ASSUME NEW c, c.epoch \in Epochs, c.key \in Keys, c.nonce \in Nonces,
           c.snonce \in ServerNonces, NEW x \in [Indices -> Nonces]
    PROVE  /\ Transcript(c, x) \in Transcripts
           /\ Transcript(c, x).auth = AuthKey(c) /\ Transcript(c, x).ciphertext = x
           /\ Transcript(c, x).auth[3] = c.nonce /\ Transcript(c, x).auth[4] = c.snonce
<1>1. AuthKey(c) \in AuthKeys /\ AuthKey(c)[3] = c.nonce /\ AuthKey(c)[4] = c.snonce
  BY AuthKeyFacts
<1> QED
  BY <1>1 DEF Transcript, Transcripts

\* The client's transcript.
LEMMA ClientTranscriptFacts ==
    ASSUME OwnChallenge, nonce \in Nonces
    PROVE  /\ ClientTranscript \in Transcripts /\ ClientTranscript.auth[3] = nonce
           /\ ClientTranscript.auth = <<ClientEpoch, ClientKey, nonce, challenge.snonce>>
           /\ ClientTranscript.ciphertext = [i \in Indices |-> nonce]
           /\ AuthKey(challenge) \in AuthKeys /\ AuthKey(challenge)[3] = nonce
<1>1. [i \in Indices |-> nonce] \in [Indices -> Nonces]
  OBVIOUS
<1>2. /\ challenge.epoch \in Epochs /\ challenge.key \in Keys
      /\ challenge.nonce \in Nonces /\ challenge.snonce \in ServerNonces
  BY HandshakeAssumption DEF OwnChallenge
<1>3. AuthKey(challenge) = <<ClientEpoch, ClientKey, nonce, challenge.snonce>>
  BY DEF AuthKey, OwnChallenge
<1> QED
  BY <1>1, <1>2, <1>3, TranscriptFacts, AuthKeyFacts DEF ClientTranscript, OwnChallenge

\* The transcript changes with challenge and nonce only.
LEMMA ClientTranscriptSame ==
    ASSUME UNCHANGED <<challenge, nonce>> PROVE ClientTranscript' = ClientTranscript
BY DEF ClientTranscript, Transcript, AuthKey

-----------------------------------------------------------------------------
(* The type invariant in two parts, the client's and the peer's. *)

ClientTypes ==
    /\ state \in {"READY", "CONNECTING", "ESTABLISHED", "FAILED"}
    /\ step \in {"none", "hello", "fragment", "finished"}
    /\ phase \in {"send", "receive"}
    /\ attempt \in 0..maximum_retries
    /\ nonce \in Nonces \cup {0}
    /\ sid \in Sids /\ closed \in Closings
    /\ challenge \in [epoch : Epochs, key : Keys, nonce : Nonces \cup {0},
                      snonce : ServerNonces \cup {0}]
    /\ index \in 0..FragmentCount
    /\ buffer \in Frames \cup {Junk}
    /\ keys \in Transcripts \cup {NoKeys}
    /\ connects \in 0..MaxConnects

PeerTypes ==
    /\ net \subseteq Frames \cup {Junk}
    /\ sessions \in [Sids -> Sessions \cup {NoSession}]
    /\ peerEpoch \in Epochs /\ peerKey \in Keys
    /\ serverNonces \in 0..MaxServerNonces
    /\ restarts \in 0..MaxRestarts
    /\ accepted \subseteq Transcripts

\* The two parts are the whole type invariant.
LEMMA TypeParts == TypeOK <=> ClientTypes /\ PeerTypes
BY DEF TypeOK, ClientTypes, PeerTypes

\* The parts of the invariant.
LEMMA InvParts ==
    HandshakeInv <=>
      /\ ClientTypes /\ PeerTypes /\ ClientPoint /\ BufferHolds
      /\ FinishedFrames /\ OtherFrames /\ SessionTable /\ AcceptedOnce
BY TypeParts DEF HandshakeInv

\* The empty challenge is a challenge.
LEMMA NoChallengeType ==
    NoChallenge \in [epoch : Epochs, key : Keys, nonce : Nonces \cup {0},
                     snonce : ServerNonces \cup {0}]
BY HandshakeAssumption DEF NoChallenge

\* The counters start in their ranges.
LEMMA Zeroes == 0 \in 0..maximum_retries /\ 0 \in 0..FragmentCount
                /\ 0 < FragmentCount /\ 0 \in Indices
BY HandshakeAssumption DEF Indices

\* Every frame sent, by its type.
LEMMA NetFrames ==
    ASSUME PeerTypes, NEW type, NEW f \in ToPeer(type)
    PROVE  f \in Frames /\ f \in net /\ f # Junk /\ f.type = type
BY DEF PeerTypes, ToPeer

\* The nonces of the transcripts proved so far.
LEMMA ProvedNonces ==
    ASSUME PeerTypes, FinishedFrames, NEW f \in ToPeer("DEVICE_FINISHED")
    PROVE  /\ f.transcript \in Transcripts /\ f.transcript.auth[3] \in Nat
           /\ f.transcript.auth[3] <= connects
<1>1. f \in Frames /\ f.type = "DEVICE_FINISHED"
  BY NetFrames
<1>2. f.transcript \in Transcripts
  BY <1>1, FrameFields
<1> QED
  BY <1>2, AuthFields DEF FinishedFrames

-----------------------------------------------------------------------------
(* The client's steps. *)

\* A step of the client that sends nothing leaves the peer's side alone.
LEMMA PeerSideSame ==
    ASSUME PeerTypes, OtherFrames, SessionTable, AcceptedOnce,
           UNCHANGED <<net, peerVars>>
    PROVE  /\ PeerTypes' /\ OtherFrames' /\ SessionTable' /\ AcceptedOnce'
           /\ ToPeer("DEVICE_FINISHED")' = ToPeer("DEVICE_FINISHED")
<1>1. UNCHANGED <<net, sessions, peerEpoch, peerKey, serverNonces, restarts, accepted>>
  BY DEF peerVars
<1>2. PeerTypes'
  BY <1>1 DEF PeerTypes
<1> QED
  BY <1>1, <1>2 DEF OtherFrames, SessionTable, AcceptedOnce, ToPeer

\* What is left to show of such a step.
LEMMA ClientStep ==
    ASSUME HandshakeInv, UNCHANGED <<net, peerVars>>,
           ClientTypes', ClientPoint', BufferHolds', FinishedFrames'
    PROVE  HandshakeInv'
<1>1. PeerTypes /\ OtherFrames /\ SessionTable /\ AcceptedOnce
  BY InvParts
<1>2. PeerTypes' /\ OtherFrames' /\ SessionTable' /\ AcceptedOnce'
  BY <1>1, PeerSideSame
<1>3. TypeOK'
  BY <1>2 DEF TypeOK, ClientTypes, PeerTypes
<1> QED
  BY <1>2, <1>3 DEF HandshakeInv

\* The fail label keeps the invariant.
LEMMA FailKeeps ==
    ASSUME HandshakeInv, Fail, UNCHANGED <<net, peerVars>>,
           connects' \in 0..MaxConnects, connects' >= connects
    PROVE  HandshakeInv'
<1>1. /\ ClientTypes /\ PeerTypes /\ FinishedFrames
      /\ OtherFrames /\ SessionTable /\ AcceptedOnce
  BY InvParts
<1>2. /\ state' = "FAILED" /\ step' = "none" /\ keys' = NoKeys
      /\ phase' = "send" /\ attempt' = 0 /\ nonce' = 0 /\ closed' = "no"
      /\ challenge' = NoChallenge /\ index' = 0 /\ buffer' = Junk /\ sid' = sid
  BY DEF Fail
<1>3. ClientTypes'
  <2>1. closed' \in Closings
    BY <1>2 DEF Closings
  <2>2. sid' \in Sids
    BY <1>1, <1>2 DEF ClientTypes
  <2>3. nonce' \in Nonces \cup {0} /\ buffer' \in Frames \cup {Junk}
        /\ keys' \in Transcripts \cup {NoKeys}
    BY <1>2
  <2>4. attempt' \in 0..maximum_retries /\ index' \in 0..FragmentCount
    BY <1>2, Zeroes
  <2>5. challenge' \in [epoch : Epochs, key : Keys, nonce : Nonces \cup {0},
                        snonce : ServerNonces \cup {0}]
    BY <1>2, NoChallengeType
  <2> QED
    BY <1>2, <2>1, <2>2, <2>3, <2>4, <2>5 DEF ClientTypes
<1>4. ClientPoint' /\ BufferHolds'
  BY <1>2 DEF ClientPoint, BufferHolds
<1>5. FinishedFrames'
  <2>1. connects \in Nat /\ connects' \in Nat
    BY <1>1, HandshakeAssumption DEF ClientTypes
  <2>2. \A f \in ToPeer("DEVICE_FINISHED") : f.transcript.auth[3] \in Nat
    BY <1>1, ProvedNonces
  <2>3. ToPeer("DEVICE_FINISHED")' = ToPeer("DEVICE_FINISHED")
    BY <1>1, PeerSideSame
  <2> QED
    BY <1>1, <1>2, <2>1, <2>2, <2>3 DEF FinishedFrames
<1> QED
  BY <1>3, <1>4, <1>5, ClientStep

\* Another attempt keeps the invariant, also with the buffer overwritten.
LEMMA RetryKeeps ==
    ASSUME HandshakeInv, step # "none", NEW c \in {buffer, Junk}, NextAttempt(c),
           UNCHANGED <<connects, net, peerVars>>
    PROVE  HandshakeInv'
<1>1. /\ ClientTypes /\ PeerTypes /\ ClientPoint /\ BufferHolds /\ FinishedFrames
      /\ OtherFrames /\ SessionTable /\ AcceptedOnce
  BY InvParts
<1>2. connects \in 0..MaxConnects /\ connects \in Nat
  BY <1>1, HandshakeAssumption DEF ClientTypes
<1>3. CASE Fail
  BY <1>2, <1>3, FailKeeps
<1>4. CASE ~Fail
  <2>1. /\ attempt < maximum_retries /\ attempt' = attempt + 1 /\ phase' = "send"
        /\ buffer' = c
        /\ UNCHANGED <<state, step, nonce, sid, closed, challenge, index, keys>>
    BY <1>4 DEF NextAttempt
  <2>2. attempt' \in 0..maximum_retries
    BY <1>1, <2>1, HandshakeAssumption DEF ClientTypes
  <2>3. ClientTypes'
    BY <1>1, <2>1, <2>2 DEF ClientTypes
  <2>4. ClientTranscript' = ClientTranscript /\ accepted' = accepted
    BY <2>1, ClientTranscriptSame DEF peerVars
  <2>5. ClientPoint'
    BY <1>1, <2>1, <2>4 DEF ClientPoint, OwnChallenge
  <2>6. BufferHolds'
    BY <1>1, <2>1, <2>4 DEF BufferHolds
  <2>7. ToPeer("DEVICE_FINISHED")' = ToPeer("DEVICE_FINISHED")
    BY <1>1, PeerSideSame
  <2>8. FinishedFrames'
    BY <1>1, <2>1, <2>4, <2>7 DEF FinishedFrames
  <2> QED
    BY <2>3, <2>5, <2>6, <2>8, ClientStep
<1> QED
  BY <1>3, <1>4

\* The first transmission: every transcript proved so far is of an older nonce.
LEMMA ConnectKeeps == ASSUME HandshakeInv, connect PROVE HandshakeInv'
<1>1. /\ ClientTypes /\ PeerTypes /\ ClientPoint /\ FinishedFrames
      /\ OtherFrames /\ SessionTable /\ AcceptedOnce
  BY InvParts
<1>2. /\ state = "READY" /\ step = "none" /\ connects < MaxConnects
      /\ connects' = connects + 1 /\ UNCHANGED <<net, peerVars>>
  BY DEF connect
<1>3. /\ connects \in Nat /\ connects' \in Nonces /\ connects' \in 0..MaxConnects
      /\ connects' >= connects
  BY <1>1, <1>2, HandshakeAssumption DEF ClientTypes, Nonces
<1>4. CASE Fail
  BY <1>2, <1>3, <1>4, FailKeeps
<1>5. CASE ~Fail
  <2>1. /\ state' \in {"CONNECTING", "READY"} /\ closed' \in {"no", "early"}
        /\ nonce' = connects' /\ sid' = SidOf(connects')
        /\ step' = "hello" /\ buffer' = HelloFrame(connects')
        /\ phase' = "send" /\ attempt' = 0
        /\ UNCHANGED <<challenge, index, keys>>
    BY <1>2, <1>5 DEF connect, FreshNonce, Exchange
  <2>2. /\ buffer'.type = "HELLO" /\ buffer'.sid # NoSid /\ buffer' \in Frames
        /\ sid' \in Sids
    BY <1>3, <2>1, HandshakeAssumption DEF HelloFrame, Frames
  <2>3. keys = NoKeys /\ closed' \in Closings
    BY <1>1, <1>2, <2>1 DEF ClientPoint, Closings
  <2>4. ClientTypes'
    BY <1>1, <1>3, <2>1, <2>2, <2>3, Zeroes DEF ClientTypes
  <2>5. ClientPoint'
    BY <1>3, <2>1, <2>3 DEF ClientPoint
  <2>6. BufferHolds'
    BY <2>1, <2>2 DEF BufferHolds
  <2>7. FinishedFrames'
    <3>1. \A f \in ToPeer("DEVICE_FINISHED") :
            f.transcript.auth[3] \in Nat /\ f.transcript.auth[3] <= connects
      BY <1>1, ProvedNonces
    <3>2. ToPeer("DEVICE_FINISHED")' = ToPeer("DEVICE_FINISHED")
      BY <1>1, <1>2, PeerSideSame
    <3> QED
      BY <1>1, <1>2, <1>3, <2>1, <3>1, <3>2 DEF FinishedFrames
  <2> QED
    BY <1>2, <2>4, <2>5, <2>6, <2>7, ClientStep
<1> QED
  BY <1>4, <1>5

\* A frame is sent.  A Device Finished goes out only in the last exchange,
\* and it is the client's one transcript for this nonce.
LEMMA SendKeeps == ASSUME HandshakeInv, send_frame PROVE HandshakeInv'
<1>1. /\ ClientTypes /\ PeerTypes /\ ClientPoint /\ BufferHolds /\ FinishedFrames
      /\ OtherFrames /\ SessionTable /\ AcceptedOnce
  BY InvParts
<1>2. step # "none" /\ UNCHANGED <<connects, peerVars>>
  BY DEF send_frame
<1>3. CASE NextAttempt(buffer) /\ UNCHANGED net
  BY <1>2, <1>3, RetryKeeps
<1>4. CASE ~(NextAttempt(buffer) /\ UNCHANGED net)
  <2>1. /\ net' = net \cup {buffer} /\ phase' = "receive"
        /\ UNCHANGED <<state, step, attempt, nonce, sid, closed, challenge,
                       index, buffer, keys, connects>>
    BY <1>2, <1>4 DEF send_frame
  <2>2. UNCHANGED <<sessions, peerEpoch, peerKey, serverNonces, restarts, accepted>>
    BY <1>2 DEF peerVars
  <2>3. ClientTypes' /\ PeerTypes'
    BY <1>1, <2>1, <2>2 DEF ClientTypes, PeerTypes
  <2>4. ClientTranscript' = ClientTranscript
    BY <2>1, ClientTranscriptSame
  <2>5. ClientPoint'
    BY <1>1, <2>1, <2>2, <2>4 DEF ClientPoint, OwnChallenge
  <2>6. BufferHolds'
    BY <1>1, <2>1, <2>4 DEF BufferHolds
  <2>7. /\ buffer # Junk /\ step = "hello" => buffer.type = "HELLO" /\ buffer.sid # NoSid
        /\ buffer # Junk /\ step = "fragment" =>
             buffer.type = "FRAGMENT" /\ buffer.chunk = buffer.auth[3]
        /\ buffer # Junk /\ step = "finished" =>
             buffer.type = "DEVICE_FINISHED" /\ buffer.transcript = ClientTranscript
        /\ step \in {"hello", "fragment", "finished"}
    BY <1>1, <1>2 DEF BufferHolds, ClientTypes
  <2>8. FinishedFrames'
    <3>1. ASSUME NEW f \in ToPeer("DEVICE_FINISHED")', f \notin ToPeer("DEVICE_FINISHED")
          PROVE  step = "finished" /\ f.transcript = ClientTranscript
      <4>1. f = buffer /\ f # Junk /\ f.type = "DEVICE_FINISHED"
        BY <2>1, <3>1 DEF ToPeer
      <4> QED
        BY <2>7, <4>1
    <3>2. step = "finished" => ClientTranscript.auth[3] = nonce
      BY <1>1, <1>2, ClientTranscriptFacts DEF ClientPoint
    <3>3. nonce = connects /\ connects \in Nat
      BY <1>1, <1>2, HandshakeAssumption DEF ClientPoint, ClientTypes
    <3>4. ASSUME NEW f \in ToPeer("DEVICE_FINISHED")'
          PROVE  /\ f.transcript.auth[3] <= connects
                 /\ f.transcript.auth[3] = nonce =>
                      step = "finished" /\ f.transcript = ClientTranscript
      <4>1. CASE f \in ToPeer("DEVICE_FINISHED")
        BY <1>1, <1>2, <4>1 DEF FinishedFrames
      <4>2. CASE f \notin ToPeer("DEVICE_FINISHED")
        BY <3>1, <3>2, <3>3, <4>2
      <4> QED
        BY <4>1, <4>2
    <3>5. ASSUME NEW f \in ToPeer("DEVICE_FINISHED")', NEW g \in ToPeer("DEVICE_FINISHED")',
                 f.transcript.auth[3] = g.transcript.auth[3]
          PROVE  f.transcript = g.transcript
      <4>1. CASE f \in ToPeer("DEVICE_FINISHED") /\ g \in ToPeer("DEVICE_FINISHED")
        BY <1>1, <3>5, <4>1 DEF FinishedFrames
      <4>2. CASE f \notin ToPeer("DEVICE_FINISHED")
        BY <3>1, <3>2, <3>4, <3>5, <4>2
      <4>3. CASE g \notin ToPeer("DEVICE_FINISHED")
        BY <3>1, <3>2, <3>4, <3>5, <4>3
      <4> QED
        BY <4>1, <4>2, <4>3
    <3> QED
      BY <2>1, <2>4, <3>4, <3>5 DEF FinishedFrames
  <2>9. OtherFrames'
    BY <1>1, <2>1, <2>2, <2>7 DEF OtherFrames, ToPeer, FromPeer
  <2>10. SessionTable'
    BY <1>1, <2>2 DEF SessionTable
  <2>11. AcceptedOnce'
    BY <1>1, <2>1, <2>2 DEF AcceptedOnce, ToPeer
  <2>12. TypeOK'
    BY <2>3 DEF TypeOK, ClientTypes, PeerTypes
  <2> QED
    BY <2>5, <2>6, <2>8, <2>9, <2>10, <2>11, <2>12 DEF HandshakeInv
<1> QED
  BY <1>3, <1>4

\* A timeout and an unexpected frame only retry.
LEMMA TimeoutKeeps ==
    ASSUME HandshakeInv, receive_timeout \/ receive_unexpected PROVE HandshakeInv'
<1>1. \/ NextAttempt(buffer)
      \/ NextAttempt(Junk)
  BY DEF receive_timeout, receive_unexpected
<1>2. step # "none" /\ UNCHANGED <<connects, net, peerVars>>
  BY DEF receive_timeout, receive_unexpected, Receiving
<1> QED
  BY <1>1, <1>2, RetryKeeps

\* Before the last exchange nothing has been proved for this nonce, and
\* starting another exchange proves nothing.
LEMMA NothingProvedYet ==
    ASSUME HandshakeInv, step \in {"hello", "fragment"},
           UNCHANGED <<nonce, connects, net, peerVars>>
    PROVE  FinishedFrames'
<1>1. /\ ClientTypes /\ PeerTypes /\ ClientPoint /\ FinishedFrames
      /\ OtherFrames /\ SessionTable /\ AcceptedOnce
  BY InvParts
<1>2. ToPeer("DEVICE_FINISHED")' = ToPeer("DEVICE_FINISHED")
  BY <1>1, PeerSideSame
<1>3. \A f \in ToPeer("DEVICE_FINISHED") : f.transcript.auth[3] # nonce
  BY <1>1 DEF FinishedFrames
<1> QED
  BY <1>1, <1>2, <1>3 DEF FinishedFrames

\* The accepted Challenge names the client's epoch, key and nonce.
LEMMA ChallengeKeeps == ASSUME HandshakeInv, receive_challenge PROVE HandshakeInv'
<1>1. ClientTypes /\ PeerTypes /\ ClientPoint
  BY InvParts
<1>2. step = "hello" /\ UNCHANGED <<connects, net, peerVars>>
  BY DEF receive_challenge
<1>3. connects \in 0..MaxConnects /\ connects \in Nat
  BY <1>1, HandshakeAssumption DEF ClientTypes
<1>4. CASE Fail
  BY <1>2, <1>3, <1>4, FailKeeps
<1>5. CASE ~Fail
  <2>1. PICK f \in net :
          /\ Expected(f) /\ ChallengeMatches(f)
          /\ challenge' = [epoch |-> f.epoch, key |-> f.key,
                           nonce |-> f.nonce, snonce |-> f.snonce]
          /\ index' = 0
          /\ Exchange("fragment",
                      [type |-> "FRAGMENT", sid |-> sid,
                       auth |-> AuthKey(challenge'), index |-> 0,
                       chunk |-> nonce])
          /\ UNCHANGED <<state, nonce, sid, closed, keys>>
    BY <1>5 DEF receive_challenge
  <2>2. /\ step' = "fragment" /\ phase' = "send" /\ attempt' = 0 /\ index' = 0
        /\ buffer' = [type |-> "FRAGMENT", sid |-> sid, auth |-> AuthKey(challenge'),
                      index |-> 0, chunk |-> nonce]
        /\ UNCHANGED <<state, nonce, sid, closed, keys>>
    BY <2>1 DEF Exchange
  <2>3. f \in Frames /\ f.type = "CHALLENGE"
    BY <1>1, <1>2, <2>1 DEF PeerTypes, Expected, FromPeer, ExpectedType
  <2>4. f.snonce \in ServerNonces /\ f.epoch \in Epochs /\ f.key \in Keys /\ f.nonce \in Nonces
    BY <2>3, FrameFields
  <2>5. OwnChallenge'
    BY <2>1, <2>4 DEF OwnChallenge, ChallengeMatches
  <2>6. nonce \in Nonces /\ keys = NoKeys
    BY <1>1, <1>2 DEF ClientPoint
  <2>7. AuthKey(challenge') \in AuthKeys /\ AuthKey(challenge')[3] = nonce
    BY <2>1, <2>4 DEF AuthKey, AuthKeys, ChallengeMatches
  <2>8. /\ buffer' \in Frames /\ buffer'.type = "FRAGMENT"
        /\ buffer'.chunk = nonce /\ buffer'.auth = AuthKey(challenge')
    BY <1>1, <2>2, <2>6, <2>7, Zeroes DEF Frames, ClientTypes
  <2>9. challenge' \in [epoch : Epochs, key : Keys, nonce : Nonces \cup {0},
                        snonce : ServerNonces \cup {0}]
    BY <2>1, <2>4
  <2>10. ClientTypes'
    BY <1>1, <1>2, <2>2, <2>8, <2>9, Zeroes DEF ClientTypes
  <2>11. ClientPoint'
    BY <1>1, <1>2, <2>2, <2>5, <2>6, Zeroes DEF ClientPoint
  <2>12. BufferHolds'
    BY <2>2, <2>7, <2>8 DEF BufferHolds
  <2>13. FinishedFrames'
    BY <1>2, <2>2, NothingProvedYet
  <2> QED
    BY <1>2, <2>10, <2>11, <2>12, <2>13, ClientStep
<1> QED
  BY <1>4, <1>5

\* The accepted Ack moves on to the next fragment, or to Device Finished.
LEMMA AckKeeps == ASSUME HandshakeInv, receive_ack PROVE HandshakeInv'
<1>1. ClientTypes /\ PeerTypes /\ ClientPoint
  BY InvParts
<1>2. step = "fragment" /\ UNCHANGED <<connects, net, peerVars>>
  BY DEF receive_ack
<1>3. connects \in 0..MaxConnects /\ connects \in Nat
  BY <1>1, HandshakeAssumption DEF ClientTypes
<1>4. CASE Fail
  BY <1>2, <1>3, <1>4, FailKeeps
<1>5. CASE ~Fail
  <2>1. /\ index' = index + 1
        /\ IF index + 1 < FragmentCount
           THEN Exchange("fragment", FragmentFrame(index + 1))
           ELSE Exchange("finished",
                         FinishedFrame("DEVICE_FINISHED", sid, ClientTranscript))
        /\ UNCHANGED <<state, nonce, sid, closed, challenge, keys>>
    BY <1>5 DEF receive_ack
  <2>2. /\ OwnChallenge /\ nonce \in Nonces /\ index \in 0..FragmentCount
        /\ index < FragmentCount /\ sid \in Sids
    BY <1>1, <1>2 DEF ClientPoint, ClientTypes
  <2>3. index' \in 0..FragmentCount /\ (index + 1 < FragmentCount => index + 1 \in Indices)
    BY <2>1, <2>2, HandshakeAssumption DEF Indices
  <2>4. /\ ClientTranscript \in Transcripts
        /\ AuthKey(challenge) \in AuthKeys /\ AuthKey(challenge)[3] = nonce
    BY <2>2, ClientTranscriptFacts
  <2>5. ClientTranscript' = ClientTranscript
    BY <2>1, ClientTranscriptSame
  <2>6. /\ phase' = "send" /\ attempt' = 0 /\ buffer' \in Frames
        /\ \/ /\ step' = "fragment" /\ index' < FragmentCount
              /\ buffer'.type = "FRAGMENT" /\ buffer'.chunk = buffer'.auth[3]
           \/ /\ step' = "finished" /\ buffer'.type = "DEVICE_FINISHED"
              /\ buffer'.transcript = ClientTranscript
    <3>1. CASE index + 1 < FragmentCount
      <4>1. /\ phase' = "send" /\ attempt' = 0 /\ step' = "fragment"
            /\ buffer' = [type |-> "FRAGMENT", sid |-> sid, auth |-> AuthKey(challenge),
                          index |-> index + 1, chunk |-> nonce]
        BY <2>1, <3>1 DEF Exchange, FragmentFrame
      <4>2. /\ buffer' \in Frames /\ buffer'.type = "FRAGMENT"
            /\ buffer'.chunk = nonce /\ buffer'.auth = AuthKey(challenge)
        BY <2>2, <2>3, <2>4, <3>1, <4>1 DEF Frames
      <4> QED
        BY <2>1, <2>4, <3>1, <4>1, <4>2
    <3>2. CASE ~(index + 1 < FragmentCount)
      <4>1. /\ phase' = "send" /\ attempt' = 0 /\ step' = "finished"
            /\ buffer' = [type |-> "DEVICE_FINISHED", sid |-> sid,
                          transcript |-> ClientTranscript]
        BY <2>1, <3>2 DEF Exchange, FinishedFrame
      <4> QED
        BY <2>2, <2>4, <4>1 DEF Frames
    <3> QED
      BY <3>1, <3>2
  <2>7. ClientTypes'
    BY <1>1, <2>1, <2>3, <2>6, <1>2, Zeroes DEF ClientTypes
  <2>8. ClientPoint'
    <3>1. OwnChallenge' /\ keys = NoKeys
      BY <1>1, <1>2, <2>1, <2>2 DEF OwnChallenge, ClientPoint
    <3> QED
      BY <1>1, <1>2, <2>1, <2>6, <3>1 DEF ClientPoint
  <2>9. BufferHolds'
    BY <2>5, <2>6 DEF BufferHolds
  <2>10. FinishedFrames'
    BY <1>2, <2>1, NothingProvedYet
  <2> QED
    BY <1>2, <2>7, <2>8, <2>9, <2>10, ClientStep
<1> QED
  BY <1>4, <1>5

\* The accepted Server Finished answers a transcript the peer has accepted.
LEMMA FinishedKeeps == ASSUME HandshakeInv, receive_finished PROVE HandshakeInv'
<1>1. /\ ClientTypes /\ PeerTypes /\ ClientPoint /\ FinishedFrames
      /\ OtherFrames /\ SessionTable /\ AcceptedOnce
  BY InvParts
<1>2. step = "finished" /\ UNCHANGED <<connects, net, peerVars>>
  BY DEF receive_finished
<1>3. connects \in 0..MaxConnects /\ connects \in Nat
  BY <1>1, HandshakeAssumption DEF ClientTypes
<1>4. CASE Fail
  BY <1>2, <1>3, <1>4, FailKeeps
<1>5. CASE ~Fail
  <2>1. PICK f \in net :
          /\ Expected(f) /\ f.transcript = ClientTranscript
          /\ keys' = ClientTranscript
          /\ state' = "ESTABLISHED" /\ step' = "none"
          /\ phase' = "send" /\ attempt' = 0 /\ buffer' = Junk
          /\ closed' = "no"
          /\ UNCHANGED <<nonce, sid, challenge, index>>
    BY <1>5 DEF receive_finished
  <2>2. f # Junk /\ f.type = "SERVER_FINISHED"
    BY <1>2, <2>1 DEF Expected, FromPeer, ExpectedType
  <2>3. ClientTranscript \in accepted
    BY <1>1, <2>1, <2>2 DEF OtherFrames, ToPeer
  <2>4. OwnChallenge /\ nonce \in Nonces
    BY <1>1, <1>2 DEF ClientPoint
  <2>5. ClientTranscript \in Transcripts /\ ClientTranscript # NoKeys
    BY <2>4, ClientTranscriptFacts, MarkersAssumption
  <2>6. ClientTranscript' = ClientTranscript /\ accepted' = accepted /\ OwnChallenge'
    BY <1>2, <2>1, <2>4, ClientTranscriptSame DEF peerVars, OwnChallenge
  <2>7. closed' \in Closings
    BY <2>1 DEF Closings
  <2>8. ClientTypes'
    BY <1>1, <1>2, <2>1, <2>5, <2>7, Zeroes DEF ClientTypes
  <2>9. ClientPoint' /\ BufferHolds'
    BY <2>1, <2>3, <2>4, <2>5, <2>6 DEF ClientPoint, BufferHolds
  <2>10. ToPeer("DEVICE_FINISHED")' = ToPeer("DEVICE_FINISHED")
    BY <1>1, <1>2, PeerSideSame
  <2>11. FinishedFrames'
    BY <1>1, <1>2, <2>1, <2>10 DEF FinishedFrames
  <2> QED
    BY <1>2, <2>8, <2>9, <2>11, ClientStep
<1> QED
  BY <1>4, <1>5

\* close between calls, and close from a callback: the session identifier is
\* cleared, what was proved stays.
LEMMA CloseKeeps ==
    ASSUME HandshakeInv, close \/ close_in_callback PROVE HandshakeInv'
<1>1. /\ ClientTypes /\ PeerTypes /\ ClientPoint /\ BufferHolds /\ FinishedFrames
      /\ OtherFrames /\ SessionTable /\ AcceptedOnce
  BY InvParts
<1>2. ToPeer("DEVICE_FINISHED")' = ToPeer("DEVICE_FINISHED")
  BY <1>1, PeerSideSame DEF close, close_in_callback
<1>3. CASE close
  <2>1. /\ step = "none" /\ state' = "READY" /\ keys' = NoKeys /\ sid' = NoSid
        /\ nonce' = 0 /\ challenge' = NoChallenge /\ index' = 0
        /\ UNCHANGED <<step, phase, attempt, closed, buffer, connects, net, peerVars>>
    BY <1>3 DEF close, ClearSession
  <2>2. challenge' \in [epoch : Epochs, key : Keys, nonce : Nonces \cup {0},
                        snonce : ServerNonces \cup {0}]
    BY <2>1, NoChallengeType
  <2>3. ClientTypes'
    BY <1>1, <2>1, <2>2, Zeroes, HandshakeAssumption DEF ClientTypes
  <2>4. ClientPoint' /\ BufferHolds'
    BY <1>1, <2>1 DEF ClientPoint, BufferHolds
  <2>5. FinishedFrames'
    BY <1>1, <1>2, <2>1 DEF FinishedFrames
  <2> QED
    BY <2>1, <2>3, <2>4, <2>5, ClientStep
<1>4. CASE close_in_callback
  <2>1. /\ step # "none" /\ state' = "READY" /\ keys' = NoKeys /\ sid' = NoSid
        /\ closed' = "late"
        /\ UNCHANGED <<step, phase, attempt, nonce, challenge, index, connects, net,
                       peerVars>>
    BY <1>4 DEF close_in_callback, ClearSession
  <2>2. \/ buffer' = buffer
        \/ step = "fragment" /\ buffer # Junk /\ buffer' = [buffer EXCEPT !.sid = NoSid]
    BY <1>4, <2>1 DEF close_in_callback
  <2>3. /\ buffer' \in Frames \cup {Junk}
        /\ \/ buffer' = buffer
           \/ /\ step = "fragment" /\ buffer' # Junk /\ buffer # Junk
              /\ buffer'.type = buffer.type
              /\ buffer'.chunk = buffer.chunk /\ buffer'.auth = buffer.auth
    <3>1. CASE buffer' = buffer
      BY <1>1, <3>1 DEF ClientTypes
    <3>2. CASE /\ step = "fragment" /\ buffer # Junk
               /\ buffer' = [buffer EXCEPT !.sid = NoSid]
      <4>1. /\ buffer \in [type : {"FRAGMENT"}, sid : Sids, auth : AuthKeys,
                           index : Indices, chunk : Nonces]
        <5>1. buffer \in Frames /\ buffer.type = "FRAGMENT"
          BY <1>1, <2>1, <3>2 DEF ClientTypes, BufferHolds
        <5> QED
          BY <5>1 DEF Frames
      <4>2. /\ buffer' \in [type : {"FRAGMENT"}, sid : Sids, auth : AuthKeys,
                            index : Indices, chunk : Nonces]
            /\ buffer'.type = buffer.type
            /\ buffer'.chunk = buffer.chunk /\ buffer'.auth = buffer.auth
        BY <3>2, <4>1, HandshakeAssumption
      <4>3. buffer' \in Frames /\ buffer' # Junk
        BY <4>2, MarkersAssumption DEF Frames
      <4> QED
        BY <3>2, <4>2, <4>3
    <3> QED
      BY <2>2, <3>1, <3>2
  <2>4. closed' \in Closings
    BY <2>1 DEF Closings
  <2>5. ClientTypes'
    BY <1>1, <2>1, <2>3, <2>4, HandshakeAssumption DEF ClientTypes
  <2>6. ClientTranscript' = ClientTranscript
    BY <2>1, ClientTranscriptSame
  <2>7. ClientPoint'
    BY <1>1, <2>1 DEF ClientPoint, OwnChallenge
  <2>8. BufferHolds'
    BY <1>1, <2>1, <2>3, <2>6 DEF BufferHolds
  <2>9. FinishedFrames'
    BY <1>1, <1>2, <2>1, <2>6 DEF FinishedFrames
  <2> QED
    BY <2>1, <2>5, <2>7, <2>8, <2>9, ClientStep
<1> QED
  BY <1>3, <1>4

-----------------------------------------------------------------------------
(* The peer's steps. *)

\* A session of the peer's has a key of its own.
LEMMA SessionFacts ==
    ASSUME PeerTypes, NEW id \in Sids, sessions[id] # NoSession
    PROVE  /\ sessions[id] \in Sessions
           /\ AuthKey(sessions[id]) \in AuthKeys
           /\ AuthKey(sessions[id])[3] = sessions[id].nonce
           /\ AuthKey(sessions[id])[4] = sessions[id].snonce
           /\ sessions[id].snonce \in Nat
<1>1. sessions[id] \in Sessions
  BY DEF PeerTypes
<1>2. /\ sessions[id].epoch \in Epochs /\ sessions[id].key \in Keys
      /\ sessions[id].nonce \in Nonces /\ sessions[id].snonce \in ServerNonces
  BY <1>1 DEF Sessions
<1>3. sessions[id].snonce \in Nat
  BY <1>2 DEF ServerNonces
<1> QED
  BY <1>1, <1>2, <1>3, AuthKeyFacts

\* An answer of the peer's tells the client nothing until it is received.
LEMMA PeerStep ==
    ASSUME HandshakeInv, UNCHANGED clientVars, NEW g \in Frames,
           g.type \in {"CHALLENGE", "ACK", "SERVER_FINISHED"}, g.sid # NoSid,
           net' = net \cup {g}, accepted \subseteq accepted',
           g.type = "SERVER_FINISHED" => g.transcript \in accepted',
           PeerTypes', SessionTable', AcceptedOnce'
    PROVE  HandshakeInv'
<1>1. ClientTypes /\ ClientPoint /\ BufferHolds /\ FinishedFrames /\ OtherFrames
  BY InvParts
<1>2. UNCHANGED <<state, step, phase, attempt, nonce, sid, closed, challenge, index,
                  buffer, keys, connects>>
  BY DEF clientVars
<1>3. ToPeer("DEVICE_FINISHED")' = ToPeer("DEVICE_FINISHED")
  BY DEF ToPeer
<1>4. ClientTranscript' = ClientTranscript
  BY <1>2, ClientTranscriptSame
<1>5. ClientTypes'
  BY <1>1, <1>2 DEF ClientTypes
<1>6. ClientPoint'
  BY <1>1, <1>2, <1>4 DEF ClientPoint, OwnChallenge
<1>7. BufferHolds'
  BY <1>1, <1>2, <1>4 DEF BufferHolds
<1>8. FinishedFrames'
  BY <1>1, <1>2, <1>3, <1>4 DEF FinishedFrames
<1>9. OtherFrames'
  BY <1>1 DEF OtherFrames, ToPeer, FromPeer
<1>10. TypeOK'
  BY <1>5 DEF TypeOK, ClientTypes, PeerTypes
<1> QED
  BY <1>6, <1>7, <1>8, <1>9, <1>10 DEF HandshakeInv

\* The proofs the client has sent are still there.
LEMMA ProofsSame ==
    ASSUME NEW g, g.type \in {"CHALLENGE", "ACK", "SERVER_FINISHED"}, net' = net \cup {g}
    PROVE  ToPeer("DEVICE_FINISHED")' = ToPeer("DEVICE_FINISHED")
BY DEF ToPeer

\* A hello opens a session under a server nonce never used, or repeats one.
LEMMA HelloKeeps == ASSUME HandshakeInv, handleHello PROVE HandshakeInv'
<1>1. PeerTypes /\ OtherFrames /\ SessionTable /\ AcceptedOnce
  BY InvParts
<1>2. UNCHANGED <<clientVars, peerEpoch, peerKey, restarts, accepted>>
  BY DEF handleHello
<1>3. PICK f \in ToPeer("HELLO") : OpenSession(f) \/ RepeatHello(f)
  BY DEF handleHello
<1>4. f \in Frames /\ f.type = "HELLO" /\ f.sid # NoSid
  BY <1>1, NetFrames DEF OtherFrames
<1>5. f.sid \in Sids /\ f.nonce \in Nonces
  BY <1>4, FrameFields
<1>6. CASE OpenSession(f)
  <2> DEFINE s == [nonce |-> f.nonce, epoch |-> peerEpoch, key |-> peerKey,
                   snonce |-> serverNonces + 1,
                   received |-> [i \in Indices |-> NoChunk],
                   established |-> FALSE]
             g == ChallengeFrame(f.sid, s)
  <2>1. /\ sessions[f.sid] = NoSession /\ serverNonces < MaxServerNonces
        /\ serverNonces' = serverNonces + 1
        /\ sessions' = [sessions EXCEPT ![f.sid] = s] /\ net' = net \cup {g}
    BY <1>6 DEF OpenSession, MayOpen, Reply
  <2>2. /\ serverNonces \in Nat /\ serverNonces' \in 0..MaxServerNonces
        /\ serverNonces + 1 \in ServerNonces
    BY <1>1, <2>1, HandshakeAssumption DEF PeerTypes, ServerNonces
  <2>3. s \in Sessions
    BY <1>1, <1>5, <2>2 DEF PeerTypes, Sessions
  <2>4. s # NoSession
    BY <2>3, MarkersAssumption
  <2>5. /\ s.snonce = serverNonces + 1 /\ ~s.established
        /\ \A i \in Indices : s.received[i] = NoChunk
    OBVIOUS
  <2>6. /\ g \in Frames /\ g.type = "CHALLENGE" /\ g.sid # NoSid
    BY <1>1, <1>4, <1>5, <2>2 DEF ChallengeFrame, Frames, PeerTypes
  <2> HIDE DEF s, g
  <2>7. /\ sessions'[f.sid] = s
        /\ \A id \in Sids : id # f.sid => sessions'[id] = sessions[id]
    BY <1>1, <1>5, <2>1 DEF PeerTypes
  <2>8. PeerTypes'
    <3>1. sessions' \in [Sids -> Sessions \cup {NoSession}]
      BY <1>1, <2>1, <2>3 DEF PeerTypes
    <3> QED
      BY <1>1, <1>2, <2>1, <2>2, <2>6, <3>1 DEF PeerTypes
  <2>9. \A id \in Sids : sessions[id] # NoSession =>
            sessions[id].snonce \in Nat /\ sessions[id].snonce <= serverNonces
    BY <1>1, SessionFacts DEF SessionTable
  <2>10. SessionTable'
    <3>1. sessions'[NoSid] = NoSession
      BY <1>1, <1>4, <2>7, HandshakeAssumption DEF SessionTable
    <3>2. ASSUME NEW id \in Sids, sessions'[id] # NoSession
          PROVE  /\ sessions'[id].snonce <= serverNonces'
                 /\ \A i \in Indices :
                      sessions'[id].received[i] \in {NoChunk, sessions'[id].nonce}
                 /\ sessions'[id].established =>
                      /\ \A i \in Indices : sessions'[id].received[i] # NoChunk
                      /\ Transcript(sessions'[id], sessions'[id].received) \in accepted'
      <4>1. CASE id = f.sid
        BY <2>1, <2>2, <2>5, <2>7, <4>1
      <4>2. CASE id # f.sid
        <5>1. sessions'[id] = sessions[id]
          BY <2>7, <4>2
        <5>2. /\ \A i \in Indices : sessions[id].received[i] \in {NoChunk, sessions[id].nonce}
              /\ sessions[id].established =>
                   /\ \A i \in Indices : sessions[id].received[i] # NoChunk
                   /\ Transcript(sessions[id], sessions[id].received) \in accepted
          BY <1>1, <3>2, <5>1 DEF SessionTable
        <5>3. sessions'[id].snonce <= serverNonces'
          BY <2>1, <2>2, <2>9, <3>2, <5>1
        <5> QED
          BY <1>2, <5>1, <5>2, <5>3
      <4> QED
        BY <4>1, <4>2
    <3>3. ASSUME NEW a \in Sids, NEW b \in Sids,
                 sessions'[a] # NoSession, sessions'[b] # NoSession,
                 sessions'[a].snonce = sessions'[b].snonce
          PROVE  a = b
      BY <1>1, <2>2, <2>5, <2>7, <2>9, <3>3 DEF SessionTable
    <3> QED
      BY <3>1, <3>2, <3>3 DEF SessionTable, Transcript, AuthKey
  <2>11. AcceptedOnce'
    <3>1. ToPeer("DEVICE_FINISHED")' = ToPeer("DEVICE_FINISHED")
      BY <2>1, <2>6, ProofsSame
    <3>2. ASSUME NEW t \in accepted
          PROVE  /\ t.auth[4] <= serverNonces'
                 /\ \E d \in ToPeer("DEVICE_FINISHED")' : d.transcript = t
                 /\ \A id \in Sids :
                      sessions'[id] # NoSession /\ sessions'[id].snonce = t.auth[4]
                         => sessions'[id].established
      <4>1. t.auth[4] \in Nat /\ t.auth[4] <= serverNonces
        BY <1>1, AuthFields DEF PeerTypes, AcceptedOnce
      <4> QED
        BY <1>1, <2>1, <2>2, <2>5, <2>7, <3>1, <4>1 DEF AcceptedOnce
    <3> QED
      BY <1>2, <3>2 DEF AcceptedOnce
  <2> QED
    BY <1>2, <2>1, <2>6, <2>8, <2>10, <2>11, PeerStep
<1>7. CASE RepeatHello(f)
  <2> DEFINE g == ChallengeFrame(f.sid, sessions[f.sid])
  <2>1. /\ sessions[f.sid] # NoSession /\ net' = net \cup {g}
        /\ UNCHANGED <<sessions, serverNonces, peerEpoch, peerKey, restarts, accepted>>
    BY <1>2, <1>7 DEF RepeatHello, Reply
  <2>2. sessions[f.sid] \in Sessions
    BY <1>1, <1>5, <2>1, SessionFacts
  <2>3. g \in Frames /\ g.type = "CHALLENGE" /\ g.sid # NoSid
    BY <1>4, <1>5, <2>2 DEF ChallengeFrame, Frames, Sessions
  <2> HIDE DEF g
  <2>4. PeerTypes'
    BY <1>1, <2>1, <2>3 DEF PeerTypes
  <2>5. SessionTable'
    BY <1>1, <2>1 DEF SessionTable
  <2>6. ToPeer("DEVICE_FINISHED")' = ToPeer("DEVICE_FINISHED")
    BY <2>1, <2>3, ProofsSame
  <2>7. AcceptedOnce'
    BY <1>1, <2>1, <2>6 DEF AcceptedOnce
  <2> QED
    BY <1>2, <2>1, <2>3, <2>4, <2>5, <2>7, PeerStep
<1> QED
  BY <1>3, <1>6, <1>7

\* A restart forgets the sessions; what was accepted stays accepted, under
\* server nonces that are spent.
LEMMA RestartKeeps == ASSUME HandshakeInv, PeerRestart PROVE HandshakeInv'
<1>1. /\ ClientTypes /\ PeerTypes /\ ClientPoint /\ BufferHolds /\ FinishedFrames
      /\ OtherFrames /\ SessionTable /\ AcceptedOnce
  BY InvParts
<1>2. /\ restarts < MaxRestarts /\ restarts' = restarts + 1
      /\ sessions' = [id \in Sids |-> NoSession]
      /\ peerEpoch' \in Epochs /\ peerKey' \in Keys
      /\ UNCHANGED <<state, step, phase, attempt, nonce, sid, closed, challenge, index,
                     buffer, keys, connects, net, serverNonces, accepted>>
  BY DEF PeerRestart, clientVars
<1>3. ClientTranscript' = ClientTranscript
  BY <1>2, ClientTranscriptSame
<1>4. ClientTypes'
  BY <1>1, <1>2 DEF ClientTypes
<1>5. PeerTypes'
  BY <1>1, <1>2, HandshakeAssumption DEF PeerTypes
<1>6. ClientPoint'
  BY <1>1, <1>2, <1>3 DEF ClientPoint, OwnChallenge
<1>7. BufferHolds'
  BY <1>1, <1>2, <1>3 DEF BufferHolds
<1>8. FinishedFrames' /\ OtherFrames'
  BY <1>1, <1>2, <1>3 DEF FinishedFrames, OtherFrames, ToPeer
<1>9. SessionTable'
  BY <1>2, HandshakeAssumption DEF SessionTable
<1>10. AcceptedOnce'
  BY <1>1, <1>2 DEF AcceptedOnce, ToPeer
<1>11. TypeOK'
  BY <1>4, <1>5 DEF TypeOK, ClientTypes, PeerTypes
<1> QED
  BY <1>6, <1>7, <1>8, <1>9, <1>10, <1>11 DEF HandshakeInv

\* What storing a fragment does: one chunk of the session's own ciphertext,
\* and nothing where the session is established.
LEMMA StoreFacts ==
    ASSUME HandshakeInv, NEW f \in ToPeer("FRAGMENT"), StoreFragment(f)
    PROVE  /\ f.sid \in Sids /\ f.sid # NoSid /\ f.index \in Indices
           /\ sessions[f.sid] # NoSession /\ sessions'[f.sid] \in Sessions
           /\ sessions' \in [Sids -> Sessions \cup {NoSession}]
           /\ \A id \in Sids : id # f.sid => sessions'[id] = sessions[id]
           /\ AuthKey(sessions'[f.sid]) = AuthKey(sessions[f.sid])
           /\ sessions'[f.sid].nonce = sessions[f.sid].nonce
           /\ sessions'[f.sid].snonce = sessions[f.sid].snonce
           /\ sessions'[f.sid].established = sessions[f.sid].established
           /\ sessions[f.sid].established => sessions'[f.sid] = sessions[f.sid]
           /\ \A i \in Indices :
                /\ sessions'[f.sid].received[i] \in {NoChunk, sessions[f.sid].nonce}
                /\ sessions[f.sid].received[i] # NoChunk =>
                     sessions'[f.sid].received[i] = sessions[f.sid].received[i]
<1> DEFINE s == sessions[f.sid]
<1>1. PeerTypes /\ OtherFrames /\ SessionTable
  BY InvParts
<1>2. f \in Frames /\ f.type = "FRAGMENT" /\ f.chunk = f.auth[3]
  BY <1>1, NetFrames DEF OtherFrames
<1>3. f.sid \in Sids /\ f.index \in Indices /\ f.chunk \in Nonces
  BY <1>2, FrameFields
<1>4. /\ s # NoSession /\ f.auth = AuthKey(s)
      /\ s.received[f.index] \in {NoChunk, f.chunk}
      /\ sessions' = [sessions EXCEPT ![f.sid].received[f.index] = f.chunk]
  BY DEF StoreFragment
<1>5. s \in Sessions /\ f.chunk = s.nonce
  BY <1>1, <1>2, <1>3, <1>4, SessionFacts
<1>6. f.sid # NoSid
  BY <1>1, <1>4 DEF SessionTable
<1>7. \A i \in Indices : s.received[i] \in {NoChunk, s.nonce}
  BY <1>1, <1>3, <1>4 DEF SessionTable
<1> DEFINE x == [s.received EXCEPT ![f.index] = f.chunk]
           t == [s EXCEPT !.received = x]
<1>8. /\ sessions'[f.sid] = t /\ \A id \in Sids : id # f.sid => sessions'[id] = sessions[id]
      /\ sessions' = [sessions EXCEPT ![f.sid] = t]
  BY <1>1, <1>3, <1>4 DEF PeerTypes
<1>9. x \in [Indices -> Nonces \cup {NoChunk}]
  BY <1>3, <1>5 DEF Sessions
<1>10. /\ t \in Sessions /\ t.nonce = s.nonce /\ t.epoch = s.epoch /\ t.key = s.key
       /\ t.snonce = s.snonce /\ t.established = s.established /\ t.received = x
  BY <1>5, <1>9 DEF Sessions
<1>11. \A i \in Indices :
         /\ x[i] \in {NoChunk, s.nonce}
         /\ s.received[i] # NoChunk => x[i] = s.received[i]
  BY <1>3, <1>4, <1>5, <1>7 DEF Sessions
<1>12. s.established => t = s
  <2> SUFFICES ASSUME s.established PROVE t = s
    OBVIOUS
  <2>1. s.received[f.index] = f.chunk
    BY <1>1, <1>3, <1>4 DEF SessionTable
  <2>2. x = s.received
    BY <1>3, <1>5, <2>1 DEF Sessions
  <2> QED
    BY <1>5, <2>2 DEF Sessions
<1>13. sessions' \in [Sids -> Sessions \cup {NoSession}]
  BY <1>1, <1>3, <1>8, <1>10 DEF PeerTypes
<1>14. AuthKey(t) = AuthKey(s)
  BY <1>10 DEF AuthKey
<1> HIDE DEF t, x
<1> QED
  BY <1>3, <1>4, <1>5, <1>6, <1>8, <1>10, <1>11, <1>12, <1>13, <1>14

\* A fragment is stored.
LEMMA FragmentKeeps == ASSUME HandshakeInv, handleFragment PROVE HandshakeInv'
<1>1. PeerTypes /\ OtherFrames /\ SessionTable /\ AcceptedOnce
  BY InvParts
<1>2. UNCHANGED <<clientVars, peerEpoch, peerKey, serverNonces, restarts, accepted>>
  BY DEF handleFragment
<1>3. PICK f \in ToPeer("FRAGMENT") : StoreFragment(f)
  BY DEF handleFragment
<1> DEFINE s == sessions[f.sid]
           g == AckFrame(f.sid, s, f.index)
<1>4. /\ f.sid \in Sids /\ f.sid # NoSid /\ f.index \in Indices
      /\ s # NoSession /\ sessions'[f.sid] \in Sessions
      /\ sessions' \in [Sids -> Sessions \cup {NoSession}]
      /\ \A id \in Sids : id # f.sid => sessions'[id] = sessions[id]
      /\ sessions'[f.sid].nonce = s.nonce /\ sessions'[f.sid].snonce = s.snonce
      /\ sessions'[f.sid].established = s.established
      /\ s.established => sessions'[f.sid] = s
      /\ \A i \in Indices : sessions'[f.sid].received[i] \in {NoChunk, s.nonce}
  BY <1>3, StoreFacts
<1>5. AuthKey(s) \in AuthKeys
  BY <1>1, <1>4, SessionFacts
<1>6. net' = net \cup {g}
  BY <1>3 DEF StoreFragment, Reply
<1>7. g \in Frames /\ g.type = "ACK" /\ g.sid # NoSid
  BY <1>4, <1>5 DEF AckFrame, Frames
<1> HIDE DEF g
<1>8. PeerTypes'
  BY <1>1, <1>2, <1>4, <1>6, <1>7 DEF PeerTypes
<1>9. SessionTable'
  <2>1. sessions'[NoSid] = NoSession
    BY <1>1, <1>4, HandshakeAssumption DEF SessionTable
  <2>2. ASSUME NEW id \in Sids, sessions'[id] # NoSession
        PROVE  /\ sessions'[id].snonce <= serverNonces'
               /\ \A i \in Indices :
                    sessions'[id].received[i] \in {NoChunk, sessions'[id].nonce}
               /\ sessions'[id].established =>
                    /\ \A i \in Indices : sessions'[id].received[i] # NoChunk
                    /\ Transcript(sessions'[id], sessions'[id].received) \in accepted'
    <3>1. CASE id = f.sid
      BY <1>1, <1>2, <1>4, <3>1 DEF SessionTable
    <3>2. CASE id # f.sid
      BY <1>1, <1>2, <1>4, <2>2, <3>2 DEF SessionTable
    <3> QED
      BY <3>1, <3>2
  <2>3. ASSUME NEW a \in Sids, NEW b \in Sids,
               sessions'[a] # NoSession, sessions'[b] # NoSession,
               sessions'[a].snonce = sessions'[b].snonce
        PROVE  a = b
    BY <1>1, <1>4, <2>3 DEF SessionTable
  <2> QED
    BY <2>1, <2>2, <2>3 DEF SessionTable, Transcript, AuthKey
<1>10. AcceptedOnce'
  <2>1. ToPeer("DEVICE_FINISHED")' = ToPeer("DEVICE_FINISHED")
    BY <1>6, <1>7, ProofsSame
  <2>2. ASSUME NEW t \in accepted, NEW id \in Sids,
               sessions'[id] # NoSession, sessions'[id].snonce = t.auth[4]
        PROVE  sessions'[id].established
    BY <1>1, <1>4, <2>2 DEF AcceptedOnce
  <2> QED
    BY <1>1, <1>2, <2>1, <2>2 DEF AcceptedOnce
<1> QED
  BY <1>2, <1>6, <1>7, <1>8, <1>9, <1>10, PeerStep

\* What an accepted Device Finished does: its transcript is the session's,
\* and the session is established.
LEMMA AcceptFacts ==
    ASSUME HandshakeInv, NEW f \in ToPeer("DEVICE_FINISHED"), AcceptFinished(f)
    PROVE  /\ f.sid \in Sids /\ f.sid # NoSid /\ f.transcript \in Transcripts
           /\ sessions[f.sid] # NoSession /\ sessions'[f.sid] \in Sessions
           /\ sessions' \in [Sids -> Sessions \cup {NoSession}]
           /\ \A id \in Sids : id # f.sid => sessions'[id] = sessions[id]
           /\ AuthKey(sessions'[f.sid]) = AuthKey(sessions[f.sid])
           /\ sessions'[f.sid].nonce = sessions[f.sid].nonce
           /\ sessions'[f.sid].snonce = sessions[f.sid].snonce
           /\ sessions'[f.sid].received = sessions[f.sid].received
           /\ sessions'[f.sid].established
           /\ sessions[f.sid].established => sessions'[f.sid] = sessions[f.sid]
           /\ \A i \in Indices :
                sessions[f.sid].received[i] = sessions[f.sid].nonce
           /\ f.transcript = Transcript(sessions[f.sid], sessions[f.sid].received)
           /\ f.transcript.auth[4] = sessions[f.sid].snonce
           /\ accepted' = accepted \cup {f.transcript}
<1> DEFINE s == sessions[f.sid]
           t == [s EXCEPT !.established = TRUE]
<1>1. PeerTypes /\ OtherFrames /\ SessionTable
  BY InvParts
<1>2. f \in Frames /\ f.type = "DEVICE_FINISHED"
  BY <1>1, NetFrames
<1>3. f.sid \in Sids /\ f.transcript \in Transcripts
  BY <1>2, FrameFields
<1>4. /\ s # NoSession /\ \A i \in Indices : s.received[i] # NoChunk
      /\ f.transcript = Transcript(s, s.received)
      /\ sessions' = [sessions EXCEPT ![f.sid].established = TRUE]
      /\ accepted' = IF s.established THEN accepted ELSE accepted \cup {f.transcript}
  BY DEF AcceptFinished
<1>5. /\ s \in Sessions /\ f.sid # NoSid /\ AuthKey(s)[4] = s.snonce
  BY <1>1, <1>3, <1>4, SessionFacts DEF SessionTable
<1>6. /\ \A i \in Indices : s.received[i] = s.nonce
      /\ s.established => f.transcript \in accepted
  BY <1>1, <1>3, <1>4 DEF SessionTable
<1>7. accepted' = accepted \cup {f.transcript}
  BY <1>4, <1>6
<1>8. /\ sessions'[f.sid] = t /\ \A id \in Sids : id # f.sid => sessions'[id] = sessions[id]
      /\ sessions' = [sessions EXCEPT ![f.sid] = t]
  BY <1>1, <1>3, <1>4 DEF PeerTypes
<1>9. /\ t \in Sessions /\ t.nonce = s.nonce /\ t.epoch = s.epoch /\ t.key = s.key
      /\ t.snonce = s.snonce /\ t.received = s.received
  BY <1>5 DEF Sessions
<1>10. t.established = TRUE
  BY <1>5 DEF Sessions
<1>11. s.established => t = s
  <2>1. s.established \in BOOLEAN
    BY <1>5 DEF Sessions
  <2>2. s.established => s.established = TRUE
    BY <2>1, Zenon
  <2>3. s.established = TRUE => t = s
    BY <1>5 DEF Sessions
  <2> QED
    BY <2>2, <2>3
<1>12. sessions' \in [Sids -> Sessions \cup {NoSession}]
  BY <1>1, <1>3, <1>8, <1>9 DEF PeerTypes
<1>13. AuthKey(t) = AuthKey(s)
  BY <1>9 DEF AuthKey
<1>14. f.transcript.auth[4] = s.snonce
  BY <1>4, <1>5 DEF Transcript
<1>15. t.established
  BY <1>10, Zenon
<1> HIDE DEF t
<1> QED
  BY <1>3, <1>4, <1>5, <1>6, <1>7, <1>8, <1>9, <1>11, <1>12, <1>13, <1>14, <1>15

\* A Device Finished is accepted.
LEMMA FinishKeeps == ASSUME HandshakeInv, finishSession PROVE HandshakeInv'
<1>1. PeerTypes /\ OtherFrames /\ SessionTable /\ AcceptedOnce
  BY InvParts
<1>2. UNCHANGED <<clientVars, peerEpoch, peerKey, serverNonces, restarts>>
  BY DEF finishSession
<1>3. PICK f \in ToPeer("DEVICE_FINISHED") : AcceptFinished(f)
  BY DEF finishSession
<1> DEFINE s == sessions[f.sid]
           g == FinishedFrame("SERVER_FINISHED", f.sid, f.transcript)
<1>4. /\ f.sid \in Sids /\ f.sid # NoSid /\ f.transcript \in Transcripts
      /\ s # NoSession /\ sessions'[f.sid] \in Sessions
      /\ sessions' \in [Sids -> Sessions \cup {NoSession}]
      /\ \A id \in Sids : id # f.sid => sessions'[id] = sessions[id]
      /\ AuthKey(sessions'[f.sid]) = AuthKey(s)
      /\ sessions'[f.sid].nonce = s.nonce /\ sessions'[f.sid].snonce = s.snonce
      /\ sessions'[f.sid].received = s.received /\ sessions'[f.sid].established
      /\ f.transcript = Transcript(s, s.received) /\ f.transcript.auth[4] = s.snonce
      /\ accepted' = accepted \cup {f.transcript}
  BY <1>3, AcceptFacts
<1>5. \A i \in Indices : s.received[i] # NoChunk
  BY <1>3 DEF AcceptFinished
<1>6. net' = net \cup {g}
  BY <1>3 DEF AcceptFinished, Reply
<1>7. /\ g \in Frames /\ g.type = "SERVER_FINISHED" /\ g.sid # NoSid
      /\ g.transcript \in accepted'
  BY <1>4 DEF FinishedFrame, Frames
<1> HIDE DEF g
<1>8. PeerTypes'
  BY <1>1, <1>2, <1>4, <1>6, <1>7 DEF PeerTypes
<1>9. SessionTable'
  <2>1. sessions'[NoSid] = NoSession
    BY <1>1, <1>4, HandshakeAssumption DEF SessionTable
  <2>2. ASSUME NEW id \in Sids, sessions'[id] # NoSession
        PROVE  /\ sessions'[id].snonce <= serverNonces'
               /\ \A i \in Indices :
                    sessions'[id].received[i] \in {NoChunk, sessions'[id].nonce}
               /\ sessions'[id].established =>
                    /\ \A i \in Indices : sessions'[id].received[i] # NoChunk
                    /\ Transcript(sessions'[id], sessions'[id].received) \in accepted'
    <3>1. CASE id = f.sid
      <4>1. Transcript(sessions'[id], sessions'[id].received) = f.transcript
        BY <1>4, <3>1 DEF Transcript
      <4> QED
        BY <1>1, <1>2, <1>4, <1>5, <3>1, <4>1 DEF SessionTable
    <3>2. CASE id # f.sid
      BY <1>1, <1>2, <1>4, <2>2, <3>2 DEF SessionTable
    <3> QED
      BY <3>1, <3>2
  <2>3. ASSUME NEW a \in Sids, NEW b \in Sids,
               sessions'[a] # NoSession, sessions'[b] # NoSession,
               sessions'[a].snonce = sessions'[b].snonce
        PROVE  a = b
    BY <1>1, <1>4, <2>3 DEF SessionTable
  <2> QED
    BY <2>1, <2>2, <2>3 DEF SessionTable, Transcript, AuthKey
<1>10. AcceptedOnce'
  <2>1. ToPeer("DEVICE_FINISHED")' = ToPeer("DEVICE_FINISHED")
    BY <1>6, <1>7, ProofsSame
  <2>2. ASSUME NEW t \in accepted'
        PROVE  /\ t.auth[4] <= serverNonces
               /\ \E d \in ToPeer("DEVICE_FINISHED") : d.transcript = t
               /\ \A id \in Sids :
                    sessions'[id] # NoSession /\ sessions'[id].snonce = t.auth[4]
                       => sessions'[id].established
    <3>1. CASE t \in accepted
      BY <1>1, <1>4, <3>1 DEF AcceptedOnce
    <3>2. CASE t = f.transcript
      <4>1. t.auth[4] <= serverNonces
        BY <1>1, <1>4, <3>2 DEF SessionTable
      <4>2. ASSUME NEW id \in Sids, sessions'[id] # NoSession,
                   sessions'[id].snonce = t.auth[4]
            PROVE  id = f.sid
        BY <1>1, <1>4, <3>2, <4>2 DEF SessionTable
      <4> QED
        BY <1>3, <1>4, <3>2, <4>1, <4>2
    <3> QED
      BY <1>4, <3>1, <3>2
  <2> QED
    BY <1>2, <2>1, <2>2 DEF AcceptedOnce
<1> QED
  BY <1>2, <1>4, <1>6, <1>7, <1>8, <1>9, <1>10, PeerStep

-----------------------------------------------------------------------------
(* The theorems. *)

\* It holds after c0pq_client_init and the start of the peer.
LEMMA HandshakeInit == ASSUME Init PROVE HandshakeInv
<1>1. ClientTypes
  <2>1. closed \in Closings
    BY DEF Closings, Init, ClientInit
  <2> QED
    BY <2>1, Zeroes, NoChallengeType, HandshakeAssumption DEF Init, ClientInit, ClientTypes
<1>2. PeerTypes
  BY HandshakeAssumption DEF Init, PeerInit, PeerTypes
<1>3. ClientPoint
  BY DEF Init, ClientInit, ClientPoint
<1>4. BufferHolds /\ FinishedFrames /\ OtherFrames
  BY DEF Init, ClientInit, BufferHolds, FinishedFrames, OtherFrames, ToPeer
<1>5. SessionTable /\ AcceptedOnce
  BY HandshakeAssumption DEF Init, PeerInit, SessionTable, AcceptedOnce
<1> QED
  BY <1>1, <1>2, <1>3, <1>4, <1>5, InvParts

\* Nothing changes, the invariant included.
LEMMA StutterKeeps == ASSUME HandshakeInv, UNCHANGED vars PROVE HandshakeInv'
<1>1. /\ ClientTypes /\ PeerTypes /\ ClientPoint /\ BufferHolds /\ FinishedFrames
      /\ OtherFrames /\ SessionTable /\ AcceptedOnce
  BY InvParts
<1>2. /\ UNCHANGED <<state, step, phase, attempt, nonce, sid, closed, challenge, index,
                     buffer, keys, connects, accepted>>
      /\ UNCHANGED <<net, peerVars>>
  BY DEF vars, clientVars, peerVars
<1>3. ClientTranscript' = ClientTranscript
  BY <1>2, ClientTranscriptSame
<1>4. ClientTypes'
  BY <1>1, <1>2 DEF ClientTypes
<1>5. ClientPoint' /\ BufferHolds'
  BY <1>1, <1>2, <1>3 DEF ClientPoint, OwnChallenge, BufferHolds
<1>6. FinishedFrames'
  BY <1>1, <1>2, <1>3 DEF FinishedFrames, ToPeer
<1> QED
  BY <1>2, <1>4, <1>5, <1>6, ClientStep

\* Every step of the client and of the peer keeps the invariant.
LEMMA HandshakeStep == ASSUME HandshakeInv, [Next]_vars PROVE HandshakeInv'
BY StutterKeeps, ConnectKeeps, SendKeeps, TimeoutKeeps, ChallengeKeeps, AckKeeps,
   FinishedKeeps, CloseKeeps, HelloKeeps, FragmentKeeps, FinishKeeps, RestartKeeps
   DEF Next, ConnectStep

\* The inductive invariant, for every network behaviour, retry bound and
\* number of fragments.
THEOREM HandshakeCorrect == Spec => []HandshakeInv
<1> QED
  BY HandshakeInit, HandshakeStep, PTL DEF Spec

\* The client, the network and the peer keep their types in every behaviour,
\* whatever the callbacks, the network and restarts do.
THEOREM HandshakeTypeCorrect == FairSpec => []TypeOK
<1>1. HandshakeInv => TypeOK
  BY DEF HandshakeInv
<1> QED
  BY <1>1, HandshakeCorrect, PTL DEF FairSpec

\* A client that c0pq_client_connect leaves established holds the keys of a
\* transcript the peer has accepted, with its own nonce, epoch and key.
THEOREM MutualAgreement == FairSpec => []Agreement
<1>1. ASSUME HandshakeInv PROVE Agreement
  <2>1. ClientPoint
    BY <1>1 DEF HandshakeInv
  <2>2. ASSUME keys # NoKeys
        PROVE  /\ keys \in accepted
               /\ keys.auth = <<ClientEpoch, ClientKey, nonce, challenge.snonce>>
               /\ keys.ciphertext = [i \in Indices |-> nonce]
    <3>1. /\ nonce \in Nonces /\ OwnChallenge
          /\ keys = ClientTranscript /\ keys \in accepted
      BY <2>1, <2>2 DEF ClientPoint
    <3> QED
      BY <3>1, ClientTranscriptFacts
  <2> QED
    BY <2>1, <2>2 DEF ClientPoint, Agreement
<1> QED
  BY <1>1, HandshakeCorrect, PTL DEF FairSpec

\* finishSession of the peer accepts at most one transcript for each nonce of
\* the client, across restarts and replayed hellos.
THEOREM OneAcceptedPerConnect == FairSpec => []OneSessionPerConnect
<1>1. ASSUME HandshakeInv PROVE OneSessionPerConnect
  BY <1>1 DEF HandshakeInv, AcceptedOnce, FinishedFrames, OneSessionPerConnect
<1> QED
  BY <1>1, HandshakeCorrect, PTL DEF FairSpec

\* How a step of the peer, or of the client, may change a session.
SessionChange(id) ==
    \/ sessions'[id] = sessions[id]
    \/ restarts' # restarts /\ sessions'[id] = NoSession
    \/ sessions[id] = NoSession /\ ~sessions'[id].established
    \/ /\ sessions[id] # NoSession /\ sessions'[id] \in Sessions
       /\ AuthKey(sessions'[id]) = AuthKey(sessions[id])
       /\ sessions[id].established => sessions'[id] = sessions[id]
       /\ \A i \in Indices : sessions[id].received[i] # NoChunk =>
            sessions'[id].received[i] = sessions[id].received[i]
       /\ ~sessions[id].established /\ sessions'[id].established =>
            /\ Transcript(sessions'[id], sessions'[id].received).auth[4] = sessions[id].snonce
            /\ \A i \in Indices : sessions'[id].received[i] = sessions'[id].nonce

\* Every step changes every session in one of these ways only.
LEMMA SessionsChange ==
    ASSUME HandshakeInv, [Next]_vars, NEW id \in Sids PROVE SessionChange(id)
<1>1. PeerTypes
  BY InvParts
<1>2. CASE handleHello
  <2>1. PICK f \in ToPeer("HELLO") : OpenSession(f) \/ RepeatHello(f)
    BY <1>2 DEF handleHello
  <2>2. f.sid \in Sids
    BY <1>1, NetFrames, FrameFields
  <2>3. CASE RepeatHello(f)
    BY <2>3 DEF RepeatHello, SessionChange
  <2>4. CASE OpenSession(f)
    <3> DEFINE s == [nonce |-> f.nonce, epoch |-> peerEpoch, key |-> peerKey,
                     snonce |-> serverNonces + 1,
                     received |-> [i \in Indices |-> NoChunk],
                     established |-> FALSE]
    <3>1. sessions[f.sid] = NoSession /\ sessions' = [sessions EXCEPT ![f.sid] = s]
      BY <2>4 DEF OpenSession, MayOpen
    <3>2. ~s.established
      OBVIOUS
    <3> HIDE DEF s
    <3>3. sessions'[f.sid] = s /\ (id # f.sid => sessions'[id] = sessions[id])
      BY <1>1, <2>2, <3>1 DEF PeerTypes
    <3> QED
      BY <3>1, <3>2, <3>3 DEF SessionChange
  <2> QED
    BY <2>1, <2>3, <2>4
<1>3. CASE handleFragment
  <2>1. PICK f \in ToPeer("FRAGMENT") : StoreFragment(f)
    BY <1>3 DEF handleFragment
  <2>2. CASE id = f.sid
    BY <2>1, <2>2, StoreFacts DEF SessionChange
  <2>3. CASE id # f.sid
    BY <2>1, <2>3, StoreFacts DEF SessionChange
  <2> QED
    BY <2>2, <2>3
<1>4. CASE finishSession
  <2>1. PICK f \in ToPeer("DEVICE_FINISHED") : AcceptFinished(f)
    BY <1>4 DEF finishSession
  <2>2. CASE id = f.sid
    <3>1. /\ sessions[id] # NoSession /\ sessions'[id] \in Sessions
          /\ AuthKey(sessions'[id]) = AuthKey(sessions[id])
          /\ sessions'[id].nonce = sessions[id].nonce
          /\ sessions'[id].received = sessions[id].received
          /\ sessions[id].established => sessions'[id] = sessions[id]
          /\ \A i \in Indices : sessions[id].received[i] = sessions[id].nonce
          /\ f.transcript = Transcript(sessions[id], sessions[id].received)
          /\ f.transcript.auth[4] = sessions[id].snonce
      BY <2>1, <2>2, AcceptFacts
    <3>2. Transcript(sessions'[id], sessions'[id].received) = f.transcript
      BY <3>1 DEF Transcript
    <3> QED
      BY <3>1, <3>2 DEF SessionChange
  <2>3. CASE id # f.sid
    BY <2>1, <2>3, AcceptFacts DEF SessionChange
  <2> QED
    BY <2>2, <2>3
<1>5. CASE PeerRestart
  <2>1. restarts' = restarts + 1 /\ restarts \in Nat
    BY <1>1, <1>5, HandshakeAssumption DEF PeerRestart, PeerTypes
  <2>2. sessions'[id] = NoSession
    BY <1>5 DEF PeerRestart
  <2> QED
    BY <2>1, <2>2 DEF SessionChange
<1>6. CASE UNCHANGED sessions
  BY <1>6 DEF SessionChange
<1>7. \/ handleHello \/ handleFragment \/ finishSession \/ PeerRestart
      \/ UNCHANGED sessions
  BY DEF Next, ConnectStep, connect, send_frame, receive_timeout, receive_unexpected,
         receive_challenge, receive_ack, receive_finished, close, close_in_callback,
         vars, peerVars
<1> QED
  BY <1>2, <1>3, <1>4, <1>5, <1>6, <1>7

\* A session the peer establishes was never accepted before, and what it
\* decapsulates is one client's ciphertext: the server nonce in its key is
\* drawn for it alone, so no recorded frame fits another session.
THEOREM SessionsAreNotReplayed == FairSpec => NoReplayedSession
<1> DEFINE Established(id) ==
             /\ sessions[id] # NoSession /\ sessions'[id] # NoSession
             /\ ~sessions[id].established /\ sessions'[id].established
           Fresh(s) == /\ Transcript(s, s.received) \notin accepted
                       /\ \A i \in Indices : s.received[i] = s.nonce
<1>1. ASSUME HandshakeInv, [Next]_vars, NEW id \in Sids, Established(id)
      PROVE  Fresh(sessions'[id])
  <2>1. SessionChange(id)
    BY <1>1, SessionsChange
  <2>2. sessions'[id] # sessions[id]
    BY <1>1
  <2>3. /\ Transcript(sessions'[id], sessions'[id].received).auth[4] = sessions[id].snonce
        /\ \A i \in Indices : sessions'[id].received[i] = sessions'[id].nonce
    BY <1>1, <2>1, <2>2 DEF SessionChange
  <2>4. Transcript(sessions'[id], sessions'[id].received) \notin accepted
    BY <1>1, <2>3 DEF HandshakeInv, AcceptedOnce
  <2> QED
    BY <2>3, <2>4
<1>2. ASSUME HandshakeInv, [Next]_vars
      PROVE  [\A id \in Sids : Established(id) =>
                LET s == sessions'[id] IN
                /\ Transcript(s, s.received) \notin accepted
                /\ \A i \in Indices : s.received[i] = s.nonce]_vars
  BY <1>1, <1>2
<1> QED
  BY <1>2, HandshakeCorrect, PTL DEF FairSpec, Spec, NoReplayedSession

\* While the peer lives a session keeps its key, its chunks and, once it is
\* established, everything.
THEOREM PeerIsIdempotent == FairSpec => IdempotentPeer
<1>1. ASSUME HandshakeInv, [Next]_vars, restarts' = restarts, NEW id \in Sids,
             sessions[id] # NoSession
      PROVE  /\ sessions'[id] # NoSession
             /\ AuthKey(sessions'[id]) = AuthKey(sessions[id])
             /\ sessions[id].established => sessions'[id] = sessions[id]
             /\ \A i \in Indices : sessions[id].received[i] # NoChunk =>
                  sessions'[id].received[i] = sessions[id].received[i]
  BY <1>1, SessionsChange, MarkersAssumption DEF SessionChange
<1>2. ASSUME HandshakeInv, [Next]_vars
      PROVE  [restarts' = restarts =>
                \A id \in Sids : sessions[id] # NoSession =>
                   LET s == sessions[id]  t == sessions'[id] IN
                   /\ t # NoSession
                   /\ AuthKey(t) = AuthKey(s)
                   /\ s.established => t = s
                   /\ \A i \in Indices :
                        s.received[i] # NoChunk => t.received[i] = s.received[i]]_vars
  BY <1>1, <1>2
<1> QED
  BY <1>2, HandshakeCorrect, PTL DEF FairSpec, Spec, IdempotentPeer

\* A connect closed from a callback later than the one that draws its nonce
\* ends failed and without keys: no answer of the peer carries the cleared
\* session identifier.  Of a connect closed from the callback that draws the
\* nonce nothing is claimed: it may end established (fragment.c:303, 311, 447).
THEOREM LateCloseEndsFailed == FairSpec => LateCloseIsFinal
<1>1. ASSUME HandshakeInv, [Next]_vars, closed = "late", step # "none",
             step' = "none"
      PROVE  state' = "FAILED" /\ keys' = NoKeys
  <2>1. sid = NoSid /\ \A f \in net : ~Expected(f)
    BY <1>1 DEF HandshakeInv, ClientPoint, OtherFrames, Expected
  <2>2. ~receive_challenge /\ ~receive_ack /\ ~receive_finished
    BY <2>1 DEF receive_challenge, receive_ack, receive_finished
  <2>3. ~connect /\ ~close
    BY <1>1 DEF connect, close
  <2>4. \A c : NextAttempt(c) => Fail
    BY <1>1 DEF NextAttempt
  <2>5. CASE send_frame \/ receive_timeout \/ receive_unexpected
    BY <1>1, <2>4, <2>5 DEF send_frame, receive_timeout, receive_unexpected, Fail
  <2>6. CASE close_in_callback
    BY <1>1, <2>6 DEF close_in_callback
  <2>7. CASE handleHello \/ handleFragment \/ finishSession \/ PeerRestart \/ UNCHANGED vars
    BY <1>1, <2>7 DEF handleHello, handleFragment, finishSession, PeerRestart, vars,
                      clientVars
  <2> QED
    BY <1>1, <2>2, <2>3, <2>5, <2>6, <2>7 DEF Next, ConnectStep
<1>2. ASSUME HandshakeInv, [Next]_vars
      PROVE  [closed = "late" /\ step # "none" /\ step' = "none" =>
                state' = "FAILED" /\ keys' = NoKeys]_vars
  BY <1>1, <1>2
<1> QED
  BY <1>2, HandshakeCorrect, PTL DEF FairSpec, Spec, LateCloseIsFinal
=============================================================================
