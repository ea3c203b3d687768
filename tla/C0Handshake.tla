----------------------------- MODULE C0Handshake -----------------------------
(***************************************************************************)
(* The C0-PQLink handshake: the client of src/session/fragment.c (connect, *)
(* its stop-and-wait exchanges and its close), the reference peer of       *)
(* reference-peer/protocol.mjs behind the UDP socket of udp-peer.mjs, and  *)
(* the datagram network between them.                                      *)
(*                                                                         *)
(* The network may lose, delay, duplicate and reorder frames: net holds    *)
(* every frame ever sent and a receiver may be handed any of them, any     *)
(* number of times, or none.  Tags are ideal: a tag verifies exactly when  *)
(* it was made under the same key over the same content, so a frame is the *)
(* tuple of the fields its tag binds.  The client is one thread, but its   *)
(* callbacks are application code (Python functions in the MicroPython     *)
(* binding, virtual methods in the Arduino wrapper) that may call close on *)
(* the client that is connecting.  The peer handles one datagram at a time *)
(* and keeps its sessions in memory only.                                  *)
(***************************************************************************)
EXTENDS Naturals

CONSTANTS
    MaxConnects,     \* bound: connect calls, one fresh device nonce each
    MaxServerNonces, \* bound: sessions the peer opens, one fresh nonce each
    MaxRestarts,     \* bound: restarts of the peer process
    maximum_retries, \* config.maximum_retries
    FragmentCount,   \* C0PQ_FRAGMENT_COUNT (16)
    SidOf(_),        \* device nonce -> session_id (32 of its 128 bits)
    Sids,            \* session identifiers
    Epochs, Keys,    \* provisioning epochs and public key identifiers
    ClientEpoch, ClientKey,  \* what the device was provisioned with
    NoSession, NoChunk, Junk, NoKeys

Nonces == 1..MaxConnects
ServerNonces == 1..MaxServerNonces
Indices == 0..(FragmentCount - 1)
\* No close yet; the only close came from the callback that draws the nonce;
\* a close came from a later callback.
Closings == {"no", "early", "late"}
NoSid == 0   \* client->session_id outside a session; no nonce yields it here

ASSUME HandshakeAssumption ==
    /\ MaxConnects \in Nat /\ MaxServerNonces \in Nat /\ MaxRestarts \in Nat
    /\ maximum_retries \in Nat
    /\ FragmentCount \in Nat \ {0}
    /\ NoSid \in Sids /\ \A n \in Nonces : SidOf(n) \in Sids \ {NoSid}
    /\ ClientEpoch \in Epochs /\ ClientKey \in Keys
    /\ NoChunk \notin Nonces

VARIABLES
    state,      \* client->state
    step,       \* which exchange connect is in
    phase,      \* "send" or "receive": where send_and_receive stands
    attempt,    \* its loop counter
    nonce,      \* device_nonce of this connect (and of its ciphertext)
    sid,        \* client->session_id
    closed,     \* history: when a callback of this connect last called close
    challenge,  \* what the accepted Challenge carried: epoch, key, nonce
    index,      \* writer->fragment_index
    buffer,     \* the frame buffer, both outgoing and incoming
    keys,       \* client->send_secret, receive_secret, nonce bases
    connects,   \* connect calls so far
    net,        \* every frame ever sent
    sessions,   \* peer: this.sessions
    peerEpoch, peerKey,  \* peer: this.epoch, this.keyId
    serverNonces,        \* peer: server nonces drawn so far
    restarts,   \* peer restarts so far
    accepted    \* history: transcripts whose Device Finished the peer accepted

clientVars == <<state, step, phase, attempt, nonce, sid, closed, challenge, index,
                buffer, keys, connects>>
peerVars == <<sessions, peerEpoch, peerKey, serverNonces, restarts, accepted>>
vars == <<clientVars, net, peerVars>>

-----------------------------------------------------------------------------
(* Frames: type, session identifier and the fields the tag covers. *)

HelloFrame(n) ==
    [type |-> "HELLO", sid |-> SidOf(n), epoch |-> ClientEpoch, nonce |-> n]

ChallengeFrame(id, s) ==
    [type |-> "CHALLENGE", sid |-> id, epoch |-> s.epoch, key |-> s.key,
     nonce |-> s.nonce, snonce |-> s.snonce]

\* Faulty variant of AuthKey: the server nonce does not enter the key.
AuthKeyUnsalted(c) == <<c.epoch, c.key, c.nonce, IF c.snonce = 0 THEN 0 ELSE 1>>

\* The session auth key: derived from the PSK and these challenge fields.
AuthKey(c) == <<c.epoch, c.key, c.nonce, c.snonce>>

FragmentFrame(i) ==
    [type |-> "FRAGMENT", sid |-> sid, auth |-> AuthKey(challenge),
     index |-> i, chunk |-> nonce]

AckFrame(id, s, i) ==
    [type |-> "ACK", sid |-> id, auth |-> AuthKey(s), index |-> i]

\* The transcript hash and the key schedule: hello core, challenge core and
\* ciphertext, chunk by chunk.
Transcript(c, ciphertext) == [auth |-> AuthKey(c), ciphertext |-> ciphertext]

ClientTranscript == Transcript(challenge, [i \in Indices |-> nonce])

FinishedFrame(type, id, transcript) ==
    [type |-> type, sid |-> id, transcript |-> transcript]

FromPeer(f) == f # Junk /\ f.type \in {"CHALLENGE", "ACK", "SERVER_FINISHED"}

ToPeer(type) == {f \in net \ {Junk} : f.type = type}

-----------------------------------------------------------------------------
(* The client. *)

NoChallenge == [epoch |-> ClientEpoch, key |-> ClientKey, nonce |-> 0,
                snonce |-> 0]

\* The state after c0pq_client_init: READY, everything else zero.
ClientInit ==
    /\ state = "READY" /\ step = "none" /\ phase = "send" /\ attempt = 0
    /\ nonce = 0 /\ sid = NoSid /\ closed = "no"
    /\ challenge = NoChallenge /\ index = 0 /\ buffer = Junk
    /\ keys = NoKeys /\ connects = 0

\* connect ends in its fail label: secrets are wiped.
Fail == /\ state' = "FAILED" /\ step' = "none" /\ keys' = NoKeys
        /\ phase' = "send" /\ attempt' = 0 /\ nonce' = 0 /\ closed' = "no"
        /\ challenge' = NoChallenge /\ index' = 0 /\ buffer' = Junk
        /\ UNCHANGED sid

\* send_and_receive starts over with another frame.
Exchange(s, frame) == /\ step' = s /\ buffer' = frame
                      /\ phase' = "send" /\ attempt' = 0

\* Faulty variants of NextAttempt: `<=` for `<`; the counter is not advanced.
NextAttemptOneMore(contents) ==
    \/ /\ attempt <= maximum_retries
       /\ attempt' = attempt + 1
       /\ phase' = "send"
       /\ buffer' = contents
       /\ UNCHANGED <<state, step, nonce, sid, closed, challenge, index, keys>>
    \/ /\ attempt > maximum_retries
       /\ Fail

NextAttemptForever(contents) ==
    /\ phase' = "send"
    /\ buffer' = contents
    /\ UNCHANGED <<state, step, attempt, nonce, sid, closed, challenge, index, keys>>

\* `continue`, or the end of the loop body: the next attempt sends what the
\* buffer holds by then; after the last one connect fails with ERR_IO.
NextAttempt(contents) ==
    \/ /\ attempt < maximum_retries
       /\ attempt' = attempt + 1
       /\ phase' = "send"
       /\ buffer' = contents
       /\ UNCHANGED <<state, step, nonce, sid, closed, challenge, index, keys>>
    \/ /\ attempt = maximum_retries
       /\ Fail

\* Faulty variant of FreshNonce: the same nonce for every connect.
StaleNonce == IF connects >= 0 THEN 1 ELSE 0

\* config.random: a nonce never drawn before.
FreshNonce == connects + 1

\* c0pq_client_connect up to its first transmission.  The random source may
\* fail.  It may also call close: the state is READY again, but session_id is
\* set only afterwards, so connect goes on and nothing stops it any more.
connect ==
    /\ state = "READY" /\ step = "none"
    /\ connects < MaxConnects
    /\ connects' = connects + 1
    /\ \/ Fail
       \/ /\ \/ state' = "CONNECTING" /\ closed' = "no"
             \/ state' = "READY" /\ closed' = "early"
          /\ nonce' = FreshNonce /\ sid' = SidOf(FreshNonce)
          /\ Exchange("hello", HelloFrame(FreshNonce))
          /\ UNCHANGED <<challenge, index, keys>>
    /\ UNCHANGED <<net, peerVars>>

\* config.send_frame: the datagram leaves, or the callback reports failure.
send_frame ==
    /\ step # "none" /\ phase = "send"
    /\ \/ /\ net' = net \cup {buffer}
          /\ phase' = "receive"
          /\ UNCHANGED <<state, step, attempt, nonce, sid, closed, challenge,
                         index, buffer, keys>>
       \/ /\ NextAttempt(buffer)
          /\ UNCHANGED net
    /\ UNCHANGED <<connects, peerVars>>

Receiving == step # "none" /\ phase = "receive"

\* config.receive_frame reports failure: nothing came within timeout_ms.
receive_timeout ==
    /\ Receiving
    /\ NextAttempt(buffer)
    /\ UNCHANGED <<connects, net, peerVars>>

ExpectedType == [hello |-> "CHALLENGE", fragment |-> "ACK",
                 finished |-> "SERVER_FINISHED"]

\* send_and_receive accepts the frame: length, type and session agree.
Expected(f) == FromPeer(f) /\ f.type = ExpectedType[step] /\ f.sid = sid

\* Another frame comes in.  It has been written over the buffer, which all
\* three callers also pass as the outgoing frame.
receive_unexpected ==
    /\ Receiving
    /\ \E f \in net : FromPeer(f) /\ ~Expected(f)
    /\ NextAttempt(Junk)
    /\ UNCHANGED <<connects, net, peerVars>>

\* Faulty variant of ChallengeMatches: the device nonce is not compared.
ChallengeMatchesAnyNonce(f) == f.epoch = ClientEpoch /\ f.key = ClientKey

\* c0pq_decode_verify_challenge and verify_challenge_matches.
ChallengeMatches(f) == /\ f.epoch = ClientEpoch
                       /\ f.key = ClientKey
                       /\ f.nonce = nonce

\* A Challenge for this session: checked, then encapsulation starts and the
\* first fragment is built.  The random source may fail.
receive_challenge ==
    /\ Receiving /\ step = "hello"
    /\ \E f \in net :
         /\ Expected(f)
         /\ \/ /\ ChallengeMatches(f)
               /\ challenge' = [epoch |-> f.epoch, key |-> f.key,
                                nonce |-> f.nonce, snonce |-> f.snonce]
               /\ index' = 0
               /\ Exchange("fragment",
                           [type |-> "FRAGMENT", sid |-> sid,
                            auth |-> AuthKey(challenge'), index |-> 0,
                            chunk |-> nonce])
               /\ UNCHANGED <<state, nonce, sid, closed, keys>>
            \/ Fail
    /\ UNCHANGED <<connects, net, peerVars>>

\* The checks of flush_ciphertext_fragment on the Ack.
AckMatches(f) == f.index = index /\ f.auth = AuthKey(challenge)

\* An Ack for this session: any but the current fragment's ends connect; the
\* last one leads to Device Finished.
receive_ack ==
    /\ Receiving /\ step = "fragment"
    /\ \E f \in net :
         /\ Expected(f)
         /\ \/ /\ AckMatches(f)
               /\ index' = index + 1
               /\ IF index + 1 < FragmentCount
                  THEN Exchange("fragment", FragmentFrame(index + 1))
                  ELSE Exchange("finished",
                                FinishedFrame("DEVICE_FINISHED", sid,
                                              ClientTranscript))
               /\ UNCHANGED <<state, nonce, sid, closed, challenge, keys>>
            \/ ~AckMatches(f) /\ Fail
    /\ UNCHANGED <<connects, net, peerVars>>

\* A Server Finished for this session: on the right tag the traffic secrets
\* are installed.
receive_finished ==
    /\ Receiving /\ step = "finished"
    /\ \E f \in net :
         /\ Expected(f)
         /\ \/ /\ f.transcript = ClientTranscript
               /\ keys' = ClientTranscript
               /\ state' = "ESTABLISHED" /\ step' = "none"
               /\ phase' = "send" /\ attempt' = 0 /\ buffer' = Junk
               /\ closed' = "no"
               /\ UNCHANGED <<nonce, sid, challenge, index>>
            \/ f.transcript # ClientTranscript /\ Fail
    /\ UNCHANGED <<connects, net, peerVars>>

\* Faulty variant of ClearSession: the session identifier is kept.
ClearSessionKeepsSid == state' = "READY" /\ keys' = NoKeys /\ sid' = sid

\* c0pq_client_close: secrets and session identifier are cleared.
ClearSession == state' = "READY" /\ keys' = NoKeys /\ sid' = NoSid

\* close between calls of connect.
close ==
    /\ step = "none"
    /\ ClearSession
    /\ nonce' = 0 /\ challenge' = NoChallenge /\ index' = 0
    /\ UNCHANGED <<step, phase, attempt, closed, buffer, connects, net, peerVars>>

\* close from inside a callback of connect later than the one that draws the
\* nonce; connect goes on when the callback returns.  While a fragment is being prepared the callback may be one that
\* runs before the frame is built (the public key reader, the random source).
close_in_callback ==
    /\ step # "none" /\ closed # "late"
    /\ ClearSession
    /\ closed' = "late"
    /\ \/ UNCHANGED buffer
       \/ /\ step = "fragment" /\ phase = "send" /\ attempt = 0 /\ buffer # Junk
          /\ buffer' = [buffer EXCEPT !.sid = sid']
    /\ UNCHANGED <<step, phase, attempt, nonce, challenge, index, connects, net,
                   peerVars>>

ConnectStep == \/ send_frame \/ receive_timeout \/ receive_unexpected
               \/ receive_challenge \/ receive_ack \/ receive_finished

-----------------------------------------------------------------------------
(* The reference peer.  A frame that a handler rejects by throwing changes  *)
(* nothing and is not answered: that is a stuttering step.                  *)

Reply(frame) == net' = net \cup {frame}

\* Faulty variant of MayOpen: an existing session is replaced.
MayReopen(f) == f.epoch = peerEpoch

\* handleHello finds no session of this identifier and the peer's own epoch.
MayOpen(f) == sessions[f.sid] = NoSession /\ f.epoch = peerEpoch

\* A hello that opens a session.
OpenSession(f) ==
    /\ MayOpen(f)
    /\ serverNonces < MaxServerNonces
    /\ serverNonces' = serverNonces + 1
    /\ LET s == [nonce |-> f.nonce, epoch |-> peerEpoch, key |-> peerKey,
                 snonce |-> serverNonces + 1,
                 received |-> [i \in Indices |-> NoChunk],
                 established |-> FALSE]
       IN /\ sessions' = [sessions EXCEPT ![f.sid] = s]
          /\ Reply(ChallengeFrame(f.sid, s))

\* A hello for a session that exists: the same hello gets the cached
\* Challenge, another one is a collision and is rejected.
RepeatHello(f) ==
    /\ sessions[f.sid] # NoSession
    /\ sessions[f.sid].nonce = f.nonce
    /\ Reply(ChallengeFrame(f.sid, sessions[f.sid]))
    /\ UNCHANGED <<sessions, serverNonces>>

handleHello ==
    /\ \E f \in ToPeer("HELLO") : OpenSession(f) \/ RepeatHello(f)
    /\ UNCHANGED <<clientVars, peerEpoch, peerKey, restarts, accepted>>

\* A fragment: authenticated under the session's key, not in conflict with
\* what was stored; stored, and acknowledged.
StoreFragment(f) ==
    LET s == sessions[f.sid] IN
    /\ s # NoSession
    /\ f.auth = AuthKey(s)
    /\ s.received[f.index] \in {NoChunk, f.chunk}
    /\ sessions' = [sessions EXCEPT ![f.sid].received[f.index] = f.chunk]
    /\ Reply(AckFrame(f.sid, s, f.index))

handleFragment ==
    /\ \E f \in ToPeer("FRAGMENT") : StoreFragment(f)
    /\ UNCHANGED <<clientVars, peerEpoch, peerKey, serverNonces, restarts,
                   accepted>>

\* Device Finished: refused while a fragment is missing; on the right tag
\* the session is established and Server Finished sent; a duplicate gets the
\* cached frame.
AcceptFinished(f) ==
    LET s == sessions[f.sid] IN
    /\ s # NoSession
    /\ \A i \in Indices : s.received[i] # NoChunk
    /\ f.transcript = Transcript(s, s.received)
    /\ sessions' = [sessions EXCEPT ![f.sid].established = TRUE]
    /\ accepted' = IF s.established THEN accepted
                   ELSE accepted \cup {f.transcript}
    /\ Reply(FinishedFrame("SERVER_FINISHED", f.sid, f.transcript))

finishSession ==
    /\ \E f \in ToPeer("DEVICE_FINISHED") : AcceptFinished(f)
    /\ UNCHANGED <<clientVars, peerEpoch, peerKey, serverNonces, restarts>>

\* The process restarts: the sessions are gone, the configuration may have
\* been rotated.
PeerRestart ==
    /\ restarts < MaxRestarts
    /\ restarts' = restarts + 1
    /\ sessions' = [id \in Sids |-> NoSession]
    /\ peerEpoch' \in Epochs
    /\ peerKey' \in Keys
    /\ UNCHANGED <<clientVars, net, serverNonces, accepted>>

PeerInit ==
    /\ sessions = [id \in Sids |-> NoSession]
    /\ peerEpoch \in Epochs /\ peerKey \in Keys
    /\ serverNonces = 0 /\ restarts = 0
    /\ accepted = {}

-----------------------------------------------------------------------------

Init == ClientInit /\ PeerInit /\ net = {}

Next == \/ connect \/ ConnectStep \/ close \/ close_in_callback
        \/ handleHello \/ handleFragment \/ finishSession \/ PeerRestart

Spec == Init /\ [][Next]_vars

\* connect is one loop that never blocks: receive_frame returns within
\* timeout_ms.  Nothing is assumed of the network or of the peer.
FairSpec == Spec /\ WF_vars(ConnectStep)

-----------------------------------------------------------------------------

AuthKeys == Epochs \X Keys \X Nonces \X ServerNonces

Transcripts == [auth : AuthKeys, ciphertext : [Indices -> Nonces]]

Sessions == [nonce : Nonces, epoch : Epochs, key : Keys,
             snonce : ServerNonces,
             received : [Indices -> Nonces \cup {NoChunk}],
             established : BOOLEAN]

Frames ==
    [type : {"HELLO"}, sid : Sids, epoch : Epochs, nonce : Nonces]
      \cup [type : {"CHALLENGE"}, sid : Sids, epoch : Epochs, key : Keys,
            nonce : Nonces, snonce : ServerNonces]
      \cup [type : {"FRAGMENT"}, sid : Sids, auth : AuthKeys,
            index : Indices, chunk : Nonces]
      \cup [type : {"ACK"}, sid : Sids, auth : AuthKeys, index : Indices]
      \cup [type : {"DEVICE_FINISHED", "SERVER_FINISHED"}, sid : Sids,
            transcript : Transcripts]

ASSUME MarkersAssumption ==
    Junk \notin Frames /\ NoKeys \notin Transcripts /\ NoSession \notin Sessions

\* Type invariant of the client, the network and the peer.
TypeOK ==
    /\ state \in {"READY", "CONNECTING", "ESTABLISHED", "FAILED"}
    /\ step \in {"none", "hello", "fragment", "finished"}
    /\ phase \in {"send", "receive"}
    /\ attempt \in 0..maximum_retries
    /\ nonce \in Nonces \cup {0}
    /\ sid \in Sids /\ closed \in Closings
    /\ challenge \in [epoch : Epochs, key : Keys, nonce : Nonces \cup {0},
                      snonce : ServerNonces \cup {0}]
    /\ index \in 0..FragmentCount
    /\ buffer \in Frames \cup {Junk}
    /\ keys \in Transcripts \cup {NoKeys}
    /\ connects \in 0..MaxConnects
    /\ net \subseteq Frames \cup {Junk}
    /\ sessions \in [Sids -> Sessions \cup {NoSession}]
    /\ peerEpoch \in Epochs /\ peerKey \in Keys
    /\ serverNonces \in 0..MaxServerNonces
    /\ restarts \in 0..MaxRestarts
    /\ accepted \subseteq Transcripts

\* Mutual agreement: a client holds traffic keys exactly while established,
\* and then the peer accepted Device Finished for the same nonces, epoch,
\* key and ciphertext, whatever was lost, repeated or left over from an
\* earlier session with the same identifier ("leaves the client failed
\* rather than partially established", docs/PROTOCOL.md).
Agreement ==
    /\ keys # NoKeys <=> state = "ESTABLISHED"
    /\ keys # NoKeys =>
         /\ keys \in accepted
         /\ keys.auth = <<ClientEpoch, ClientKey, nonce, challenge.snonce>>
         /\ keys.ciphertext = [i \in Indices |-> nonce]

\* The peer establishes at most one session per connect of the client, even
\* when it restarts and is handed old hellos and fragments again.
OneSessionPerConnect ==
    \A t, u \in accepted : t.auth[3] = u.auth[3] => t = u

\* A session is never established a second time from recorded frames, and
\* the ciphertext it decapsulates is one client's, whole.
NoReplayedSession ==
    [][\A id \in Sids :
         /\ sessions[id] # NoSession /\ sessions'[id] # NoSession
         /\ ~sessions[id].established /\ sessions'[id].established
         => LET s == sessions'[id] IN
            /\ Transcript(s, s.received) \notin accepted
            /\ \A i \in Indices : s.received[i] = s.nonce]_vars

\* The peer answers repeated frames idempotently: while it lives, a session
\* keeps its nonces, what it stored and that it is established ("Duplicate
\* authenticated fragments and duplicate requests must produce idempotent
\* responses", docs/PROTOCOL.md).
IdempotentPeer ==
    [][restarts' = restarts =>
         \A id \in Sids : sessions[id] # NoSession =>
            LET s == sessions[id]  t == sessions'[id] IN
            /\ t # NoSession
            /\ AuthKey(t) = AuthKey(s)
            /\ s.established => t = s
            /\ \A i \in Indices :
                 s.received[i] # NoChunk => t.received[i] = s.received[i]]_vars

\* connect always returns: bounded retries of a bounded number of frames.
ConnectReturns == step # "none" ~> step = "none"

\* A connect closed from a callback later than the one that draws its nonce
\* ends failed and without traffic keys, whatever was already on the way
\* (fragment.c sets ESTABLISHED without looking at the state: only the cleared
\* session identifier stops it).  The claim ends there: a close from the
\* callback that draws the nonce (fragment.c:303) comes before session_id is
\* assigned (:311), is lost, and connect may still end established (:447).
LateCloseIsFinal ==
    [][closed = "late" /\ step # "none" /\ step' = "none" =>
         state' = "FAILED" /\ keys' = NoKeys]_vars

\* Every transmission of an exchange is the frame of that exchange ("retries
\* only the current frame", docs/PROTOCOL.md).  Fails: see the README.
RetriesCurrentFrame ==
    step # "none" /\ closed # "late" /\ phase = "send" =>
        buffer = CASE step = "hello"    -> HelloFrame(nonce)
                   [] step = "fragment" -> FragmentFrame(index)
                   [] step = "finished" ->
                        FinishedFrame("DEVICE_FINISHED", sid,
                                      ClientTranscript)
==============================================================================
