----------------------------- MODULE RecordLayer -----------------------------
(***************************************************************************)
(* Application records of one established C0-PQLink session: seal and open *)
(* of src/session/ratchet.c on the client, openRecord, sealRecord and      *)
(* handleData with its one-record cache in reference-peer/protocol.mjs,    *)
(* and the stop-and-wait caller that both document (client.h: retain and   *)
(* retransmit the exact returned frame).                                   *)
(*                                                                         *)
(* The network may lose, delay, duplicate, reorder and corrupt frames.     *)
(* A record is the tuple of what the AEAD binds: direction, sequence       *)
(* number, key and content; it opens exactly under the same key and        *)
(* sequence number.  The two ends are configured with a mode each, which   *)
(* the handshake does not compare.                                         *)
(***************************************************************************)
EXTENDS Naturals, Sequences, SequencesExt

CONSTANTS SeqMax,   \* UINT64_MAX, reduced
          NoFrame,  \* "nothing kept"
          BadKey    \* the key of no record: a frame damaged on the way

ASSUME SeqMaxAssumption == SeqMax \in Nat \ {0}

Modes == {"FULL_PQ_EACH_SESSION", "PQ_BOOTSTRAP_RATCHET"}

VARIABLES
    state,       \* client->state
    clientMode, peerMode,
    send, recv,  \* client->send_sequence, receive_sequence
    sendChain, recvChain,          \* ratchet steps taken by the client's secrets
    peerSend, peerRecv,            \* session.sendSequence, receiveSequence
    peerSendChain, peerRecvChain,  \* ratchet steps taken by the peer's secrets
    lastClientFrame, lastResponseFrame,  \* the peer's one-record cache
    retained,    \* the caller's sealed frame awaiting its answer
    gaveUp,      \* has the caller ever dropped a retained frame?
    sealed,      \* history: contents sealed by the client, in order
    handled,     \* history: contents given to the peer's onPlaintext
    replies,     \* history: <<request retained, request answered>> pairs
    net

clientVars == <<state, clientMode, send, recv, sendChain, recvChain>>
peerVars == <<peerMode, peerSend, peerRecv, peerSendChain, peerRecvChain,
              lastClientFrame, lastResponseFrame, handled>>
callerVars == <<retained, gaveUp, sealed, replies>>
vars == <<clientVars, peerVars, callerVars, net>>

-----------------------------------------------------------------------------

\* The message key of a direction: derived from the chain in ratchet mode,
\* the fixed traffic key otherwise (select_send_key, select_receive_key).
MessageKey(mode, chain) ==
    [mode |-> mode, chain |-> IF mode = "PQ_BOOTSTRAP_RATCHET" THEN chain ELSE 0]

\* Faulty variant of NextChain: the chain steps in the wrong mode.
NextChainWrongMode(mode, chain) ==
    IF mode = "FULL_PQ_EACH_SESSION" THEN chain + 1 ELSE chain

\* The chain after a committed record: ratchet_step in ratchet mode only.
NextChain(mode, chain) ==
    IF mode = "PQ_BOOTSTRAP_RATCHET" THEN chain + 1 ELSE chain

Record(from, seq, key, body) ==
    [from |-> from, seq |-> seq, key |-> key, body |-> body]

\* Faulty variant of Increment: the counter is stuck at 1.
IncrementLate(seq) == IF seq = 1 THEN 1 ELSE (seq + 1) % (SeqMax + 1)

\* ++ on a uint64_t.
Increment(seq) == (seq + 1) % (SeqMax + 1)

Init ==
    /\ state = "ESTABLISHED"
    /\ clientMode \in Modes /\ peerMode \in Modes
    /\ send = 0 /\ recv = 0 /\ sendChain = 0 /\ recvChain = 0
    /\ peerSend = 0 /\ peerRecv = 0 /\ peerSendChain = 0 /\ peerRecvChain = 0
    /\ lastClientFrame = NoFrame /\ lastResponseFrame = NoFrame
    /\ retained = NoFrame /\ gaveUp = FALSE
    /\ sealed = <<>> /\ handled = <<>> /\ replies = <<>>
    /\ net = {}

-----------------------------------------------------------------------------
(* The client and its caller. *)

\* Faulty variant of MaySeal: the limit is missing.
MaySealUnlimited == state = "ESTABLISHED"

\* seal refuses the last sequence number: ERR_EXPIRED.
MaySeal == state = "ESTABLISHED" /\ send # SeqMax

\* c0pq_client_seal_record: the caller seals its next message, keeps the
\* frame and sends it.
seal_record ==
    /\ retained = NoFrame
    /\ MaySeal
    /\ LET body == Len(sealed) + 1
           f == Record("client", send, MessageKey(clientMode, sendChain), body)
       IN /\ retained' = f
          /\ net' = net \cup {f}
          /\ sealed' = Append(sealed, body)
    /\ sendChain' = NextChain(clientMode, sendChain)
    /\ send' = Increment(send)
    /\ UNCHANGED <<state, clientMode, recv, recvChain, peerVars, gaveUp,
                   replies>>

\* The caller's retries are exhausted; it drops the frame.
GiveUp ==
    /\ retained # NoFrame
    /\ retained' = NoFrame
    /\ gaveUp' = TRUE
    /\ UNCHANGED <<clientVars, peerVars, sealed, replies, net>>

\* Faulty variant of InSequence: only older numbers are refused.
NoOlderSequence(f) == f.seq >= recv

\* The replay check of open: exactly the next sequence number.
InSequence(f) == f.seq = recv

\* The tag verifies under the client's current receive key.
Opens(f) == f.key = MessageKey(clientMode, recvChain)

\* c0pq_client_open_record on an incoming frame, by a caller that waits for
\* an answer: another sequence number is ERR_REPLAY, a bad tag ERR_AUTH, and
\* neither changes anything.
open_record ==
    /\ state = "ESTABLISHED"
    /\ retained # NoFrame
    /\ \E f \in net :
         /\ f.from = "peer"
         /\ InSequence(f)
         /\ Opens(f)
         /\ recvChain' = NextChain(clientMode, recvChain)
         /\ recv' = Increment(recv)
         /\ replies' = Append(replies, <<retained.body, f.body>>)
         /\ retained' = NoFrame
    /\ UNCHANGED <<state, clientMode, send, sendChain, peerVars, gaveUp,
                   sealed, net>>

\* c0pq_client_close: secrets and sequence numbers are wiped.
close ==
    /\ state' = "READY"
    /\ send' = 0 /\ recv' = 0 /\ sendChain' = 0 /\ recvChain' = 0
    /\ retained' = NoFrame
    /\ UNCHANGED <<clientMode, peerVars, gaveUp, sealed, replies, net>>

-----------------------------------------------------------------------------
(* The peer. *)

\* handleData on the exact frame it answered last: the cached response.
RepeatData(f) ==
    /\ f = lastClientFrame
    /\ lastResponseFrame # NoFrame
    /\ net' = net \cup {lastResponseFrame}
    /\ UNCHANGED peerVars

\* Faulty variant of PeerOpens: the sequence number is not compared.
PeerOpensAnySequence(f) == f.key = MessageKey(peerMode, peerRecvChain)

\* openRecord: next sequence number, right key.
PeerOpens(f) == /\ f.seq = peerRecv
                /\ f.key = MessageKey(peerMode, peerRecvChain)

\* openRecord's commit, then the application sees the plaintext.
Deliver(f) ==
    /\ peerRecvChain' = NextChain(peerMode, peerRecvChain)
    /\ peerRecv' = peerRecv + 1
    /\ handled' = Append(handled, f.body)

\* sealRecord of the application's answer.  u64() throws when the number no
\* longer fits, which leaves the frame unanswered and uncached.
Respond(f) ==
    /\ peerSend <= SeqMax
    /\ LET r == Record("peer", peerSend, MessageKey(peerMode, peerSendChain),
                       f.body)
       IN /\ lastResponseFrame' = r
          /\ net' = net \cup {r}
    /\ peerSendChain' = NextChain(peerMode, peerSendChain)
    /\ peerSend' = peerSend + 1
    /\ lastClientFrame' = f

\* The application returns null: cached as "no response".
RespondNothing(f) ==
    /\ lastClientFrame' = f
    /\ lastResponseFrame' = NoFrame
    /\ UNCHANGED <<net, peerSend, peerSendChain>>

\* onPlaintext or sealRecord throws: openRecord's commit stays, the cache
\* still holds the previous exchange.
HandlerThrows ==
    UNCHANGED <<net, peerSend, peerSendChain, lastClientFrame,
                lastResponseFrame>>

\* handleData; a frame it rejects changes nothing.
handleData ==
    /\ \E f \in net :
         /\ f.from = "client"
         /\ \/ RepeatData(f)
            \/ /\ f # lastClientFrame
               /\ PeerOpens(f)
               /\ Deliver(f)
               /\ Respond(f) \/ RespondNothing(f) \/ HandlerThrows
               /\ UNCHANGED peerMode
    /\ UNCHANGED <<clientVars, callerVars>>

\* A frame is damaged on the way: its tag no longer verifies.
Corrupt ==
    /\ \E f \in net : net' = net \cup {[f EXCEPT !.key = BadKey]}
    /\ UNCHANGED <<clientVars, peerVars, callerVars>>

Next == \/ seal_record \/ GiveUp \/ open_record \/ close
        \/ handleData \/ Corrupt

Spec == Init /\ [][Next]_vars

-----------------------------------------------------------------------------

Chains == 0..(SeqMax + 1)
MessageKeys == [mode : Modes, chain : Chains]
Records == [from : {"client", "peer"}, seq : 0..SeqMax,
            key : MessageKeys \cup {BadKey}, body : 1..(SeqMax + 1)]

ASSUME NoFrameAssumption == NoFrame \notin Records
ASSUME BadKeyAssumption  == BadKey \notin MessageKeys

\* Type invariant: counters keep their width, and only whole records travel.
TypeOK ==
    /\ state \in {"ESTABLISHED", "READY"}
    /\ clientMode \in Modes /\ peerMode \in Modes
    /\ {send, recv} \subseteq 0..SeqMax
    /\ {peerSend, peerRecv} \subseteq 0..(SeqMax + 1)
    /\ {sendChain, recvChain, peerSendChain, peerRecvChain} \subseteq Chains
    /\ {lastClientFrame, lastResponseFrame, retained}
         \subseteq Records \cup {NoFrame}
    /\ gaveUp \in BOOLEAN
    /\ sealed \in Seq(1..SeqMax)
    /\ handled \in Seq(1..SeqMax)
    /\ replies \in Seq((1..SeqMax) \X (1..SeqMax))
    /\ net \subseteq Records

\* A (direction, key, sequence number) triple never protects two records:
\* retransmission repeats the frame, the counter never comes round.
NonceNeverReused ==
    \A f, g \in net :
        /\ f.key # BadKey
        /\ f.from = g.from /\ f.key = g.key /\ f.seq = g.seq
        => f = g

\* The peer's application sees what the client sealed, in order, each record
\* once, whatever the network repeats and however often the caller
\* retransmits; with different modes it sees nothing.
ExactlyOnceInOrder ==
    /\ IsPrefix(handled, sealed)
    /\ clientMode # peerMode => handled = <<>>

\* Answers are accepted at most once each, in the order of the requests they
\* answer, and only for requests the application has seen, also after the
\* caller gave up on some; as long as it never did, every accepted answer is
\* the answer to the request it has retained.
AnswersMatch ==
    /\ \A i, j \in DOMAIN replies : i < j => replies[i][2] < replies[j][2]
    /\ \A i \in DOMAIN replies : replies[i][2] \in Range(handled)
    /\ ~gaveUp => \A i \in DOMAIN replies : replies[i][1] = replies[i][2]

\* Every end's ratchet has taken one step per record it committed, so no
\* failed open or refused seal desynchronises the chains.
RatchetInStep ==
    LET Step(mode, seq) == IF mode = "PQ_BOOTSTRAP_RATCHET" THEN seq ELSE 0 IN
    /\ sendChain = Step(clientMode, send)
    /\ recvChain = Step(clientMode, recv)
    /\ peerSendChain = Step(peerMode, peerSend)
    /\ peerRecvChain = Step(peerMode, peerRecv)

\* The sequence numbers of a live session never go back ("may never wrap",
\* docs/PROTOCOL.md).  open has no limit check of its own: it is the limit
\* in seal, and that the peer only ever answers, that keep it from wrapping.
SequencesNeverWrap ==
    [][state' = "ESTABLISHED" => send' >= send /\ recv' >= recv]_vars
==============================================================================
