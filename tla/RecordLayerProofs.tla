------------------------- MODULE RecordLayerProofs -------------------------
(***************************************************************************)
(* Proofs about the application records of a C0-PQLink session: seal and   *)
(* open of src/session/ratchet.c against openRecord, sealRecord and        *)
(* handleData of reference-peer/protocol.mjs, for every width of the       *)
(* sequence number, over a network that loses, repeats, reorders and       *)
(* damages frames, and for every pair of modes.                            *)
(***************************************************************************)
EXTENDS RecordLayer, TLAPS

-----------------------------------------------------------------------------
(* The inductive invariant. *)

\* The n-th content is the number n; the peer has taken a prefix.
Histories ==
    /\ Len(sealed) <= SeqMax /\ \A i \in DOMAIN sealed : sealed[i] = i
    /\ state = "ESTABLISHED" => Len(sealed) = send
    /\ Len(handled) = peerRecv /\ \A i \in DOMAIN handled : handled[i] = i
    /\ peerRecv <= Len(sealed)
    /\ clientMode # peerMode => peerRecv = 0

\* A request carries the content its sequence number stands for.
ClientFrames ==
    \A f \in net : f.from = "client" =>
        /\ f.seq < Len(sealed)
        /\ f.body = f.seq + 1
        /\ f.key \in {BadKey, MessageKey(clientMode, f.seq)}

\* Answers are numbered in the order of the requests they answer.
PeerFrames ==
    /\ peerSend <= peerRecv
    /\ \A f \in net : f.from = "peer" =>
         /\ f.seq < peerSend
         /\ f.seq < f.body /\ f.body <= peerRecv
         /\ f.key \in {BadKey, MessageKey(peerMode, f.seq)}
    /\ \A f, g \in net : f.from = "peer" /\ g.from = "peer" =>
         /\ f.seq = g.seq => f.body = g.body
         /\ f.seq < g.seq => f.body < g.body

\* What the caller retains and what the peer caches was on the network before.
Cached ==
    /\ lastResponseFrame # NoFrame => lastResponseFrame \in net
    /\ retained # NoFrame => retained \in net /\ retained.from = "client"

\* The client has taken a prefix of the answers; the ones to come are about
\* later requests.
Answers ==
    /\ Len(replies) <= peerSend
    /\ state = "ESTABLISHED" => Len(replies) = recv
    /\ \A i \in DOMAIN replies : replies[i][2] <= peerRecv
    /\ \A i, j \in DOMAIN replies : i < j => replies[i][2] < replies[j][2]
    /\ \A f \in net : \A i \in DOMAIN replies :
         f.from = "peer" /\ f.seq >= i => f.body > replies[i][2]

\* A caller that never gave up has at most its last record unanswered.
StopAndWait ==
    ~gaveUp =>
        /\ state = "ESTABLISHED" =>
             IF retained = NoFrame THEN recv = send
             ELSE recv + 1 = send /\ retained.body = send
        /\ \A i \in DOMAIN replies : replies[i][1] = replies[i][2]

RecordInv == /\ TypeOK /\ Histories /\ ClientFrames /\ PeerFrames /\ Cached
             /\ Answers /\ StopAndWait /\ RatchetInStep

-----------------------------------------------------------------------------
(* Facts about the model's operators. *)

\* What Append does to length, domain and elements.
LEMMA AppendFacts ==
    ASSUME NEW S, NEW s \in Seq(S), NEW e \in S
    PROVE  /\ Append(s, e) \in Seq(S)
           /\ Len(s) \in Nat /\ DOMAIN s = 1 .. Len(s)
           /\ Len(Append(s, e)) = Len(s) + 1
           /\ DOMAIN Append(s, e) = 1 .. (Len(s) + 1)
           /\ \A i \in 1 .. Len(s) : Append(s, e)[i] = s[i]
           /\ Append(s, e)[Len(s) + 1] = e
OBVIOUS

\* Below the last value ++ adds one.
LEMMA IncrementExact ==
    ASSUME NEW n \in Nat, n < SeqMax PROVE Increment(n) = n + 1
BY SeqMaxAssumption DEF Increment

\* A message key is a key, and the keys of two modes differ.
LEMMA KeyFacts ==
    ASSUME NEW m \in Modes, NEW c \in 0 .. SeqMax
    PROVE  /\ MessageKey(m, c) \in MessageKeys /\ MessageKey(m, c) # BadKey
           /\ \A n, d : n # m => MessageKey(n, d) # MessageKey(m, c)
<1>1. MessageKey(m, c) \in MessageKeys
  BY SeqMaxAssumption DEF MessageKey, MessageKeys, Chains, Modes
<1>2. ASSUME NEW n, NEW d, n # m PROVE MessageKey(n, d) # MessageKey(m, c)
  <2>1. MessageKey(n, d).mode = n /\ MessageKey(m, c).mode = m
    BY DEF MessageKey
  <2> QED
    BY <1>2, <2>1
<1> QED
  BY <1>1, <1>2, BadKeyAssumption

\* The parts of the type invariant, one by one.
LEMMA RecordTypes ==
    ASSUME TypeOK
    PROVE  /\ SeqMax \in Nat
           /\ send \in Nat /\ send <= SeqMax /\ recv \in Nat /\ recv <= SeqMax
           /\ peerSend \in Nat /\ peerRecv \in Nat
           /\ sealed \in Seq(1..SeqMax) /\ handled \in Seq(1..SeqMax)
           /\ replies \in Seq((1..SeqMax) \X (1..SeqMax))
           /\ Len(sealed) \in Nat /\ Len(handled) \in Nat /\ Len(replies) \in Nat
           /\ net \subseteq Records
           /\ \A f \in net : f.seq \in Nat /\ f.body \in Nat
           /\ clientMode \in Modes /\ peerMode \in Modes
BY SeqMaxAssumption DEF TypeOK, Records

\* The current keys are those of the current sequence numbers.
LEMMA KeysInStep ==
    ASSUME RatchetInStep
    PROVE  /\ MessageKey(clientMode, sendChain) = MessageKey(clientMode, send)
           /\ MessageKey(clientMode, recvChain) = MessageKey(clientMode, recv)
           /\ MessageKey(peerMode, peerSendChain) = MessageKey(peerMode, peerSend)
           /\ MessageKey(peerMode, peerRecvChain) = MessageKey(peerMode, peerRecv)
BY DEF RatchetInStep, MessageKey

-----------------------------------------------------------------------------
(* The client's steps. *)

\* seal_record keeps the invariant: the limit in seal keeps ++ exact.
LEMMA SealKeeps == ASSUME RecordInv, seal_record PROVE RecordInv'
<1> DEFINE body == Len(sealed) + 1
           f == Record("client", send, MessageKey(clientMode, sendChain), body)
<1>1. TypeOK /\ Histories /\ ClientFrames /\ PeerFrames /\ Cached /\ Answers
      /\ StopAndWait /\ RatchetInStep
  BY DEF RecordInv
<1>2. /\ retained = NoFrame /\ state = "ESTABLISHED" /\ send # SeqMax
      /\ retained' = f /\ net' = net \cup {f} /\ sealed' = Append(sealed, body)
      /\ sendChain' = NextChain(clientMode, sendChain)
      /\ send' = Increment(send)
      /\ UNCHANGED <<state, clientMode, recv, recvChain, gaveUp, replies>>
      /\ UNCHANGED <<peerMode, peerSend, peerRecv, peerSendChain, peerRecvChain,
                     lastClientFrame, lastResponseFrame, handled>>
  BY DEF seal_record, MaySeal, peerVars
<1>3. send < SeqMax /\ send' = send + 1 /\ body = send + 1 /\ send \in Nat
  <2>1. send < SeqMax /\ send \in Nat /\ body = send + 1
    BY <1>1, <1>2, RecordTypes DEF Histories
  <2> QED
    BY <1>2, <2>1, IncrementExact
<1>4. f.from = "client" /\ f.seq = send /\ f.body = body
      /\ f.key = MessageKey(clientMode, send) /\ f \in Records
  <2>1. MessageKey(clientMode, send) \in MessageKeys
    BY <1>1, <1>3, KeyFacts, RecordTypes
  <2> QED
    BY <1>1, <1>3, <2>1, KeysInStep, RecordTypes DEF Record, Records
<1> HIDE DEF f
<1>5. /\ sealed' \in Seq(1..SeqMax) /\ Len(sealed') = Len(sealed) + 1
      /\ DOMAIN sealed' = 1 .. (Len(sealed) + 1) /\ DOMAIN sealed = 1 .. Len(sealed)
      /\ \A i \in 1 .. Len(sealed) : sealed'[i] = sealed[i]
      /\ sealed'[Len(sealed) + 1] = body
      /\ Len(sealed) \in Nat
  <2>1. body \in 1 .. SeqMax
    BY <1>3, SeqMaxAssumption
  <2> QED
    BY <1>1, <1>2, <2>1, AppendFacts, RecordTypes
<1>6. TypeOK'
  <2>1. sendChain' \in Chains
    BY <1>1, <1>2, <1>3, RecordTypes DEF NextChain, Chains, RatchetInStep
  <2> QED
    BY <1>1, <1>2, <1>3, <1>4, <1>5, <2>1, RecordTypes DEF TypeOK
<1>7. Histories'
  BY <1>1, <1>2, <1>3, <1>5, RecordTypes DEF Histories
<1>8. ClientFrames'
  BY <1>1, <1>2, <1>3, <1>4, <1>5, RecordTypes, SMTT(30) DEF ClientFrames, Histories
<1>9. PeerFrames' /\ Cached'
  BY <1>1, <1>2, <1>4, NoFrameAssumption DEF PeerFrames, Cached
<1>10. Answers'
  BY <1>1, <1>2, <1>4 DEF Answers
<1>11. StopAndWait'
  BY <1>1, <1>2, <1>3, <1>4, NoFrameAssumption DEF StopAndWait
<1>12. RatchetInStep'
  BY <1>1, <1>2, <1>3 DEF RatchetInStep, NextChain
<1> QED
  BY <1>6, <1>7, <1>8, <1>9, <1>10, <1>11, <1>12 DEF RecordInv

\* Giving up, and closing, keep the invariant.
LEMMA DropKeeps == ASSUME RecordInv, GiveUp \/ close PROVE RecordInv'
<1>1. TypeOK /\ Histories /\ ClientFrames /\ PeerFrames /\ Cached /\ Answers
      /\ StopAndWait /\ RatchetInStep
  BY DEF RecordInv
<1>2. /\ retained' = NoFrame
      /\ UNCHANGED <<clientMode, sealed, replies, net, peerMode, peerSend, peerRecv,
                     peerSendChain, peerRecvChain, lastClientFrame,
                     lastResponseFrame, handled>>
      /\ \/ gaveUp' = TRUE /\ UNCHANGED <<state, send, recv, sendChain, recvChain>>
         \/ /\ state' = "READY" /\ UNCHANGED gaveUp
            /\ send' = 0 /\ recv' = 0 /\ sendChain' = 0 /\ recvChain' = 0
  BY DEF GiveUp, close, clientVars, peerVars
<1>3. TypeOK'
  <2>1. gaveUp' \in BOOLEAN
    BY <1>1, <1>2, Zenon DEF TypeOK
  <2>2. /\ state' \in {"ESTABLISHED", "READY"} /\ {send', recv'} \subseteq 0..SeqMax
        /\ {sendChain', recvChain'} \subseteq Chains
    BY <1>1, <1>2, SeqMaxAssumption, SMTT(30) DEF TypeOK, Chains
  <2> QED
    BY <1>1, <1>2, <2>1, <2>2 DEF TypeOK
<1>4. Histories' /\ ClientFrames' /\ PeerFrames' /\ Cached' /\ Answers'
  BY <1>1, <1>2 DEF Histories, ClientFrames, PeerFrames, Cached, Answers
<1>5. StopAndWait'
  BY <1>1, <1>2 DEF StopAndWait
<1>6. RatchetInStep'
  BY <1>1, <1>2 DEF RatchetInStep
<1> QED
  BY <1>3, <1>4, <1>5, <1>6 DEF RecordInv

\* open_record keeps the invariant: the answer it takes exists, so the number
\* of the next one is at most send and ++ is exact.
LEMMA OpenKeeps == ASSUME RecordInv, open_record PROVE RecordInv'
<1>1. TypeOK /\ Histories /\ ClientFrames /\ PeerFrames /\ Cached /\ Answers
      /\ StopAndWait /\ RatchetInStep
  BY DEF RecordInv
<1>2. PICK f \in net :
         /\ f.from = "peer" /\ f.seq = recv
         /\ recvChain' = NextChain(clientMode, recvChain)
         /\ recv' = Increment(recv)
         /\ replies' = Append(replies, <<retained.body, f.body>>)
         /\ retained' = NoFrame
  BY DEF open_record, InSequence
<1>3. /\ state = "ESTABLISHED" /\ retained # NoFrame
      /\ UNCHANGED <<state, clientMode, send, sendChain, gaveUp, sealed, net>>
      /\ UNCHANGED <<peerMode, peerSend, peerRecv, peerSendChain, peerRecvChain,
                     lastClientFrame, lastResponseFrame, handled>>
  BY DEF open_record, peerVars
<1>4. /\ recv < peerSend /\ peerSend <= peerRecv /\ peerRecv <= send
      /\ recv < f.body /\ f.body <= peerRecv /\ f.body \in Nat
      /\ recv' = recv + 1 /\ recv \in Nat
  <2>1. /\ f.seq < peerSend /\ f.seq < f.body /\ f.body <= peerRecv
        /\ peerSend <= peerRecv
    BY <1>1, <1>2 DEF PeerFrames
  <2>2. peerRecv <= send
    BY <1>1, <1>3 DEF Histories
  <2>3. /\ recv \in Nat /\ send \in Nat /\ send <= SeqMax /\ peerSend \in Nat
        /\ peerRecv \in Nat /\ f.body \in Nat /\ SeqMax \in Nat
    BY <1>1, RecordTypes
  <2>4. recv < SeqMax
    BY <1>2, <2>1, <2>2, <2>3
  <2> QED
    BY <1>2, <2>1, <2>2, <2>3, <2>4, IncrementExact
<1>5. f.body \in 1 .. SeqMax /\ retained.body \in 1 .. SeqMax
  <2>1. send <= SeqMax /\ send \in Nat /\ peerRecv \in Nat /\ SeqMax \in Nat
    BY <1>1, RecordTypes
  <2>2. f.body \in 1 .. SeqMax
    BY <1>4, <2>1
  <2>3. /\ retained \in net /\ retained.from = "client"
        /\ retained.seq \in Nat /\ Len(sealed) = send
    BY <1>1, <1>3, RecordTypes DEF Cached, Histories
  <2>4. retained.seq < send /\ retained.body = retained.seq + 1
    BY <1>1, <2>3 DEF ClientFrames
  <2> QED
    BY <2>1, <2>2, <2>3, <2>4
<1>6. /\ replies' \in Seq((1..SeqMax) \X (1..SeqMax))
      /\ Len(replies') = recv + 1 /\ Len(replies) = recv
      /\ DOMAIN replies' = 1 .. (recv + 1) /\ DOMAIN replies = 1 .. recv
      /\ \A i \in 1 .. recv : replies'[i] = replies[i]
      /\ replies'[recv + 1] = <<retained.body, f.body>>
  <2>1. <<retained.body, f.body>> \in (1..SeqMax) \X (1..SeqMax)
    BY <1>5
  <2>2. Len(replies) = recv /\ replies \in Seq((1..SeqMax) \X (1..SeqMax))
    BY <1>1, <1>3, RecordTypes DEF Answers
  <2> QED
    BY <1>2, <2>1, <2>2, AppendFacts
<1>7. TypeOK'
  <2>1. recvChain' \in Chains
    BY <1>1, <1>2, <1>4, RecordTypes DEF NextChain, Chains, RatchetInStep
  <2> QED
    BY <1>1, <1>2, <1>3, <1>4, <1>6, <2>1, RecordTypes DEF TypeOK
<1>8. Histories' /\ ClientFrames' /\ PeerFrames' /\ Cached'
  BY <1>1, <1>2, <1>3 DEF Histories, ClientFrames, PeerFrames, Cached
<1>9. Answers'
  <2>1. \A i \in 1 .. recv : \A g \in net :
          g.from = "peer" /\ g.seq >= i => g.body > replies[i][2]
    BY <1>1, <1>6 DEF Answers
  <2>2. \A g \in net : g.from = "peer" /\ g.seq >= recv + 1 => g.body > f.body
    BY <1>1, <1>2, <1>4, RecordTypes DEF PeerFrames
  <2>3. \A i \in 1 .. recv : replies[i][2] < f.body /\ replies[i][2] \in Nat
                             /\ replies[i][2] <= peerRecv
    <3> SUFFICES ASSUME NEW i \in 1 .. recv
                 PROVE  replies[i][2] < f.body /\ replies[i][2] \in Nat
                        /\ replies[i][2] <= peerRecv
      OBVIOUS
    <3>1. i \in DOMAIN replies /\ f.seq >= i
      BY <1>2, <1>4, <1>6
    <3>2. replies[i] \in (1..SeqMax) \X (1..SeqMax)
      BY <1>1, <3>1, RecordTypes
    <3>3. replies[i][2] \in Nat
      BY <3>2, SeqMaxAssumption
    <3>4. f.body > replies[i][2] /\ replies[i][2] <= peerRecv
      BY <1>1, <1>2, <3>1 DEF Answers
    <3> QED
      BY <1>4, <3>3, <3>4
  <2>4. \A i, j \in 1 .. recv : i < j => replies[i][2] < replies[j][2]
    BY <1>1, <1>6 DEF Answers
  <2>5. \A i \in 1 .. recv : replies'[i][2] = replies[i][2]
    BY <1>6
  <2>6. replies'[recv + 1][2] = f.body
    BY <1>6
  <2>7. (\A i \in DOMAIN replies : replies[i][2] <= peerRecv)'
    BY <1>3, <1>4, <1>6, <2>3, <2>5, <2>6
  <2>8. (\A i, j \in DOMAIN replies : i < j => replies[i][2] < replies[j][2])'
    <3> SUFFICES ASSUME NEW i \in DOMAIN replies', NEW j \in DOMAIN replies', i < j
                 PROVE  replies'[i][2] < replies'[j][2]
      OBVIOUS
    <3>1. /\ i \in 1 .. recv
          /\ j \in 1 .. recv \/ j = recv + 1
      <4>1. recv \in Nat
        BY <1>1, RecordTypes
      <4>2. i \in 1 .. (recv + 1) /\ j \in 1 .. (recv + 1)
        BY <1>6
      <4> QED
        BY <4>1, <4>2
    <3>2. CASE j \in 1 .. recv
      BY <2>4, <2>5, <3>1, <3>2
    <3>3. CASE j = recv + 1
      BY <2>3, <2>5, <2>6, <3>1, <3>3
    <3> QED
      BY <3>1, <3>2, <3>3
  <2>9. (\A g \in net : \A i \in DOMAIN replies :
           g.from = "peer" /\ g.seq >= i => g.body > replies[i][2])'
    BY <1>3, <1>4, <1>6, <2>1, <2>2, <2>5, <2>6
  <2>10. (Len(replies) <= peerSend /\ Len(replies) = recv)'
    BY <1>1, <1>3, <1>4, <1>6, RecordTypes
  <2> QED
    BY <2>7, <2>8, <2>9, <2>10 DEF Answers
<1>10. StopAndWait'
  <2> SUFFICES ASSUME ~gaveUp PROVE StopAndWait'
    BY <1>3 DEF StopAndWait
  <2>1. recv + 1 = send /\ retained.body = send /\ f.body = send
    BY <1>1, <1>3, <1>4, RecordTypes DEF StopAndWait
  <2>2. \A i \in 1 .. recv : replies[i][1] = replies[i][2]
    BY <1>1, <1>6 DEF StopAndWait
  <2> QED
    BY <1>2, <1>3, <1>4, <1>6, <2>1, <2>2 DEF StopAndWait
<1>11. RatchetInStep'
  BY <1>1, <1>2, <1>3, <1>4 DEF RatchetInStep, NextChain
<1> QED
  BY <1>7, <1>8, <1>9, <1>10, <1>11 DEF RecordInv

-----------------------------------------------------------------------------
(* The peer's steps and the network's. *)

\* A repeated or damaged frame keeps the invariant.
LEMMA NetworkKeeps ==
    ASSUME RecordInv, UNCHANGED <<clientVars, peerVars, callerVars>>,
           NEW f \in net, NEW k \in {f.key, BadKey},
           net' = net \cup {[f EXCEPT !.key = k]}
    PROVE  RecordInv'
<1> DEFINE g == [f EXCEPT !.key = k]
<1>1. TypeOK /\ Histories /\ ClientFrames /\ PeerFrames /\ Cached /\ Answers
      /\ StopAndWait /\ RatchetInStep
  BY DEF RecordInv
<1>2. /\ UNCHANGED <<state, clientMode, send, recv, sendChain, recvChain>>
      /\ UNCHANGED <<peerMode, peerSend, peerRecv, peerSendChain, peerRecvChain,
                     lastClientFrame, lastResponseFrame, handled>>
      /\ UNCHANGED <<retained, gaveUp, sealed, replies>>
  BY DEF clientVars, peerVars, callerVars
<1>3. /\ g \in Records /\ g.from = f.from /\ g.seq = f.seq /\ g.body = f.body
      /\ g.key = f.key \/ g.key = BadKey
  BY <1>1, RecordTypes DEF Records
<1>4. net' = net \cup {g}
  OBVIOUS
<1> HIDE DEF g
<1>5. TypeOK'
  BY <1>1, <1>2, <1>3, <1>4 DEF TypeOK
<1>6. Histories' /\ StopAndWait' /\ RatchetInStep'
  BY <1>1, <1>2 DEF Histories, StopAndWait, RatchetInStep
<1>7. ClientFrames'
  BY <1>1, <1>2, <1>3, <1>4 DEF ClientFrames
<1>8. PeerFrames'
  BY <1>1, <1>2, <1>3, <1>4 DEF PeerFrames
<1>9. Cached' /\ Answers'
  BY <1>1, <1>2, <1>3, <1>4 DEF Cached, Answers
<1> QED
  BY <1>5, <1>6, <1>7, <1>8, <1>9 DEF RecordInv

\* Taking a new request keeps the invariant, whether the application answers,
\* returns null or throws.
LEMMA DeliverKeeps ==
    ASSUME RecordInv, UNCHANGED <<clientVars, callerVars, peerMode>>,
           NEW f \in net, f.from = "client", PeerOpens(f), Deliver(f),
           Respond(f) \/ RespondNothing(f) \/ HandlerThrows
    PROVE  RecordInv'
<1>1. TypeOK /\ Histories /\ ClientFrames /\ PeerFrames /\ Cached /\ Answers
      /\ StopAndWait /\ RatchetInStep
  BY DEF RecordInv
<1>2. /\ UNCHANGED <<state, clientMode, send, recv, sendChain, recvChain>>
      /\ UNCHANGED <<retained, gaveUp, sealed, replies, peerMode>>
  BY DEF clientVars, callerVars
<1>3. /\ f.seq = peerRecv /\ peerRecv < Len(sealed) /\ f.body = peerRecv + 1
      /\ peerRecv + 1 <= SeqMax
      /\ clientMode = peerMode
  <2>1. f.seq = peerRecv /\ f.key = MessageKey(peerMode, peerRecv)
    BY <1>1, KeysInStep DEF PeerOpens
  <2>2. peerRecv < Len(sealed) /\ f.body = peerRecv + 1 /\ peerRecv + 1 <= SeqMax
    BY <1>1, <2>1, RecordTypes DEF ClientFrames, Histories
  <2>3. peerMode \in Modes /\ peerRecv \in 0 .. SeqMax
    BY <1>1, <2>2, RecordTypes
  <2>4. f.key # BadKey
    BY <2>1, <2>3, KeyFacts
  <2>5. f.key = MessageKey(clientMode, peerRecv)
    BY <1>1, <2>1, <2>4 DEF ClientFrames
  <2> QED
    BY <2>1, <2>2, <2>3, <2>5, KeyFacts
<1>4. /\ peerRecv' = peerRecv + 1 /\ handled' = Append(handled, f.body)
      /\ peerRecvChain' = NextChain(peerMode, peerRecvChain)
  BY DEF Deliver
<1>5. /\ handled' \in Seq(1..SeqMax) /\ Len(handled') = peerRecv + 1
      /\ DOMAIN handled' = 1 .. (peerRecv + 1) /\ DOMAIN handled = 1 .. peerRecv
      /\ \A i \in 1 .. peerRecv : handled'[i] = handled[i]
      /\ handled'[peerRecv + 1] = peerRecv + 1
      /\ peerRecv \in Nat
  <2>1. f.body \in 1 .. SeqMax /\ f.body = peerRecv + 1
    BY <1>1, <1>3, RecordTypes
  <2>2. handled \in Seq(1..SeqMax) /\ Len(handled) = peerRecv /\ peerRecv \in Nat
    BY <1>1, RecordTypes DEF Histories
  <2> QED
    BY <1>4, <2>1, <2>2, AppendFacts
<1>6. Histories'
  BY <1>1, <1>2, <1>3, <1>4, <1>5, RecordTypes DEF Histories
<1>7. StopAndWait'
  BY <1>1, <1>2 DEF StopAndWait
<1>8. peerRecvChain' \in Chains
  BY <1>1, <1>3, <1>4, RecordTypes DEF NextChain, Chains, RatchetInStep
<1>9. CASE Respond(f)
  <2> DEFINE r == Record("peer", peerSend, MessageKey(peerMode, peerSendChain), f.body)
  <2>1. /\ lastResponseFrame' = r /\ net' = net \cup {r}
        /\ peerSendChain' = NextChain(peerMode, peerSendChain)
        /\ peerSend' = peerSend + 1 /\ lastClientFrame' = f
    BY <1>9 DEF Respond
  <2>2. peerSend <= peerRecv /\ peerSend \in Nat /\ peerSend \in 0 .. SeqMax
    BY <1>1, <1>3, RecordTypes DEF PeerFrames
  <2>3. /\ r \in Records /\ r.from = "peer" /\ r.seq = peerSend
        /\ r.body = peerRecv + 1 /\ r.key = MessageKey(peerMode, peerSend)
    <3>1. MessageKey(peerMode, peerSend) \in MessageKeys
      BY <1>1, <2>2, KeyFacts, RecordTypes
    <3> QED
      BY <1>1, <1>3, <1>5, <2>2, <3>1, KeysInStep, SeqMaxAssumption DEF Record, Records
  <2> HIDE DEF r
  <2>4. TypeOK'
    <3>1. peerSendChain' \in Chains
      BY <1>1, <2>1, <2>2, SeqMaxAssumption DEF NextChain, Chains, RatchetInStep
    <3>2. {peerSend', peerRecv'} \subseteq 0..(SeqMax + 1)
      BY <1>3, <1>4, <1>5, <2>1, <2>2, SeqMaxAssumption
    <3>3. f \in Records
      BY <1>1, RecordTypes
    <3>4. {lastClientFrame', lastResponseFrame', retained'}
            \subseteq Records \cup {NoFrame}
      BY <1>1, <1>2, <2>1, <2>3, <3>3 DEF TypeOK
    <3>5. net' \subseteq Records
      BY <1>1, <2>1, <2>3 DEF TypeOK
    <3>6. {sendChain', recvChain', peerSendChain', peerRecvChain'} \subseteq Chains
      BY <1>1, <1>2, <1>8, <3>1 DEF TypeOK
    <3> QED
      BY <1>1, <1>2, <1>5, <3>2, <3>4, <3>5, <3>6 DEF TypeOK
  <2>5. ClientFrames'
    BY <1>1, <1>2, <2>1, <2>3 DEF ClientFrames
  <2>6. PeerFrames'
    <3>1. \A g \in net : g.seq \in Nat /\ g.body \in Nat
      BY <1>1, RecordTypes
    <3>2. \A g \in net : g.from = "peer" =>
            /\ g.seq < peerSend
            /\ g.seq < g.body /\ g.body <= peerRecv
            /\ g.key \in {BadKey, MessageKey(peerMode, g.seq)}
      BY <1>1 DEF PeerFrames
    <3>3. \A g \in net' : g.from = "peer" =>
            /\ g.seq < peerSend'
            /\ g.seq < g.body /\ g.body <= peerRecv'
            /\ g.key \in {BadKey, MessageKey(peerMode', g.seq)}
      BY <1>2, <1>4, <1>5, <2>1, <2>2, <2>3, <3>1, <3>2
    <3>4. \A g \in net : g.from = "peer" => g.seq < r.seq /\ g.body < r.body
      BY <1>5, <2>2, <2>3, <3>1, <3>2
    <3>5. r.seq \in Nat /\ r.body \in Nat
      BY <1>5, <2>2, <2>3
    <3>6. \A g, h \in net' : g.from = "peer" /\ h.from = "peer" =>
            /\ g.seq = h.seq => g.body = h.body
            /\ g.seq < h.seq => g.body < h.body
      BY <1>1, <2>1, <3>1, <3>4, <3>5 DEF PeerFrames
    <3> QED
      BY <1>4, <1>5, <2>1, <2>2, <3>3, <3>6 DEF PeerFrames
  <2>7. Cached'
    BY <1>1, <1>2, <2>1 DEF Cached
  <2>8. Answers'
    <3>1. replies \in Seq((1..SeqMax) \X (1..SeqMax)) /\ Len(replies) \in Nat
      BY <1>1, RecordTypes
    <3>2. \A i \in DOMAIN replies : replies[i][2] \in Nat
      BY <3>1, SeqMaxAssumption
    <3> QED
      BY <1>1, <1>2, <1>4, <1>5, <2>1, <2>2, <2>3, <3>1, <3>2 DEF Answers
  <2>9. RatchetInStep'
    BY <1>1, <1>2, <1>4, <2>1 DEF RatchetInStep, NextChain
  <2> QED
    BY <1>6, <1>7, <2>4, <2>5, <2>6, <2>7, <2>8, <2>9 DEF RecordInv
<1>10. CASE RespondNothing(f) \/ HandlerThrows
  <2>1. /\ UNCHANGED <<net, peerSend, peerSendChain>>
        /\ lastClientFrame' \in {f, lastClientFrame}
        /\ lastResponseFrame' \in {NoFrame, lastResponseFrame}
    BY <1>10 DEF RespondNothing, HandlerThrows
  <2>2. TypeOK'
    <3>1. peerRecv' \in 0..(SeqMax + 1)
      BY <1>3, <1>4, <1>5, SeqMaxAssumption
    <3>2. f \in Records
      BY <1>1, RecordTypes
    <3> QED
      BY <1>1, <1>2, <1>5, <1>8, <2>1, <3>1, <3>2 DEF TypeOK
  <2>3. ClientFrames'
    BY <1>1, <1>2, <2>1 DEF ClientFrames
  <2>4. PeerFrames'
    BY <1>1, <1>2, <1>4, <1>5, <2>1, RecordTypes DEF PeerFrames
  <2>5. Cached'
    BY <1>1, <1>2, <2>1 DEF Cached
  <2>6. Answers'
    <3>1. replies \in Seq((1..SeqMax) \X (1..SeqMax)) /\ Len(replies) \in Nat
      BY <1>1, RecordTypes
    <3>2. \A i \in DOMAIN replies : replies[i][2] \in Nat
      BY <3>1, SeqMaxAssumption
    <3> QED
      BY <1>1, <1>2, <1>4, <1>5, <2>1, <3>1, <3>2 DEF Answers
  <2>7. RatchetInStep'
    BY <1>1, <1>2, <1>4, <2>1 DEF RatchetInStep, NextChain
  <2> QED
    BY <1>6, <1>7, <2>2, <2>3, <2>4, <2>5, <2>6, <2>7 DEF RecordInv
<1> QED
  BY <1>9, <1>10

-----------------------------------------------------------------------------
(* The theorems. *)

\* A fresh session satisfies the invariant.
LEMMA RecordInit == Init => RecordInv
<1> SUFFICES ASSUME Init PROVE RecordInv
  OBVIOUS
<1>1. /\ state = "ESTABLISHED" /\ clientMode \in Modes /\ peerMode \in Modes
      /\ send = 0 /\ recv = 0 /\ sendChain = 0 /\ recvChain = 0
      /\ peerSend = 0 /\ peerRecv = 0 /\ peerSendChain = 0 /\ peerRecvChain = 0
      /\ lastClientFrame = NoFrame /\ lastResponseFrame = NoFrame
      /\ retained = NoFrame
      /\ sealed = <<>> /\ handled = <<>> /\ replies = <<>> /\ net = {}
  BY DEF Init
<1>2. gaveUp \in BOOLEAN
  BY Zenon DEF Init
<1>3. TypeOK
  BY <1>1, <1>2, SeqMaxAssumption DEF TypeOK, Chains
<1>4. Histories /\ ClientFrames /\ PeerFrames /\ Cached /\ Answers /\ StopAndWait
  BY <1>1, SeqMaxAssumption
     DEF Histories, ClientFrames, PeerFrames, Cached, Answers, StopAndWait
<1>5. RatchetInStep
  BY <1>1 DEF RatchetInStep
<1> QED
  BY <1>3, <1>4, <1>5 DEF RecordInv

\* No step of client, caller, peer or network breaks the invariant.
LEMMA RecordStep == ASSUME RecordInv, [Next]_vars PROVE RecordInv'
<1>1. ASSUME handleData PROVE RecordInv'
  <2>1. PICK f \in net :
          /\ f.from = "client"
          /\ \/ RepeatData(f)
             \/ /\ f # lastClientFrame
                /\ PeerOpens(f)
                /\ Deliver(f)
                /\ Respond(f) \/ RespondNothing(f) \/ HandlerThrows
                /\ UNCHANGED peerMode
    BY <1>1 DEF handleData
  <2>2. UNCHANGED <<clientVars, callerVars>>
    BY <1>1 DEF handleData
  <2>3. CASE RepeatData(f)
    <3> DEFINE r == lastResponseFrame
    <3>1. r \in net /\ net' = net \cup {r} /\ UNCHANGED peerVars /\ r \in Records
      BY <2>3 DEF RepeatData, RecordInv, Cached, TypeOK
    <3>2. [r EXCEPT !.key = r.key] = r
      BY <3>1 DEF Records
    <3>3. \E k \in {r.key, BadKey} : net' = net \cup {[r EXCEPT !.key = k]}
      BY <3>1, <3>2
    <3> QED
      BY <2>2, <3>1, <3>3, NetworkKeeps
  <2>4. CASE ~RepeatData(f)
    BY <2>1, <2>2, <2>4, DeliverKeeps
  <2> QED
    BY <2>3, <2>4
<1>2. ASSUME Corrupt PROVE RecordInv'
  BY <1>2, NetworkKeeps DEF Corrupt
<1>3. ASSUME UNCHANGED vars PROVE RecordInv'
  BY <1>3 DEF vars, clientVars, peerVars, callerVars, RecordInv, TypeOK, Histories,
              ClientFrames, PeerFrames, Cached, Answers, StopAndWait, RatchetInStep
<1> QED
  BY <1>1, <1>2, <1>3, SealKeeps, DropKeeps, OpenKeeps DEF Next

\* The invariant holds in every session.
LEMMA RecordInvariant == Spec => []RecordInv
BY RecordInit, RecordStep, PTL DEF Spec

\* Counters, chains and frames keep their types: no ++ ever wraps.
THEOREM RecordTypeCorrect == Spec => []TypeOK
<1>1. RecordInv => TypeOK
  BY DEF RecordInv
<1> QED
  BY <1>1, RecordInvariant, PTL

\* No key and sequence number of a direction ever protect two records
\* (ratchet.c, seal; protocol.mjs, sealRecord).
THEOREM NoncesAreFresh == Spec => []NonceNeverReused
<1>1. RecordInv => NonceNeverReused
  <2> SUFFICES ASSUME RecordInv, NEW f \in net, NEW g \in net, f.from = g.from,
                      f.key = g.key, f.seq = g.seq
               PROVE  f = g
    BY DEF NonceNeverReused
  <2>1. f \in Records /\ g \in Records
    BY DEF RecordInv, TypeOK
  <2>2. f.body = g.body
    <3>1. CASE f.from = "client"
      BY <3>1 DEF RecordInv, ClientFrames
    <3>2. CASE f.from = "peer"
      BY <3>2 DEF RecordInv, PeerFrames
    <3> QED
      BY <2>1, <3>1, <3>2 DEF Records
  <2> QED
    BY <2>1, <2>2 DEF Records
<1> QED
  BY <1>1, RecordInvariant, PTL

\* The peer's application sees a prefix of what the client sealed, each record
\* once, and nothing when the modes differ (protocol.mjs, handleData).
THEOREM DeliveredExactlyOnce == Spec => []ExactlyOnceInOrder
<1>1. RecordInv => ExactlyOnceInOrder
  <2> SUFFICES ASSUME RecordInv PROVE ExactlyOnceInOrder
    OBVIOUS
  <2>1. TypeOK /\ Histories
    BY DEF RecordInv
  <2>2. Len(handled) <= Len(sealed)
    BY <2>1, RecordTypes DEF Histories
  <2>3. /\ handled \in Seq(1..SeqMax) /\ sealed \in Seq(1..SeqMax)
        /\ Len(handled) \in Nat /\ Len(sealed) \in Nat
        /\ DOMAIN handled = 1 .. Len(handled) /\ DOMAIN sealed = 1 .. Len(sealed)
    BY <2>1, RecordTypes
  <2>4. \A i \in 1 .. Len(handled) : handled[i] = sealed[i]
    BY <2>1, <2>2, <2>3 DEF Histories
  <2>5. SubSeq(handled, 1, Len(handled)) = SubSeq(sealed, 1, Len(handled))
    BY <2>2, <2>3, <2>4
  <2>6. IsPrefix(handled, sealed)
    BY <2>2, <2>5 DEF IsPrefix
  <2>7. clientMode # peerMode => handled = <<>>
    BY <2>1, <2>3 DEF Histories
  <2> QED
    BY <2>6, <2>7 DEF ExactlyOnceInOrder
<1> QED
  BY <1>1, RecordInvariant, PTL

\* Answers arrive once each, in order, for requests the application saw; a
\* caller that never gave up only accepts the answer to what it retains
\* (ratchet.c, open; the retained frame of client.h).
THEOREM AnswersAreTheirs == Spec => []AnswersMatch
<1>1. RecordInv => AnswersMatch
  <2> SUFFICES ASSUME RecordInv PROVE AnswersMatch
    OBVIOUS
  <2>1. TypeOK /\ Histories /\ Answers /\ StopAndWait
    BY DEF RecordInv
  <2>2. ASSUME NEW i \in DOMAIN replies PROVE replies[i][2] \in Range(handled)
    <3>1. replies[i][2] \in Nat \ {0} /\ replies[i][2] <= peerRecv
      BY <2>1, RecordTypes DEF Answers
    <3>2. replies[i][2] \in DOMAIN handled
      BY <2>1, <3>1, RecordTypes DEF Histories
    <3> QED
      BY <2>1, <3>2 DEF Histories, Range
  <2> QED
    BY <2>1, <2>2 DEF AnswersMatch, Answers, StopAndWait
<1> QED
  BY <1>1, RecordInvariant, PTL

\* Every chain has stepped once per committed record (ratchet_step).
THEOREM RatchetsInStep == Spec => []RatchetInStep
<1>1. RecordInv => RatchetInStep
  BY DEF RecordInv
<1> QED
  BY <1>1, RecordInvariant, PTL

\* The counters of a live session never go back, although open has no limit
\* check (ratchet.c, open).
THEOREM CountersNeverWrap == Spec => SequencesNeverWrap
<1>1. RecordInv /\ [Next]_vars =>
        [state' = "ESTABLISHED" => send' >= send /\ recv' >= recv]_vars
  <2> SUFFICES ASSUME RecordInv, Next, state' = "ESTABLISHED"
               PROVE  send' >= send /\ recv' >= recv
    BY DEF vars
  <2>1. TypeOK /\ Histories /\ PeerFrames
    BY DEF RecordInv
  <2>2. CASE seal_record
    <3>1. send < SeqMax /\ send \in Nat /\ recv \in Nat
      BY <2>1, <2>2, RecordTypes DEF seal_record, MaySeal
    <3>2. send' = send + 1 /\ recv' = recv
      BY <2>2, <3>1, IncrementExact DEF seal_record
    <3> QED
      BY <3>1, <3>2
  <2>3. CASE open_record
    <3>1. PICK f \in net : f.from = "peer" /\ f.seq = recv /\ recv' = Increment(recv)
      BY <2>3 DEF open_record, InSequence
    <3>2. send' = send /\ state = "ESTABLISHED"
      BY <2>3 DEF open_record
    <3>3. recv < peerSend /\ peerSend <= peerRecv /\ peerRecv <= send
      BY <2>1, <3>1, <3>2 DEF PeerFrames, Histories
    <3>4. /\ recv \in Nat /\ send \in Nat /\ send <= SeqMax /\ SeqMax \in Nat
          /\ peerSend \in Nat /\ peerRecv \in Nat
      BY <2>1, RecordTypes
    <3>5. recv < SeqMax
      BY <3>3, <3>4
    <3> QED
      BY <3>1, <3>2, <3>4, <3>5, IncrementExact
  <2>4. CASE GiveUp \/ handleData \/ Corrupt
    BY <2>1, <2>4, RecordTypes DEF GiveUp, handleData, Corrupt, clientVars
  <2> QED
    BY <2>2, <2>3, <2>4 DEF Next, close
<1> QED
  BY <1>1, RecordInvariant, PTL DEF Spec, SequencesNeverWrap
=============================================================================
