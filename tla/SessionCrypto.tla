--------------------------- MODULE SessionCrypto ---------------------------
(***************************************************************************)
(* The first record of a session that KemStream established: one end seals *)
(* a message with the keys of the handshake, the frame travels, possibly   *)
(* altered, and the other end opens it.  The device's code is core/        *)
(* ascon_aead128.c and session/ratchet.c; the peer's is protocol.mjs.      *)
(* RecordLayer models long exchanges of records, with an ideal cipher.     *)
(*                                                                         *)
(* Both ends derived the same keys (exchange_finished), so a key is known  *)
(* by its label.                                                           *)
(***************************************************************************)
EXTENDS KemStream, AsconStream

CONSTANT Messages   \* the plaintexts that are sealed: sequences of bytes

ASSUME MessagesAssumption ==
    \A m \in Messages : m \in Seq(SUBSET {<<"byte">>, <<"mark">>}) /\ Len(m) <= 48

VARIABLES client,    \* the client's record keys and sequence numbers
          server,    \* the peer session's
          record,    \* the frame on its way
          message,   \* history: the plaintext sealed in it
          opened     \* what the receiver's open returned

recordVars == <<client, server, record, message, opened>>
allVars == <<vars, recordVars>>

Modes == {"full", "ratchet"}
Directions == {"client", "server"}   \* who sends: flags 0 and 1
RecordMax == 48                      \* C0PQ_RECORD_PLAINTEXT_MAX
Nothing == <<>>
NoRecord == [from |-> "nobody"]
NotOpened == [status |-> "none"]

\* The associated data: the header, which holds the direction and the length
\* of the payload, and the sequence number.
AssociatedData(from, length, sequence) ==
    [k \in 1..10 |-> {<<"header", from, 8 + length + 16, k>>}]
    \o [k \in 1..8 |-> {<<"sequence", sequence, k>>}]

\* One HMAC for the message key, another for the next chain key.
c0pq_ratchet_step(chain) ==
    [message |-> <<"message", chain, c0_hmac_sha256(Key32("chain"), Label("ratchet message", 22))>>,
     next |-> <<"next", chain, c0_hmac_sha256(Key32("chain"), Label("ratchet next", 19))>>]
ratchetStep(chain) ==
    [message |-> <<"message", chain, RfcHmac(Key32("chain"), Label("ratchet message", 22))>>,
     next |-> <<"next", chain, RfcHmac(Key32("chain"), Label("ratchet next", 19))>>]

\* select_send_key and select_receive_key: the message key and what replaces
\* the secret once the record is done.  The client is the device.
SelectKey(who, mode, secretKey) ==
    CASE mode = "full" -> [message |-> secretKey, next |-> secretKey]
      [] mode = "ratchet" /\ who = "client" -> c0pq_ratchet_step(secretKey)
      [] mode = "ratchet" /\ who = "server" -> ratchetStep(secretKey)

c0pq_make_record_nonce(nonceBase, sequence) == <<nonceBase, sequence>>

\* The peer's functions follow the device's step by step; open returns null
\* instead of cleared bytes.
asconEncrypt(table, messageKey, nonce, data, plaintext) ==
    c0_ascon_aead128_encrypt(table, messageKey, nonce, data, plaintext)
Refusal(status) == [status |-> status, plaintext |-> Nothing]
OrNull(answer) == IF answer.status = "OK" THEN answer ELSE Refusal(answer.status)
asconDecrypt(table, messageKey, nonce, data, ciphertext, tag) ==
    OrNull(c0_ascon_aead128_decrypt(table, messageKey, nonce, data, ciphertext, tag))
-----------------------------------------------------------------------------

SessionInit ==
    /\ Init
    /\ client = Zero /\ server = Zero /\ record = NoRecord
    /\ message = Nothing /\ opened = NotOpened

\* The steps of the handshake but the last.
Handshake ==
    \/ random_bytes /\ UNCHANGED recordVars
    \/ validate_and_hash_public_key /\ UNCHANGED recordVars
    \/ derive_k_and_coins /\ UNCHANGED recordVars
    \/ accumulate_u /\ UNCHANGED recordVars
    \/ finish_u /\ UNCHANGED recordVars
    \/ write_compressed_u /\ UNCHANGED recordVars
    \/ accumulate_v /\ UNCHANGED recordVars
    \/ finish_v /\ UNCHANGED recordVars
    \/ write_compressed_v /\ UNCHANGED recordVars
    \/ derive_session_keys /\ UNCHANGED recordVars
    \/ ConnectFails /\ UNCHANGED recordVars

\* The secret and nonce base of a direction in a mode.
Secret(from, mode) == <<from, IF mode = "ratchet" THEN "chain" ELSE "traffic">>
NonceBase(from) == <<from, "nonce">>

\* The client copies the secrets of its mode and the nonce bases out of the
\* workspace before it is cleared; the peer keeps its own.
Establish ==
    /\ exchange_finished
    /\ \E mode \in Modes :
         LET state == [mode |-> mode, sequence |-> [d \in Directions |-> 0],
                       secret |-> [d \in Directions |-> Secret(d, mode)]]
         IN  client' = state /\ server' = state
    /\ UNCHANGED <<record, message, opened>>

\* An end's state after a record in direction d.
Advanced(end, d, next) ==
    [end EXCEPT !.secret[d] = next, !.sequence[d] = @ + 1]

\* Nothing is on its way: the first record is sealed.
MaySeal == pc = "established" /\ record = NoRecord

Frame(from, sequence, sealed) ==
    [from |-> from, genuine |-> TRUE, sequence |-> sequence,
     ciphertext |-> sealed.ciphertext, tag |-> sealed.tag, table |-> sealed.table]

\* One end seals a message with its ratchet and cipher.
Seal(who, end, m) ==
    LET selected == SelectKey(who, end.mode, end.secret[who])
        sequence == end.sequence[who]
        nonce == c0pq_make_record_nonce(NonceBase(who), sequence)
        data == AssociatedData(who, Len(m), sequence)
        sealed == IF who = "client"
                  THEN c0_ascon_aead128_encrypt(<<>>, selected.message, nonce, data, m)
                  ELSE asconEncrypt(<<>>, selected.message, nonce, data, m)
    IN  [frame |-> Frame(who, sequence, sealed),
         end |-> Advanced(end, who, selected.next)]

c0pq_client_seal_record(m) ==
    /\ MaySeal
    /\ \E s \in {Seal("client", client, m)} : record' = s.frame /\ client' = s.end
    /\ message' = m
    /\ UNCHANGED <<vars, server, opened>>

sealRecord(m) ==
    /\ MaySeal
    /\ \E s \in {Seal("server", server, m)} : record' = s.frame /\ server' = s.end
    /\ message' = m
    /\ UNCHANGED <<vars, client, opened>>

\* The frame as it may arrive: as sent, with another header field or sequence
\* number, with a byte of ciphertext or tag changed, or with the ciphertext
\* one byte shorter or longer and the length field adjusted.
Flip == {<<"flip">>}
Arriving ==
    LET bytes == record.ciphertext
        n == Len(bytes)
        other(ciphertext) == [record EXCEPT !.ciphertext = ciphertext]
    IN  {record, [record EXCEPT !.genuine = FALSE], [record EXCEPT !.sequence = @ + 1],
         [record EXCEPT !.tag = SymDiff(@, Flip)],
         other(Append(bytes, Mark)), other(Append(bytes, {}))}
        \cup {other([bytes EXCEPT ![i] = SymDiff(@, Flip)]) :
                i \in {1, 8, 9, 16, 17, n} \cap (1..n)}
        \cup {other(SubSeq(bytes, 1, n - 1)) : i \in {1} \cap (1..n)}

\* One end opens a frame from the other: header, length and sequence number
\* are checked before its tag.
Open(who, end, frame) ==
    LET from == frame.from
        selected == SelectKey(who, end.mode, end.secret[from])
        n == Len(frame.ciphertext)
        nonce == c0pq_make_record_nonce(NonceBase(from), frame.sequence)
        data == AssociatedData(from, n, frame.sequence)
        answer == IF who = "client"
                  THEN c0_ascon_aead128_decrypt(frame.table, selected.message, nonce, data,
                                                frame.ciphertext, frame.tag)
                  ELSE asconDecrypt(frame.table, selected.message, nonce, data,
                                    frame.ciphertext, frame.tag)
    IN  CASE ~frame.genuine -> Refusal("ERR_STATE")
          [] frame.genuine /\ n > RecordMax -> Refusal("ERR_CAPACITY")
          [] frame.genuine /\ n <= RecordMax /\ frame.sequence # end.sequence[from] ->
                Refusal("ERR_REPLAY")
          [] OTHER -> answer

\* Its state moves only with an authentic record.
AfterOpen(who, end, from, answer) ==
    IF answer.status # "OK" THEN end
    ELSE Advanced(end, from, SelectKey(who, end.mode, end.secret[from]).next)

\* A frame is on its way to the end that did not send it.
MayOpen(from) == record # NoRecord /\ opened = NotOpened /\ record.from = from

c0pq_client_open_record ==
    /\ MayOpen("server")
    /\ \E frame \in Arriving : \E answer \in {Open("client", client, frame)} :
         /\ record' = frame /\ opened' = answer
         /\ client' = AfterOpen("client", client, "server", answer)
    /\ UNCHANGED <<vars, server, message>>

openRecord ==
    /\ MayOpen("client")
    /\ \E frame \in Arriving : \E answer \in {Open("server", server, frame)} :
         /\ record' = frame /\ opened' = answer
         /\ server' = AfterOpen("server", server, "client", answer)
    /\ UNCHANGED <<vars, client, message>>

SessionNext ==
    \/ Handshake \/ Establish
    \/ \E m \in Messages : c0pq_client_seal_record(m) \/ sealRecord(m)
    \/ c0pq_client_open_record \/ openRecord

SessionSpec == SessionInit /\ [][SessionNext]_allVars
-----------------------------------------------------------------------------
(* Properties. *)

\* The record SP 800-232 defines for the message, the keys of the handshake
\* and sequence number 0.
Reference ==
    NistEncrypt(record.table,
                SelectKey("server", client.mode, Secret(record.from, client.mode)).message,
                <<NonceBase(record.from), 0>>,
                AssociatedData(record.from, Len(message), 0), message)
Unaltered ==
    /\ record.genuine /\ record.sequence = 0
    /\ [ciphertext |-> record.ciphertext, tag |-> record.tag] = Reference

\* A sealed record is the one SP 800-232 defines for the message, whatever its
\* length, and it opens at the other end to exactly that message, after which
\* both ends hold the same secrets; a record with any byte of header, sequence
\* number, ciphertext or tag changed, or one byte shorter or longer, is refused
\* and leaves no byte of plaintext behind.  The last part of a record, its
\* padding in one of two words and the merge of its bytes into the state at
\* decryption (ascon_aead128.c) decide this.
AeadExact ==
    record # NoRecord =>
        IF Unaltered
        THEN \/ opened = NotOpened
             \/ opened = [status |-> "OK", plaintext |-> message] /\ client = server
        ELSE /\ opened.status \notin {"none", "OK"} /\ client # server
             /\ \A k \in DOMAIN opened.plaintext : opened.plaintext[k] = {}
=============================================================================
