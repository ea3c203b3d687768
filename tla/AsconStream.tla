---------------------------- MODULE AsconStream ----------------------------
(***************************************************************************)
(* Ascon-AEAD128 as core/ascon_aead128.c computes it (the NanoPQ firmware  *)
(* has the same code, the reference peer a translation of it): whole       *)
(* 16-byte blocks in a loop, then the last part, whose bytes and padding   *)
(* go to one or both of the two 64-bit words of the rate.                  *)
(*                                                                         *)
(* The permutation is ideal.  Its inputs are numbered in a table in the    *)
(* order in which they are first met, and an output is known by that       *)
(* number, so two computations agree exactly as long as their inputs do.   *)
(* A byte is the set of the terms that are XORed in it; the empty set is   *)
(* the byte 0.  The key words are XORed into the capacity whole.           *)
(***************************************************************************)
EXTENDS Integers, Sequences, SequencesExt, FiniteSetsExt

RateBytes == 16
LaneBytes == 8
Mark == {<<"mark">>}   \* the byte 1, which starts the padding

\* ascon_permute12 and ascon_permute8: the numbered output for this input.
Permute(s, rounds) ==
    LET input == <<rounds, s.rate, s.capacity>>
        seen == {k \in DOMAIN s.table : s.table[k] = input}
        k == IF seen = {} THEN Len(s.table) + 1 ELSE Min(seen)
    IN  [rate |-> [i \in 1..RateBytes |-> {<<"out", k, i>>}],
         capacity |-> {<<"out", k>>},
         table |-> IF seen = {} THEN Append(s.table, input) ELSE s.table]

XorCapacity(s, terms) == [s EXCEPT !.capacity = SymDiff(@, terms)]

\* The key's words XORed into words "first" and "first" + 1 of the state.
KeyWords(first, key) == {<<"key", first, key, 0>>, <<"key", first + 1, key, 1>>}

\* The constant and the first key word fill the rate.
initialize(table, key, nonce) ==
    LET loaded == [rate |-> <<"constant", key>>, capacity |-> {<<"loaded", key, nonce>>},
                   table |-> table]
    IN  XorCapacity(Permute(loaded, 12), KeyWords(3, key))

\* XOR the bytes into a word of the rate, from its low end.
XorLane(s, lane, bytes) ==
    [s EXCEPT !.rate = [i \in 1..RateBytes |->
        LET k == i - LaneBytes * lane
        IN  IF k \in DOMAIN bytes THEN SymDiff(@[i], bytes[k]) ELSE @[i]]]

\* Faulty variant of SetLane: the rest of the word is lost.
SetLaneCleared(s, lane, bytes) ==
    [s EXCEPT !.rate = [i \in 1..RateBytes |->
        LET k == i - LaneBytes * lane
        IN  IF k \in DOMAIN bytes THEN bytes[k]
            ELSE IF k \in 1..LaneBytes THEN {} ELSE @[i]]]

\* Replace the low bytes of a word (clear_low_bytes, then or), and keep the
\* others.
SetLane(s, lane, bytes) ==
    [s EXCEPT !.rate = [i \in 1..RateBytes |->
        LET k == i - LaneBytes * lane IN IF k \in DOMAIN bytes THEN bytes[k] ELSE @[i]]]

PutLane(s, lane, bytes, how) ==
    IF how = "set" THEN SetLane(s, lane, bytes) ELSE XorLane(s, lane, bytes)

\* Both words of a whole block, or of a last part that reaches the second.
Put(s, bytes, how) ==
    IF Len(bytes) >= LaneBytes
    THEN PutLane(PutLane(s, 0, SubSeq(bytes, 1, LaneBytes), how), 1,
                 SubSeq(bytes, LaneBytes + 1, Len(bytes)), how)
    ELSE PutLane(s, 0, bytes, how)

\* The padding that follows a last part of n bytes.
Pad(s, n) ==
    IF n >= LaneBytes
    THEN XorLane(s, 1, [k \in 1..(n - LaneBytes + 1) |->
                          IF k = n - LaneBytes + 1 THEN Mark ELSE {}])
    ELSE XorLane(s, 0, [k \in 1..(n + 1) |-> IF k = n + 1 THEN Mark ELSE {}])

\* The whole blocks of some bytes, the j-th block, and what follows the whole
\* ones.
Wholes(bytes) == Len(bytes) \div RateBytes
RateBlock(bytes, j) ==
    SubSeq(bytes, RateBytes * (j - 1) + 1,
           IF RateBytes * j < Len(bytes) THEN RateBytes * j ELSE Len(bytes))
LastPart(bytes) == RateBlock(bytes, Wholes(bytes) + 1)

\* The loop over the whole blocks: the state that block j + 1 meets.
OverBlocks(s, bytes, how) ==
    LET met[j \in 0..Wholes(bytes)] ==
            IF j = 0 THEN s ELSE Permute(Put(met[j - 1], RateBlock(bytes, j), how), 8)
    IN  met

\* The state once the last part and its padding are in.
Ended(met, bytes, how) ==
    Pad(Put(met[Wholes(bytes)], LastPart(bytes), how), Len(LastPart(bytes)))

\* Absent data adds no block; the domain bit is added in any case.
absorb_associated_data(s, data) ==
    LET ended == Ended(OverBlocks(s, data, "xor"), data, "xor")
    IN  XorCapacity(IF data = <<>> THEN s ELSE Permute(ended, 8), {<<"domain">>})

\* The tag is the last two words of the state.
finalize_tag(s, key) ==
    LET done == Permute(XorCapacity(s, KeyWords(2, key)), 12)
    IN  [tag |-> SymDiff(done.capacity, KeyWords(3, key)), table |-> done.table]

\* The number of whole blocks before byte i, and its place in the rate.
BlockOf(i) == (i - 1) \div RateBytes
PlaceOf(i) == i - RateBytes * BlockOf(i)

\* A byte of ciphertext is stored from the state that took in its block.
c0_ascon_aead128_encrypt(table, key, nonce, associated_data, plaintext) ==
    LET start == absorb_associated_data(initialize(table, key, nonce), associated_data)
        met == OverBlocks(start, plaintext, "xor")
        holding(j) == Put(met[j], RateBlock(plaintext, j + 1), "xor")
        final == finalize_tag(Ended(met, plaintext, "xor"), key)
    IN  [ciphertext |-> [i \in 1..Len(plaintext) |-> holding(BlockOf(i)).rate[PlaceOf(i)]],
         tag |-> final.tag, table |-> final.table]

\* The plaintext is written out as it is computed, from the state before its
\* block is merged in, and cleared again when the tag turns out wrong.
c0_ascon_aead128_decrypt(table, key, nonce, associated_data, ciphertext, tag) ==
    LET start == absorb_associated_data(initialize(table, key, nonce), associated_data)
        met == OverBlocks(start, ciphertext, "set")
        combined(i) == SymDiff(met[BlockOf(i)].rate[PlaceOf(i)], ciphertext[i])
        final == finalize_tag(Ended(met, ciphertext, "set"), key)
    IN  IF final.tag = tag
        THEN [status |-> "OK", plaintext |-> [i \in 1..Len(ciphertext) |-> combined(i)]]
        ELSE [status |-> "ERR_AUTH", plaintext |-> [i \in 1..Len(ciphertext) |-> {}]]
-----------------------------------------------------------------------------
(* NIST SP 800-232: pad first, then split into blocks.                     *)

Padded(bytes) ==
    LET n == RateBytes * (Len(bytes) \div RateBytes + 1)
    IN  [i \in 1..n |-> IF i <= Len(bytes) THEN bytes[i]
                        ELSE IF i = Len(bytes) + 1 THEN Mark ELSE {}]

\* All blocks of padded bytes, all of them whole.
PaddedBlocks(bytes) ==
    [k \in 1..(Wholes(bytes) + 1) |->
        SubSeq(Padded(bytes), RateBytes * (k - 1) + 1, RateBytes * k)]

XorRate(s, block) == [s EXCEPT !.rate = [i \in 1..RateBytes |-> SymDiff(@[i], block[i])]]

\* The states after each padded block is XORed in, a permutation between two.
Duplex(s, blocks) ==
    LET after[j \in 1..Len(blocks)] ==
            XorRate(IF j = 1 THEN s ELSE Permute(after[j - 1], 8), blocks[j])
    IN  after

NistEncrypt(table, key, nonce, data, plaintext) ==
    LET loaded == initialize(table, key, nonce)
        absorbed == IF data = <<>> THEN loaded
                    ELSE Permute(Duplex(loaded, PaddedBlocks(data))[Wholes(data) + 1], 8)
        after == Duplex(XorCapacity(absorbed, {<<"domain">>}), PaddedBlocks(plaintext))
    IN  [ciphertext |-> [i \in 1..Len(plaintext) |-> after[BlockOf(i) + 1].rate[PlaceOf(i)]],
         tag |-> finalize_tag(after[Wholes(plaintext) + 1], key).tag]
=============================================================================
