--------------------------- MODULE KemStreamProofs ---------------------------
(***************************************************************************)
(* Proofs about the streaming encapsulation of core/mlkem512_stream.c      *)
(* inside c0pq_client_connect, for every set of public keys, coefficients, *)
(* messages and misread passes, and for both kinds of address space; and   *)
(* about the first record of the session that it establishes.              *)
(***************************************************************************)
EXTENDS SessionCrypto, CoreProofs

-----------------------------------------------------------------------------
(* Magnitudes. *)

\* The larger of two or three numbers.
LEMMA MaxOfTwo ==
    ASSUME NEW a \in Nat, NEW b \in Nat
    PROVE  /\ Max({a, b}) \in Nat /\ Max({a, b}) \in {a, b}
           /\ Max({a, b}) >= a /\ Max({a, b}) >= b
<1>1. \E x \in {a, b} : \A y \in {a, b} : x >= y
  BY a >= b \/ b >= a
<1>2. Max({a, b}) \in {a, b} /\ \A y \in {a, b} : Max({a, b}) >= y
  BY <1>1 DEF Max
<1> QED
  BY <1>2

LEMMA MaxOfThree ==
    ASSUME NEW a \in Nat, NEW b \in Nat, NEW c \in Nat
    PROVE  /\ Max({a, b, c}) \in Nat /\ Max({a, b, c}) \in {a, b, c}
           /\ Max({a, b, c}) >= a /\ Max({a, b, c}) >= b /\ Max({a, b, c}) >= c
<1>1. \E x \in {a, b, c} : \A y \in {a, b, c} : x >= y
  <2>1. \/ (a >= b /\ a >= c) \/ (b >= a /\ b >= c) \/ (c >= a /\ c >= b)
    OBVIOUS
  <2> QED
    BY <2>1
<1>2. Max({a, b, c}) \in {a, b, c} /\ \A y \in {a, b, c} : Max({a, b, c}) >= y
  BY <1>1 DEF Max
<1> QED
  BY <1>2

\* The seven layers of ntt on noise of magnitude 3.
LEMMA NttOfNoise == NttBound(3) = 12574
<1> DEFINE Layers(f) == [k \in 0..7 |-> IF k = 0 THEN 3 ELSE NttLayer(f[k - 1])]
           g == [k \in 0..7 |-> CASE k = 0 -> 3 [] k = 1 -> 1667 [] k = 2 -> 3373
                                  [] k = 3 -> 5122 [] k = 4 -> 6916 [] k = 5 -> 8755
                                  [] k = 6 -> 10641 [] k = 7 -> 12574]
           after == CHOOSE f : f = Layers(f)
<1>1. /\ NttLayer(3) = 1667 /\ NttLayer(1667) = 3373 /\ NttLayer(3373) = 5122
      /\ NttLayer(5122) = 6916 /\ NttLayer(6916) = 8755 /\ NttLayer(8755) = 10641
      /\ NttLayer(10641) = 12574
  BY DEF NttLayer, FqmulBound, ZetaBound, MLKEM_Q
<1>2. g = Layers(g)
  <2>1. \A k \in 0..7 : g[k] = Layers(g)[k]
    <3> TAKE k \in 0..7
    <3>1. k = 0 \/ k = 1 \/ k = 2 \/ k = 3 \/ k = 4 \/ k = 5 \/ k = 6 \/ k = 7
      OBVIOUS
    <3> QED
      BY <1>1, <3>1
  <2> QED
    BY <2>1
<1>3. after = Layers(after)
  BY <1>2
<1> HIDE DEF after, g
<1>4. /\ after[0] = 3 /\ after[1] = NttLayer(after[0]) /\ after[2] = NttLayer(after[1])
      /\ after[3] = NttLayer(after[2]) /\ after[4] = NttLayer(after[3])
      /\ after[5] = NttLayer(after[4]) /\ after[6] = NttLayer(after[5])
      /\ after[7] = NttLayer(after[6])
  BY <1>3
<1>5. after[7] = 12574
  BY <1>1, <1>4
<1> QED
  BY <1>5 DEF NttBound, after

\* One layer of inverse_ntt: every sum is reduced.
LEMMA InverseLayers ==
    /\ InverseNttLayer(1664) = [sum |-> 3328, next |-> 1748]
    /\ InverseNttLayer(1748) = [sum |-> 3496, next |-> 1752]
    /\ InverseNttLayer(1752) = [sum |-> 3504, next |-> 1753]
    /\ InverseNttLayer(1753) = [sum |-> 3506, next |-> 1753]
<1>1. /\ FqmulBound(ZetaBound, 3328) = 1748 /\ FqmulBound(ZetaBound, 3496) = 1752
      /\ FqmulBound(ZetaBound, 3504) = 1753 /\ FqmulBound(ZetaBound, 3506) = 1753
  BY DEF FqmulBound, ZetaBound, MLKEM_Q
<1>2. Max({1664, 1748}) = 1748 /\ Max({1664, 1752}) = 1752 /\ Max({1664, 1753}) = 1753
  BY MaxOfTwo
<1>3. 2 * 1664 = 3328 /\ 2 * 1748 = 3496 /\ 2 * 1752 = 3504 /\ 2 * 1753 = 3506
  OBVIOUS
<1> QED
  BY <1>1, <1>2, <1>3, SMTT(30) DEF InverseNttLayer, BarrettBound

\* inverse_ntt on reduced coefficients: no intermediate value above 3506, no
\* result above 1703.
LEMMA InverseOfReduced == InverseNttBound(BarrettBound) = [peak |-> 3506, b |-> 1703]
<1> DEFINE A(p, v) == [peak |-> p, b |-> v]
           Step(before) ==
             LET layer == InverseNttLayer(before.b)
             IN  [peak |-> Max({before.peak, layer.sum, layer.next}), b |-> layer.next]
           Layers(f) == [k \in 0..7 |-> IF k = 0 THEN A(BarrettBound, BarrettBound)
                                        ELSE Step(f[k - 1])]
           g == [k \in 0..7 |-> CASE k = 0 -> A(1664, 1664) [] k = 1 -> A(3328, 1748)
                                  [] k = 2 -> A(3496, 1752) [] k = 3 -> A(3504, 1753)
                                  [] k = 4 -> A(3506, 1753) [] k = 5 -> A(3506, 1753)
                                  [] k = 6 -> A(3506, 1753) [] k = 7 -> A(3506, 1753)]
           after == CHOOSE f : f = Layers(f)
<1>1. /\ Step(A(1664, 1664)) = A(3328, 1748) /\ Step(A(3328, 1748)) = A(3496, 1752)
      /\ Step(A(3496, 1752)) = A(3504, 1753) /\ Step(A(3504, 1753)) = A(3506, 1753)
      /\ Step(A(3506, 1753)) = A(3506, 1753)
  <2>1. /\ Max({1664, 3328, 1748}) = 3328 /\ Max({3328, 3496, 1752}) = 3496
        /\ Max({3496, 3504, 1753}) = 3504 /\ Max({3504, 3506, 1753}) = 3506
        /\ Max({3506, 3506, 1753}) = 3506
    BY MaxOfThree, SMTT(30)
  <2> QED
    BY <2>1, InverseLayers, SMTT(30)
<1>2. A(BarrettBound, BarrettBound) = A(1664, 1664)
  BY DEF BarrettBound
<1>3. InverseNttBound(BarrettBound) =
         [peak |-> after[7].peak, b |-> FqmulBound(after[7].b, Scale)]
  BY DEF InverseNttBound
<1> HIDE DEF Step, A
<1>4. g = Layers(g)
  <2>1. \A k \in 0..7 : g[k] = Layers(g)[k]
    <3> TAKE k \in 0..7
    <3>1. k = 0 \/ k = 1 \/ k = 2 \/ k = 3 \/ k = 4 \/ k = 5 \/ k = 6 \/ k = 7
      OBVIOUS
    <3> QED
      BY <1>1, <1>2, <3>1
  <2> QED
    BY <2>1
<1>5. after = Layers(after)
  BY <1>4
<1> HIDE DEF after, g
<1>6. /\ after[0] = A(1664, 1664) /\ after[1] = Step(after[0]) /\ after[2] = Step(after[1])
      /\ after[3] = Step(after[2]) /\ after[4] = Step(after[3]) /\ after[5] = Step(after[4])
      /\ after[6] = Step(after[5]) /\ after[7] = Step(after[6])
  BY <1>2, <1>5
<1>7. after[7] = A(3506, 1753)
  BY <1>1, <1>6
<1>8. FqmulBound(1753, Scale) = 1703
  BY DEF FqmulBound, Scale, MLKEM_Q
<1>9. after[7].peak = 3506 /\ after[7].b = 1753
  BY <1>7 DEF A
<1> QED
  BY <1>3, <1>8, <1>9

\* What a product adds to an accumulator: the matrix and the public key, with
\* the table of zetas and, where it is read from SRAM, with any int16_t.
LEMMA Products ==
    /\ BaseMultiplyBound(3328, 12574, 1659) = 4606
    /\ BaseMultiplyBound(3328, 12574, 32768) = 5119
    /\ BaseMultiplyBound(4095, 12574, 1659) = 4900
<1>1. /\ FqmulBound(3328, 12574) = 2303 /\ FqmulBound(4095, 12574) = 2450
      /\ FqmulBound(2303, 1659) = 1722 /\ FqmulBound(2303, 32768) = 2816
      /\ FqmulBound(2450, 1659) = 1726
  BY DEF FqmulBound, MLKEM_Q
<1>2. /\ Max({4025, 4606}) = 4606 /\ Max({5119, 4606}) = 5119 /\ Max({4176, 4900}) = 4900
  BY MaxOfTwo
<1>3. /\ 1722 + 2303 = 4025 /\ 2816 + 2303 = 5119 /\ 1726 + 2450 = 4176
      /\ 2 * 2303 = 4606 /\ 2 * 2450 = 4900
  OBVIOUS
<1> QED
  BY <1>1, <1>2, <1>3 DEF BaseMultiplyBound

-----------------------------------------------------------------------------
(* The inductive invariant. *)

\* A byte of a message is known by what it belongs to and where.
Positions == {"prefix", "hello", "challenge", "ciphertext"} \X Nat

Early == {"random", "validate", "derive"}
Encapsulating == {"u", "write_u", "v", "write_v"}

\* Where the loops are.
Loops ==
    /\ pc \in Early => row = 0 /\ column = 0 /\ index = 0
    /\ pc \in {"u", "write_u"} => row \in 0..1
    /\ pc \in {"v", "write_v"} => row = 2
    /\ row \in 0..MLKEM_K /\ column \in 0..MLKEM_K /\ index \in 0..MLKEM_N

\* What the ciphertext_writer and the transcript hold.
Writer ==
    /\ pending \in Seq(Positions) /\ Len(pending) \in 0..FragmentBytes
    /\ fragmentIndex \in 0..FragmentCount
    /\ failure \in {"OK", "ERR_IO"}
    /\ transcript.buffer \in Seq(Positions) /\ Len(transcript.buffer) < BlockBytes
    /\ received \in [0..(FragmentCount - 1) -> Seq(Positions)]
    /\ \A f \in 0..(FragmentCount - 1) : Len(received[f]) \in {0, FragmentBytes}

\* The bytes handed to the writer so far are in the fragments acknowledged
\* and in the one under construction, which is never full.
Sent == FragmentBytes * fragmentIndex + Len(pending)

\* The fragments hold the bytes of the ciphertext, in order.
InOrder ==
    /\ pending = Ciphertext(FragmentBytes * fragmentIndex, Len(pending))
    /\ \A f \in 0..(fragmentIndex - 1) :
         received[f] = Ciphertext(FragmentBytes * f, FragmentBytes)

InFragments ==
    /\ pc \in Early => Sent = 0
    /\ pc = "u" => Sent = 320 * row
    /\ pc = "write_u" => \E m \in 0..63 : index = 4 * m /\ Sent = 320 * row + 5 * m
    /\ pc = "v" => Sent = 640
    /\ pc = "write_v" => \E m \in 0..127 : index = 2 * m /\ Sent = 640 + m
    /\ pc = "returned" /\ result = "OK" => Sent = CiphertextBytes
    /\ pc \in Early \cup Encapsulating \/ (pc = "returned" /\ result = "OK") =>
         Len(pending) < FragmentBytes /\ failure = "OK"

\* Which secrets exist at which point.
Secrets ==
    /\ pc \in Early => secret = Zero /\ result = "OK" /\ keys = Zero
    /\ pc = "random" => workspace = ZeroWorkspace /\ keyHash = Zero
    /\ pc \in Encapsulating => secret # Zero /\ result = "OK" /\ keys = Zero
    /\ pc = "returned" =>
         /\ workspace = ZeroWorkspace /\ keyHash = Zero /\ keys = Zero
         /\ secret # Zero <=> result = "OK"
    /\ pc = "finish" => secret = Zero
    /\ pc \in {"established", "failed"} =>
         workspace = ZeroWorkspace /\ secret = Zero /\ keys = Zero

\* The workspace has its fields, and its accumulator holds the products of
\* the columns done, or a finished polynomial.
WorkspaceShape(w) ==
    /\ DOMAIN w = {"sponge", "rho", "coins", "accumulator", "temporary"}
    /\ w = [field \in DOMAIN w |-> w[field]]

ProductMax == 5119

Magnitudes ==
    /\ WorkspaceShape(workspace)
    /\ peak \in Nat /\ peak <= Int16Max
    /\ workspace.accumulator.bound \in Nat
    /\ pc \in {"u", "v"} /\ column # 0 =>
         workspace.accumulator.bound <= ProductMax * column
    /\ pc = "write_v" => workspace.accumulator.bound <= 1705

KemInv ==
    /\ pc \in Early \cup Encapsulating \cup {"returned", "finish", "established", "failed"}
    /\ \E i \in Inputs : <<key, base, phase, misread>> = <<i.key, i.base, i.phase, i.misread>>
    /\ result \in {"OK", "ERR_RNG", "ERR_KEY_ENCODING", "ERR_IO"}
    /\ Loops /\ Writer /\ InOrder /\ InFragments /\ Secrets /\ Magnitudes

-----------------------------------------------------------------------------
(* The writer. *)

\* Lengths of the pieces of a sequence.
LEMMA PieceLengths ==
    ASSUME NEW S, NEW s \in Seq(S), NEW m \in 0..Len(s)
    PROVE  /\ SubSeq(s, 1, m) \in Seq(S) /\ Len(SubSeq(s, 1, m)) = m
           /\ SubSeq(s, m + 1, Len(s)) \in Seq(S)
           /\ Len(SubSeq(s, m + 1, Len(s))) = Len(s) - m
  OBVIOUS

\* Filling a buffer of "size" bytes that holds "held" of them.
LEMMA Filling ==
    ASSUME NEW size \in Nat, NEW held \in Nat, held < size, NEW n \in Nat, NEW take,
           take = IF n < size - held THEN n ELSE size - held
    PROVE  /\ take \in 0..n /\ held + take <= size
           /\ held + take # size => take = n /\ held + take < size
  OBVIOUS

\* The whole blocks of a length.
LEMMA BlocksOfLength ==
    ASSUME NEW n \in Nat
    PROVE  (n \div 64) * 64 \in 0..n /\ n - (n \div 64) * 64 < 64
  OBVIOUS

\* What follows the whole blocks of a sequence is shorter than a block.
LEMMA TailBelowBlock ==
    ASSUME NEW S, NEW rest \in Seq(S)
    PROVE  LET tail == SubSeq(rest, (Len(rest) \div 64) * 64 + 1, Len(rest))
           IN  tail \in Seq(S) /\ Len(tail) < 64
<1> DEFINE m == (Len(rest) \div 64) * 64
<1>1. m \in 0..Len(rest) /\ Len(rest) - m < 64
  <2>1. Len(rest) \in Nat
    OBVIOUS
  <2> QED
    BY <2>1, BlocksOfLength
<1> HIDE DEF m
<1>2. SubSeq(rest, m + 1, Len(rest)) \in Seq(S)
      /\ Len(SubSeq(rest, m + 1, Len(rest))) = Len(rest) - m
  BY <1>1, PieceLengths
<1> QED
  BY <1>1, <1>2 DEF m

\* A buffer with the start of a sequence appended to it.
LEMMA HeadLength ==
    ASSUME NEW S, NEW buffer \in Seq(S), NEW input \in Seq(S), NEW take \in 0..Len(input)
    PROVE  /\ buffer \o SubSeq(input, 1, take) \in Seq(S)
           /\ Len(buffer \o SubSeq(input, 1, take)) = Len(buffer) + take
<1>1. SubSeq(input, 1, take) \in Seq(S) /\ Len(SubSeq(input, 1, take)) = take
  BY PieceLengths
<1> QED
  BY <1>1

\* An empty input leaves the context of c0_sha256_update as it is.
LEMMA EmptyUpdate ==
    ASSUME NEW ctx
    PROVE  c0_sha256_update(ctx, <<>>) = ctx
  BY ZenonT(60) DEF c0_sha256_update

\* c0_sha256_update never leaves a whole block in the buffer.
LEMMA BufferBelowBlock ==
    ASSUME NEW S, NEW ctx, ctx.buffer \in Seq(S), Len(ctx.buffer) < BlockBytes,
           NEW input \in Seq(S)
    PROVE  /\ c0_sha256_update(ctx, input).buffer \in Seq(S)
           /\ Len(c0_sha256_update(ctx, input).buffer) < BlockBytes
<1> DEFINE started == Len(ctx.buffer) # 0
           room == BlockBytes - Len(ctx.buffer)
           take == IF ~started THEN 0 ELSE IF Len(input) < room THEN Len(input) ELSE room
           head == ctx.buffer \o SubSeq(input, 1, take)
           filled == started /\ Len(head) = BlockBytes
           rest == SubSeq(input, take + 1, Len(input))
           whole == Len(rest) \div BlockBytes
           tail == SubSeq(rest, whole * BlockBytes + 1, Len(rest))
<1>1. CASE input = <<>>
  <2>1. c0_sha256_update(ctx, input) = ctx
    BY <1>1, EmptyUpdate, Zenon
  <2> QED
    BY <2>1
<1>2. CASE input # <<>>
  <2>1. c0_sha256_update(ctx, input).buffer =
          IF tail # <<>> THEN tail ELSE IF filled THEN <<>> ELSE head
    <3>1. c0_sha256_update(ctx, input) = UpdateAt(ctx, input, take, filled, whole)
      BY <1>2, UpdateCuts, Zenon
    <3> HIDE DEF take, filled, whole
    <3>2. UpdateAt(ctx, input, take, filled, whole).buffer =
            IF tail # <<>> THEN tail ELSE IF filled THEN <<>> ELSE head
      BY DEF UpdateAt, AfterBlocks
    <3> QED
      BY <3>1, <3>2, Zenon
  <2>2. Len(ctx.buffer) \in Nat /\ Len(input) \in Nat /\ BlockBytes = 64
    BY DEF BlockBytes
  <2>3. /\ take \in 0..Len(input)
        /\ ~filled => Len(ctx.buffer) + take < 64
    <3>1. CASE ~started
      BY <2>2, <3>1
    <3>2. CASE started
      <4>1. Len(ctx.buffer) < 64 /\ 64 \in Nat
        BY <2>2
      <4>2. take = IF Len(input) < 64 - Len(ctx.buffer) THEN Len(input)
                   ELSE 64 - Len(ctx.buffer)
        BY <2>2, <3>2
      <4> HIDE DEF take
      <4>3. /\ take \in 0..Len(input)
            /\ Len(ctx.buffer) + take # 64 => Len(ctx.buffer) + take < 64
        <5> DEFINE held == Len(ctx.buffer)
                   n == Len(input)
        <5>1. /\ held \in Nat /\ held < 64 /\ 64 \in Nat /\ n \in Nat
              /\ take = IF n < 64 - held THEN n ELSE 64 - held
          BY <2>2, <4>1, <4>2
        <5> HIDE DEF held, n
        <5>2. take \in 0..n /\ (held + take # 64 => held + take < 64)
          BY <5>1, Filling
        <5> QED
          BY <5>2 DEF held, n
      <4>4. Len(head) = Len(ctx.buffer) + take
        BY <4>3, HeadLength
      <4> QED
        BY <2>2, <3>2, <4>3, <4>4
    <3> QED
      BY <3>1, <3>2
  <2> HIDE DEF take, filled
  <2>4. head \in Seq(S) /\ Len(head) = Len(ctx.buffer) + take
    BY <2>3, HeadLength
  <2>5. rest \in Seq(S)
    BY <2>3, PieceLengths
  <2> HIDE DEF head, rest
  <2>6. tail \in Seq(S) /\ Len(tail) < 64
    BY <2>2, <2>5, TailBelowBlock
  <2> HIDE DEF tail
  <2> QED
    BY <2>1, <2>2, <2>3, <2>4, <2>6
<1> QED
  BY <1>1, <1>2

\* The bytes of a message and of the ciphertext.
LEMMA MessageBytes ==
    ASSUME NEW n \in Nat, NEW from \in Nat
    PROVE  /\ Ciphertext(from, n) \in Seq(Positions) /\ Len(Ciphertext(from, n)) = n
           /\ \A name \in {"prefix", "hello", "challenge", "ciphertext"} :
                Bytes(name, n) \in Seq(Positions) /\ Len(Bytes(name, n)) = n
<1>1. \A k \in 1..n : <<"ciphertext", from + k - 1>> \in Positions
  BY DEF Positions
<1>2. Ciphertext(from, n) \in Seq(Positions) /\ Len(Ciphertext(from, n)) = n
  BY <1>1 DEF Ciphertext
<1>3. ASSUME NEW name \in {"prefix", "hello", "challenge", "ciphertext"}
      PROVE  Bytes(name, n) \in Seq(Positions) /\ Len(Bytes(name, n)) = n
  <2>1. \A k \in 1..n : <<name, k - 1>> \in Positions
    BY DEF Positions
  <2> QED
    BY <2>1 DEF Bytes
<1> QED
  BY <1>2, <1>3

\* A piece is handed to the writer: it keeps its types, and when the exchange
\* succeeds the piece is in a fragment.
LEMMA WriteKeeps ==
    ASSUME Writer, Len(pending) < FragmentBytes,
           NEW data \in Seq(Positions), Len(data) \in 1..5, NEW ok \in BOOLEAN,
           write_ciphertext(data, ok)
    PROVE  /\ Writer'
           /\ ok => /\ Sent' = Sent + Len(data)
                    /\ Len(pending') < FragmentBytes /\ failure' = "OK"
<1> DEFINE space == FragmentBytes - Len(pending)
           take == IF Len(data) < space THEN Len(data) ELSE space
           filled == pending \o SubSeq(data, 1, take)
           full == Len(filled) = FragmentBytes
           stored == [received EXCEPT ![fragmentIndex] = filled]
<1>1. /\ failure = "OK" /\ fragmentIndex < FragmentCount
      /\ transcript' = c0_sha256_update(transcript, data)
  BY DEF write_ciphertext
<1>2. /\ ok => /\ pending' = IF full THEN Leftover(data, take) ELSE filled
               /\ fragmentIndex' = fragmentIndex + (IF full THEN 1 ELSE 0)
               /\ received' = IF full THEN stored ELSE received
               /\ failure' = failure
      /\ ~ok => /\ full /\ pending' = filled /\ failure' = "ERR_IO"
                /\ received' = received \/ received' = stored
                /\ fragmentIndex' = fragmentIndex
  BY DEF write_ciphertext
<1>3. /\ Len(pending) \in Nat /\ Len(data) \in Nat /\ Len(pending) < 48
      /\ pending \in Seq(Positions) /\ FragmentBytes = 48 /\ FragmentCount = 16
  <2>1. FragmentBytes = 48 /\ FragmentCount = 16
    BY DEF FragmentBytes, FragmentCount
  <2>2. pending \in Seq(Positions)
    BY DEF Writer
  <2>3. Len(pending) \in Nat /\ Len(data) \in Nat
    BY <2>2
  <2> QED
    BY <2>1, <2>2, <2>3
<1>4. fragmentIndex \in 0..15
  BY <1>1, <1>3 DEF Writer
<1>5. /\ take \in 0..Len(data) /\ Len(pending) + take <= 48
      /\ Len(pending) + take # 48 => take = Len(data) /\ Len(pending) + take < 48
  <2>1. take = IF Len(data) < 48 - Len(pending) THEN Len(data) ELSE 48 - Len(pending)
    BY <1>3
  <2> HIDE DEF take
  <2> DEFINE held == Len(pending)
             n == Len(data)
  <2>2. /\ held \in Nat /\ held < 48 /\ 48 \in Nat /\ n \in Nat
        /\ take = IF n < 48 - held THEN n ELSE 48 - held
    BY <1>3, <2>1
  <2> HIDE DEF held, n
  <2>3. /\ take \in 0..n /\ held + take <= 48
        /\ held + take # 48 => take = n /\ held + take < 48
    BY <2>2, Filling
  <2> QED
    BY <2>3 DEF held, n
<1> HIDE DEF take
<1>6. /\ Leftover(data, take) \in Seq(Positions)
      /\ Len(Leftover(data, take)) = Len(data) - take
  BY <1>5, PieceLengths DEF Leftover
<1>7. filled \in Seq(Positions) /\ Len(filled) = Len(pending) + take
  BY <1>3, <1>5, HeadLength
<1> HIDE DEF filled
<1>8. full <=> Len(pending) + take = 48
  BY <1>3, <1>7
<1>9. /\ stored \in [0..(FragmentCount - 1) -> Seq(Positions)]
      /\ full => \A f \in 0..(FragmentCount - 1) : Len(stored[f]) \in {0, FragmentBytes}
  BY <1>3, <1>4, <1>7 DEF Writer
<1> HIDE DEF stored, full
<1>10. /\ transcript'.buffer \in Seq(Positions) /\ Len(transcript'.buffer) < BlockBytes
  BY <1>1, BufferBelowBlock DEF Writer
<1>11. CASE ok
  <2>1. CASE full
    <3>1. /\ pending' = Leftover(data, take) /\ fragmentIndex' = fragmentIndex + 1
          /\ received' = stored /\ failure' = "OK"
      BY <1>1, <1>2, <1>11, <2>1
    <3>2. Len(pending') = Len(data) - take
      BY <1>6, <3>1
    <3>3. Len(pending') \in 0..48 /\ Len(pending') < 48
          /\ 48 * (fragmentIndex + 1) + Len(pending')
               = 48 * fragmentIndex + Len(pending) + Len(data)
      <4> DEFINE held == Len(pending)
                 n == Len(data)
      <4>1. /\ held \in Nat /\ held < 48 /\ n \in 1..5 /\ take \in 0..n /\ held + take = 48
            /\ fragmentIndex \in Nat
        BY <1>3, <1>4, <1>5, <1>8, <2>1
      <4> HIDE DEF held, n
      <4>2. /\ n - take \in 0..48 /\ n - take < 48
            /\ 48 * (fragmentIndex + 1) + (n - take) = 48 * fragmentIndex + held + n
        BY <4>1
      <4> QED
        BY <3>2, <4>2 DEF held, n
    <3>4. fragmentIndex' \in 0..FragmentCount
      BY <1>3, <1>4, <3>1
    <3>5. Writer'
      BY <1>3, <1>6, <1>9, <1>10, <2>1, <3>1, <3>3, <3>4 DEF Writer
    <3> QED
      BY <1>3, <3>1, <3>3, <3>5 DEF Sent
  <2>2. CASE ~full
    <3>1. /\ pending' = filled /\ fragmentIndex' = fragmentIndex
          /\ received' = received /\ failure' = "OK"
      BY <1>1, <1>2, <1>4, <1>11, <2>2
    <3>2. Len(pending') = Len(pending) + take /\ take = Len(data)
      BY <1>5, <1>7, <1>8, <2>2, <3>1
    <3>3. Len(pending') \in 0..48 /\ Len(pending') < 48
          /\ 48 * fragmentIndex + Len(pending')
               = 48 * fragmentIndex + Len(pending) + Len(data)
      <4> DEFINE held == Len(pending)
                 n == Len(data)
      <4>1. /\ held \in Nat /\ n \in 1..5 /\ held + n < 48 /\ fragmentIndex \in Nat
            /\ Len(pending') = held + n
        BY <1>3, <1>4, <1>5, <1>8, <2>2, <3>2
      <4> HIDE DEF held, n
      <4>2. /\ held + n \in 0..48 /\ held + n < 48
            /\ 48 * fragmentIndex + (held + n) = 48 * fragmentIndex + held + n
        BY <4>1
      <4> QED
        BY <4>1, <4>2 DEF held, n
    <3>4. Writer'
      BY <1>3, <1>4, <1>7, <1>10, <3>1, <3>3 DEF Writer
    <3> QED
      BY <1>3, <3>1, <3>3, <3>4 DEF Sent
  <2> QED
    BY <2>1, <2>2
<1>12. CASE ~ok
  <2>1. /\ full /\ pending' = filled /\ failure' = "ERR_IO" /\ fragmentIndex' = fragmentIndex
        /\ received' = received \/ received' = stored
    BY <1>2, <1>12
  <2>2. Len(pending') \in 0..FragmentBytes
    <3>1. Len(pending') = 48
      BY <1>7, <1>8, <2>1
    <3> QED
      BY <1>3, <3>1
  <2> QED
    BY <1>4, <1>7, <1>9, <1>10, <1>12, <2>1, <2>2 DEF Writer
<1> QED
  BY <1>11, <1>12

-----------------------------------------------------------------------------
(* Every step keeps the invariant. *)

\* What Keccak squeezed is never the cleared value.
LEMMA SqueezedIsSet == \A ctx : Squeezed(ctx) # Zero
  BY DEF Squeezed, Zero

\* A cleared workspace has its fields and a zero accumulator.
LEMMA ClearedWorkspace ==
    WorkspaceShape(ZeroWorkspace) /\ ZeroWorkspace.accumulator.bound = 0
  BY DEF WorkspaceShape, ZeroWorkspace, ZeroPoly

LEMMA RandomStep ==
    ASSUME KemInv, random_bytes
    PROVE  KemInv'
<1>1. /\ pc = "random" /\ pc' \in {"validate", "returned"}
      /\ (pc' = "validate" /\ result' = result) \/ (pc' = "returned" /\ result' = "ERR_RNG")
  BY DEF random_bytes
<1>2. /\ UNCHANGED <<key, base, phase, misread, row, column, index, workspace, keyHash, secret>>
      /\ UNCHANGED <<pending, fragmentIndex, failure, transcript, keys, peak, received>>
  BY DEF random_bytes, inputs, loop, writer, history, peer
<1>3. Loops' /\ Writer' /\ InOrder' /\ Sent' = Sent
  BY <1>1, <1>2 DEF KemInv, Loops, Writer, InOrder, Early, Sent
<1>4. InFragments'
  BY <1>1, <1>2, <1>3 DEF KemInv, InFragments, Early, Encapsulating
<1>5. Secrets'
  BY <1>1, <1>2 DEF KemInv, Secrets, Early, Encapsulating
<1>6. Magnitudes'
  BY <1>1, <1>2 DEF KemInv, Magnitudes, WorkspaceShape
<1> QED
  BY <1>1, <1>2, <1>3, <1>4, <1>5, <1>6 DEF KemInv, Early

LEMMA ValidateStep ==
    ASSUME KemInv, validate_and_hash_public_key
    PROVE  KemInv'
<1> DEFINE sponge == c0_keccak_absorb(keccak_init("sha3_256"), Served("hash", <<"key">>))
           hashed == [ZeroWorkspace EXCEPT !.sponge = c0_keccak_squeeze(sponge, 32),
                                           !.rho = Served("rho", <<"rho">>)]
<1>1. /\ pc = "validate"
      /\ \/ pc' = "derive" /\ result' = result /\ workspace' = hashed
         \/ /\ pc' = "returned" /\ result' = "ERR_KEY_ENCODING"
            /\ workspace' = ZeroWorkspace /\ keyHash' = Zero
  BY DEF validate_and_hash_public_key
<1>2. /\ UNCHANGED <<key, base, phase, misread, row, column, index, secret>>
      /\ UNCHANGED <<pending, fragmentIndex, failure, transcript, keys, peak, received>>
  BY DEF validate_and_hash_public_key, inputs, loop, writer, history, peer
<1>3. WorkspaceShape(hashed) /\ hashed.accumulator.bound = 0
  <2> DEFINE s == c0_keccak_squeeze(sponge, 32)
             r == Served("rho", <<"rho">>)
  <2> HIDE DEF s, r
  <2>1. /\ WorkspaceShape([ZeroWorkspace EXCEPT !.sponge = s, !.rho = r])
        /\ [ZeroWorkspace EXCEPT !.sponge = s, !.rho = r].accumulator
             = ZeroWorkspace.accumulator
    BY ClearedWorkspace DEF WorkspaceShape
  <2> QED
    BY <2>1, ClearedWorkspace DEF s, r
<1> HIDE DEF hashed
<1>4. Loops' /\ Writer' /\ InOrder' /\ Sent' = Sent
  BY <1>1, <1>2 DEF KemInv, Loops, Writer, InOrder, Early, Sent
<1>5. InFragments'
  BY <1>1, <1>2, <1>4 DEF KemInv, InFragments, Early, Encapsulating
<1>6. Secrets'
  BY <1>1, <1>2 DEF KemInv, Secrets, Early, Encapsulating
<1>7. Magnitudes'
  BY <1>1, <1>2, <1>3, ClearedWorkspace DEF KemInv, Magnitudes
<1> QED
  BY <1>1, <1>2, <1>4, <1>5, <1>6, <1>7 DEF KemInv, Early

LEMMA DeriveStep ==
    ASSUME KemInv, derive_k_and_coins
    PROVE  KemInv'
<1>1. /\ pc = "derive" /\ pc' = "u" /\ secret' # Zero
      /\ \E s, c : workspace' = [workspace EXCEPT !.sponge = s, !.coins = c]
  BY SqueezedIsSet DEF derive_k_and_coins
<1>2. /\ UNCHANGED <<key, base, phase, misread, row, column, index, keyHash, result>>
      /\ UNCHANGED <<pending, fragmentIndex, failure, transcript, keys, peak, received>>
  BY DEF derive_k_and_coins, inputs, loop, writer, history, peer
<1>3. WorkspaceShape(workspace)' /\ workspace'.accumulator = workspace.accumulator
  <2>1. WorkspaceShape(workspace)
    BY DEF KemInv, Magnitudes
  <2> QED
    BY <1>1, <2>1 DEF WorkspaceShape
<1>4. Loops' /\ Writer' /\ InOrder' /\ Sent' = Sent
  BY <1>1, <1>2 DEF KemInv, Loops, Writer, InOrder, Early, Sent
<1>5. InFragments'
  <2>1. Sent' = 320 * row'
    BY <1>1, <1>2, <1>4 DEF KemInv, Loops, InFragments, Early
  <2> QED
    BY <1>1, <1>2, <2>1 DEF KemInv, InFragments, Early, Encapsulating
<1>6. Secrets'
  BY <1>1, <1>2 DEF KemInv, Secrets, Early, Encapsulating
<1>7. Magnitudes'
  BY <1>1, <1>2, <1>3 DEF KemInv, Magnitudes, Loops, Early
<1> QED
  BY <1>1, <1>2, <1>4, <1>5, <1>6, <1>7 DEF KemInv, Encapsulating

\* The accumulator after one more product.
LEMMA SumBound ==
    ASSUME KemInv, pc \in {"u", "v"}, column < MLKEM_K,
           NEW term \in Nat, term <= ProductMax
    PROVE  /\ Cleared.bound + term \in Nat
           /\ Cleared.bound + term <= ProductMax * (column + 1)
           /\ Cleared.bound + term <= Int16Max
<1>1. column \in {0, 1}
  BY DEF KemInv, Loops, MLKEM_K
<1>2. CASE column = 0
  BY <1>2 DEF Cleared, ZeroPoly, ProductMax, Int16Max
<1>3. CASE column = 1
  <2>1. workspace.accumulator.bound \in Nat /\ workspace.accumulator.bound <= 5119
    BY <1>3 DEF KemInv, Magnitudes, ProductMax
  <2>2. Cleared.bound = workspace.accumulator.bound
    BY <1>3 DEF Cleared
  <2> QED
    BY <1>3, <2>1, <2>2 DEF ProductMax, Int16Max
<1> QED
  BY <1>1, <1>2, <1>3

\* The noise vector in the transform domain.
LEMMA VectorBound == ntt(sample_cbd(column, Noise1)).bound = 12574
<1>1. /\ sample_cbd(column, Noise1) =
           [terms |-> sample_cbd(column, Noise1).terms, bound |-> 3]
  BY DEF sample_cbd, Noise1
<1> DEFINE terms == sample_cbd(column, Noise1).terms
<1> HIDE DEF terms
<1>2. ntt([terms |-> terms, bound |-> 3]).bound = NttBound(3)
  BY DEF ntt
<1> QED
  BY <1>1, <1>2, NttOfNoise DEF terms

\* One more column: what both accumulations have in common.
LEMMA ColumnAdded ==
    ASSUME KemInv, pc \in {"u", "v"}, column < MLKEM_K, pc' = pc, column' = column + 1,
           WorkspaceShape(workspace'),
           \E term \in 0..ProductMax :
               workspace'.accumulator.bound = Cleared.bound + term,
           peak' = Larger({12574, workspace'.accumulator.bound}),
           UNCHANGED <<key, base, phase, misread, row, index, keyHash, secret>>,
           UNCHANGED <<pending, fragmentIndex, failure, transcript, keys, result, received>>
    PROVE  KemInv'
<1> DEFINE bound == workspace'.accumulator.bound
<1>1. PICK term \in 0..ProductMax : bound = Cleared.bound + term
  OBVIOUS
<1>2. /\ bound \in Nat /\ bound <= ProductMax * column' /\ bound <= Int16Max
  <2>1. ProductMax = 5119 /\ term \in 0..ProductMax
    BY <1>1 DEF ProductMax
  <2>2. term \in Nat /\ term <= ProductMax
    BY <2>1
  <2> QED
    BY <1>1, <2>2, SumBound
<1>3. peak' \in Nat /\ peak' <= Int16Max
  <2> DEFINE entry == 12574
  <2>1. /\ entry \in Nat /\ entry <= Int16Max /\ peak \in Nat /\ peak <= Int16Max
        /\ peak' = Larger({entry, bound})
    BY DEF KemInv, Magnitudes, Int16Max
  <2> HIDE DEF bound, entry
  <2>2. peak' = Max({entry, bound, peak})
    <3>1. {entry, bound} \cup {peak} = {entry, bound, peak}
      OBVIOUS
    <3>2. Larger({entry, bound}) = Max({entry, bound} \cup {peak})
      BY DEF Larger
    <3> QED
      BY <2>1, <3>1, <3>2
  <2>3. Max({entry, bound, peak}) \in Nat /\ Max({entry, bound, peak}) \in {entry, bound, peak}
    BY <1>2, <2>1, MaxOfThree
  <2> QED
    BY <1>2, <2>1, <2>2, <2>3
<1>4. Loops' /\ Writer' /\ InOrder' /\ Sent' = Sent
  BY DEF KemInv, Loops, Writer, InOrder, Early, Sent, MLKEM_K
<1>5. InFragments'
  BY <1>4 DEF KemInv, InFragments, Early, Encapsulating
<1>6. Secrets'
  BY DEF KemInv, Secrets, Early, Encapsulating
<1>7. Magnitudes'
  BY <1>2, <1>3 DEF Magnitudes
<1> QED
  BY <1>4, <1>5, <1>6, <1>7 DEF KemInv

LEMMA AccumulateUStep ==
    ASSUME KemInv, accumulate_u
    PROVE  KemInv'
<1> DEFINE vector == ntt(sample_cbd(column, Noise1))
           sum(zeta) == matrix_product_add(Cleared, vector, row, column, zeta)
<1>1. PICK zeta \in DirectZetas :
        /\ workspace' = [workspace EXCEPT !.sponge = NttSponge(row, column),
                                          !.temporary = vector, !.accumulator = sum(zeta)]
        /\ peak' = Larger({vector.bound, sum(zeta).bound})
  BY DEF accumulate_u
<1>2. /\ pc = "u" /\ pc' = pc /\ column < MLKEM_K /\ column' = column + 1
      /\ UNCHANGED <<key, base, phase, misread, row, index, keyHash, secret>>
      /\ UNCHANGED <<pending, fragmentIndex, failure, transcript, keys, result, received>>
  BY DEF accumulate_u, inputs, writer, peer
<1>3. vector.bound = 12574
  BY VectorBound
<1> HIDE DEF vector
<1> DEFINE term == BaseMultiplyBound(3328, 12574, IF zeta = "zetas" THEN 1659 ELSE 32768)
<1>4. sum(zeta).bound = Cleared.bound + term
  BY <1>3 DEF matrix_product_add, MultiplyAdd, MLKEM_Q, ZetaBound
<1>5. term \in Nat /\ term <= ProductMax
  BY Products DEF ProductMax
<1> HIDE DEF sum, term
<1>6. WorkspaceShape(workspace') /\ workspace'.accumulator = sum(zeta)
  <2>1. WorkspaceShape(workspace)
    BY DEF KemInv, Magnitudes
  <2> QED
    BY <1>1, <2>1 DEF WorkspaceShape
<1>7. /\ \E t \in 0..ProductMax : workspace'.accumulator.bound = Cleared.bound + t
      /\ peak' = Larger({12574, workspace'.accumulator.bound})
  <2>1. peak' = Larger({vector.bound, sum(zeta).bound})
    BY <1>1
  <2>2. term \in 0..ProductMax
    BY <1>5 DEF ProductMax
  <2>3. workspace'.accumulator.bound = Cleared.bound + term
    BY <1>4, <1>6
  <2>4. vector.bound = 12574 /\ sum(zeta).bound = workspace'.accumulator.bound
    BY <1>3, <1>6
  <2> QED
    BY <2>1, <2>2, <2>3, <2>4
<1> QED
  BY <1>2, <1>6, <1>7, ColumnAdded

LEMMA AccumulateVStep ==
    ASSUME KemInv, accumulate_v
    PROVE  KemInv'
<1> DEFINE vector == ntt(sample_cbd(column, Noise1))
           sum == MultiplyAdd(Cleared, Served(TPass(column), <<"t", column>>), 4095,
                              vector, "zetas")
           term == BaseMultiplyBound(4095, 12574, 1659)
<1>1. /\ workspace' = [workspace EXCEPT !.sponge = CbdSponge(column),
                                        !.temporary = vector, !.accumulator = sum]
      /\ peak' = Larger({vector.bound, sum.bound})
  BY DEF accumulate_v
<1>2. /\ pc = "v" /\ pc' = pc /\ column < MLKEM_K /\ column' = column + 1
      /\ UNCHANGED <<key, base, phase, misread, row, index, keyHash, secret>>
      /\ UNCHANGED <<pending, fragmentIndex, failure, transcript, keys, result, received>>
  BY DEF accumulate_v, inputs, writer, peer
<1>3. vector.bound = 12574
  BY VectorBound
<1> HIDE DEF vector
<1>4. sum.bound = Cleared.bound + term
  BY <1>3 DEF MultiplyAdd, ZetaBound
<1>5. term \in Nat /\ term <= ProductMax
  BY Products DEF ProductMax
<1> HIDE DEF sum, term
<1>6. WorkspaceShape(workspace') /\ workspace'.accumulator = sum
  <2>1. WorkspaceShape(workspace)
    BY DEF KemInv, Magnitudes
  <2> QED
    BY <1>1, <2>1 DEF WorkspaceShape
<1>7. /\ \E t \in 0..ProductMax : workspace'.accumulator.bound = Cleared.bound + t
      /\ peak' = Larger({12574, workspace'.accumulator.bound})
  <2>1. peak' = Larger({vector.bound, sum.bound})
    BY <1>1
  <2>2. term \in 0..ProductMax
    BY <1>5 DEF ProductMax
  <2>3. workspace'.accumulator.bound = Cleared.bound + term
    BY <1>4, <1>6
  <2>4. vector.bound = 12574 /\ sum.bound = workspace'.accumulator.bound
    BY <1>3, <1>6
  <2> QED
    BY <2>1, <2>2, <2>3, <2>4
<1> QED
  BY <1>2, <1>6, <1>7, ColumnAdded

\* The pieces of the ciphertext.
LEMMA CiphertextPieces ==
    ASSUME NEW from \in Nat, NEW n \in Nat, NEW m \in 0..n
    PROVE  /\ SubSeq(Ciphertext(from, n), 1, m) = Ciphertext(from, m)
           /\ SubSeq(Ciphertext(from, n), m + 1, n) = Ciphertext(from + m, n - m)
<1>1. SubSeq(Ciphertext(from, n), 1, m) = [k \in 1..m |-> Ciphertext(from, n)[k]]
  BY DEF Ciphertext
<1>2. SubSeq(Ciphertext(from, n), m + 1, n)
        = [k \in 1..(n - m) |-> Ciphertext(from, n)[m + k]]
  BY DEF Ciphertext
<1>3. \A k \in 1..m : Ciphertext(from, n)[k] = <<"ciphertext", from + k - 1>>
  BY DEF Ciphertext
<1>4. \A k \in 1..(n - m) :
        Ciphertext(from, n)[m + k] = <<"ciphertext", (from + m) + k - 1>>
  <2> SUFFICES ASSUME NEW k \in 1..(n - m)
               PROVE  Ciphertext(from, n)[m + k] = <<"ciphertext", (from + m) + k - 1>>
    OBVIOUS
  <2>1. m + k \in 1..n /\ from + (m + k) - 1 = (from + m) + k - 1
    OBVIOUS
  <2>2. Ciphertext(from, n)[m + k] = <<"ciphertext", from + (m + k) - 1>>
    BY <2>1 DEF Ciphertext
  <2> QED
    BY <2>1, <2>2
<1>5. SubSeq(Ciphertext(from, n), 1, m) = Ciphertext(from, m)
  BY <1>1, <1>3 DEF Ciphertext
<1>6. SubSeq(Ciphertext(from, n), m + 1, n) = Ciphertext(from + m, n - m)
  BY <1>2, <1>4 DEF Ciphertext
<1> QED
  BY <1>5, <1>6

LEMMA CiphertextJoins ==
    ASSUME NEW from \in Nat, NEW n \in Nat, NEW m \in Nat
    PROVE  Ciphertext(from, n) \o Ciphertext(from + n, m) = Ciphertext(from, n + m)
  BY DEF Ciphertext

\* A write hands on the next bytes of the ciphertext.
LEMMA WriteInOrder ==
    ASSUME Writer, InOrder, Len(pending) < FragmentBytes, NEW n \in 1..5, NEW ok \in BOOLEAN,
           write_ciphertext(Ciphertext(Sent, n), ok)
    PROVE  InOrder'
<1> DEFINE data == Ciphertext(Sent, n)
           held == Len(pending)
           space == FragmentBytes - Len(pending)
           take == IF Len(data) < space THEN Len(data) ELSE space
           filled == pending \o SubSeq(data, 1, take)
           full == Len(filled) = FragmentBytes
           stored == [received EXCEPT ![fragmentIndex] = filled]
<1>1. /\ fragmentIndex < FragmentCount
      /\ ok => /\ pending' = IF full THEN Leftover(data, take) ELSE filled
               /\ fragmentIndex' = fragmentIndex + (IF full THEN 1 ELSE 0)
               /\ received' = IF full THEN stored ELSE received
      /\ ~ok => /\ pending' = filled /\ fragmentIndex' = fragmentIndex
                /\ received' = received \/ received' = stored
  BY DEF write_ciphertext
<1>2. /\ FragmentBytes = 48 /\ FragmentCount = 16 /\ pending \in Seq(Positions)
      /\ received \in [0..15 -> Seq(Positions)]
      /\ fragmentIndex \in Nat
  BY DEF Writer, FragmentBytes, FragmentCount
<1>3. held \in Nat /\ held < 48 /\ Sent = 48 * fragmentIndex + held /\ Sent \in Nat
  <2>1. Len(pending) \in Nat
    BY <1>2
  <2> QED
    BY <1>2, <2>1 DEF Sent
<1>4. fragmentIndex \in 0..15
  BY <1>1, <1>2
<1>5. n \in Nat /\ Ciphertext(Sent, n) \in Seq(Positions) /\ Len(Ciphertext(Sent, n)) = n
  <2>1. n \in Nat
    OBVIOUS
  <2>2. Sent \in Nat
    BY <1>3
  <2> QED
    BY <2>1, <2>2, MessageBytes
<1>6. /\ take \in 0..n /\ held + take <= 48
      /\ held + take # 48 => take = n /\ held + take < 48
  <2>1. take = IF n < 48 - held THEN n ELSE 48 - held
    BY <1>2, <1>5
  <2>2. n \in Nat /\ 48 \in Nat /\ held \in Nat /\ held < 48
    BY <1>3, <1>5
  <2> HIDE DEF take, held
  <2> QED
    BY <2>1, <2>2, Filling
<1> HIDE DEF take
<1>7. filled = Ciphertext(48 * fragmentIndex, held + take) /\ Len(filled) = held + take
  <2>1. SubSeq(data, 1, take) = Ciphertext(48 * fragmentIndex + held, take)
    <3>1. Sent \in Nat /\ n \in Nat /\ take \in 0..n
      BY <1>3, <1>5, <1>6
    <3>2. SubSeq(Ciphertext(Sent, n), 1, take) = Ciphertext(Sent, take)
      BY <3>1, CiphertextPieces
    <3> QED
      BY <1>3, <3>2
  <2>2. pending = Ciphertext(48 * fragmentIndex, held)
    BY <1>2 DEF InOrder
  <2> DEFINE from == 48 * fragmentIndex
  <2>3. from \in Nat /\ take \in Nat
    BY <1>2, <1>6
  <2> HIDE DEF from, held
  <2>4. Ciphertext(from, held) \o Ciphertext(from + held, take) = Ciphertext(from, held + take)
    BY <1>3, <2>3, CiphertextJoins, ZenonT(60)
  <2>5. Len(Ciphertext(from, held + take)) = held + take
    BY <1>3, <2>3, MessageBytes
  <2> QED
    BY <2>1, <2>2, <2>4, <2>5 DEF from
<1>8. Leftover(data, take) = Ciphertext(48 * fragmentIndex + held + take, n - take)
      /\ Len(Leftover(data, take)) = n - take
  <2>1. SubSeq(data, take + 1, n) = Ciphertext(Sent + take, n - take)
    <3>1. Sent \in Nat /\ n \in Nat /\ take \in 0..n
      BY <1>3, <1>5, <1>6
    <3> QED
      BY <3>1, CiphertextPieces
  <2>2. n - take \in Nat /\ Sent + take \in Nat
    BY <1>3, <1>6
  <2>3. Len(Ciphertext(Sent + take, n - take)) = n - take
    BY <2>2, MessageBytes
  <2> QED
    BY <1>3, <1>5, <2>1, <2>3 DEF Leftover
<1> HIDE DEF filled, data, held
<1>9. /\ \A f \in 0..(fragmentIndex - 1) :
           received[f] = Ciphertext(48 * f, 48) /\ stored[f] = received[f]
      /\ stored[fragmentIndex] = filled
  <2>1. ASSUME NEW f \in 0..(fragmentIndex - 1)
        PROVE  received[f] = Ciphertext(48 * f, 48) /\ stored[f] = received[f]
    <3>1. received[f] = Ciphertext(48 * f, 48)
      BY <1>2 DEF InOrder
    <3>2. f # fragmentIndex /\ f \in 0..15
      BY <1>4
    <3> QED
      BY <1>2, <3>1, <3>2
  <2>2. stored[fragmentIndex] = filled
    BY <1>2, <1>4
  <2> QED
    BY <2>1, <2>2
<1> HIDE DEF stored
<1>10. CASE ok /\ full
  <2>1. held + take = 48
    BY <1>2, <1>7, <1>10
  <2>2. fragmentIndex' = fragmentIndex + 1 /\ received' = stored
        /\ pending' = Leftover(data, take)
    BY <1>1, <1>10
  <2>3. Leftover(data, take) = Ciphertext(48 * (fragmentIndex + 1), n - take)
    <3>1. 48 * fragmentIndex + held + take = 48 * (fragmentIndex + 1)
      BY <1>2, <1>3, <1>6, <2>1
    <3> QED
      BY <1>8, <3>1
  <2>4. \A f \in 0..(fragmentIndex' - 1) : received'[f] = Ciphertext(48 * f, 48)
    <3>1. ASSUME NEW f \in 0..fragmentIndex
          PROVE  stored[f] = Ciphertext(48 * f, 48)
      <4>1. CASE f = fragmentIndex
        BY <1>7, <1>9, <2>1, <4>1
      <4>2. CASE f # fragmentIndex
        <5>1. f \in 0..(fragmentIndex - 1)
          BY <1>4, <4>2
        <5> QED
          BY <1>9, <5>1
      <4> QED
        BY <4>1, <4>2
    <3>2. fragmentIndex' - 1 = fragmentIndex
      BY <1>4, <2>2
    <3> QED
      BY <2>2, <3>1, <3>2
  <2> QED
    BY <1>2, <1>8, <2>2, <2>3, <2>4 DEF InOrder
<1>11. CASE ~(ok /\ full)
  <2>1. pending' = filled /\ fragmentIndex' = fragmentIndex
        /\ (received' = received \/ received' = stored)
    BY <1>1, <1>2, <1>11
  <2>2. \A f \in 0..(fragmentIndex' - 1) : received'[f] = Ciphertext(48 * f, 48)
    BY <1>9, <2>1
  <2> QED
    BY <1>2, <1>7, <2>1, <2>2 DEF InOrder
<1> QED
  BY <1>10, <1>11

\* A polynomial finished: its accumulator is back in the range of a reduced
\* coefficient plus noise.
LEMMA PolyFinished ==
    ASSUME KemInv, NEW nonce, FinishPoly(nonce)
    PROVE  /\ WorkspaceShape(workspace') /\ workspace'.accumulator.bound = 1705
           /\ peak' \in Nat /\ peak' <= Int16Max
<1> DEFINE noise == sample_cbd(nonce, Noise2)
           sum == Finished(workspace.accumulator, noise)
           bound == sum.bound
           top == 3506
<1>1. /\ workspace' = [workspace EXCEPT !.sponge = CbdSponge(nonce), !.temporary = noise,
                                        !.accumulator = sum]
      /\ peak' = Larger({InverseNttBound(BarrettBound).peak, bound})
  BY DEF FinishPoly
<1>2. bound = 1705 /\ InverseNttBound(BarrettBound).peak = top
  <2>1. noise.bound = 2
    BY DEF sample_cbd, Noise2
  <2>2. InverseNttBound(BarrettBound).b = 1703 /\ InverseNttBound(BarrettBound).peak = 3506
    BY InverseOfReduced
  <2>3. bound = InverseNttBound(BarrettBound).b + noise.bound
    BY DEF Finished
  <2> QED
    BY <2>1, <2>2, <2>3
<1> HIDE DEF noise, sum
<1>3. WorkspaceShape(workspace') /\ workspace'.accumulator = sum
  <2>1. WorkspaceShape(workspace)
    BY DEF KemInv, Magnitudes
  <2> QED
    BY <1>1, <2>1 DEF WorkspaceShape
<1>4. peak' \in Nat /\ peak' <= Int16Max
  <2>1. /\ top \in Nat /\ top <= Int16Max /\ peak \in Nat /\ peak <= Int16Max
        /\ bound \in Nat /\ bound <= Int16Max
    BY <1>2 DEF KemInv, Magnitudes, Int16Max
  <2>2. peak' = Larger({top, bound})
    BY <1>1, <1>2
  <2> HIDE DEF bound, top
  <2>3. peak' = Max({top, bound, peak})
    <3>1. {top, bound} \cup {peak} = {top, bound, peak}
      OBVIOUS
    <3> QED
      BY <2>2, <3>1 DEF Larger
  <2>4. Max({top, bound, peak}) \in Nat /\ Max({top, bound, peak}) \in {top, bound, peak}
    BY <2>1, MaxOfThree
  <2> QED
    BY <2>1, <2>3, <2>4
<1> QED
  BY <1>2, <1>3, <1>4

LEMMA FinishStep ==
    ASSUME KemInv, finish_u \/ finish_v
    PROVE  KemInv'
<1>1. \/ pc = "u" /\ pc' = "write_u"
      \/ pc = "v" /\ pc' = "write_v"
  BY DEF finish_u, finish_v
<1>2. PICK nonce : FinishPoly(nonce)
  BY DEF finish_u, finish_v
<1>3. /\ UNCHANGED <<key, base, phase, misread, row, column, keyHash, secret>> /\ index' = 0
      /\ UNCHANGED <<pending, fragmentIndex, failure, transcript, keys, result, received>>
  BY <1>2 DEF FinishPoly, inputs, writer, peer
<1>4. /\ WorkspaceShape(workspace') /\ workspace'.accumulator.bound = 1705
      /\ peak' \in Nat /\ peak' <= Int16Max
  BY <1>2, PolyFinished
<1>5. Loops' /\ Writer' /\ InOrder' /\ Sent' = Sent
  BY <1>1, <1>3 DEF KemInv, Loops, Writer, InOrder, Early, Sent, MLKEM_N
<1>6. InFragments'
  <2>1. CASE pc = "u" /\ pc' = "write_u"
    <3>1. row \in Nat /\ Sent = 320 * row
      BY <2>1 DEF KemInv, Loops, InFragments
    <3>2. index' = 4 * 0 /\ Sent' = 320 * row' + 5 * 0
      BY <1>3, <1>5, <3>1
    <3> QED
      BY <1>3, <2>1, <3>2 DEF KemInv, InFragments, Early, Encapsulating
  <2>2. CASE pc = "v" /\ pc' = "write_v"
    <3>1. index' = 2 * 0 /\ Sent' = 640 + 0
      BY <1>3, <1>5, <2>2 DEF KemInv, InFragments
    <3> QED
      BY <1>3, <2>2, <3>1 DEF KemInv, InFragments, Early, Encapsulating
  <2> QED
    BY <1>1, <2>1, <2>2
<1>7. Secrets'
  BY <1>1, <1>3 DEF KemInv, Secrets, Early, Encapsulating
<1>8. Magnitudes'
  BY <1>1, <1>4 DEF Magnitudes
<1> QED
  BY <1>1, <1>3, <1>5, <1>6, <1>7, <1>8 DEF KemInv, Encapsulating

\* A write that fails: everything is cleared before the return.
LEMMA AbandonStep ==
    ASSUME KemInv, pc \in {"write_u", "write_v"}, Abandon, Writer', InOrder',
           UNCHANGED <<key, base, phase, misread>>, peak' \in Nat, peak' <= Int16Max
    PROVE  KemInv'
<1>1. /\ pc' = "returned" /\ result' = "ERR_IO" /\ secret' = Zero
      /\ workspace' = ZeroWorkspace /\ keyHash' = Zero
      /\ UNCHANGED <<row, column, index, keys>>
  BY DEF Abandon, WipeSecret, loop
<1>2. Loops'
  BY <1>1 DEF KemInv, Loops, Early
<1>3. InFragments'
  BY <1>1 DEF InFragments, Early, Encapsulating
<1>4. Secrets'
  BY <1>1 DEF KemInv, Secrets, Early, Encapsulating
<1>5. Magnitudes'
  BY <1>1, ClearedWorkspace DEF Magnitudes
<1> QED
  BY <1>1, <1>2, <1>3, <1>4, <1>5 DEF KemInv

LEMMA WriteUStep ==
    ASSUME KemInv, write_compressed_u
    PROVE  KemInv'
<1> DEFINE data == Ciphertext(320 * row + 5 * (index \div 4), 5)
           last == index + 4 = MLKEM_N
<1>1. /\ pc = "write_u" /\ UNCHANGED <<key, base, phase, misread>>
      /\ \/ /\ write_ciphertext(data, TRUE)
            /\ index' = index + 4
            /\ row' = IF last THEN row + 1 ELSE row
            /\ column' = IF last THEN 0 ELSE column
            /\ pc' = CASE ~last -> "write_u"
                       [] last /\ row + 1 < MLKEM_K -> "u"
                       [] OTHER -> "v"
            /\ UNCHANGED <<workspace, keyHash, secret, result, keys, written, peak>>
         \/ write_ciphertext(data, FALSE) /\ Abandon /\ UNCHANGED peak
  BY DEF write_compressed_u, inputs
<1>2. PICK m \in 0..63 : index = 4 * m /\ Sent = 320 * row + 5 * m
  BY <1>1 DEF KemInv, InFragments
<1>3. /\ row \in 0..1 /\ Len(pending) < FragmentBytes /\ failure = "OK" /\ Writer /\ InOrder
      /\ peak \in Nat /\ peak <= Int16Max
  BY <1>1 DEF KemInv, Loops, InFragments, Encapsulating, Magnitudes
<1>4. data = Ciphertext(Sent, 5) /\ Sent \in Nat
  <2>1. index \div 4 = m
    BY <1>2
  <2> QED
    BY <1>2, <1>3, <2>1
<1>5. Ciphertext(Sent, 5) \in Seq(Positions) /\ Len(Ciphertext(Sent, 5)) = 5
  BY <1>4, MessageBytes
<1> HIDE DEF data
<1>6. ASSUME NEW ok \in BOOLEAN, write_ciphertext(data, ok)
      PROVE  /\ Writer' /\ InOrder'
             /\ ok => Sent' = Sent + 5 /\ Len(pending') < FragmentBytes /\ failure' = "OK"
  <2>1. write_ciphertext(Ciphertext(Sent, 5), ok)
    BY <1>4, <1>6
  <2>2. InOrder'
    BY <1>3, <2>1, WriteInOrder
  <2>3. Len(Ciphertext(Sent, 5)) \in 1..5
    BY <1>5
  <2>4. Writer' /\ (ok => /\ Sent' = Sent + Len(Ciphertext(Sent, 5))
                          /\ Len(pending') < FragmentBytes /\ failure' = "OK")
    BY <1>3, <1>5, <2>1, <2>3, WriteKeeps
  <2> QED
    BY <1>5, <2>2, <2>4
<1>7. CASE write_ciphertext(data, FALSE) /\ Abandon /\ UNCHANGED peak
  BY <1>1, <1>3, <1>6, <1>7, AbandonStep
<1>8. CASE /\ write_ciphertext(data, TRUE)
           /\ index' = index + 4
           /\ row' = IF last THEN row + 1 ELSE row
           /\ column' = IF last THEN 0 ELSE column
           /\ pc' = CASE ~last -> "write_u"
                      [] last /\ row + 1 < MLKEM_K -> "u"
                      [] OTHER -> "v"
           /\ UNCHANGED <<workspace, keyHash, secret, result, keys, written, peak>>
  <2>1. /\ Writer' /\ InOrder' /\ Sent' = 320 * row + 5 * m + 5
        /\ Len(pending') < FragmentBytes /\ failure' = "OK"
    BY <1>2, <1>6, <1>8
  <2>2. last <=> m = 63
    BY <1>2 DEF MLKEM_N
  <2>3. CASE m # 63
    <3>1. /\ pc' = "write_u" /\ row' = row /\ column' = column /\ m + 1 \in 0..63
          /\ index' = 4 * (m + 1) /\ Sent' = 320 * row' + 5 * (m + 1)
      <4>1. pc' = "write_u" /\ row' = row /\ column' = column /\ index' = index + 4
        BY <1>8, <2>2, <2>3
      <4>2. /\ m + 1 \in 0..63 /\ 4 * m + 4 = 4 * (m + 1)
            /\ 320 * row + 5 * m + 5 = 320 * row + 5 * (m + 1)
        BY <1>3, <2>3
      <4> QED
        BY <1>2, <2>1, <4>1, <4>2
    <3>2. Loops'
      BY <1>3, <3>1 DEF KemInv, Loops, Early, MLKEM_N
    <3>3. InFragments'
      <4>1. \E n \in 0..63 : index' = 4 * n /\ Sent' = 320 * row' + 5 * n
        BY <3>1, Zenon
      <4>2. pc' = "write_u" /\ Len(pending') < FragmentBytes /\ failure' = "OK"
        BY <2>1, <3>1
      <4> QED
        BY <4>1, <4>2 DEF InFragments, Early, Encapsulating
    <3> QED
      BY <1>1, <1>8, <2>1, <3>1, <3>2, <3>3
         DEF KemInv, Secrets, Magnitudes, Early, Encapsulating
  <2>4. CASE m = 63
    <3>1. /\ row' = row + 1 /\ column' = 0 /\ index' = 256 /\ Sent' = 320 * (row + 1)
          /\ (row = 0 /\ pc' = "u") \/ (row = 1 /\ pc' = "v")
      BY <1>2, <1>3, <1>8, <2>1, <2>2, <2>4 DEF MLKEM_K
    <3>2. Loops'
      BY <1>3, <3>1 DEF Loops, Early, MLKEM_N, MLKEM_K
    <3>3. InFragments'
      BY <1>3, <2>1, <3>1 DEF InFragments, Early, Encapsulating
    <3> QED
      BY <1>1, <1>8, <2>1, <3>1, <3>2, <3>3
         DEF KemInv, Secrets, Magnitudes, Early, Encapsulating
  <2> QED
    BY <2>3, <2>4
<1> QED
  BY <1>1, <1>7, <1>8

LEMMA WriteVStep ==
    ASSUME KemInv, write_compressed_v
    PROVE  KemInv'
<1> DEFINE data == Ciphertext(640 + index \div 2, 1)
           last == index + 2 = MLKEM_N
<1>1. /\ pc = "write_v" /\ UNCHANGED <<key, base, phase, misread>>
      /\ peak' = Larger({workspace.accumulator.bound + 1665})
      /\ \/ /\ write_ciphertext(data, TRUE)
            /\ index' = index + 2
            /\ workspace' = IF last THEN ZeroWorkspace ELSE workspace
            /\ keyHash' = IF last THEN Zero ELSE keyHash
            /\ pc' = IF last THEN "returned" ELSE "write_v"
            /\ UNCHANGED <<row, column, secret, result, keys, written>>
         \/ write_ciphertext(data, FALSE) /\ Abandon
  BY DEF write_compressed_v, inputs
<1>2. PICK m \in 0..127 : index = 2 * m /\ Sent = 640 + m
  BY <1>1 DEF KemInv, InFragments
<1>3. /\ Len(pending) < FragmentBytes /\ failure = "OK" /\ Writer /\ InOrder
  BY <1>1 DEF KemInv, InFragments, Encapsulating
<1>4. peak' \in Nat /\ peak' <= Int16Max
  <2> DEFINE bound == workspace.accumulator.bound + 1665
  <2>1. /\ bound \in Nat /\ bound <= Int16Max /\ peak \in Nat /\ peak <= Int16Max
    BY <1>1 DEF KemInv, Magnitudes, Int16Max
  <2> HIDE DEF bound
  <2>2. peak' = Max({bound, peak})
    <3>1. {bound} \cup {peak} = {bound, peak}
      OBVIOUS
    <3>2. peak' = Larger({bound})
      <4>1. peak' = Larger({workspace.accumulator.bound + 1665})
        BY <1>1
      <4> QED
        BY <4>1 DEF bound
    <3>3. Larger({bound}) = Max({bound} \cup {peak})
      BY DEF Larger
    <3> QED
      BY <3>1, <3>2, <3>3
  <2>3. Max({bound, peak}) \in Nat /\ Max({bound, peak}) \in {bound, peak}
    BY <2>1, MaxOfTwo
  <2> QED
    BY <2>1, <2>2, <2>3
<1>5. data = Ciphertext(Sent, 1) /\ Sent \in Nat
  <2>1. index \div 2 = m
    BY <1>2
  <2> QED
    BY <1>2, <2>1
<1>6. Ciphertext(Sent, 1) \in Seq(Positions) /\ Len(Ciphertext(Sent, 1)) = 1
  BY <1>5, MessageBytes
<1> HIDE DEF data
<1>7. ASSUME NEW ok \in BOOLEAN, write_ciphertext(data, ok)
      PROVE  /\ Writer' /\ InOrder'
             /\ ok => Sent' = Sent + 1 /\ Len(pending') < FragmentBytes /\ failure' = "OK"
  <2>1. write_ciphertext(Ciphertext(Sent, 1), ok)
    BY <1>5, <1>7
  <2>2. InOrder'
    BY <1>3, <2>1, WriteInOrder
  <2>3. Len(Ciphertext(Sent, 1)) \in 1..5
    BY <1>6
  <2>4. Writer' /\ (ok => /\ Sent' = Sent + Len(Ciphertext(Sent, 1))
                          /\ Len(pending') < FragmentBytes /\ failure' = "OK")
    BY <1>3, <1>6, <2>1, <2>3, WriteKeeps
  <2> QED
    BY <1>6, <2>2, <2>4
<1>8. CASE write_ciphertext(data, FALSE) /\ Abandon
  BY <1>1, <1>4, <1>7, <1>8, AbandonStep
<1>9. CASE /\ write_ciphertext(data, TRUE)
           /\ index' = index + 2
           /\ workspace' = IF last THEN ZeroWorkspace ELSE workspace
           /\ keyHash' = IF last THEN Zero ELSE keyHash
           /\ pc' = IF last THEN "returned" ELSE "write_v"
           /\ UNCHANGED <<row, column, secret, result, keys, written>>
  <2>1. /\ Writer' /\ InOrder' /\ Sent' = 640 + m + 1
        /\ Len(pending') < FragmentBytes /\ failure' = "OK"
    BY <1>2, <1>7, <1>9
  <2>2. last <=> m = 127
    BY <1>2 DEF MLKEM_N
  <2>3. CASE m # 127
    <3>1. /\ pc' = "write_v" /\ workspace' = workspace /\ keyHash' = keyHash
          /\ m + 1 \in 0..127 /\ index' = 2 * (m + 1) /\ Sent' = 640 + (m + 1)
      BY <1>2, <1>9, <2>1, <2>2, <2>3
    <3>2. Loops'
      BY <1>1, <1>9, <3>1 DEF KemInv, Loops, Early, MLKEM_N
    <3>3. InFragments'
      <4>1. \E n \in 0..127 : index' = 2 * n /\ Sent' = 640 + n
        BY <3>1, Zenon
      <4>2. pc' = "write_v" /\ Len(pending') < FragmentBytes /\ failure' = "OK"
        BY <2>1, <3>1
      <4> QED
        BY <4>1, <4>2 DEF InFragments, Early, Encapsulating
    <3> QED
      BY <1>1, <1>4, <1>9, <2>1, <3>1, <3>2, <3>3
         DEF KemInv, Secrets, Magnitudes, Early, Encapsulating
  <2>4. CASE m = 127
    <3>1. /\ pc' = "returned" /\ workspace' = ZeroWorkspace /\ keyHash' = Zero
          /\ index' = 256 /\ Sent' = CiphertextBytes
      BY <1>2, <1>9, <2>1, <2>2, <2>4 DEF CiphertextBytes
    <3>2. Loops'
      BY <1>1, <1>9, <3>1 DEF KemInv, Loops, Early, MLKEM_N
    <3>3. InFragments'
      BY <2>1, <3>1 DEF InFragments, Early, Encapsulating
    <3>4. Secrets'
      BY <1>1, <1>9, <3>1 DEF KemInv, Secrets, Early, Encapsulating
    <3>5. Magnitudes'
      BY <1>4, <3>1, ClearedWorkspace DEF Magnitudes
    <3> QED
      BY <1>1, <1>9, <2>1, <3>1, <3>2, <3>3, <3>4, <3>5 DEF KemInv
  <2> QED
    BY <2>3, <2>4
<1> QED
  BY <1>1, <1>8, <1>9

LEMMA ConnectSteps ==
    ASSUME KemInv, derive_session_keys \/ ConnectFails \/ exchange_finished
    PROVE  KemInv'
<1>1. /\ UNCHANGED <<key, base, phase, misread, row, column, index, keyHash>>
      /\ UNCHANGED <<pending, fragmentIndex, failure, result, peak, received>>
  BY DEF derive_session_keys, ConnectFails, exchange_finished, inputs, loop, writer,
         history, peer
<1>2. transcript' = c0_sha256_init \/ transcript' = transcript
  BY DEF derive_session_keys, ConnectFails, exchange_finished
<1>3. /\ pc \in {"returned", "finish"} /\ secret' = Zero
      /\ \/ pc = "returned" /\ pc' = "finish" /\ workspace' = workspace
         \/ pc' \in {"established", "failed"} /\ workspace' = ZeroWorkspace /\ keys' = Zero
  BY DEF derive_session_keys, ConnectFails, exchange_finished, KemInv, Secrets
<1>4. Writer' /\ InOrder'
  <2>1. c0_sha256_init.buffer = <<>>
    BY DEF c0_sha256_init
  <2>2. transcript'.buffer \in Seq(Positions) /\ Len(transcript'.buffer) < BlockBytes
    <3>1. CASE transcript' = c0_sha256_init
      <4>1. transcript'.buffer = <<>>
        BY <2>1, <3>1
      <4> QED
        BY <4>1 DEF BlockBytes
    <3>2. CASE transcript' = transcript
      BY <3>2 DEF KemInv, Writer
    <3> QED
      BY <1>2, <3>1, <3>2
  <2> QED
    BY <1>1, <2>2 DEF KemInv, Writer, InOrder
<1>5. Loops' /\ InFragments'
  BY <1>1, <1>3 DEF KemInv, Loops, InFragments, Early, Encapsulating
<1>6. Secrets'
  BY <1>1, <1>3 DEF KemInv, Secrets, Early, Encapsulating
<1>7. Magnitudes'
  BY <1>1, <1>3, ClearedWorkspace DEF KemInv, Magnitudes
<1> QED
  BY <1>1, <1>3, <1>4, <1>5, <1>6, <1>7 DEF KemInv

LEMMA KemInit == Init => KemInv
<1> SUFFICES ASSUME Init PROVE KemInv
  OBVIOUS
<1>1. /\ pc = "random" /\ row = 0 /\ column = 0 /\ index = 0
      /\ workspace = ZeroWorkspace /\ keyHash = Zero /\ secret = Zero
      /\ pending = <<>> /\ fragmentIndex = 0 /\ failure = "OK"
      /\ keys = Zero /\ result = "OK" /\ peak = 0
      /\ received = [f \in 0..(FragmentCount - 1) |-> <<>>]
  BY DEF Init
<1>2. \E i \in Inputs : <<key, base, phase, misread>> = <<i.key, i.base, i.phase, i.misread>>
  BY DEF Init
<1>3. transcript.buffer \in Seq(Positions) /\ Len(transcript.buffer) < BlockBytes
  <2> DEFINE first == c0_sha256_update(c0_sha256_init, Bytes("prefix", PrefixBytes))
             second == c0_sha256_update(first, Bytes("hello", HelloCoreBytes))
  <2>1. /\ Bytes("prefix", PrefixBytes) \in Seq(Positions)
        /\ Bytes("hello", HelloCoreBytes) \in Seq(Positions)
        /\ Bytes("challenge", ChallengeCoreBytes) \in Seq(Positions)
    BY MessageBytes DEF PrefixBytes, HelloCoreBytes, ChallengeCoreBytes
  <2>2. c0_sha256_init.buffer \in Seq(Positions) /\ Len(c0_sha256_init.buffer) < BlockBytes
    BY DEF c0_sha256_init, BlockBytes
  <2>3. first.buffer \in Seq(Positions) /\ Len(first.buffer) < BlockBytes
    BY <2>1, <2>2, BufferBelowBlock
  <2> HIDE DEF first
  <2>4. second.buffer \in Seq(Positions) /\ Len(second.buffer) < BlockBytes
    BY <2>1, <2>3, BufferBelowBlock
  <2>5. transcript = c0_sha256_update(second, Bytes("challenge", ChallengeCoreBytes))
    BY DEF Init, first
  <2> HIDE DEF second
  <2> QED
    BY <2>1, <2>4, <2>5, BufferBelowBlock
<1>4. Len(pending) = 0 /\ Sent = 0
  BY <1>1 DEF Sent, FragmentBytes
<1>5. Loops
  BY <1>1 DEF Loops, Early, MLKEM_K, MLKEM_N
<1>6. Writer
  BY <1>1, <1>3, <1>4 DEF Writer, FragmentBytes, FragmentCount
<1>7. InOrder
  <2>1. Ciphertext(0, 0) = <<>>
    BY DEF Ciphertext
  <2>2. FragmentBytes * fragmentIndex = 0 /\ 0..(fragmentIndex - 1) = {}
    BY <1>1 DEF FragmentBytes
  <2> QED
    BY <1>1, <1>4, <2>1, <2>2 DEF InOrder
<1>8. InFragments
  BY <1>1, <1>4 DEF InFragments, Early, Encapsulating, FragmentBytes
<1>9. Secrets
  BY <1>1 DEF Secrets, Early, Encapsulating
<1>10. Magnitudes
  BY <1>1, ClearedWorkspace DEF Magnitudes, Int16Max
<1> QED
  BY <1>1, <1>2, <1>5, <1>6, <1>7, <1>8, <1>9, <1>10 DEF KemInv, Early

LEMMA KemStep == KemInv /\ [Next]_vars => KemInv'
<1> SUFFICES ASSUME KemInv, [Next]_vars PROVE KemInv'
  OBVIOUS
<1>1. CASE UNCHANGED vars
  <2>1. /\ UNCHANGED <<pc, key, base, phase, misread, row, column, index, workspace, keyHash>>
        /\ UNCHANGED <<secret, pending, fragmentIndex, failure, transcript, keys, result>>
        /\ UNCHANGED <<peak, received>>
    BY <1>1 DEF vars, inputs, loop, writer, history, peer
  <2>2. Sent' = Sent
    BY <2>1 DEF Sent
  <2>3. Loops' /\ Writer' /\ InOrder'
    BY <2>1 DEF KemInv, Loops, Writer, InOrder
  <2>4. InFragments'
    BY <2>1, <2>2 DEF KemInv, InFragments
  <2>5. Secrets' /\ Magnitudes'
    BY <2>1 DEF KemInv, Secrets, Magnitudes
  <2> QED
    BY <2>1, <2>3, <2>4, <2>5 DEF KemInv
<1>2. CASE random_bytes
  BY <1>2, RandomStep
<1>3. CASE validate_and_hash_public_key
  BY <1>3, ValidateStep
<1>4. CASE derive_k_and_coins
  BY <1>4, DeriveStep
<1>5. CASE accumulate_u
  BY <1>5, AccumulateUStep
<1>6. CASE finish_u \/ finish_v
  BY <1>6, FinishStep
<1>7. CASE write_compressed_u
  BY <1>7, WriteUStep
<1>8. CASE accumulate_v
  BY <1>8, AccumulateVStep
<1>9. CASE write_compressed_v
  BY <1>9, WriteVStep
<1>10. CASE derive_session_keys \/ exchange_finished \/ ConnectFails
  BY <1>10, ConnectSteps
<1> QED
  BY <1>1, <1>2, <1>3, <1>4, <1>5, <1>6, <1>7, <1>8, <1>9, <1>10 DEF Next

\* A session's step is a step of the handshake or leaves it alone.
LEMMA SessionStep == [SessionNext]_allVars => [Next]_vars
<1>1. UNCHANGED allVars => UNCHANGED vars
  BY DEF allVars
<1>2. Handshake \/ Establish => Next
  BY DEF Handshake, Establish, Next
<1>3. ASSUME NEW m, c0pq_client_seal_record(m) \/ sealRecord(m)
      PROVE  UNCHANGED vars
  BY <1>3 DEF c0pq_client_seal_record, sealRecord
<1>4. c0pq_client_open_record \/ openRecord => UNCHANGED vars
  BY DEF c0pq_client_open_record, openRecord
<1> QED
  BY <1>1, <1>2, <1>3, <1>4 DEF SessionNext

-----------------------------------------------------------------------------
(* The theorems. *)

\* Every reachable state satisfies the inductive invariant.
THEOREM EncapsulationCorrect == SessionSpec => []KemInv
<1>1. SessionInit => KemInv
  BY KemInit DEF SessionInit
<1>2. KemInv /\ [SessionNext]_allVars => KemInv'
  BY KemStep, SessionStep
<1> QED
  BY <1>1, <1>2, PTL DEF SessionSpec

\* Every variable keeps its type: no fragment grows beyond 48 bytes, no more
\* than sixteen are numbered, and the buffered part of the transcript is never
\* a whole block, so the uint8_t lengths of session/client.c and core/sha256.c
\* never wrap.
THEOREM KemTypeCorrect == SessionSpec => []TypeOK
<1>1. KemInv => TypeOK
  BY DEF KemInv, TypeOK, Loops, Writer, Early, Encapsulating
<1> QED
  BY <1>1, EncapsulationCorrect, PTL

\* No int16_t value of the transforms, the matrix products or the noise and
\* message additions of core/mlkem512_stream.c overflows, for any key, coins
\* and message, and even where the table of zetas is read from the wrong
\* address space.
THEOREM CoefficientsNeverOverflow == SessionSpec => []NoCoefficientOverflow
<1>1. KemInv => NoCoefficientOverflow
  BY DEF KemInv, Magnitudes, NoCoefficientOverflow
<1> QED
  BY <1>1, EncapsulationCorrect, PTL

\* However the encapsulation and the connect end, no workspace, key hash,
\* shared secret or session key is left behind by an error, and a secret
\* exists only after a complete encapsulation.
THEOREM NoSecretLeftBehind == SessionSpec => []NothingLeftBehind
<1>1. KemInv => NothingLeftBehind
  BY DEF KemInv, Secrets, NothingLeftBehind
<1> QED
  BY <1>1, EncapsulationCorrect, PTL

\* The peer's copy of the ciphertext, fragment by fragment, is the one the
\* encapsulation wrote.
WholeCiphertext ==
    /\ Complete
    /\ \A f \in 0..(FragmentCount - 1) :
         received[f] = Ciphertext(FragmentBytes * f, FragmentBytes)

LEMMA ReturnedWhole == KemInv => (pc = "returned" /\ result = "OK" => WholeCiphertext)
<1> SUFFICES ASSUME KemInv, pc = "returned", result = "OK" PROVE WholeCiphertext
  OBVIOUS
<1>1. /\ Sent = 768 /\ FragmentBytes = 48 /\ FragmentCount = 16
      /\ Len(pending) < 48 /\ failure = "OK"
  BY DEF KemInv, InFragments, CiphertextBytes, FragmentBytes, FragmentCount
<1>2. pending \in Seq(Positions) /\ fragmentIndex \in 0..16
  BY <1>1 DEF KemInv, Writer
<1> DEFINE held == Len(pending)
<1>3. held \in Nat /\ held < 48 /\ 48 * fragmentIndex + held = 768
  BY <1>1, <1>2 DEF Sent
<1> HIDE DEF held
<1>4. fragmentIndex = 16 /\ held = 0
  BY <1>2, <1>3
<1>5. pending = <<>>
  BY <1>2, <1>4 DEF held
<1>6. \A f \in 0..15 : received[f] = Ciphertext(FragmentBytes * f, FragmentBytes)
  BY <1>4 DEF KemInv, InOrder
<1> QED
  BY <1>1, <1>4, <1>5, <1>6 DEF WholeCiphertext, Complete

\* When the encapsulation returns success, all 768 bytes of the ciphertext
\* are with the peer: the pieces of five bytes and of one, split at the
\* fragment boundary by write_ciphertext, fill exactly sixteen fragments in
\* order, and nothing is left in the writer.
THEOREM CiphertextIsWhole ==
    SessionSpec => [](pc = "returned" /\ result = "OK" => WholeCiphertext)
  BY ReturnedWhole, EncapsulationCorrect, PTL

-----------------------------------------------------------------------------
(* The tags. *)

\* The bytes of a named string.
LEMMA BytesTyped ==
    ASSUME NEW name, NEW n \in Nat
    PROVE  Bytes(name, n) \in Seq({name} \X Nat) /\ Len(Bytes(name, n)) = n
<1>1. \A k \in 1..n : <<name, k - 1>> \in {name} \X Nat
  OBVIOUS
<1>2. Bytes(name, n) \in [1..n -> {name} \X Nat]
  BY <1>1 DEF Bytes
<1> QED
  BY <1>2, FunctionIsSeq

LEMMA KeyTyped ==
    ASSUME NEW name
    PROVE  Key32(name) \in Seq({name} \X Nat) /\ Len(Key32(name)) <= 64
<1>1. Key32(name) \in Seq({name} \X Nat) /\ Len(Key32(name)) = 32
  <2> DEFINE n == 32
  <2>1. n \in Nat
    OBVIOUS
  <2> HIDE DEF n
  <2>2. Bytes(name, n) \in Seq({name} \X Nat) /\ Len(Bytes(name, n)) = n
    BY <2>1, BytesTyped
  <2> QED
    BY <2>2 DEF n, Key32
<1> QED
  BY <1>1

\* A concatenation over two sets.
LEMMA JoinedTyped ==
    ASSUME NEW A, NEW B, NEW a \in Seq(A), NEW b \in Seq(B)
    PROVE  a \o b \in Seq(A \cup B) /\ a \in Seq(A \cup B) /\ b \in Seq(A \cup B)
<1> DEFINE U == A \cup B
<1>1. A \subseteq U /\ B \subseteq U
  OBVIOUS
<1> HIDE DEF U
<1>2. a \in Seq(U) /\ b \in Seq(U)
  BY <1>1, Wider
<1>3. a \o b \in Seq(U)
  BY <1>2, Joined
<1> QED
  BY <1>2, <1>3 DEF U

\* A tag that the device computes from a label and a frame is the tag the
\* peer computes from both together.
LEMMA TagsAgree ==
    ASSUME NEW name, NEW A, NEW B, NEW label \in Seq(A), NEW data \in Seq(B)
    PROVE  TagsMatch(Key32(name), label, data)
<1> DEFINE U == A \cup B
           N == {name} \X Nat
           k == Key32(name)
<1>1. label \in Seq(U) /\ data \in Seq(U)
  BY JoinedTyped
<1>2. k \in Seq(N) /\ Len(k) <= 64
  BY KeyTyped
<1> HIDE DEF U, N, k
<1>3. c0_hmac_sha256_final(
        c0_hmac_sha256_update(
          c0_hmac_sha256_update(c0_hmac_sha256_init(k), label), data)) = RfcHmac(k, label \o data)
  BY <1>1, <1>2, HmacOfTwo
<1>4. c0pq_auth_tag(k, label, data) = PeerTag(k, label, data)
  BY <1>3, Zenon DEF c0pq_auth_tag, PeerTag
<1> QED
  BY <1>4, Zenon DEF TagsMatch, c0pq_verify_auth_tag, k

LEMMA LabelTyped ==
    ASSUME NEW name, NEW n \in Nat
    PROVE  Label(name, n) \in Seq({<<"label", name>>} \X Nat)
  BY BytesTyped DEF Label

LEMMA FragmentHolds ==
    ASSUME NEW f, NEW S, NEW payload \in Seq(S)
    PROVE  FragmentVerifies(f, payload)
<1> DEFINE l == Label("ciphertext fragment", 26)
           a == Label("ciphertext ack", 21)
           L == {<<"label", "ciphertext fragment">>} \X Nat
           A == {<<"label", "ciphertext ack">>} \X Nat
           h == Bytes("header", 10)
           H == {"header"} \X Nat
           n == <<f, FragmentCount, Len(payload)>>
           N == {f, FragmentCount, Len(payload)}
           o == <<f, 0>>
           O == {f, 0}
<1>1. l \in Seq(L) /\ a \in Seq(A) /\ h \in Seq(H)
  BY LabelTyped, BytesTyped
<1>2. n \in Seq(N) /\ o \in Seq(O)
  OBVIOUS
<1>3. FragmentCore(f, payload) = (h \o n) \o payload /\ AckCore(f) = h \o o
  BY DEF FragmentCore, AckCore
<1> HIDE DEF l, a, L, A, h, H, n, N, o, O
<1>4. h \o n \in Seq(H \cup N) /\ h \o o \in Seq(H \cup O)
  BY <1>1, <1>2, JoinedTyped
<1>5. (h \o n) \o payload \in Seq((H \cup N) \cup S)
  <2> DEFINE V == H \cup N
             v == h \o n
  <2>1. v \in Seq(V)
    BY <1>4
  <2> HIDE DEF v, V
  <2>2. v \o payload \in Seq(V \cup S)
    BY <2>1, JoinedTyped
  <2> QED
    BY <2>2 DEF v, V
<1>6. /\ TagsMatch(Key32("session auth key"), l, FragmentCore(f, payload))
      /\ TagsMatch(Key32("session auth key"), a, AckCore(f))
  <2> DEFINE c == FragmentCore(f, payload)
             d == AckCore(f)
             C == (H \cup N) \cup S
             D == H \cup O
  <2>1. c \in Seq(C) /\ d \in Seq(D)
    BY <1>3, <1>4, <1>5
  <2> HIDE DEF c, d, C, D
  <2>2. /\ TagsMatch(Key32("session auth key"), l, c)
        /\ TagsMatch(Key32("session auth key"), a, d)
    BY <1>1, <2>1, TagsAgree
  <2> QED
    BY <2>2 DEF c, d
<1> QED
  BY <1>6 DEF FragmentVerifies, l, a

LEMMA FinishedHolds == FinishedVerifies
<1> SUFFICES ASSUME NEW type \in {"DEVICE_FINISHED", "SERVER_FINISHED"}
             PROVE  TagsMatch(Key32(type), Label("finished tag", 19), FinishedCore(type))
  BY DEF FinishedVerifies
<1> DEFINE l == Label("finished tag", 19)
           h == Bytes(<<"header", type>>, 10)
           t == Bytes("transcript", 32)
           L == {<<"label", "finished tag">>} \X Nat
           H == {<<"header", type>>} \X Nat
           T == {"transcript"} \X Nat
<1>1. l \in Seq(L) /\ h \in Seq(H) /\ t \in Seq(T)
  BY LabelTyped, BytesTyped
<1>2. FinishedCore(type) = h \o t
  BY DEF FinishedCore
<1> HIDE DEF l, h, t, L, H, T
<1> DEFINE c == h \o t
           C == H \cup T
<1>3. c \in Seq(C)
  BY <1>1, JoinedTyped
<1> HIDE DEF c, C
<1>4. TagsMatch(Key32(type), l, c)
  BY <1>1, <1>3, TagsAgree
<1> QED
  BY <1>2, <1>4 DEF l, c

\* The key that authenticates a handshake, from five pieces.
LEMMA AuthKeysAgree == c0pq_derive_session_auth_key = PeerSessionAuthKey
<1> DEFINE k == Key32("early")
           K == {"early"} \X Nat
           a == Label("session auth", 19)
           b == Bytes("suite epoch", 10)
           c == Bytes("key id", 16)
           d == Bytes("device nonce", 16)
           e == Bytes("server nonce", 16)
           U == ({<<"label", "session auth">>} \X Nat) \cup ({"suite epoch"} \X Nat)
                  \cup ({"key id"} \X Nat) \cup ({"device nonce"} \X Nat)
                  \cup ({"server nonce"} \X Nat)
           ha == c0_hmac_sha256_update(c0_hmac_sha256_init(k), a)
           hb == c0_hmac_sha256_update(ha, b)
           hc == c0_hmac_sha256_update(hb, c)
           hd == c0_hmac_sha256_update(hc, d)
           he == c0_hmac_sha256_update(hd, e)
           mb == a \o b
           mc == mb \o c
           md == mc \o d
           me == md \o e
<1>1. c0pq_derive_session_auth_key = c0_hmac_sha256_final(he)
  BY DEF c0pq_derive_session_auth_key
<1>2. PeerSessionAuthKey = RfcHmac(k, me)
  BY DEF PeerSessionAuthKey
<1>3. k \in Seq(K) /\ Len(k) <= 64
  BY KeyTyped
<1>4. /\ a \in Seq({<<"label", "session auth">>} \X Nat) /\ b \in Seq({"suite epoch"} \X Nat)
      /\ c \in Seq({"key id"} \X Nat) /\ d \in Seq({"device nonce"} \X Nat)
      /\ e \in Seq({"server nonce"} \X Nat)
  BY LabelTyped, BytesTyped
<1>5. /\ ({<<"label", "session auth">>} \X Nat) \subseteq U /\ ({"suite epoch"} \X Nat) \subseteq U
      /\ ({"key id"} \X Nat) \subseteq U /\ ({"device nonce"} \X Nat) \subseteq U
      /\ ({"server nonce"} \X Nat) \subseteq U
  BY Zenon
<1> HIDE DEF k, K, a, b, c, d, e, U
<1>6. a \in Seq(U) /\ b \in Seq(U) /\ c \in Seq(U) /\ d \in Seq(U) /\ e \in Seq(U)
  <2>1. a \in Seq(U)
    BY <1>4, <1>5, Wider
  <2>2. b \in Seq(U)
    BY <1>4, <1>5, Wider
  <2>3. c \in Seq(U)
    BY <1>4, <1>5, Wider
  <2>4. d \in Seq(U)
    BY <1>4, <1>5, Wider
  <2>5. e \in Seq(U)
    BY <1>4, <1>5, Wider
  <2> QED
    BY <2>1, <2>2, <2>3, <2>4, <2>5
<1>7. HmacFed(ha, k, a)
  BY <1>3, <1>6, HmacFirst
<1> HIDE DEF ha
<1>8. HmacFed(hb, k, mb) /\ mb \in Seq(U)
  BY <1>6, <1>7, HmacFeeds, Joined
<1> HIDE DEF hb, mb
<1>9. HmacFed(hc, k, mc) /\ mc \in Seq(U)
  BY <1>6, <1>8, HmacFeeds, Joined
<1> HIDE DEF hc, mc
<1>10. HmacFed(hd, k, md) /\ md \in Seq(U)
  BY <1>6, <1>9, HmacFeeds, Joined
<1> HIDE DEF hd, md
<1>11. HmacFed(he, k, me) /\ me \in Seq(U)
  BY <1>6, <1>10, HmacFeeds, Joined
<1> HIDE DEF he, me
<1>12. c0_hmac_sha256_final(he) = RfcHmac(k, me)
  BY <1>11, HmacEnds
<1> QED
  BY <1>1, <1>2, <1>12

\* HKDF on named keys.
LEMMA HkdfAgrees ==
    ASSUME NEW name, NEW S, NEW info \in Seq(S)
    PROVE  /\ c0_hkdf_sha256_expand(Key32(name), info) = RfcExpand(Key32(name), info)
           /\ c0_hkdf_sha256_extract(Key32(name), info) = RfcExtract(Key32(name), info)
           /\ c0_hkdf_sha256_extract(<<>>, info) = RfcExtract(<<>>, info)
<1> DEFINE k == Key32(name)
           K == {name} \X Nat
           z == <<>>
<1>1. k \in Seq(K) /\ Len(k) <= 64 /\ z \in Seq(K) /\ Len(z) <= 64
  BY KeyTyped
<1> HIDE DEF k, K, z
<1>2. c0_hkdf_sha256_expand(k, info) = RfcExpand(k, info)
  BY <1>1, ExpandIsRfc
<1>3. c0_hkdf_sha256_extract(k, info) = RfcExtract(k, info)
  BY <1>1, ExtractIsRfc
<1>4. c0_hkdf_sha256_extract(z, info) = RfcExtract(z, info)
  BY <1>1, ExtractIsRfc
<1> QED
  BY <1>2, <1>3, <1>4 DEF k, z

LEMMA GreetingHolds == GreetingVerifies
<1>1. EarlyMatches
  <2>1. Key32("psk") \in Seq({"psk"} \X Nat)
    BY KeyTyped
  <2> QED
    BY <2>1, HkdfAgrees DEF EarlyMatches
<1>2. c0pq_derive_hello_key = RfcExpand(Key32("early"), Label("hello key", 16))
  <2>1. Label("hello key", 16) \in Seq({<<"label", "hello key">>} \X Nat)
    BY LabelTyped
  <2> QED
    BY <2>1, HkdfAgrees DEF c0pq_derive_hello_key
<1>3. TagsMatch(Key32("hello key"), Label("hello frame", 18), Bytes("hello", HelloCoreBytes))
  <2>1. /\ Label("hello frame", 18) \in Seq({<<"label", "hello frame">>} \X Nat)
        /\ Bytes("hello", HelloCoreBytes) \in Seq({"hello"} \X Nat)
    BY LabelTyped, BytesTyped DEF HelloCoreBytes
  <2> QED
    BY <2>1, TagsAgree
<1>4. TagsMatch(Key32("session auth key"), Label("challenge frame", 22),
                Bytes("challenge", ChallengeCoreBytes))
  <2>1. /\ Label("challenge frame", 22) \in Seq({<<"label", "challenge frame">>} \X Nat)
        /\ Bytes("challenge", ChallengeCoreBytes) \in Seq({"challenge"} \X Nat)
    BY LabelTyped, BytesTyped DEF ChallengeCoreBytes
  <2> QED
    BY <2>1, TagsAgree
<1> QED
  BY <1>1, <1>2, <1>3, <1>4, AuthKeysAgree DEF GreetingVerifies

\* A fragment that write_ciphertext flushes is accepted by the peer, and its
\* acknowledgement by the device.
LEMMA WriteAccepted ==
    ASSUME Writer, Len(pending) < FragmentBytes,
           NEW data \in Seq(Positions), NEW ok \in BOOLEAN,
           write_ciphertext(data, ok), ~refused
    PROVE  ~refused'
<1> DEFINE space == FragmentBytes - Len(pending)
           take == IF Len(data) < space THEN Len(data) ELSE space
           filled == pending \o SubSeq(data, 1, take)
<1>1. refused' = (refused \/ (Len(filled) = FragmentBytes
                              /\ ~FragmentVerifies(fragmentIndex, filled)))
  BY Zenon DEF write_ciphertext
<1>2. pending \in Seq(Positions) /\ FragmentBytes = 48
  BY DEF Writer, FragmentBytes
<1>3. take \in 0..Len(data)
  <2> DEFINE held == Len(pending)
             n == Len(data)
  <2>1. /\ held \in Nat /\ held < 48 /\ n \in Nat
        /\ take = IF n < 48 - held THEN n ELSE 48 - held
    BY <1>2
  <2> HIDE DEF held, n, take
  <2>2. take \in 0..n
    BY <2>1
  <2> QED
    BY <2>2 DEF n
<1> HIDE DEF take
<1>4. filled \in Seq(Positions)
  BY <1>2, <1>3, HeadLength
<1> HIDE DEF filled
<1>5. FragmentVerifies(fragmentIndex, filled)
  BY <1>4, FragmentHolds
<1> QED
  BY <1>1, <1>5, Zenon

LEMMA AcceptedStep ==
    ASSUME KemInv, ~refused, [Next]_vars
    PROVE  ~refused'
<1>1. ASSUME pc \in Encapsulating
      PROVE  Writer /\ Len(pending) < FragmentBytes
  BY <1>1 DEF KemInv, InFragments
<1>2. CASE write_compressed_u
  <2> DEFINE data == Ciphertext(320 * row + 5 * (index \div 4), 5)
  <2>1. pc = "write_u" /\ (write_ciphertext(data, TRUE) \/ write_ciphertext(data, FALSE))
    BY <1>2, Zenon DEF write_compressed_u
  <2>2. row \in Nat /\ index \in Nat
    BY DEF KemInv, Loops, MLKEM_K, MLKEM_N
  <2>3. 320 * row + 5 * (index \div 4) \in Nat
    BY <2>2
  <2>4. data \in Seq(Positions)
    BY <2>3, MessageBytes
  <2> HIDE DEF data
  <2> QED
    BY <1>1, <2>1, <2>4, WriteAccepted DEF Encapsulating
<1>3. CASE write_compressed_v
  <2> DEFINE data == Ciphertext(640 + index \div 2, 1)
  <2>1. pc = "write_v" /\ (write_ciphertext(data, TRUE) \/ write_ciphertext(data, FALSE))
    BY <1>3, Zenon DEF write_compressed_v
  <2>2. index \in Nat
    BY DEF KemInv, Loops, MLKEM_N
  <2>3. 640 + index \div 2 \in Nat
    BY <2>2
  <2>4. data \in Seq(Positions)
    BY <2>3, MessageBytes
  <2> HIDE DEF data
  <2> QED
    BY <1>1, <2>1, <2>4, WriteAccepted DEF Encapsulating
<1>4. CASE ConnectFails
  BY <1>4, FinishedHolds, Zenon DEF ConnectFails
<1>5. CASE \/ random_bytes \/ validate_and_hash_public_key \/ derive_k_and_coins
           \/ accumulate_u \/ finish_u \/ accumulate_v \/ finish_v
           \/ derive_session_keys \/ exchange_finished
  <2>1. refused' = refused
    <3>1. CASE random_bytes \/ validate_and_hash_public_key \/ derive_k_and_coins
      BY <3>1, Zenon DEF random_bytes, validate_and_hash_public_key, derive_k_and_coins, peer
    <3>2. CASE accumulate_u \/ accumulate_v
      <4>1. UNCHANGED peer
        <5>1. CASE accumulate_u
          BY <5>1 DEF accumulate_u
        <5>2. CASE accumulate_v
          BY <5>2 DEF accumulate_v
        <5> QED
          BY <3>2, <5>1, <5>2
      <4> QED
        BY <4>1, Zenon DEF peer
    <3>4. CASE finish_u \/ finish_v
      <4>1. \E nonce : FinishPoly(nonce)
        BY <3>4, Zenon DEF finish_u, finish_v
      <4>2. UNCHANGED peer
        BY <4>1, Zenon DEF FinishPoly
      <4> QED
        BY <4>2, Zenon DEF peer
    <3>3. CASE derive_session_keys \/ exchange_finished
      BY <3>3, Zenon DEF derive_session_keys, exchange_finished, peer
    <3> QED
      BY <1>5, <3>1, <3>2, <3>3, <3>4
  <2> QED
    BY <2>1
<1>6. CASE UNCHANGED vars
  BY <1>6, Zenon DEF vars, peer
<1> QED
  BY <1>2, <1>3, <1>4, <1>5, <1>6 DEF Next

\* No genuine frame is ever refused: the tags of Hello, Challenge, fragments,
\* acknowledgements and Finished that crypto.c computes in pieces are those
\* that the peer computes over whole messages, wherever the pieces of the
\* ciphertext fall.
THEOREM NoGenuineFrameRefused == SessionSpec => []GenuineFramesAccepted
<1>1. SessionInit => GenuineFramesAccepted
  BY GreetingHolds, Zenon DEF SessionInit, Init, GenuineFramesAccepted
<1>2. KemInv /\ GenuineFramesAccepted /\ [SessionNext]_allVars => GenuineFramesAccepted'
  BY AcceptedStep, SessionStep DEF GenuineFramesAccepted
<1> QED
  BY <1>1, <1>2, EncapsulationCorrect, PTL DEF SessionSpec
-----------------------------------------------------------------------------
(* The keys: what the device computes from the passes it was served.  The  *)
(* operators below give it for a set m of passes that were served other    *)
(* bytes, as one formula instead of step by step.                          *)

ReadIn(m, pass, bytes) == IF pass \in m THEN <<"other", pass>> ELSE bytes

DeviceHash(m) == <<"sha3_256", <<ReadIn(m, "hash", <<"key">>)>>, 0>>
DeviceSecret(m, at) == <<"sha3_512", <<<<"message">>, DeviceHash(m)>>, at>>
DeviceNoise(m, eta, nonce) ==
    <<"cbd", eta, <<"shake256", <<<<"prf", DeviceSecret(m, 32), nonce>>>>, 0>>>>
DeviceProduct(m, left, j) == <<"product", left, <<DeviceNoise(m, 3, j)>>, "zetas">>

\* The products of columns 0 and 1 of row i of u, and of v.
DeviceUTerm(m, i, j) ==
    DeviceProduct(m, <<"shake128", <<ReadIn(m, "rho", <<"rho">>), <<"index", i, j>>>>, 0>>, j)
DeviceVTerm(m, j) == DeviceProduct(m, ReadIn(m, TPass(j), <<"t", j>>), j)

DeviceU(m, i) == <<DeviceUTerm(m, i, 0), DeviceUTerm(m, i, 1), DeviceNoise(m, 2, 2 + i)>>
DeviceV(m) == <<DeviceVTerm(m, 0), DeviceVTerm(m, 1), DeviceNoise(m, 2, 4)>>

\* The first n polynomials handed out.
DevicePolys(m, n) ==
    CASE n = 0 -> <<>> [] n = 1 -> <<DeviceU(m, 0)>>
      [] n = 2 -> <<DeviceU(m, 0), DeviceU(m, 1)>>
      [] n = 3 -> <<DeviceU(m, 0), DeviceU(m, 1), DeviceV(m)>>

\* What precedes the ciphertext in the transcript.
Greeting == (Bytes("prefix", 17) \o Bytes("hello", 44)) \o Bytes("challenge", 68)

\* The transcript holds the greeting and every byte handed out.
Hashed ==
    pc \in Early \cup Encapsulating \/ (pc = "returned" /\ result = "OK") =>
        Holds(transcript, Greeting \o Ciphertext(0, Sent))

\* The seeds and the secret come from the passes over the key.
Seeds ==
    /\ pc = "derive" => keyHash = DeviceHash(misread)
    /\ pc \in {"derive"} \cup Encapsulating =>
         workspace.rho = ReadIn(misread, "rho", <<"rho">>)
    /\ pc \in Encapsulating => workspace.coins = DeviceSecret(misread, 32)
    /\ pc \in Encapsulating \/ (pc = "returned" /\ result = "OK") =>
         secret = DeviceSecret(misread, 0)

\* The accumulator holds the columns done.
Columns ==
    /\ pc = "u" /\ column = 1 =>
         workspace.accumulator.terms = <<DeviceUTerm(misread, row, 0)>>
    /\ pc = "u" /\ column = 2 =>
         workspace.accumulator.terms
           = <<DeviceUTerm(misread, row, 0), DeviceUTerm(misread, row, 1)>>
    /\ pc = "v" /\ column = 1 => workspace.accumulator.terms = <<DeviceVTerm(misread, 0)>>
    /\ pc = "v" /\ column = 2 =>
         workspace.accumulator.terms = <<DeviceVTerm(misread, 0), DeviceVTerm(misread, 1)>>

\* The polynomials handed out so far.
Polynomials ==
    /\ pc \in Early => written = DevicePolys(misread, 0)
    /\ pc = "u" => written = DevicePolys(misread, row)
    /\ pc = "write_u" => written = DevicePolys(misread, row + 1)
    /\ pc = "v" => written = DevicePolys(misread, 2)
    /\ pc \in {"write_v", "finish"} \/ (pc = "returned" /\ result = "OK") =>
         written = DevicePolys(misread, 3)
    /\ \E n \in 0..3 : written = DevicePolys(misread, n)

\* Between the encapsulation and Finished.
Derived ==
    pc = "finish" =>
        /\ keys = c0pq_derive_session_keys(
                    DeviceSecret(misread, 0),
                    Sha256Blocks(Greeting \o Ciphertext(0, CiphertextBytes)))
        /\ \A f \in 0..15 : received[f] = Ciphertext(48 * f, 48)

KeyInv ==
    /\ Hashed /\ Seeds /\ Columns /\ Polynomials /\ Derived
    /\ pc = "established" => PinnedKeyUsed

-----------------------------------------------------------------------------
(* The transcript. *)

LEMMA GreetingTyped ==
    /\ Bytes("prefix", 17) \in Seq(Positions) /\ Bytes("hello", 44) \in Seq(Positions)
    /\ Bytes("challenge", 68) \in Seq(Positions) /\ Greeting \in Seq(Positions)
<1> DEFINE p == Bytes("prefix", 17)
           h == Bytes("hello", 44)
           c == Bytes("challenge", 68)
<1>1. p \in Seq(Positions) /\ h \in Seq(Positions) /\ c \in Seq(Positions)
  BY MessageBytes
<1>2. Greeting = (p \o h) \o c
  BY DEF Greeting
<1> HIDE DEF p, h, c
<1>3. p \o h \in Seq(Positions)
  BY <1>1, Joined
<1>4. (p \o h) \o c \in Seq(Positions)
  <2> DEFINE ph == p \o h
  <2>1. ph \in Seq(Positions)
    BY <1>3
  <2> HIDE DEF ph
  <2>2. ph \o c \in Seq(Positions)
    BY <1>1, <2>1, Joined
  <2> QED
    BY <2>2 DEF ph
<1> QED
  BY <1>1, <1>2, <1>4 DEF p, h, c

\* The transcript after the greeting.
LEMMA HashedInit ==
    ASSUME Init
    PROVE  Holds(transcript, Greeting \o Ciphertext(0, Sent))
<1> DEFINE p == Bytes("prefix", 17)
           h == Bytes("hello", 44)
           c == Bytes("challenge", 68)
           first == c0_sha256_update(c0_sha256_init, p)
           second == c0_sha256_update(first, h)
           third == c0_sha256_update(second, c)
           none == <<>>
           ph == p \o h
<1>1. transcript = third /\ pending = <<>> /\ fragmentIndex = 0
  BY DEF Init, PrefixBytes, HelloCoreBytes, ChallengeCoreBytes
<1>2. p \in Seq(Positions) /\ h \in Seq(Positions) /\ c \in Seq(Positions)
  BY GreetingTyped
<1>3. Greeting = ph \o c
  BY DEF Greeting
<1>4. Holds(c0_sha256_init, none) /\ none \in Seq(Positions)
  BY InitHolds
<1>5. Ciphertext(0, Sent) = <<>>
  <2>1. Sent = 0
    BY <1>1 DEF Sent, FragmentBytes
  <2> QED
    BY <2>1 DEF Ciphertext
<1> HIDE DEF p, h, c
<1>6. Holds(first, p)
  <2>1. Holds(first, none \o p)
    <3> HIDE DEF none
    <3> QED
      BY <1>2, <1>4, UpdateHolds
  <2>2. none \o p = p
    BY <1>2, EmptyParts
  <2> QED
    BY <2>1, <2>2
<1> HIDE DEF first
<1>7. Holds(second, ph) /\ ph \in Seq(Positions)
  BY <1>2, <1>6, UpdateHolds, Joined
<1> HIDE DEF second, ph
<1>8. Holds(third, ph \o c)
  BY <1>2, <1>7, UpdateHolds
<1>9. Greeting \o <<>> = Greeting
  BY GreetingTyped, EmptyParts
<1> QED
  BY <1>1, <1>3, <1>5, <1>8, <1>9

\* A piece that is written is hashed where it belongs.
LEMMA WriteHashed ==
    ASSUME Writer, Len(pending) < FragmentBytes, NEW n \in 1..5,
           write_ciphertext(Ciphertext(Sent, n), TRUE),
           Holds(transcript, Greeting \o Ciphertext(0, Sent))
    PROVE  Holds(transcript, Greeting \o Ciphertext(0, Sent))'
<1> DEFINE at == Sent
           x == Ciphertext(Sent, n)
           old == Ciphertext(0, Sent)
<1>1. Sent \in Nat /\ n \in Nat
  <2> DEFINE held == Len(pending)
  <2>0. pending \in Seq(Positions) /\ fragmentIndex \in 0..16
    BY DEF Writer, FragmentCount
  <2>1. held \in Nat /\ fragmentIndex \in Nat
    BY <2>0
  <2>2. Sent = 48 * fragmentIndex + held
    BY DEF Sent, FragmentBytes
  <2> HIDE DEF held
  <2> QED
    BY <2>1, <2>2
<1>2. x \in Seq(Positions) /\ Len(x) = n /\ old \in Seq(Positions)
  BY <1>1, MessageBytes
<1>3. Sent' = Sent + n
  <2> HIDE DEF x
  <2>1. write_ciphertext(x, TRUE) /\ Len(x) \in 1..5 /\ TRUE \in BOOLEAN
    BY <1>2 DEF x
  <2>2. Sent' = Sent + Len(x)
    BY <1>2, <2>1, WriteKeeps
  <2> QED
    BY <1>2, <2>2
<1>4. transcript' = c0_sha256_update(transcript, x)
  BY DEF write_ciphertext
<1>5. old \o x = Ciphertext(0, Sent + n)
  <2> DEFINE z == 0
  <2>1. z \in Nat /\ z + at = Sent /\ at \in Nat
    BY <1>1
  <2>2. Ciphertext(z, at) \o Ciphertext(z + at, n) = Ciphertext(z, at + n)
    <3> HIDE DEF z, at
    <3> QED
      BY <1>1, <2>1, CiphertextJoins
  <2> QED
    BY <2>1, <2>2
<1> HIDE DEF x, old
<1>6. Holds(transcript, Greeting \o old) /\ Greeting \in Seq(Positions)
  BY GreetingTyped DEF old
<1>7. Holds(c0_sha256_update(transcript, x), (Greeting \o old) \o x)
  <2> DEFINE m == Greeting \o old
  <2>1. m \in Seq(Positions) /\ Holds(transcript, m)
    BY <1>2, <1>6, Joined
  <2> HIDE DEF m
  <2>2. Holds(c0_sha256_update(transcript, x), m \o x)
    BY <1>2, <2>1, UpdateHolds
  <2> QED
    BY <2>2 DEF m
<1>8. (Greeting \o old) \o x = Greeting \o (old \o x)
  <2>1. Regrouped(Greeting, old, x)
    BY <1>2, <1>6, Associative
  <2> QED
    BY <2>1 DEF Regrouped
<1>9. Greeting' = Greeting
  BY DEF Greeting, Bytes
<1>10. Holds(transcript', Greeting \o Ciphertext(0, Sent'))
  BY <1>3, <1>4, <1>5, <1>7, <1>8
<1> QED
  BY <1>10

-----------------------------------------------------------------------------
(* The sponge. *)

\* A context that has not begun to squeeze.
Absorbing(ctx, kind, absorbed) ==
    /\ DOMAIN ctx = {"kind", "absorbed", "squeezing", "position"}
    /\ ctx = [field \in DOMAIN ctx |-> ctx[field]]
    /\ ctx.kind = kind /\ ctx.absorbed = absorbed /\ ctx.position = 0
    /\ ~ctx.squeezing

LEMMA SpongeStarts == ASSUME NEW kind PROVE Absorbing(keccak_init(kind), kind, <<>>)
<1>1. ~keccak_init(kind).squeezing
  BY Zenon DEF keccak_init
<1>2. /\ DOMAIN keccak_init(kind) = {"kind", "absorbed", "squeezing", "position"}
      /\ keccak_init(kind) = [field \in DOMAIN keccak_init(kind) |-> keccak_init(kind)[field]]
      /\ keccak_init(kind).kind = kind /\ keccak_init(kind).absorbed = <<>>
      /\ keccak_init(kind).position = 0
  BY DEF keccak_init
<1> QED
  BY <1>1, <1>2, Zenon DEF Absorbing

LEMMA SpongeAbsorbs ==
    ASSUME NEW ctx, NEW kind, NEW absorbed, NEW x, Absorbing(ctx, kind, absorbed)
    PROVE  Absorbing(c0_keccak_absorb(ctx, x), kind, Append(absorbed, x))
<1> DEFINE next == [ctx EXCEPT !.absorbed = Append(@, x)]
<1>1. c0_keccak_absorb(ctx, x) = next
  BY Zenon DEF Absorbing, c0_keccak_absorb
<1>2. /\ DOMAIN ctx = {"kind", "absorbed", "squeezing", "position"}
      /\ ctx.kind = kind /\ ctx.absorbed = absorbed /\ ctx.position = 0
  BY Zenon DEF Absorbing
<1>3. /\ DOMAIN next = {"kind", "absorbed", "squeezing", "position"}
      /\ next = [field \in DOMAIN next |-> next[field]]
      /\ next.kind = kind /\ next.absorbed = Append(absorbed, x) /\ next.position = 0
  BY <1>2
<1>4. next.squeezing = ctx.squeezing
  BY <1>2
<1> HIDE DEF next
<1>5. ~next.squeezing
  BY <1>4, Zenon DEF Absorbing
<1> QED
  BY <1>1, <1>3, <1>5, Zenon DEF Absorbing

LEMMA SpongeSqueezes ==
    ASSUME NEW ctx, NEW kind, NEW absorbed, Absorbing(ctx, kind, absorbed)
    PROVE  /\ Squeezed(ctx) = <<kind, absorbed, 0>>
           /\ Squeezed(c0_keccak_finalize(ctx)) = <<kind, absorbed, 0>>
           /\ Squeezed(c0_keccak_squeeze(ctx, 32)) = <<kind, absorbed, 32>>
<1> DEFINE next == [ctx EXCEPT !.squeezing = TRUE]
           later == [next EXCEPT !.position = @ + 32]
<1>1. /\ DOMAIN ctx = {"kind", "absorbed", "squeezing", "position"}
      /\ ctx.kind = kind /\ ctx.absorbed = absorbed /\ ctx.position = 0
  BY Zenon DEF Absorbing
<1>2. /\ DOMAIN next = {"kind", "absorbed", "squeezing", "position"}
      /\ next.kind = kind /\ next.absorbed = absorbed /\ next.position = 0
  BY <1>1
<1>3. c0_keccak_finalize(ctx) = next
  BY Zenon DEF c0_keccak_finalize
<1> HIDE DEF next
<1>4. later.kind = kind /\ later.absorbed = absorbed /\ later.position = 32
  BY <1>2
<1>5. c0_keccak_squeeze(ctx, 32) = later
  BY <1>3, Zenon DEF c0_keccak_squeeze
<1> HIDE DEF later
<1> QED
  BY <1>1, <1>2, <1>3, <1>4, <1>5, Zenon DEF Squeezed

LEMMA Appended ==
    ASSUME NEW S, NEW s \in Seq(S), NEW e \in S
    PROVE  /\ Append(s, e) \in Seq(S) /\ Len(Append(s, e)) = Len(s) + 1
           /\ \A i \in 1..Len(s) : Append(s, e)[i] = s[i]
           /\ Append(s, e)[Len(s) + 1] = e
  OBVIOUS

\* Appending to a sequence of one and of two.
LEMMA Appends ==
    ASSUME NEW x, NEW y, NEW z
    PROVE  /\ Append(<<>>, x) = <<x>> /\ Append(<<x>>, y) = <<x, y>>
           /\ Append(<<x, y>>, z) = <<x, y, z>>
<1> DEFINE T == {x, y, z}
           a == <<x>>
           b == <<x, y>>
           c == <<x, y, z>>
<1>1. /\ a \in Seq(T) /\ Len(a) = 1 /\ a[1] = x
      /\ b \in Seq(T) /\ Len(b) = 2 /\ b[1] = x /\ b[2] = y
      /\ c \in Seq(T) /\ Len(c) = 3 /\ c[1] = x /\ c[2] = y /\ c[3] = z
      /\ y \in T /\ z \in T
  OBVIOUS
<1>2. Append(<<>>, x) = <<x>>
  OBVIOUS
<1> HIDE DEF T, a, b, c
<1>3. Append(a, y) = b
  <2>1. /\ Append(a, y) \in Seq(T) /\ Len(Append(a, y)) = 2
        /\ Append(a, y)[1] = x /\ Append(a, y)[2] = y
    <3>0. a \in Seq(T) /\ y \in T
      BY <1>1
    <3>1. /\ Append(a, y) \in Seq(T) /\ Len(Append(a, y)) = Len(a) + 1
          /\ \A i \in 1..Len(a) : Append(a, y)[i] = a[i]
          /\ Append(a, y)[Len(a) + 1] = y
      BY <3>0, Appended
    <3> QED
      BY <1>1, <3>1
  <2>2. \A i \in 1..2 : Append(a, y)[i] = b[i]
    BY <1>1, <2>1
  <2> QED
    BY <1>1, <2>1, <2>2, SameElements
<1>4. Append(b, z) = c
  <2>1. /\ Append(b, z) \in Seq(T) /\ Len(Append(b, z)) = 3
        /\ Append(b, z)[1] = x /\ Append(b, z)[2] = y /\ Append(b, z)[3] = z
    <3>0. b \in Seq(T) /\ z \in T
      BY <1>1
    <3>1. /\ Append(b, z) \in Seq(T) /\ Len(Append(b, z)) = Len(b) + 1
          /\ \A i \in 1..Len(b) : Append(b, z)[i] = b[i]
          /\ Append(b, z)[Len(b) + 1] = z
      BY <3>0, Appended
    <3> QED
      BY <1>1, <3>1
  <2>2. \A i \in 1..3 : Append(b, z)[i] = c[i]
    BY <1>1, <2>1
  <2> QED
    BY <1>1, <2>1, <2>2, SameElements
<1> QED
  BY <1>2, <1>3, <1>4 DEF a, b, c

\* Contexts that absorbed one input and two.
LEMMA Sponges ==
    ASSUME NEW kind, NEW x, NEW y
    PROVE  LET one == c0_keccak_absorb(keccak_init(kind), x)
               two == c0_keccak_absorb(one, y)
           IN  /\ Squeezed(one) = <<kind, <<x>>, 0>>
               /\ Squeezed(c0_keccak_finalize(one)) = <<kind, <<x>>, 0>>
               /\ Squeezed(two) = <<kind, <<x, y>>, 0>>
               /\ Squeezed(c0_keccak_finalize(two)) = <<kind, <<x, y>>, 0>>
               /\ Squeezed(c0_keccak_squeeze(two, 32)) = <<kind, <<x, y>>, 32>>
<1> DEFINE one == c0_keccak_absorb(keccak_init(kind), x)
           two == c0_keccak_absorb(one, y)
<1>1. Append(<<>>, x) = <<x>> /\ Append(<<x>>, y) = <<x, y>>
  BY Appends
<1>2. Absorbing(one, kind, <<x>>)
  BY <1>1, SpongeStarts, SpongeAbsorbs
<1> HIDE DEF one
<1>3. Absorbing(two, kind, <<x, y>>)
  BY <1>1, <1>2, SpongeAbsorbs
<1> HIDE DEF two
<1>4. /\ Squeezed(one) = <<kind, <<x>>, 0>>
      /\ Squeezed(c0_keccak_finalize(one)) = <<kind, <<x>>, 0>>
  BY <1>2, SpongeSqueezes
<1>5. /\ Squeezed(two) = <<kind, <<x, y>>, 0>>
      /\ Squeezed(c0_keccak_finalize(two)) = <<kind, <<x, y>>, 0>>
      /\ Squeezed(c0_keccak_squeeze(two, 32)) = <<kind, <<x, y>>, 32>>
  BY <1>3, SpongeSqueezes
<1> QED
  BY <1>4, <1>5, Zenon DEF one, two

-----------------------------------------------------------------------------
(* Every step keeps the formulas. *)

\* What a step that leaves the transcript alone keeps of it.
LEMMA TranscriptKept ==
    ASSUME Hashed, pc \in Early \cup Encapsulating,
           UNCHANGED <<transcript, pending, fragmentIndex>>
    PROVE  Holds(transcript, Greeting \o Ciphertext(0, Sent))'
<1>1. Sent' = Sent
  BY DEF Sent
<1>2. Holds(transcript, Greeting \o Ciphertext(0, Sent))
  BY DEF Hashed
<1> QED
  BY <1>1, <1>2

LEMMA InitKeys == Init => KeyInv
<1> SUFFICES ASSUME Init PROVE KeyInv
  OBVIOUS
<1>1. pc = "random" /\ written = <<>>
  BY DEF Init
<1>2. Holds(transcript, Greeting \o Ciphertext(0, Sent))
  BY HashedInit
<1>3. DevicePolys(misread, 0) = <<>>
  BY DEF DevicePolys
<1>4. Hashed
  BY <1>2, Zenon DEF Hashed
<1>5. Polynomials
  <2>1. 0 \in 0..3 /\ written = DevicePolys(misread, 0)
    BY <1>1, <1>3
  <2> QED
    BY <1>1, <2>1 DEF Polynomials, Early
<1> QED
  BY <1>1, <1>4, <1>5 DEF KeyInv, Seeds, Columns, Derived, Encapsulating

LEMMA RandomKeys ==
    ASSUME KemInv, KeyInv, random_bytes
    PROVE  KeyInv'
<1>1. /\ pc = "random"
      /\ (pc' = "validate" /\ result' = result) \/ (pc' = "returned" /\ result' = "ERR_RNG")
  BY DEF random_bytes
<1>2. UNCHANGED <<misread, pending, fragmentIndex, transcript, written>>
  BY DEF random_bytes, inputs, writer, history
<1>3. Holds(transcript, Greeting \o Ciphertext(0, Sent))'
  BY <1>1, <1>2, TranscriptKept DEF KeyInv, Early
<1>4. Hashed'
  BY <1>3, Zenon DEF Hashed
<1>5. Polynomials'
  BY <1>1, <1>2 DEF KeyInv, Polynomials, Early
<1> QED
  BY <1>1, <1>4, <1>5 DEF KeyInv, Seeds, Columns, Derived, Encapsulating

LEMMA ValidateKeys ==
    ASSUME KemInv, KeyInv, validate_and_hash_public_key
    PROVE  KeyInv'
<1> DEFINE sponge == c0_keccak_absorb(keccak_init("sha3_256"), Served("hash", <<"key">>))
           s == c0_keccak_squeeze(sponge, 32)
           r == Served("rho", <<"rho">>)
<1>1. /\ pc = "validate"
      /\ \/ /\ pc' = "derive" /\ result' = result /\ keyHash' = Squeezed(sponge)
            /\ workspace' = [ZeroWorkspace EXCEPT !.sponge = s, !.rho = r]
         \/ pc' = "returned" /\ result' = "ERR_KEY_ENCODING"
  BY DEF validate_and_hash_public_key
<1>2. UNCHANGED <<misread, pending, fragmentIndex, transcript, written>>
  BY DEF validate_and_hash_public_key, inputs, writer, history
<1>3. Holds(transcript, Greeting \o Ciphertext(0, Sent))'
  BY <1>1, <1>2, TranscriptKept DEF KeyInv, Early
<1>4. Hashed'
  BY <1>3, Zenon DEF Hashed
<1>5. Polynomials'
  BY <1>1, <1>2 DEF KeyInv, Polynomials, Early
<1>6. Served("hash", <<"key">>) = ReadIn(misread, "hash", <<"key">>)
      /\ r = ReadIn(misread, "rho", <<"rho">>)
  BY DEF Served, ReadIn
<1>7. Squeezed(sponge) = DeviceHash(misread)
  BY <1>6, Sponges DEF DeviceHash
<1> HIDE DEF s, r, sponge
<1>8. [ZeroWorkspace EXCEPT !.sponge = s, !.rho = r].rho = r
  BY DEF ZeroWorkspace
<1>9. Seeds'
  BY <1>1, <1>2, <1>6, <1>7, <1>8 DEF Seeds, Encapsulating
<1> QED
  BY <1>1, <1>4, <1>5, <1>9 DEF KeyInv, Columns, Derived

LEMMA DeriveKeys ==
    ASSUME KemInv, KeyInv, derive_k_and_coins
    PROVE  KeyInv'
<1> DEFINE sponge == c0_keccak_absorb(
                       c0_keccak_absorb(keccak_init("sha3_512"), <<"message">>), keyHash)
           half == c0_keccak_squeeze(sponge, 32)
           s == c0_keccak_squeeze(half, 32)
           c == Squeezed(half)
<1>1. /\ pc = "derive" /\ pc' = "u" /\ secret' = Squeezed(sponge)
      /\ workspace' = [workspace EXCEPT !.sponge = s, !.coins = c]
  BY DEF derive_k_and_coins
<1>2. UNCHANGED <<misread, row, column, pending, fragmentIndex, transcript, written>>
  BY DEF derive_k_and_coins, inputs, writer, loop, history
<1>3. Holds(transcript, Greeting \o Ciphertext(0, Sent))'
  BY <1>1, <1>2, TranscriptKept DEF KeyInv, Early
<1>4. Hashed'
  BY <1>3, Zenon DEF Hashed
<1>5. row = 0 /\ column = 0
  BY <1>1 DEF KemInv, Loops, Early
<1>6. Polynomials'
  BY <1>1, <1>2, <1>5 DEF KeyInv, Polynomials, Early
<1>7. keyHash = DeviceHash(misread) /\ workspace.rho = ReadIn(misread, "rho", <<"rho">>)
  BY <1>1 DEF KeyInv, Seeds
<1>8. Squeezed(sponge) = DeviceSecret(misread, 0) /\ c = DeviceSecret(misread, 32)
  <2>1. /\ Squeezed(sponge) = <<"sha3_512", <<<<"message">>, keyHash>>, 0>>
        /\ Squeezed(half) = <<"sha3_512", <<<<"message">>, keyHash>>, 32>>
    BY Sponges
  <2> QED
    BY <1>7, <2>1 DEF DeviceSecret
<1>9. WorkspaceShape(workspace)
  BY DEF KemInv, Magnitudes
<1> HIDE DEF s, c, sponge, half
<1>10. workspace'.rho = workspace.rho /\ workspace'.coins = c
  BY <1>1, <1>9 DEF WorkspaceShape
<1>11. Seeds'
  BY <1>1, <1>2, <1>7, <1>8, <1>10 DEF Seeds, Encapsulating
<1>12. Columns'
  BY <1>1, <1>2, <1>5 DEF Columns
<1> QED
  BY <1>1, <1>4, <1>6, <1>11, <1>12 DEF KeyInv, Derived

\* What a sum leaves alone in the workspace.
LEMMA SeedsKept ==
    ASSUME NEW w, WorkspaceShape(w), NEW s, NEW t, NEW a
    PROVE  LET next == [w EXCEPT !.sponge = s, !.temporary = t, !.accumulator = a]
           IN  next.rho = w.rho /\ next.coins = w.coins /\ next.accumulator = a
  BY DEF WorkspaceShape

\* The noise and the matrix that are sampled from the seeds.
LEMMA SampledTerms ==
    ASSUME workspace.coins = DeviceSecret(misread, 32),
           workspace.rho = ReadIn(misread, "rho", <<"rho">>), NEW nonce, NEW x, NEW y
    PROVE  /\ ntt(sample_cbd(nonce, Noise1)).terms = <<DeviceNoise(misread, 3, nonce)>>
           /\ sample_cbd(nonce, Noise2).terms = <<DeviceNoise(misread, 2, nonce)>>
           /\ Squeezed(NttSponge(x, y))
                = <<"shake128", <<ReadIn(misread, "rho", <<"rho">>), <<"index", x, y>>>>, 0>>
<1>1. Squeezed(CbdSponge(nonce))
        = <<"shake256", <<<<"prf", DeviceSecret(misread, 32), nonce>>>>, 0>>
  BY Sponges DEF CbdSponge
<1>2. /\ sample_cbd(nonce, Noise1).terms = <<DeviceNoise(misread, 3, nonce)>>
      /\ sample_cbd(nonce, Noise2).terms = <<DeviceNoise(misread, 2, nonce)>>
  BY <1>1 DEF sample_cbd, DeviceNoise, Noise1, Noise2
<1>3. ntt(sample_cbd(nonce, Noise1)).terms = sample_cbd(nonce, Noise1).terms
  <2> DEFINE terms == sample_cbd(nonce, Noise1).terms
             bound == sample_cbd(nonce, Noise1).bound
  <2>1. sample_cbd(nonce, Noise1) = [terms |-> terms, bound |-> bound]
    BY DEF sample_cbd
  <2> HIDE DEF terms, bound
  <2>2. ntt([terms |-> terms, bound |-> bound]).terms = terms
    BY DEF ntt
  <2> QED
    BY <2>1, <2>2 DEF terms
<1>4. Squeezed(NttSponge(x, y))
        = <<"shake128", <<ReadIn(misread, "rho", <<"rho">>), <<"index", x, y>>>>, 0>>
  BY Sponges DEF NttSponge
<1> QED
  BY <1>2, <1>3, <1>4

\* What the accumulations and the end of a sum have in common.
LEMMA SumKeys ==
    ASSUME KemInv, KeyInv, pc \in {"u", "v"}, pc' \in Encapsulating,
           UNCHANGED <<misread, pending, fragmentIndex, transcript, secret>>,
           workspace'.rho = workspace.rho, workspace'.coins = workspace.coins
    PROVE  Hashed' /\ Seeds' /\ Derived'
<1>1. Holds(transcript, Greeting \o Ciphertext(0, Sent))'
  BY TranscriptKept DEF KeyInv, Encapsulating
<1>2. Hashed'
  BY <1>1, Zenon DEF Hashed
<1>3. Seeds'
  BY DEF KeyInv, Seeds, Encapsulating
<1> QED
  BY <1>2, <1>3 DEF Derived, Encapsulating

LEMMA AccumulateUKeys ==
    ASSUME ~Harvard, KemInv, KeyInv, accumulate_u
    PROVE  KeyInv'
<1> DEFINE vector == ntt(sample_cbd(column, Noise1))
           left == Squeezed(NttSponge(row, column))
           sum == matrix_product_add(Cleared, vector, row, column, "zetas")
           term == DeviceUTerm(misread, row, column)
           before == Cleared.terms
<1>1. workspace' = [workspace EXCEPT !.sponge = NttSponge(row, column),
                                     !.temporary = vector, !.accumulator = sum]
  <2>1. DirectZetas = {"zetas"}
    BY DEF DirectZetas
  <2> QED
    BY <2>1 DEF accumulate_u
<1>2. /\ pc = "u" /\ pc' = pc /\ column < MLKEM_K /\ column' = column + 1
      /\ UNCHANGED <<misread, row, secret, pending, fragmentIndex, transcript, result, written>>
  BY DEF accumulate_u, inputs, writer
<1>3. /\ WorkspaceShape(workspace) /\ column \in {0, 1}
  BY <1>2 DEF KemInv, Magnitudes, Loops, MLKEM_K
<1>4. /\ workspace.coins = DeviceSecret(misread, 32)
      /\ workspace.rho = ReadIn(misread, "rho", <<"rho">>)
  BY <1>2 DEF KeyInv, Seeds, Encapsulating
<1>5. /\ vector.terms = <<DeviceNoise(misread, 3, column)>>
      /\ left = <<"shake128", <<ReadIn(misread, "rho", <<"rho">>), <<"index", row, column>>>>, 0>>
  BY <1>4, SampledTerms
<1>6. sum.terms = Append(before, <<"product", left, vector.terms, "zetas">>)
  BY DEF matrix_product_add, MultiplyAdd
<1>7. <<"product", left, vector.terms, "zetas">> = term
  BY <1>5 DEF DeviceUTerm, DeviceProduct
<1> HIDE DEF vector, left, sum, term, before
<1>8. /\ workspace'.rho = workspace.rho /\ workspace'.coins = workspace.coins
      /\ workspace'.accumulator = sum
  BY <1>1, <1>3, SeedsKept
<1>9. workspace'.accumulator.terms = Append(before, term)
  BY <1>6, <1>7, <1>8
<1>10. Columns'
  <2>1. CASE column = 0
    <3>1. before = <<>>
      BY <2>1 DEF before, Cleared, ZeroPoly
    <3>2. Append(before, term) = <<DeviceUTerm(misread, row, 0)>>
      BY <2>1, <3>1, Appends DEF term
    <3> QED
      BY <1>2, <1>9, <2>1, <3>2 DEF Columns
  <2>2. CASE column = 1
    <3>1. before = <<DeviceUTerm(misread, row, 0)>>
      BY <1>2, <2>2 DEF before, Cleared, KeyInv, Columns
    <3>2. Append(before, term) = <<DeviceUTerm(misread, row, 0), DeviceUTerm(misread, row, 1)>>
      BY <2>2, <3>1, Appends DEF term
    <3> QED
      BY <1>2, <1>9, <2>2, <3>2 DEF Columns
  <2> QED
    BY <1>3, <2>1, <2>2
<1>11. Hashed' /\ Seeds' /\ Derived'
  BY <1>2, <1>8, SumKeys DEF Encapsulating
<1>12. Polynomials'
  BY <1>2 DEF KeyInv, Polynomials, Early
<1> QED
  BY <1>2, <1>10, <1>11, <1>12 DEF KeyInv

LEMMA AccumulateVKeys ==
    ASSUME KemInv, KeyInv, accumulate_v
    PROVE  KeyInv'
<1> DEFINE vector == ntt(sample_cbd(column, Noise1))
           left == Served(TPass(column), <<"t", column>>)
           sum == MultiplyAdd(Cleared, left, 4095, vector, "zetas")
           term == DeviceVTerm(misread, column)
           before == Cleared.terms
<1>1. workspace' = [workspace EXCEPT !.sponge = CbdSponge(column),
                                     !.temporary = vector, !.accumulator = sum]
  BY DEF accumulate_v
<1>2. /\ pc = "v" /\ pc' = pc /\ column < MLKEM_K /\ column' = column + 1
      /\ UNCHANGED <<misread, row, secret, pending, fragmentIndex, transcript, result, written>>
  BY DEF accumulate_v, inputs, writer
<1>3. /\ WorkspaceShape(workspace) /\ column \in {0, 1}
  BY <1>2 DEF KemInv, Magnitudes, Loops, MLKEM_K
<1>4. /\ workspace.coins = DeviceSecret(misread, 32)
      /\ workspace.rho = ReadIn(misread, "rho", <<"rho">>)
  BY <1>2 DEF KeyInv, Seeds, Encapsulating
<1>5. /\ vector.terms = <<DeviceNoise(misread, 3, column)>>
      /\ left = ReadIn(misread, TPass(column), <<"t", column>>)
  BY <1>4, SampledTerms DEF Served, ReadIn
<1>6. sum.terms = Append(before, <<"product", left, vector.terms, "zetas">>)
  BY DEF MultiplyAdd
<1>7. <<"product", left, vector.terms, "zetas">> = term
  BY <1>5 DEF DeviceVTerm, DeviceProduct
<1> HIDE DEF vector, left, sum, term, before
<1>8. /\ workspace'.rho = workspace.rho /\ workspace'.coins = workspace.coins
      /\ workspace'.accumulator = sum
  BY <1>1, <1>3, SeedsKept
<1>9. workspace'.accumulator.terms = Append(before, term)
  BY <1>6, <1>7, <1>8
<1>10. Columns'
  <2>1. CASE column = 0
    <3>1. before = <<>>
      BY <2>1 DEF before, Cleared, ZeroPoly
    <3>2. Append(before, term) = <<DeviceVTerm(misread, 0)>>
      BY <2>1, <3>1, Appends DEF term
    <3> QED
      BY <1>2, <1>9, <2>1, <3>2 DEF Columns
  <2>2. CASE column = 1
    <3>1. before = <<DeviceVTerm(misread, 0)>>
      BY <1>2, <2>2 DEF before, Cleared, KeyInv, Columns
    <3>2. Append(before, term) = <<DeviceVTerm(misread, 0), DeviceVTerm(misread, 1)>>
      BY <2>2, <3>1, Appends DEF term
    <3> QED
      BY <1>2, <1>9, <2>2, <3>2 DEF Columns
  <2> QED
    BY <1>3, <2>1, <2>2
<1>11. Hashed' /\ Seeds' /\ Derived'
  BY <1>2, <1>8, SumKeys DEF Encapsulating
<1>12. Polynomials'
  BY <1>2 DEF KeyInv, Polynomials, Early
<1> QED
  BY <1>2, <1>10, <1>11, <1>12 DEF KeyInv

\* One more polynomial is handed out.
LEMMA PolyAdded ==
    ASSUME NEW m
    PROVE  /\ Append(DevicePolys(m, 0), DeviceU(m, 0)) = DevicePolys(m, 1)
           /\ Append(DevicePolys(m, 1), DeviceU(m, 1)) = DevicePolys(m, 2)
           /\ Append(DevicePolys(m, 2), DeviceV(m)) = DevicePolys(m, 3)
<1>1. /\ DevicePolys(m, 0) = <<>> /\ DevicePolys(m, 1) = <<DeviceU(m, 0)>>
      /\ DevicePolys(m, 2) = <<DeviceU(m, 0), DeviceU(m, 1)>>
      /\ DevicePolys(m, 3) = <<DeviceU(m, 0), DeviceU(m, 1), DeviceV(m)>>
  BY DEF DevicePolys
<1> QED
  BY <1>1, Appends

\* A sum of two products and its noise.
LEMMA NoiseAdded ==
    ASSUME NEW x, NEW y, NEW z
    PROVE  <<x, y>> \o <<z>> = <<x, y, z>>
<1> DEFINE T == {x, y, z}
           b == <<x, y>>
           c == <<z>>
           d == <<x, y, z>>
<1>1. /\ b \in Seq(T) /\ Len(b) = 2 /\ b[1] = x /\ b[2] = y
      /\ c \in Seq(T) /\ Len(c) = 1 /\ c[1] = z
      /\ d \in Seq(T) /\ Len(d) = 3 /\ d[1] = x /\ d[2] = y /\ d[3] = z
  OBVIOUS
<1> HIDE DEF T, b, c, d
<1>2. b \in Seq(T) /\ c \in Seq(T)
  BY <1>1
<1>3. /\ b \o c \in Seq(T) /\ Len(b \o c) = Len(b) + Len(c)
      /\ \A i \in 1..(Len(b) + Len(c)) :
           (b \o c)[i] = IF i <= Len(b) THEN b[i] ELSE c[i - Len(b)]
  BY <1>2, Joined
<1>4. Len(b \o c) = 3 /\ \A i \in 1..3 : (b \o c)[i] = d[i]
  <2>1. Len(b \o c) = 3 /\ \A i \in 1..3 : (b \o c)[i] = IF i <= 2 THEN b[i] ELSE c[i - 2]
    BY <1>1, <1>3
  <2> QED
    BY <1>1, <2>1
<1>5. b \o c = d
  BY <1>1, <1>3, <1>4, SameElements
<1> QED
  BY <1>5 DEF b, c, d

LEMMA FinishKeys ==
    ASSUME KemInv, KeyInv, finish_u \/ finish_v
    PROVE  KeyInv'
<1>1. /\ column = 2
      /\ \/ pc = "u" /\ pc' = "write_u" /\ FinishPoly(2 + row)
         \/ pc = "v" /\ pc' = "write_v" /\ FinishPoly(4)
  <2>1. MLKEM_K = 2 /\ 2 * MLKEM_K = 4 /\ NoiseNonce(row) = 2 + row
    BY DEF MLKEM_K, NoiseNonce
  <2> QED
    BY <2>1 DEF finish_u, finish_v
<1>2. PICK nonce : /\ FinishPoly(nonce)
                   /\ pc = "u" => nonce = 2 + row
                   /\ pc = "v" => nonce = 4
  BY <1>1
<1> DEFINE noise == sample_cbd(nonce, Noise2)
           sum == Finished(workspace.accumulator, noise)
<1>3. /\ workspace' = [workspace EXCEPT !.sponge = CbdSponge(nonce), !.temporary = noise,
                                        !.accumulator = sum]
      /\ written' = Append(written, sum.terms)
      /\ UNCHANGED <<misread, row, secret, pending, fragmentIndex, transcript, result>>
  BY <1>2 DEF FinishPoly, inputs, writer
<1>4. WorkspaceShape(workspace) /\ (pc = "u" => row \in 0..1)
  BY DEF KemInv, Magnitudes, Loops
<1>5. noise.terms = <<DeviceNoise(misread, 2, nonce)>>
  <2>1. /\ workspace.coins = DeviceSecret(misread, 32)
        /\ workspace.rho = ReadIn(misread, "rho", <<"rho">>)
    BY <1>1 DEF KeyInv, Seeds, Encapsulating
  <2> QED
    BY <2>1, SampledTerms
<1>6. sum.terms = workspace.accumulator.terms \o <<DeviceNoise(misread, 2, nonce)>>
  BY <1>5 DEF Finished
<1> HIDE DEF noise, sum
<1>7. workspace'.rho = workspace.rho /\ workspace'.coins = workspace.coins
  BY <1>3, <1>4, SeedsKept
<1>8. Hashed' /\ Seeds' /\ Derived'
  BY <1>1, <1>3, <1>7, SumKeys DEF Encapsulating
<1>9. CASE pc = "u" /\ pc' = "write_u"
  <2>1. sum.terms = DeviceU(misread, row)
    <3>1. workspace.accumulator.terms
            = <<DeviceUTerm(misread, row, 0), DeviceUTerm(misread, row, 1)>>
      BY <1>1, <1>9 DEF KeyInv, Columns
    <3>2. nonce = 2 + row
      BY <1>2, <1>9
    <3> QED
      BY <1>6, <3>1, <3>2, NoiseAdded DEF DeviceU
  <2>2. written = DevicePolys(misread, row)
    BY <1>9 DEF KeyInv, Polynomials
  <2>3. written' = DevicePolys(misread, row + 1) /\ row + 1 \in 0..3
    <3>1. row = 0 \/ row = 1
      BY <1>4, <1>9
    <3> QED
      BY <1>3, <2>1, <2>2, <3>1, PolyAdded
  <2>4. Polynomials'
    BY <1>3, <1>9, <2>3 DEF Polynomials, Early
  <2> QED
    BY <1>8, <1>9, <2>4 DEF KeyInv, Columns
<1>10. CASE pc = "v" /\ pc' = "write_v"
  <2>1. sum.terms = DeviceV(misread)
    <3>1. workspace.accumulator.terms = <<DeviceVTerm(misread, 0), DeviceVTerm(misread, 1)>>
      BY <1>1, <1>10 DEF KeyInv, Columns
    <3>2. nonce = 4
      BY <1>2, <1>10
    <3> QED
      BY <1>6, <3>1, <3>2, NoiseAdded DEF DeviceV
  <2>2. written = DevicePolys(misread, 2)
    BY <1>10 DEF KeyInv, Polynomials
  <2>3. written' = DevicePolys(misread, 3) /\ 3 \in 0..3
    BY <1>3, <2>1, <2>2, PolyAdded
  <2>4. Polynomials'
    BY <1>3, <1>10, <2>3 DEF Polynomials, Early
  <2> QED
    BY <1>8, <1>10, <2>4 DEF KeyInv, Columns
<1> QED
  BY <1>1, <1>9, <1>10

\* A write that fails.
LEMMA AbandonKeys ==
    ASSUME KemInv, KeyInv, Abandon, UNCHANGED misread
    PROVE  KeyInv'
<1>1. pc' = "returned" /\ result' = "ERR_IO" /\ written' = written
  BY DEF Abandon
<1>2. Hashed'
  BY <1>1 DEF Hashed, Early, Encapsulating
<1>3. Polynomials'
  BY <1>1 DEF KeyInv, Polynomials, Early
<1> QED
  BY <1>1, <1>2, <1>3 DEF KeyInv, Seeds, Columns, Derived, Encapsulating

LEMMA WriteUKeys ==
    ASSUME KemInv, KeyInv, write_compressed_u
    PROVE  KeyInv'
<1> DEFINE data == Ciphertext(320 * row + 5 * (index \div 4), 5)
           last == index + 4 = MLKEM_N
<1>1. /\ pc = "write_u" /\ UNCHANGED misread
      /\ \/ /\ write_ciphertext(data, TRUE)
            /\ row' = IF last THEN row + 1 ELSE row
            /\ column' = IF last THEN 0 ELSE column
            /\ pc' = CASE ~last -> "write_u"
                       [] last /\ row + 1 < MLKEM_K -> "u"
                       [] OTHER -> "v"
            /\ UNCHANGED <<workspace, secret, result, written>>
         \/ Abandon
  BY DEF write_compressed_u, inputs
<1>2. CASE Abandon
  BY <1>1, <1>2, AbandonKeys
<1>3. CASE /\ write_ciphertext(data, TRUE)
           /\ row' = IF last THEN row + 1 ELSE row
           /\ column' = IF last THEN 0 ELSE column
           /\ pc' = CASE ~last -> "write_u"
                      [] last /\ row + 1 < MLKEM_K -> "u"
                      [] OTHER -> "v"
           /\ UNCHANGED <<workspace, secret, result, written>>
  <2>1. PICK m \in 0..63 : index = 4 * m /\ Sent = 320 * row + 5 * m
    BY <1>1 DEF KemInv, InFragments
  <2>2. row \in 0..1 /\ Len(pending) < FragmentBytes /\ Writer
    BY <1>1 DEF KemInv, Loops, InFragments, Encapsulating
  <2>3. data = Ciphertext(Sent, 5)
    <3>1. index \div 4 = m
      BY <2>1
    <3> QED
      BY <2>1, <3>1
  <2>4. Holds(transcript, Greeting \o Ciphertext(0, Sent))
    BY <1>1 DEF KeyInv, Hashed, Encapsulating
  <2>5. Holds(transcript, Greeting \o Ciphertext(0, Sent))'
    <3> HIDE DEF data
    <3>1. 5 \in 1..5
      OBVIOUS
    <3>2. write_ciphertext(Ciphertext(Sent, 5), TRUE)
      BY <1>3, <2>3
    <3> QED
      BY <2>2, <2>4, <3>1, <3>2, WriteHashed
  <2> HIDE DEF data
  <2>6. Hashed'
    BY <2>5, Zenon DEF Hashed
  <2>7. \/ pc' = "write_u" /\ row' = row
        \/ pc' = "u" /\ row' = 1 /\ column' = 0 /\ row = 0
        \/ pc' = "v" /\ row' = 2 /\ column' = 0 /\ row = 1
    BY <1>3, <2>2 DEF MLKEM_K
  <2>8. Seeds'
    BY <1>1, <1>3, <2>7 DEF KeyInv, Seeds, Encapsulating
  <2>9. Columns'
    BY <2>7 DEF Columns
  <2>10. Polynomials'
    BY <1>1, <1>3, <2>7 DEF KeyInv, Polynomials, Early
  <2> QED
    BY <2>6, <2>7, <2>8, <2>9, <2>10 DEF KeyInv, Derived
<1> QED
  BY <1>1, <1>2, <1>3

LEMMA WriteVKeys ==
    ASSUME KemInv, KeyInv, write_compressed_v
    PROVE  KeyInv'
<1> DEFINE data == Ciphertext(640 + index \div 2, 1)
           last == index + 2 = MLKEM_N
<1>1. /\ pc = "write_v" /\ UNCHANGED misread
      /\ \/ /\ write_ciphertext(data, TRUE)
            /\ workspace' = IF last THEN ZeroWorkspace ELSE workspace
            /\ pc' = IF last THEN "returned" ELSE "write_v"
            /\ UNCHANGED <<row, column, secret, result, written>>
         \/ Abandon
  BY DEF write_compressed_v, inputs
<1>2. CASE Abandon
  BY <1>1, <1>2, AbandonKeys
<1>3. CASE /\ write_ciphertext(data, TRUE)
           /\ workspace' = IF last THEN ZeroWorkspace ELSE workspace
           /\ pc' = IF last THEN "returned" ELSE "write_v"
           /\ UNCHANGED <<row, column, secret, result, written>>
  <2>1. PICK m \in 0..127 : index = 2 * m /\ Sent = 640 + m
    BY <1>1 DEF KemInv, InFragments
  <2>2. Len(pending) < FragmentBytes /\ Writer
    BY <1>1 DEF KemInv, InFragments, Encapsulating
  <2>3. data = Ciphertext(Sent, 1)
    <3>1. index \div 2 = m
      BY <2>1
    <3> QED
      BY <2>1, <3>1
  <2>4. Holds(transcript, Greeting \o Ciphertext(0, Sent))
    BY <1>1 DEF KeyInv, Hashed, Encapsulating
  <2>5. Holds(transcript, Greeting \o Ciphertext(0, Sent))'
    <3> HIDE DEF data
    <3>1. 1 \in 1..5
      OBVIOUS
    <3>2. write_ciphertext(Ciphertext(Sent, 1), TRUE)
      BY <1>3, <2>3
    <3> QED
      BY <2>2, <2>4, <3>1, <3>2, WriteHashed
  <2> HIDE DEF data
  <2>6. Hashed'
    BY <2>5, Zenon DEF Hashed
  <2>7. (pc' = "returned" \/ (pc' = "write_v" /\ workspace' = workspace))
    BY <1>3
  <2>8. Seeds'
    BY <1>1, <1>3, <2>7 DEF KeyInv, Seeds, Encapsulating
  <2>9. Columns'
    BY <2>7 DEF Columns
  <2>10. Polynomials'
    BY <1>1, <1>3, <2>7 DEF KeyInv, Polynomials, Early
  <2> QED
    BY <2>6, <2>7, <2>8, <2>9, <2>10 DEF KeyInv, Derived
<1> QED
  BY <1>1, <1>2, <1>3

LEMMA DeriveSessionKeys ==
    ASSUME KemInv, KeyInv, derive_session_keys
    PROVE  KeyInv'
<1>1. /\ pc = "returned" /\ result = "OK" /\ pc' = "finish" /\ Complete
      /\ keys' = c0pq_derive_session_keys(secret, c0_sha256_final(transcript))
      /\ UNCHANGED <<misread, received, written>>
  BY DEF derive_session_keys, inputs, history, peer
<1>2. secret = DeviceSecret(misread, 0)
  BY <1>1 DEF KeyInv, Seeds
<1>3. c0_sha256_final(transcript) = Sha256Blocks(Greeting \o Ciphertext(0, CiphertextBytes))
  <2> DEFINE c == Ciphertext(0, CiphertextBytes)
             m == Greeting \o c
  <2>1. Sent = CiphertextBytes
    BY <1>1 DEF KemInv, InFragments
  <2>2. Holds(transcript, m)
    <3>1. Holds(transcript, Greeting \o Ciphertext(0, Sent))
      BY <1>1 DEF KeyInv, Hashed
    <3> QED
      BY <2>1, <3>1
  <2>3. c \in Seq(Positions)
    BY MessageBytes DEF CiphertextBytes
  <2> HIDE DEF c
  <2>4. m \in Seq(Positions)
    BY <2>3, GreetingTyped, Joined
  <2> HIDE DEF m
  <2>5. c0_sha256_final(transcript) = Sha256Blocks(m)
    BY <2>2, <2>4, FinalIsSha256
  <2> QED
    BY <2>5 DEF m, c
<1>4. \A f \in 0..15 : received[f] = Ciphertext(48 * f, 48)
  <2>1. fragmentIndex - 1 = 15 /\ FragmentBytes = 48
    BY <1>1 DEF Complete, FragmentCount, FragmentBytes
  <2>2. \A f \in 0..(fragmentIndex - 1) :
          received[f] = Ciphertext(FragmentBytes * f, FragmentBytes)
    BY DEF KemInv, InOrder
  <2> QED
    BY <2>1, <2>2
<1>5. Derived'
  BY <1>1, <1>2, <1>3, <1>4 DEF Derived
<1>6. Polynomials'
  BY <1>1 DEF KeyInv, Polynomials, Early
<1> QED
  BY <1>1, <1>5, <1>6 DEF KeyInv, Hashed, Seeds, Columns, Early, Encapsulating

-----------------------------------------------------------------------------
(* The two ends agree. *)

\* The fragments put together are the ciphertext.
LEMMA Reassembled ==
    ASSUME \A f \in 0..15 : received[f] = Ciphertext(48 * f, 48)
    PROVE  PeerCiphertext = Ciphertext(0, CiphertextBytes)
<1> DEFINE seqs == [f \in 1..FragmentCount |-> received[f - 1]]
           Layers(f) == [i \in 1..Len(seqs) |-> IF i = 1 THEN seqs[i]
                                                ELSE f[i - 1] \o seqs[i]]
           after == CHOOSE f : f = Layers(f)
           C(i) == Ciphertext(0, 48 * i)
           g == [i \in 1..16 |-> C(i)]
<1>1. /\ Len(seqs) = 16
      /\ \A i \in 1..16 : seqs[i] = Ciphertext(48 * (i - 1), 48)
  <2>1. seqs = [f \in 1..16 |-> Ciphertext(48 * (f - 1), 48)]
    BY DEF FragmentCount
  <2> HIDE DEF seqs
  <2> QED
    BY <2>1
<1>2. PeerCiphertext = after[Len(seqs)]
  <2>1. Len(seqs) # 0
    <3> HIDE DEF seqs
    <3> QED
      BY <1>1
  <2> QED
    BY <2>1, Zenon DEF PeerCiphertext, FlattenSeq
<1> HIDE DEF seqs
<1>3. \A i \in 2..16 : C(i - 1) \o seqs[i] = C(i)
  <2> SUFFICES ASSUME NEW i \in 2..16 PROVE C(i - 1) \o seqs[i] = C(i)
    OBVIOUS
  <2> DEFINE n == 48 * (i - 1)
             b == 48
             z == 0
  <2>1. n \in Nat /\ b \in Nat /\ z \in Nat /\ z + n = n /\ n + b = 48 * i
    OBVIOUS
  <2>2. seqs[i] = Ciphertext(n, b)
    <3>1. i \in 1..16
      OBVIOUS
    <3> QED
      BY <1>1, <3>1
  <2>3. Ciphertext(z, n) \o Ciphertext(z + n, b) = Ciphertext(z, n + b)
    <3>1. n \in Nat /\ b \in Nat /\ z \in Nat
      BY <2>1
    <3> HIDE DEF n, b, z
    <3> QED
      BY <3>1, CiphertextJoins
  <2> QED
    BY <2>1, <2>2, <2>3
<1>4. seqs[1] = C(1)
  <2>1. 1 \in 1..16 /\ 48 * (1 - 1) = 0 /\ 48 * 1 = 48
    OBVIOUS
  <2> QED
    BY <1>1, <2>1
<1> HIDE DEF C
<1>5. g = Layers(g)
  <2>1. \A i \in 1..16 : g[i] = IF i = 1 THEN seqs[i] ELSE g[i - 1] \o seqs[i]
    <3> SUFFICES ASSUME NEW i \in 1..16
                 PROVE  g[i] = IF i = 1 THEN seqs[i] ELSE g[i - 1] \o seqs[i]
      OBVIOUS
    <3>1. CASE i = 1
      BY <1>4, <3>1
    <3>2. CASE i # 1
      <4>1. i \in 2..16 /\ i - 1 \in 1..16
        BY <3>2
      <4>2. g[i - 1] = C(i - 1) /\ g[i] = C(i)
        BY <4>1
      <4> QED
        BY <1>3, <3>2, <4>1, <4>2
    <3> QED
      BY <3>1, <3>2
  <2>2. g = [i \in 1..16 |-> IF i = 1 THEN seqs[i] ELSE g[i - 1] \o seqs[i]]
    BY <2>1
  <2> HIDE DEF g
  <2> QED
    BY <1>1, <2>2
<1>6. after = Layers(after)
  <2> HIDE DEF g
  <2> QED
    BY <1>5
<1> HIDE DEF after, g
<1>7. after[1] = C(1) /\ \A i \in 2..16 : after[i] = after[i - 1] \o seqs[i]
  <2>1. after = [i \in 1..16 |-> IF i = 1 THEN seqs[i] ELSE after[i - 1] \o seqs[i]]
    BY <1>1, <1>6
  <2> DEFINE body(i) == IF i = 1 THEN seqs[i] ELSE after[i - 1] \o seqs[i]
  <2>2. /\ body(1) = seqs[1]
        /\ \A i \in 2..16 : body(i) = after[i - 1] \o seqs[i] /\ i \in 1..16
    OBVIOUS
  <2>3. after = [i \in 1..16 |-> body(i)]
    BY <2>1
  <2> HIDE DEF body
  <2>4. \A i \in 1..16 : after[i] = body(i)
    BY <2>3
  <2>5. after[1] = C(1)
    <3>1. 1 \in 1..16
      OBVIOUS
    <3>2. after[1] = body(1)
      BY <2>4, <3>1
    <3> QED
      BY <1>4, <2>2, <3>2
  <2>6. ASSUME NEW i \in 2..16
        PROVE  after[i] = after[i - 1] \o seqs[i]
    <3>1. body(i) = after[i - 1] \o seqs[i] /\ i \in 1..16
      BY <2>2
    <3> QED
      BY <2>4, <3>1
  <2> QED
    BY <2>5, <2>6
<1>8. \A i \in 2..16 : after[i - 1] = C(i - 1) => after[i] = C(i)
  BY <1>3, <1>7
<1>9. after[16] = C(16)
  <2> DEFINE A(i) == after[i] = C(i)
  <2>1. A(1) /\ \A i \in 2..16 : A(i - 1) => A(i)
    BY <1>7, <1>8
  <2> HIDE DEF A
  <2>2. /\ (A(1) => A(2)) /\ (A(2) => A(3)) /\ (A(3) => A(4)) /\ (A(4) => A(5))
        /\ (A(5) => A(6)) /\ (A(6) => A(7)) /\ (A(7) => A(8)) /\ (A(8) => A(9))
        /\ (A(9) => A(10)) /\ (A(10) => A(11)) /\ (A(11) => A(12)) /\ (A(12) => A(13))
        /\ (A(13) => A(14)) /\ (A(14) => A(15)) /\ (A(15) => A(16))
    BY <2>1
  <2>3. A(16)
    BY <2>1, <2>2
  <2> QED
    BY <2>3 DEF A
<1> QED
  BY <1>1, <1>2, <1>9 DEF C, CiphertextBytes

\* A sequence of two and one more.
LEMMA FipsShapes ==
    /\ FipsCiphertext = <<FipsU(0), FipsU(1), FipsV>>
    /\ FipsV = <<FipsProduct(<<"t", 0>>, 0), FipsProduct(<<"t", 1>>, 1), FipsNoise(2, 4)>>
    /\ \A i \in {0, 1} :
         FipsU(i) = <<FipsProduct(FipsSponge("shake128", <<<<"rho">>, <<"index", i, 0>>>>, 0), 0),
                      FipsProduct(FipsSponge("shake128", <<<<"rho">>, <<"index", i, 1>>>>, 0), 1),
                      FipsNoise(2, 2 + i)>>
<1>1. MLKEM_K = 2 /\ 2 * MLKEM_K = 4
  BY DEF MLKEM_K
<1>2. FipsCiphertext = <<FipsU(0), FipsU(1), FipsV>>
  <2>1. [i \in 1..2 |-> FipsU(i - 1)] = <<FipsU(0), FipsU(1)>>
    OBVIOUS
  <2> QED
    BY <1>1, <2>1, NoiseAdded DEF FipsCiphertext
<1>3. FipsV = <<FipsProduct(<<"t", 0>>, 0), FipsProduct(<<"t", 1>>, 1), FipsNoise(2, 4)>>
  <2>1. [j \in 1..2 |-> FipsProduct(<<"t", j - 1>>, j - 1)]
          = <<FipsProduct(<<"t", 0>>, 0), FipsProduct(<<"t", 1>>, 1)>>
    OBVIOUS
  <2> QED
    BY <1>1, <2>1, NoiseAdded DEF FipsV
<1>4. ASSUME NEW i \in {0, 1}
      PROVE  FipsU(i)
               = <<FipsProduct(FipsSponge("shake128", <<<<"rho">>, <<"index", i, 0>>>>, 0), 0),
                   FipsProduct(FipsSponge("shake128", <<<<"rho">>, <<"index", i, 1>>>>, 0), 1),
                   FipsNoise(2, 2 + i)>>
  <2> DEFINE P(j) == FipsProduct(FipsSponge("shake128", <<<<"rho">>, <<"index", i, j>>>>, 0), j)
  <2>1. FipsU(i) = [j \in 1..2 |-> P(j - 1)] \o <<FipsNoise(2, 2 + i)>>
    BY <1>1 DEF FipsU
  <2> HIDE DEF P
  <2>2. [j \in 1..2 |-> P(j - 1)] = <<P(0), P(1)>>
    OBVIOUS
  <2>3. FipsU(i) = <<P(0), P(1), FipsNoise(2, 2 + i)>>
    BY <2>1, <2>2, NoiseAdded
  <2> QED
    BY <2>3 DEF P
<1> QED
  BY <1>2, <1>3, <1>4

\* What the device computes is what FIPS 203 prescribes exactly if no pass
\* but the check was served other bytes.
LEMMA DeviceIsFips ==
    ASSUME NEW m \in SUBSET Passes
    PROVE  /\ DeviceSecret(m, 0) # <<"implicit rejection">>
           /\ (DeviceSecret(m, 0) = FipsSecret(0) /\ DevicePolys(m, 3) = FipsCiphertext)
                <=> m \subseteq {"check"}
<1>1. DevicePolys(m, 3) = <<DeviceU(m, 0), DeviceU(m, 1), DeviceV(m)>>
  BY DEF DevicePolys
<1>2. TPass(0) = "t0" /\ TPass(1) = "t1"
  BY DEF TPass
<1>3. DeviceSecret(m, 0) # <<"implicit rejection">>
  BY DEF DeviceSecret
<1>4. ASSUME m \subseteq {"check"}
      PROVE  DeviceSecret(m, 0) = FipsSecret(0) /\ DevicePolys(m, 3) = FipsCiphertext
  <2>1. /\ ReadIn(m, "hash", <<"key">>) = <<"key">>
        /\ ReadIn(m, "rho", <<"rho">>) = <<"rho">>
        /\ ReadIn(m, "t0", <<"t", 0>>) = <<"t", 0>> /\ ReadIn(m, "t1", <<"t", 1>>) = <<"t", 1>>
    BY <1>4 DEF ReadIn
  <2>2. \A at : DeviceSecret(m, at) = FipsSecret(at)
    BY <2>1 DEF DeviceSecret, DeviceHash, FipsSecret, FipsHash, FipsSponge
  <2>3. \A eta, nonce : DeviceNoise(m, eta, nonce) = FipsNoise(eta, nonce)
    BY <2>2 DEF DeviceNoise, FipsNoise, FipsSponge
  <2>4. \A left, j : DeviceProduct(m, left, j) = FipsProduct(left, j)
    BY <2>3 DEF DeviceProduct, FipsProduct
  <2>5. /\ DeviceVTerm(m, 0) = FipsProduct(<<"t", 0>>, 0)
        /\ DeviceVTerm(m, 1) = FipsProduct(<<"t", 1>>, 1)
    BY <1>2, <2>1, <2>4 DEF DeviceVTerm
  <2>6. \A i, j : DeviceUTerm(m, i, j)
                    = FipsProduct(FipsSponge("shake128", <<<<"rho">>, <<"index", i, j>>>>, 0), j)
    BY <2>1, <2>4 DEF DeviceUTerm, FipsSponge
  <2>7. DeviceU(m, 0) = FipsU(0) /\ DeviceU(m, 1) = FipsU(1) /\ DeviceV(m) = FipsV
    <3>1. 0 \in {0, 1} /\ 1 \in {0, 1}
      OBVIOUS
    <3>2. DeviceU(m, 0) = FipsU(0)
      BY <2>3, <2>6, <3>1, FipsShapes DEF DeviceU
    <3>3. DeviceU(m, 1) = FipsU(1)
      BY <2>3, <2>6, <3>1, FipsShapes DEF DeviceU
    <3>4. DeviceV(m) = FipsV
      BY <2>3, <2>5, FipsShapes DEF DeviceV
    <3> QED
      BY <3>2, <3>3, <3>4
  <2> QED
    BY <1>1, <2>2, <2>7, FipsShapes
<1>5. ASSUME DeviceSecret(m, 0) = FipsSecret(0), DevicePolys(m, 3) = FipsCiphertext
      PROVE  m \subseteq {"check"}
  <2>1. "hash" \notin m
    <3>1. DeviceHash(m) = FipsHash
      BY <1>5 DEF DeviceSecret, FipsSecret, FipsSponge
    <3>2. ReadIn(m, "hash", <<"key">>) = <<"key">>
      BY <3>1 DEF DeviceHash, FipsHash, FipsSponge
    <3> QED
      BY <3>2 DEF ReadIn
  <2>2. DeviceU(m, 0) = FipsU(0) /\ DeviceV(m) = FipsV
    BY <1>1, <1>5, FipsShapes
  <2>3. "rho" \notin m
    <3> DEFINE right == FipsSponge("shake128", <<<<"rho">>, <<"index", 0, 0>>>>, 0)
    <3>1. FipsU(0)[1] = FipsProduct(right, 0)
      <4>1. 0 \in {0, 1}
        OBVIOUS
      <4> QED
        BY <4>1, FipsShapes
    <3>2. DeviceU(m, 0)[1] = DeviceUTerm(m, 0, 0)
      BY DEF DeviceU
    <3>3. FipsProduct(right, 0)[2] = right
      BY DEF FipsProduct
    <3>4. DeviceUTerm(m, 0, 0)[2]
            = <<"shake128", <<ReadIn(m, "rho", <<"rho">>), <<"index", 0, 0>>>>, 0>>
      BY DEF DeviceUTerm, DeviceProduct
    <3>5. ReadIn(m, "rho", <<"rho">>) = <<"rho">>
      BY <2>2, <3>1, <3>2, <3>3, <3>4 DEF FipsSponge
    <3> QED
      BY <3>5 DEF ReadIn
  <2>4. "t0" \notin m /\ "t1" \notin m
    <3>1. FipsV[1] = FipsProduct(<<"t", 0>>, 0) /\ FipsV[2] = FipsProduct(<<"t", 1>>, 1)
      BY FipsShapes
    <3>2. DeviceV(m)[1] = DeviceVTerm(m, 0) /\ DeviceV(m)[2] = DeviceVTerm(m, 1)
      BY DEF DeviceV
    <3>3. /\ FipsProduct(<<"t", 0>>, 0)[2] = <<"t", 0>>
          /\ FipsProduct(<<"t", 1>>, 1)[2] = <<"t", 1>>
      BY DEF FipsProduct
    <3>4. /\ DeviceVTerm(m, 0)[2] = ReadIn(m, "t0", <<"t", 0>>)
          /\ DeviceVTerm(m, 1)[2] = ReadIn(m, "t1", <<"t", 1>>)
      BY <1>2 DEF DeviceVTerm, DeviceProduct
    <3>5. ReadIn(m, "t0", <<"t", 0>>) = <<"t", 0>> /\ ReadIn(m, "t1", <<"t", 1>>) = <<"t", 1>>
      BY <2>2, <3>1, <3>2, <3>3, <3>4
    <3> QED
      BY <3>5 DEF ReadIn
  <2> QED
    BY <2>1, <2>3, <2>4 DEF Passes
<1> QED
  BY <1>3, <1>4, <1>5

\* The key schedule.
LEMMA SchedulesAgree ==
    ASSUME NEW shared, NEW digest
    PROVE  c0pq_derive_session_keys(shared, digest) = PeerSessionKeys(shared, digest)
<1>1. c0_hkdf_sha256_extract(<<>>, Key32("psk")) = RfcExtract(<<>>, Key32("psk"))
  BY KeyTyped, HkdfAgrees
<1>2. c0_hkdf_sha256_expand(Key32("early"), Label("derived", 14))
        = RfcExpand(Key32("early"), Label("derived", 14))
  BY LabelTyped, HkdfAgrees
<1>3. c0_hkdf_sha256_extract(Key32("derived"), Key32("shared"))
        = RfcExtract(Key32("derived"), Key32("shared"))
  BY KeyTyped, HkdfAgrees
<1>4. \A label \in DOMAIN KeyLabels :
        expand_text_label(Key32("handshake"), label)
          = RfcExpand(Key32("handshake"), TextLabelInfo(label))
  <2> SUFFICES ASSUME NEW label \in DOMAIN KeyLabels
               PROVE  expand_text_label(Key32("handshake"), label)
                        = RfcExpand(Key32("handshake"), TextLabelInfo(label))
    OBVIOUS
  <2> DEFINE l == Label(label, KeyLabels[label])
             L == {<<"label", label>>} \X Nat
             z == <<PadZero>>
             Z == {PadZero}
             t == Bytes("transcript", 32)
             T == {"transcript"} \X Nat
             info == TextLabelInfo(label)
             I == (L \cup Z) \cup T
  <2>1. KeyLabels[label] \in Nat
    BY DEF KeyLabels
  <2>2. l \in Seq(L) /\ z \in Seq(Z) /\ t \in Seq(T)
    BY <2>1, LabelTyped, BytesTyped
  <2>3. info = (l \o z) \o t
    BY DEF TextLabelInfo
  <2> HIDE DEF l, z, t, L, Z, T
  <2>4. info \in Seq(I)
    <3> DEFINE v == l \o z
               V == L \cup Z
    <3>1. v \in Seq(V)
      BY <2>2, JoinedTyped
    <3> HIDE DEF v, V
    <3>2. v \o t \in Seq(V \cup T)
      BY <2>2, <3>1, JoinedTyped
    <3> QED
      BY <2>3, <3>2 DEF v, V
  <2> HIDE DEF info, I
  <2>5. c0_hkdf_sha256_expand(Key32("handshake"), info) = RfcExpand(Key32("handshake"), info)
    BY <2>4, HkdfAgrees
  <2> QED
    BY <2>5 DEF info, expand_text_label
<1>5. [label \in DOMAIN KeyLabels |-> expand_text_label(Key32("handshake"), label)]
        = [label \in DOMAIN KeyLabels |-> RfcExpand(Key32("handshake"), TextLabelInfo(label))]
  BY <1>4, Zenon
<1> QED
  BY <1>1, <1>2, <1>3, <1>5, Zenon DEF c0pq_derive_session_keys, PeerSessionKeys

\* Only passes over the key are misread.
LEMMA MisreadTyped == KemInv => misread \in SUBSET Passes
<1> SUFFICES ASSUME KemInv PROVE misread \in SUBSET Passes
  OBVIOUS
<1>1. PICK i \in Inputs : <<key, base, phase, misread>> = <<i.key, i.base, i.phase, i.misread>>
  BY Zenon DEF KemInv
<1>2. misread = i.misread
  BY <1>1
<1>3. i \in Input
  BY InputsAssumption, Zenon
<1> DEFINE K == (0..4095) \X (0..4095)
           B == -32768..(32768 - MLKEM_N)
<1>4. i \in [key : K, base : B, phase : 0..1, misread : SUBSET Passes]
  BY <1>3, SMTT(60) DEF Input
<1> HIDE DEF K, B
<1> QED
  BY <1>2, <1>4

\* At Finished both ends hold the same keys exactly if the pinned key was used.
LEMMA AgreeAtFinished ==
    ASSUME KemInv, KeyInv, pc = "finish"
    PROVE  keys = PeerKeys <=> PinnedKeyUsed
<1> DEFINE digest == Sha256Blocks(Greeting \o Ciphertext(0, CiphertextBytes))
           mine == DeviceSecret(misread, 0)
           theirs == decapsulate
<1>1. /\ keys = c0pq_derive_session_keys(mine, digest)
      /\ \A f \in 0..15 : received[f] = Ciphertext(48 * f, 48)
  BY DEF KeyInv, Derived
<1>2. PeerCiphertext = Ciphertext(0, CiphertextBytes)
  BY <1>1, Reassembled
<1>3. written = DevicePolys(misread, 3)
  BY DEF KeyInv, Polynomials
<1>4. misread \in SUBSET Passes
  BY MisreadTyped
<1>5. /\ mine # <<"implicit rejection">>
      /\ (mine = FipsSecret(0) /\ written = FipsCiphertext) <=> misread \subseteq {"check"}
  BY <1>3, <1>4, DeviceIsFips
<1>6. theirs = IF /\ written = FipsCiphertext
                  /\ key[1] < MLKEM_Q /\ key[2] < MLKEM_Q
               THEN FipsSecret(0) ELSE <<"implicit rejection">>
  BY <1>2 DEF decapsulate
<1>7. mine = theirs <=> PinnedKeyUsed
  <2> HIDE DEF mine, theirs
  <2> QED
    BY <1>5, <1>6, Zenon DEF PinnedKeyUsed
<1>8. PeerKeys = PeerSessionKeys(theirs, digest)
  BY <1>2, Zenon DEF PeerKeys, Greeting, PrefixBytes, HelloCoreBytes, ChallengeCoreBytes
<1> HIDE DEF mine, theirs, digest
<1>9. keys = PeerSessionKeys(mine, digest)
  BY <1>1, SchedulesAgree
<1>10. PeerSessionKeys(mine, digest) = PeerSessionKeys(theirs, digest) <=> mine = theirs
  <2>1. \A shared : PeerSessionKeys(shared, digest).from = <<shared, digest>>
    BY DEF PeerSessionKeys
  <2>2. <<mine, digest>> = <<theirs, digest>> => mine = theirs
    OBVIOUS
  <2> QED
    BY <2>1, <2>2, Zenon
<1> QED
  BY <1>7, <1>8, <1>9, <1>10, Zenon

LEMMA EndKeys ==
    ASSUME KemInv, KeyInv, exchange_finished \/ ConnectFails
    PROVE  KeyInv'
<1>1. /\ UNCHANGED <<key, base, phase, misread, written>>
      /\ pc' = "failed" \/ (pc = "finish" /\ pc' = "established" /\ keys = PeerKeys)
  BY DEF exchange_finished, ConnectFails, inputs, history
<1>2. Polynomials'
  BY <1>1 DEF KeyInv, Polynomials, Early
<1>3. pc' = "established" => PinnedKeyUsed'
  <2>1. pc' = "established" => PinnedKeyUsed
    BY <1>1, AgreeAtFinished
  <2> QED
    BY <1>1, <2>1 DEF PinnedKeyUsed
<1> QED
  BY <1>1, <1>2, <1>3 DEF KeyInv, Hashed, Seeds, Columns, Derived, Early, Encapsulating

LEMMA KeyStep ==
    ASSUME ~Harvard, KemInv, KeyInv, [Next]_vars
    PROVE  KeyInv'
<1>1. CASE UNCHANGED vars
  <2>1. /\ UNCHANGED <<pc, key, misread, row, column, workspace, keyHash, secret, written>>
        /\ UNCHANGED <<pending, fragmentIndex, transcript, keys, result, received>>
    BY <1>1 DEF vars, inputs, loop, writer, history, peer
  <2>2. Sent' = Sent /\ PinnedKeyUsed' = PinnedKeyUsed
    BY <2>1 DEF Sent, PinnedKeyUsed
  <2>3. Hashed'
    BY <2>1, <2>2 DEF KeyInv, Hashed
  <2>4. Seeds' /\ Columns'
    BY <2>1 DEF KeyInv, Seeds, Columns
  <2>5. Polynomials' /\ Derived'
    BY <2>1 DEF KeyInv, Polynomials, Derived
  <2> QED
    BY <2>1, <2>2, <2>3, <2>4, <2>5 DEF KeyInv
<1>2. CASE random_bytes
  BY <1>2, RandomKeys
<1>3. CASE validate_and_hash_public_key
  BY <1>3, ValidateKeys
<1>4. CASE derive_k_and_coins
  BY <1>4, DeriveKeys
<1>5. CASE accumulate_u
  BY <1>5, AccumulateUKeys
<1>6. CASE finish_u \/ finish_v
  BY <1>6, FinishKeys
<1>7. CASE write_compressed_u
  BY <1>7, WriteUKeys
<1>8. CASE accumulate_v
  BY <1>8, AccumulateVKeys
<1>9. CASE write_compressed_v
  BY <1>9, WriteVKeys
<1>10. CASE derive_session_keys
  BY <1>10, DeriveSessionKeys
<1>11. CASE exchange_finished \/ ConnectFails
  BY <1>11, EndKeys
<1> QED
  BY <1>1, <1>2, <1>3, <1>4, <1>5, <1>6, <1>7, <1>8, <1>9, <1>10, <1>11 DEF Next

\* Every reachable state satisfies the formulas.
THEOREM EncapsulationFollowsFormulas ==
    ASSUME ~Harvard
    PROVE  SessionSpec => []KeyInv
<1>1. SessionInit => KeyInv
  BY InitKeys DEF SessionInit
<1>2. KemInv /\ KeyInv /\ [SessionNext]_allVars => KeyInv'
  BY KeyStep, SessionStep
<1> QED
  BY <1>1, <1>2, EncapsulationCorrect, PTL DEF SessionSpec

\* Where program flash can be read like any memory, a handshake whose
\* fragments were all acknowledged ends with the same keys at both ends
\* exactly if every pass over the public key was served the pinned key and
\* that key is canonical: for every key, and whichever passes of
\* mlkem512_stream.c were served other bytes.
THEOREM KeysAlwaysAgree ==
    ASSUME ~Harvard
    PROVE  SessionSpec => []KeysAgree
<1>1. KemInv /\ KeyInv => KeysAgree
  <2> SUFFICES ASSUME KemInv, KeyInv PROVE KeysAgree
    OBVIOUS
  <2>1. pc = "returned" /\ result = "OK" => Complete
    BY ReturnedWhole DEF WholeCiphertext
  <2>2. pc = "finish" => (keys = PeerKeys <=> PinnedKeyUsed)
    BY AgreeAtFinished
  <2>3. pc = "established" => PinnedKeyUsed
    BY DEF KeyInv
  <2> QED
    BY <2>1, <2>2, <2>3 DEF KeysAgree
<1> QED
  BY <1>1, EncapsulationCorrect, EncapsulationFollowsFormulas, PTL

\* The prefixes of a sequence of three.
LEMMA PrefixesOfThree ==
    ASSUME NEW x, NEW y, NEW z
    PROVE  /\ IsPrefix(<<>>, <<x, y, z>>) /\ IsPrefix(<<x>>, <<x, y, z>>)
           /\ IsPrefix(<<x, y>>, <<x, y, z>>) /\ IsPrefix(<<x, y, z>>, <<x, y, z>>)
<1> DEFINE T == {x, y, z}
           o == <<>>
           a == <<x>>
           b == <<x, y>>
           c == <<x, y, z>>
<1>1. /\ o \in Seq(T) /\ Len(o) = 0
      /\ a \in Seq(T) /\ Len(a) = 1 /\ a[1] = x
      /\ b \in Seq(T) /\ Len(b) = 2 /\ b[1] = x /\ b[2] = y
      /\ c \in Seq(T) /\ Len(c) = 3 /\ c[1] = x /\ c[2] = y /\ c[3] = z
  OBVIOUS
<1> HIDE DEF T, o, a, b, c
<1>2. ASSUME NEW s \in Seq(T), Len(s) <= 3, \A k \in 1..Len(s) : s[k] = c[k]
      PROVE  IsPrefix(s, c)
  <2>1. c \in Seq(T) /\ Len(c) = 3 /\ Len(s) \in 0..3
    BY <1>1, <1>2
  <2>2. SubSeq(c, 1, Len(s)) \in Seq(T) /\ Len(SubSeq(c, 1, Len(s))) = Len(s)
        /\ \A k \in 1..Len(s) : SubSeq(c, 1, Len(s))[k] = c[k]
    <3> DEFINE n == Len(s)
    <3>1. c \in Seq(T) /\ n \in Nat /\ n <= Len(c)
      <4>1. n \in 0..3 /\ Len(c) = 3 /\ c \in Seq(T)
        BY <2>1
      <4> HIDE DEF n
      <4> QED
        BY <4>1
    <3> HIDE DEF n
    <3>2. /\ SubSeq(c, 1, n) \in Seq(T) /\ Len(SubSeq(c, 1, n)) = n
          /\ \A k \in 1..n : SubSeq(c, 1, n)[k] = c[k]
      BY <3>1
    <3> QED
      BY <3>2 DEF n
  <2>3. SubSeq(s, 1, Len(s)) = s
    BY EmptyParts
  <2>4. SubSeq(c, 1, Len(s)) = s
    BY <1>2, <2>2, SameElements
  <2> QED
    BY <1>2, <2>1, <2>3, <2>4 DEF IsPrefix
<1>3. IsPrefix(o, c)
  <2>1. o \in Seq(T) /\ Len(o) <= 3 /\ \A k \in 1..Len(o) : o[k] = c[k]
    BY <1>1
  <2> QED
    BY <1>2, <2>1
<1>4. IsPrefix(a, c)
  <2>1. a \in Seq(T) /\ Len(a) <= 3 /\ \A k \in 1..Len(a) : a[k] = c[k]
    BY <1>1
  <2> QED
    BY <1>2, <2>1
<1>5. IsPrefix(b, c)
  <2>1. b \in Seq(T) /\ Len(b) <= 3 /\ \A k \in 1..Len(b) : b[k] = c[k]
    BY <1>1
  <2> QED
    BY <1>2, <2>1
<1>6. IsPrefix(c, c)
  <2>1. c \in Seq(T) /\ Len(c) <= 3 /\ \A k \in 1..Len(c) : c[k] = c[k]
    BY <1>1
  <2> QED
    BY <1>2, <2>1
<1> QED
  BY <1>3, <1>4, <1>5, <1>6 DEF o, a, b, c

\* Where program flash can be read like any memory, every polynomial that the
\* encapsulation hands out for the pinned key is the one FIPS 203 prescribes,
\* in order: what include/c0pqlink/mlkem512_stream.h promises.  (On a build
\* with separate address spaces the promise is broken.)
THEOREM WireBytesPreserved ==
    ASSUME ~Harvard
    PROVE  SessionSpec => []PreservesWireBytes
<1>1. KemInv /\ KeyInv => PreservesWireBytes
  <2> SUFFICES ASSUME KemInv, KeyInv, PinnedKeyUsed
               PROVE  IsPrefix(written, FipsCiphertext)
    BY Zenon DEF PreservesWireBytes
  <2>1. misread \in SUBSET Passes /\ misread \subseteq {"check"}
    BY MisreadTyped DEF PinnedKeyUsed
  <2>2. FipsCiphertext = DevicePolys(misread, 3)
    BY <2>1, DeviceIsFips
  <2>3. PICK n \in 0..3 : written = DevicePolys(misread, n)
    BY DEF KeyInv, Polynomials
  <2>4. IsPrefix(DevicePolys(misread, n), DevicePolys(misread, 3))
    <3>1. n = 0 \/ n = 1 \/ n = 2 \/ n = 3
      OBVIOUS
    <3>2. /\ DevicePolys(misread, 0) = <<>> /\ DevicePolys(misread, 1) = <<DeviceU(misread, 0)>>
          /\ DevicePolys(misread, 2) = <<DeviceU(misread, 0), DeviceU(misread, 1)>>
          /\ DevicePolys(misread, 3)
               = <<DeviceU(misread, 0), DeviceU(misread, 1), DeviceV(misread)>>
      BY DEF DevicePolys
    <3> QED
      BY <3>1, <3>2, PrefixesOfThree
  <2> QED
    BY <2>2, <2>3, <2>4
<1> QED
  BY <1>1, EncapsulationCorrect, EncapsulationFollowsFormulas, PTL
-----------------------------------------------------------------------------
(* Reduction, compression and packing: the int16_t arithmetic computes what *)
(* FIPS 203 defines over the integers.                                     *)

\* A value modulo 2^16, in two's complement.
LEMMA Cast ==
    ASSUME NEW v \in Int
    PROVE  /\ Int16(v) \in Int /\ -32768 <= Int16(v) /\ Int16(v) <= 32767
           /\ \E p \in Int : Int16(v) = v - 65536 * p
<1> DEFINE p == (v + 32768) \div 65536
           r == (v + 32768) % 65536
<1>1. /\ p \in Int /\ r \in Int /\ 0 <= r /\ r <= 65535
      /\ v + 32768 = 65536 * p + r
  OBVIOUS
<1>2. Int16(v) = r - 32768
  BY DEF Int16
<1> HIDE DEF p, r
<1>3. r - 32768 = v - 65536 * p
  BY <1>1
<1> QED
  BY <1>1, <1>2, <1>3

\* A cast keeps what fits.
LEMMA CastOfSmall ==
    ASSUME NEW v \in Int, -32768 <= v, v <= 32767
    PROVE  Int16(v) = v
  BY DEF Int16

\* What barrett_reduce returns.
LEMMA Barrett ==
    ASSUME NEW v \in Int, -32768 <= v, v <= 32767
    PROVE  /\ barrett_reduce(v) \in Int
           /\ -1664 <= barrett_reduce(v) /\ barrett_reduce(v) <= 1664
           /\ \E p \in Int : barrett_reduce(v) = v - 3329 * p
<1> DEFINE p == (20159 * v + 33554432) \div 67108864
<1>1. p \in Int /\ 67108864 * p <= 20159 * v + 33554432
      /\ 20159 * v + 33554432 < 67108864 * p + 67108864
  OBVIOUS
<1>3. barrett_reduce(v) = Int16(v - p * 3329)
  BY DEF barrett_reduce, multiply_s16, MLKEM_Q
<1> HIDE DEF p
<1>2. v - p * 3329 \in Int /\ -1664 <= v - p * 3329 /\ v - p * 3329 <= 1664
  BY <1>1
<1>4. barrett_reduce(v) = v - 3329 * p
  BY <1>1, <1>2, <1>3, CastOfSmall
<1> QED
  BY <1>1, <1>2, <1>4

\* The multiple of q that montgomery_reduce takes off.
Factor(value) == Int16(Int16(value) * 62209)
Reduced(value, t, factor) ==
    /\ -32768 <= factor /\ factor <= 32767
    /\ 65536 * t = value - 3329 * factor
    /\ t = 169 * value - 3329 * (3327 * t + 169 * factor)

\* What montgomery_reduce returns.
LEMMA MontgomeryTyped ==
    ASSUME NEW value \in Int
    PROVE  montgomery_reduce(value) \in Int /\ Factor(value) \in Int
<1> DEFINE low == Int16(value)
           factor == Factor(value)
<1>1. low \in Int
  BY Cast
<1>2. low * 62209 \in Int
  BY <1>1
<1>3. factor \in Int
  BY <1>2, Cast DEF Factor
<1>4. montgomery_reduce(value) = (value - factor * 3329) \div 65536
  BY DEF montgomery_reduce, multiply_s16, MLKEM_Q, MLKEM_QINV, Factor
<1> HIDE DEF factor
<1>5. montgomery_reduce(value) \in Int
  BY <1>3, <1>4
<1> QED
  BY <1>3, <1>5 DEF factor

\* It is the value times the inverse of 2^16, up to a multiple of q.
LEMMA Montgomery ==
    ASSUME NEW value \in Int, NEW t \in Int, NEW factor \in Int,
           t = montgomery_reduce(value), factor = Factor(value)
    PROVE  Reduced(value, t, factor)
<1> DEFINE low == Int16(value)
<1>1. low \in Int /\ \E p \in Int : low = value - 65536 * p
  BY Cast
<1>2. low * 62209 \in Int /\ factor = Int16(low * 62209)
  BY <1>1 DEF Factor
<1>3. t = (value - factor * 3329) \div 65536
  BY DEF montgomery_reduce, multiply_s16, MLKEM_Q, MLKEM_QINV, Factor
<1> HIDE DEF low
<1>4. /\ -32768 <= factor /\ factor <= 32767
      /\ \E r \in Int : factor = low * 62209 - 65536 * r
  BY <1>2, Cast, SMTT(60)
<1>5. PICK p \in Int : low = value - 65536 * p
  BY <1>1
<1>6. PICK r \in Int : factor = low * 62209 - 65536 * r
  BY <1>4
<1> DEFINE u == 3329 * r + 207093760 * p + p - 3160 * value
<1>7. u \in Int /\ value - factor * 3329 = 65536 * u
  BY <1>1, <1>5, <1>6, SMTT(60)
<1> HIDE DEF u
<1>8. t = u
  BY <1>3, <1>7
<1> QED
  BY <1>4, <1>7, <1>8 DEF Reduced

\* What freeze returns: the residue in 0..(q - 1).
LEMMA Freeze ==
    ASSUME NEW v \in Int, -32768 <= v, v <= 32767
    PROVE  freeze_coefficient(v) = v % 3329
<1>1. PICK p \in Int : barrett_reduce(v) = v - 3329 * p
  BY Barrett
<1>2. /\ barrett_reduce(v) \in Int
      /\ -1664 <= barrett_reduce(v) /\ barrett_reduce(v) <= 1664
  BY Barrett
<1>3. freeze_coefficient(v)
        = IF barrett_reduce(v) < 0 THEN barrett_reduce(v) + 3329 ELSE barrett_reduce(v)
  BY DEF freeze_coefficient, MLKEM_Q
<1> QED
  BY <1>1, <1>2, <1>3

\* The shift by 32 of compress10.
LEMMA Shift32 ==
    ASSUME NEW a \in Nat, a < 4194304
    PROVE  MultiplyShift32(a) = (a * 1290167) \div 4294967296
<1> DEFINE high == a \div 2048
           low == a % 2048
<1>1. /\ high \in Int /\ low \in Int /\ 0 <= high /\ 0 <= low /\ low < 2048
      /\ a = 2048 * high + low
  OBVIOUS
<1> DEFINE c == (low * 1975) \div 2048
           middle == high * 1975 + low * 629 + c
           d == middle \div 2048
           e == (high * 629 + d) \div 1024
<1>2. MultiplyShift32(a) = e
  BY DEF MultiplyShift32
<1> HIDE DEF high, low
<1>3. c \in Int /\ 2048 * c <= low * 1975 /\ low * 1975 <= 2048 * c + 2047
  BY <1>1
<1> HIDE DEF c
<1>4. middle \in Int /\ middle = high * 1975 + low * 629 + c
  BY <1>1, <1>3
<1> HIDE DEF middle
<1>5. d \in Int /\ 2048 * d <= middle /\ middle <= 2048 * d + 2047
  BY <1>4
<1> HIDE DEF d
<1>6. e \in Int /\ 1024 * e <= high * 629 + d /\ high * 629 + d <= 1024 * e + 1023
  BY <1>1, <1>5
<1> HIDE DEF e
<1>7. 4294967296 * e <= a * 1290167 /\ a * 1290167 < 4294967296 * e + 4294967296
  BY <1>1, <1>3, <1>4, <1>5, <1>6
<1>8. (a * 1290167) \div 4294967296 = e
  BY <1>6, <1>7
<1> QED
  BY <1>2, <1>8

\* The shift by 28 of compress4.
LEMMA Shift28 ==
    ASSUME NEW a \in Nat, a < 65536
    PROVE  MultiplyShift28(a) = (a * 80635) \div 268435456
<1> DEFINE c == (a * 15099) \div 16384
           e == (a * 4 + c) \div 16384
<1>1. MultiplyShift28(a) = e
  BY DEF MultiplyShift28
<1>2. c \in Int /\ 16384 * c <= a * 15099 /\ a * 15099 <= 16384 * c + 16383
  OBVIOUS
<1> HIDE DEF c
<1>3. e \in Int /\ 16384 * e <= a * 4 + c /\ a * 4 + c <= 16384 * e + 16383
  BY <1>2
<1> HIDE DEF e
<1>4. 268435456 * e <= a * 80635 /\ a * 80635 < 268435456 * e + 268435456
  BY <1>2, <1>3
<1>5. (a * 80635) \div 268435456 = e
  BY <1>3, <1>4
<1> QED
  BY <1>1, <1>5

\* FIPS 203 compression of a residue to ten bits.
LEMMA Round10 ==
    ASSUME NEW x \in Int, 0 <= x, x < 3329
    PROVE  ((x * 1024 + 1665) * 1290167) \div 4294967296 = (2 * x * 1024 + 3329) \div 6658
<1> DEFINE k == (2048 * x + 3329) \div 6658
<1>1. k \in Int /\ 6658 * k <= 2048 * x + 3329 /\ 2048 * x + 3329 < 6658 * k + 6658
  OBVIOUS
<1>2. k = (2 * x * 1024 + 3329) \div 6658
  OBVIOUS
<1> HIDE DEF k
<1>3. /\ 4294967296 * k <= (x * 1024 + 1665) * 1290167
      /\ (x * 1024 + 1665) * 1290167 < 4294967296 * k + 4294967296
  BY <1>1
<1>4. ((x * 1024 + 1665) * 1290167) \div 4294967296 = k
  BY <1>1, <1>3
<1> QED
  BY <1>2, <1>4

\* Rounding to four bits.
LEMMA Round4 ==
    ASSUME NEW x \in Int, 0 <= x, x < 3329
    PROVE  ((x * 16 + 1665) * 80635) \div 268435456 = (2 * x * 16 + 3329) \div 6658
<1> DEFINE k == (32 * x + 3329) \div 6658
<1>1. k \in Int /\ 6658 * k <= 32 * x + 3329 /\ 32 * x + 3329 < 6658 * k + 6658
  OBVIOUS
<1>2. k = (2 * x * 16 + 3329) \div 6658
  OBVIOUS
<1> HIDE DEF k
<1>3. /\ 268435456 * k <= (x * 16 + 1665) * 80635
      /\ (x * 16 + 1665) * 80635 < 268435456 * k + 268435456
  BY <1>1
<1>4. ((x * 16 + 1665) * 80635) \div 268435456 = k
  BY <1>1, <1>3
<1> QED
  BY <1>2, <1>4

\* The two compressions are FIPS 203's for every int16_t coefficient.
LEMMA Compress10 ==
    ASSUME NEW v \in Int, -32768 <= v, v <= 32767
    PROVE  compress10(v) = FipsCompress(v % 3329, 1024)
<1> DEFINE x == v % 3329
<1>1. x \in Int /\ 0 <= x /\ x < 3329
  OBVIOUS
<1>2. freeze_coefficient(v) = x
  BY Freeze
<1>3. compress10(v) = MultiplyShift32(x * 1024 + 1665) % 1024
  BY <1>2 DEF compress10
<1> HIDE DEF x
<1>4. x * 1024 + 1665 \in Nat /\ x * 1024 + 1665 < 4194304
  BY <1>1
<1>5. MultiplyShift32(x * 1024 + 1665) = (2 * x * 1024 + 3329) \div 6658
  BY <1>1, <1>4, Shift32, Round10
<1>6. FipsCompress(x, 1024) = ((2 * x * 1024 + 3329) \div 6658) % 1024
  BY DEF FipsCompress, MLKEM_Q
<1> QED
  BY <1>3, <1>5, <1>6 DEF x

\* compress4 is the rounding of FIPS 203.
LEMMA Compress4 ==
    ASSUME NEW v \in Int, -32768 <= v, v <= 32767
    PROVE  compress4(v) = FipsCompress(v % 3329, 16)
<1> DEFINE x == v % 3329
<1>1. x \in Int /\ 0 <= x /\ x < 3329
  OBVIOUS
<1>2. freeze_coefficient(v) = x
  BY Freeze
<1>3. compress4(v) = MultiplyShift28(x * 16 + 1665) % 16
  BY <1>2 DEF compress4
<1> HIDE DEF x
<1>4. x * 16 + 1665 \in Nat /\ x * 16 + 1665 < 65536
  BY <1>1
<1>5. MultiplyShift28(x * 16 + 1665) = (2 * x * 16 + 3329) \div 6658
  BY <1>1, <1>4, Shift28, Round4
<1>6. FipsCompress(x, 16) = ((2 * x * 16 + 3329) \div 6658) % 16
  BY DEF FipsCompress, MLKEM_Q
<1> QED
  BY <1>3, <1>5, <1>6 DEF x

\* What FIPS 203 compresses to ten or four bits.
LEMMA CompressedRange ==
    ASSUME NEW x \in Int, 0 <= x, x < 3329
    PROVE  /\ FipsCompress(x, 1024) \in Int
           /\ 0 <= FipsCompress(x, 1024) /\ FipsCompress(x, 1024) < 1024
           /\ FipsCompress(x, 16) \in Int
           /\ 0 <= FipsCompress(x, 16) /\ FipsCompress(x, 16) < 16
  BY DEF FipsCompress, MLKEM_Q

\* The five bytes of write_compressed_u give the four values back, and the
\* byte of write_compressed_v the two.
LEMMA Packed10 ==
    ASSUME NEW a \in Int, 0 <= a, a < 1024, NEW b \in Int, 0 <= b, b < 1024,
           NEW c \in Int, 0 <= c, c < 1024, NEW d \in Int, 0 <= d, d < 1024
    PROVE  LET b1 == a % 256
               b2 == (a \div 256) + ((b * 4) % 256)
               b3 == (b \div 64) + ((c * 16) % 256)
               b4 == (c \div 16) + ((d * 64) % 256)
               b5 == d \div 4
           IN  /\ b1 + (b2 % 4) * 256 = a /\ (b2 \div 4) + (b3 % 16) * 64 = b
               /\ (b3 \div 16) + (b4 % 64) * 16 = c /\ (b4 \div 64) + b5 * 4 = d
<1>1. a = 256 * (a \div 256) + (a % 256) /\ a \div 256 \in Int /\ a % 256 \in Int
      /\ 0 <= a \div 256 /\ a \div 256 < 4 /\ 0 <= a % 256 /\ a % 256 < 256
  OBVIOUS
<1>2. b = 64 * (b \div 64) + (b % 64) /\ b \div 64 \in Int /\ b % 64 \in Int
      /\ 0 <= b \div 64 /\ b \div 64 < 16 /\ 0 <= b % 64 /\ b % 64 < 64
      /\ (b * 4) % 256 = 4 * (b % 64)
  OBVIOUS
<1>3. c = 16 * (c \div 16) + (c % 16) /\ c \div 16 \in Int /\ c % 16 \in Int
      /\ 0 <= c \div 16 /\ c \div 16 < 64 /\ 0 <= c % 16 /\ c % 16 < 16
      /\ (c * 16) % 256 = 16 * (c % 16)
  OBVIOUS
<1>4. d = 4 * (d \div 4) + (d % 4) /\ d \div 4 \in Int /\ d % 4 \in Int
      /\ 0 <= d \div 4 /\ d \div 4 < 256 /\ 0 <= d % 4 /\ d % 4 < 4
      /\ (d * 64) % 256 = 64 * (d % 4)
  OBVIOUS
<1> QED
  BY <1>1, <1>2, <1>3, <1>4

\* Two compressed coefficients in a byte.
LEMMA Packed4 ==
    ASSUME NEW a \in Int, 0 <= a, a < 16, NEW b \in Int, 0 <= b, b < 16
    PROVE  (a + b * 16) % 16 = a /\ (a + b * 16) \div 16 = b
  OBVIOUS

\* Multiples of q do not count.
LEMMA SameResidue ==
    ASSUME NEW w \in Int, NEW p \in Int, NEW r \in Int, r = w + 3329 * p
    PROVE  w % 3329 = r % 3329
  OBVIOUS

\* The coefficient at a position: an int16_t with the residue it should have.
LEMMA CoefficientResidue ==
    ASSUME NEW i \in Int, base + i \in Int, -32768 <= base + i, base + i <= 32767
    PROVE  /\ Coefficient(i) \in Int /\ -4000 <= Coefficient(i) /\ Coefficient(i) <= 4000
           /\ Coefficient(i) % 3329 = Residue(i)
<1> DEFINE a == base + i
           product == a * 1441
           t == montgomery_reduce(product)
<1>1. Coefficient(i) = t + NoiseAt(i) /\ NoiseAt(i) = (i % 5) - 2
  BY DEF Coefficient, fqmul, multiply_s16, Scale, NoiseAt
<1>2. Residue(i) = (product * 169 + NoiseAt(i)) % 3329
  BY DEF Residue, Scale, MLKEM_Q
<1>3. product \in Int /\ -47218688 <= product /\ product <= 47217247
  OBVIOUS
<1> HIDE DEF a, product
<1> DEFINE f == Factor(product)
           p == 3327 * t + 169 * f
<1>t. t = montgomery_reduce(product) /\ f = Factor(product)
  OBVIOUS
<1> HIDE DEF t, f
<1>7. t \in Int /\ f \in Int
  BY <1>3, <1>t, MontgomeryTyped
<1>4. /\ -32768 <= f /\ f <= 32767 /\ 65536 * t = product - 3329 * f
      /\ t = 169 * product - 3329 * (3327 * t + 169 * f)
  <2>1. Reduced(product, t, f)
    BY <1>3, <1>7, <1>t, Montgomery
  <2> QED
    BY <1>3, <1>7, <2>1 DEF Reduced
<1>6. p \in Int /\ t = 169 * product - 3329 * p
  BY <1>3, <1>4, <1>7
<1> HIDE DEF p
<1>5. NoiseAt(i) \in Int /\ -2 <= NoiseAt(i) /\ NoiseAt(i) <= 2
  BY <1>1
<1>8. -3000 <= t /\ t <= 3000
  BY <1>3, <1>4, <1>7
<1> DEFINE n == NoiseAt(i)
           w == t + n
           r == product * 169 + n
<1>9. /\ w \in Int /\ r \in Int /\ r = w + 3329 * p
  BY <1>3, <1>5, <1>6, <1>7
<1> HIDE DEF w, r
<1>10. w % 3329 = r % 3329
  <2>1. p \in Int
    BY <1>6
  <2> QED
    BY <1>9, <2>1, SameResidue
<1> QED
  BY <1>1, <1>2, <1>5, <1>7, <1>8, <1>10 DEF w, r, n

\* The bounds of an interval, for literals that the prover does not read off.
LEMMA Between ==
    ASSUME NEW b, NEW low \in Int, NEW high \in Int, b \in low..high
    PROVE  b \in Int /\ low <= b /\ b <= high
  OBVIOUS

\* A position of a polynomial, and the coefficient there with a message bit.
LEMMA CoefficientAt ==
    ASSUME KemInv, NEW i \in Int, 0 <= i, i <= 255
    PROVE  /\ Coefficient(i) \in Int /\ -4000 <= Coefficient(i) /\ Coefficient(i) <= 4000
           /\ Coefficient(i) % 3329 = Residue(i)
           /\ MessageBit(i) \in Int /\ 0 <= MessageBit(i) /\ MessageBit(i) <= 1
<1>1. base \in Int /\ -32768 <= base /\ base <= 32512 /\ phase \in Int
  <2>1. PICK chosen \in Inputs : base = chosen.base /\ phase = chosen.phase
    BY DEF KemInv
  <2>2. chosen \in Input
    BY InputsAssumption
  <2>3. chosen.base \in -32768..(32768 - MLKEM_N)
    BY <2>2, SMT DEF Input
  <2>4. chosen.phase \in 0..1
    BY <2>2, SMT DEF Input
  <2> DEFINE b == chosen.base
  <2> HIDE DEF b
  <2>5. b \in -32768..(32768 - MLKEM_N)
    BY <2>3 DEF b
  <2>6. b \in Int
    BY <2>5
  <2> DEFINE top == 32768 - MLKEM_N
  <2>9. top \in Int
    BY DEF MLKEM_N
  <2>10. b \in -32768..top
    BY <2>5
  <2> HIDE DEF top
  <2>7. -32768 <= b
    BY <2>9, <2>10, Between
  <2>8. b <= top
    BY <2>9, <2>10, Between
  <2> QED
    BY <2>1, <2>4, <2>6, <2>7, <2>8 DEF b, top, MLKEM_N
<1>2. base + i \in Int /\ -32768 <= base + i /\ base + i <= 32767
  BY <1>1
<1>3. MessageBit(i) \in Int /\ 0 <= MessageBit(i) /\ MessageBit(i) <= 1
  BY <1>1 DEF MessageBit
<1> QED
  BY <1>2, <1>3, CoefficientResidue

\* The four bytes of u and the byte of v that a step hands out.
LEMMA PieceOfU ==
    ASSUME KemInv, NEW at \in Int, 0 <= at, at <= 252, NEW poly \in 1..2
    PROVE  LET bytes == Pack10([k \in 1..4 |-> compress10(Coefficient(at + k - 1))])
           IN  Unpacked([poly |-> poly, at |-> at, bytes |-> bytes])
                 = [k \in 1..4 |-> FipsCompress(Residue(at + k - 1), 1024)]
<1> DEFINE E(k) == FipsCompress(Residue(at + k - 1), 1024)
           values == [k \in 1..4 |-> compress10(Coefficient(at + k - 1))]
           bytes == Pack10(values)
           c == [poly |-> poly, at |-> at, bytes |-> bytes]
<1>1. ASSUME NEW k \in 1..4
      PROVE  /\ E(k) \in Int /\ 0 <= E(k) /\ E(k) < 1024
             /\ compress10(Coefficient(at + k - 1)) = E(k)
  <2> DEFINE i == at + k - 1
  <2>1. i \in Int /\ 0 <= i /\ i <= 255
    OBVIOUS
  <2> HIDE DEF i
  <2>2. /\ Coefficient(i) \in Int /\ -32768 <= Coefficient(i) /\ Coefficient(i) <= 32767
        /\ Coefficient(i) % 3329 = Residue(i)
    BY <2>1, CoefficientAt
  <2>3. compress10(Coefficient(i)) = FipsCompress(Residue(i), 1024)
    BY <2>2, Compress10
  <2>4. Residue(i) \in Int /\ 0 <= Residue(i) /\ Residue(i) < 3329
    BY <2>2
  <2> QED
    BY <2>3, <2>4, CompressedRange DEF i
<1>2. values = [k \in 1..4 |-> E(k)]
  BY <1>1
<1>3. /\ E(1) \in Int /\ 0 <= E(1) /\ E(1) < 1024 /\ E(2) \in Int /\ 0 <= E(2) /\ E(2) < 1024
      /\ E(3) \in Int /\ 0 <= E(3) /\ E(3) < 1024 /\ E(4) \in Int /\ 0 <= E(4) /\ E(4) < 1024
  BY <1>1
<1>4. values[1] = E(1) /\ values[2] = E(2) /\ values[3] = E(3) /\ values[4] = E(4)
  BY <1>2
<1> DEFINE e1 == E(1)
           e2 == E(2)
           e3 == E(3)
           e4 == E(4)
<1> HIDE DEF values
<1>5. /\ bytes[1] = e1 % 256
      /\ bytes[2] = (e1 \div 256) + ((e2 * 4) % 256)
      /\ bytes[3] = (e2 \div 64) + ((e3 * 16) % 256)
      /\ bytes[4] = (e3 \div 16) + ((e4 * 64) % 256)
      /\ bytes[5] = e4 \div 4
  BY <1>4 DEF Pack10
<1>10. /\ e1 \in Int /\ 0 <= e1 /\ e1 < 1024 /\ e2 \in Int /\ 0 <= e2 /\ e2 < 1024
      /\ e3 \in Int /\ 0 <= e3 /\ e3 < 1024 /\ e4 \in Int /\ 0 <= e4 /\ e4 < 1024
  BY <1>3
<1> HIDE DEF bytes, e1, e2, e3, e4
<1>6. /\ bytes[1] + (bytes[2] % 4) * 256 = e1
      /\ (bytes[2] \div 4) + (bytes[3] % 16) * 64 = e2
      /\ (bytes[3] \div 16) + (bytes[4] % 64) * 16 = e3
      /\ (bytes[4] \div 64) + bytes[5] * 4 = e4
  BY <1>10, <1>5, Packed10
<1>7. c.poly <= 2 /\ c.bytes = bytes
  OBVIOUS
<1> HIDE DEF c
<1>8. Unpacked(c) = << e1, e2, e3, e4 >>
  BY <1>6, <1>7 DEF Unpacked, MLKEM_K
<1>9. << e1, e2, e3, e4 >> = [k \in 1..4 |-> E(k)]
  BY DEF e1, e2, e3, e4
<1> QED
  BY <1>8, <1>9 DEF c, bytes, values

\* A piece of v, packed.
LEMMA PieceOfV ==
    ASSUME KemInv, NEW at \in Int, 0 <= at, at <= 254
    PROVE  LET value(i) == Coefficient(i) + 1665 * MessageBit(i)
               bytes == Pack4(<<compress4(value(at)), compress4(value(at + 1))>>)
           IN  Unpacked([poly |-> 3, at |-> at, bytes |-> bytes])
                 = [k \in 1..2 |->
                      FipsCompress((Residue(at + k - 1) + 1665 * MessageBit(at + k - 1)) % 3329, 16)]
<1> DEFINE value(i) == Coefficient(i) + 1665 * MessageBit(i)
           E(i) == FipsCompress((Residue(i) + 1665 * MessageBit(i)) % 3329, 16)
           bytes == Pack4(<<compress4(value(at)), compress4(value(at + 1))>>)
           c == [poly |-> 3, at |-> at, bytes |-> bytes]
<1>1. ASSUME NEW i \in Int, 0 <= i, i <= 255
      PROVE  E(i) \in Int /\ 0 <= E(i) /\ E(i) < 16 /\ compress4(value(i)) = E(i)
  <2> DEFINE x == Coefficient(i)
             m == MessageBit(i)
  <2>1. /\ x \in Int /\ -4000 <= x /\ x <= 4000 /\ x % 3329 = Residue(i)
        /\ m \in Int /\ 0 <= m /\ m <= 1
    BY <1>1, CoefficientAt
  <2> HIDE DEF x, m
  <2>2. /\ x + 1665 * m \in Int /\ -32768 <= x + 1665 * m /\ x + 1665 * m <= 32767
        /\ (x + 1665 * m) % 3329 = (Residue(i) + 1665 * m) % 3329
        /\ 0 <= (x + 1665 * m) % 3329 /\ (x + 1665 * m) % 3329 < 3329
        /\ (x + 1665 * m) % 3329 \in Int
    BY <2>1
  <2>3. compress4(x + 1665 * m) = FipsCompress((x + 1665 * m) % 3329, 16)
    BY <2>2, Compress4
  <2> DEFINE r == (x + 1665 * m) % 3329
  <2>4. r \in Int /\ 0 <= r /\ r < 3329
    BY <2>2
  <2> HIDE DEF r
  <2>5. FipsCompress(r, 16) \in Int /\ 0 <= FipsCompress(r, 16) /\ FipsCompress(r, 16) < 16
    BY <2>4, CompressedRange
  <2> QED
    BY <2>2, <2>3, <2>5 DEF r, x, m
<1> DEFINE f == E(at)
           s == E(at + 1)
<1>2. /\ f \in Int /\ 0 <= f /\ f < 16 /\ compress4(value(at)) = f
      /\ s \in Int /\ 0 <= s /\ s < 16 /\ compress4(value(at + 1)) = s
  BY <1>1
<1>3. [k \in 1..2 |-> E(at + k - 1)] = <<f, s>>
  OBVIOUS
<1> HIDE DEF value, E, f, s
<1>4. bytes[1] = f + s * 16
  BY <1>2 DEF Pack4
<1>5. c.poly = 3 /\ c.bytes = bytes
  OBVIOUS
<1> HIDE DEF c, bytes
<1>6. bytes[1] % 16 = f /\ bytes[1] \div 16 = s
  BY <1>2, <1>4, Packed4
<1>7. Unpacked(c) = <<f, s>>
  BY <1>5, <1>6 DEF Unpacked, MLKEM_K
<1> QED
  BY <1>3, <1>7 DEF c, bytes, value, E

\* A step that hands out no piece leaves the last one as it was.
LEMMA PieceKept ==
    ASSUME CompressionExact, UNCHANGED <<chunk, base, phase>>
    PROVE  CompressionExact'
  BY DEF CompressionExact, Unpacked, Residue, MessageBit, NoiseAt, NoChunk

\* Every step keeps what was written exact.
LEMMA CompressionStep ==
    ASSUME KemInv, CompressionExact, [Next]_vars
    PROVE  CompressionExact'
<1>1. CASE write_compressed_u
  <2>1. /\ pc = "write_u" /\ base' = base /\ phase' = phase
        /\ chunk' = [poly |-> row + 1, at |-> index,
                     bytes |-> Pack10([k \in 1..4 |-> compress10(Coefficient(index + k - 1))])]
    BY <1>1, Zenon DEF write_compressed_u, inputs
  <2>2. /\ index \in Int /\ 0 <= index /\ index <= 252 /\ row + 1 \in 1..2
    <3>1. row \in 0..1 /\ \E m \in 0..63 : index = 4 * m
      BY <2>1 DEF KemInv, InFragments, Loops
    <3> QED
      BY <3>1
  <2>3. Unpacked(chunk') = [k \in 1..4 |-> FipsCompress(Residue(index + k - 1), 1024)]
    <3>1. Unpacked([poly |-> row + 1, at |-> index,
                    bytes |-> Pack10([k \in 1..4 |-> compress10(Coefficient(index + k - 1))])])
            = [k \in 1..4 |-> FipsCompress(Residue(index + k - 1), 1024)]
      BY <2>2, PieceOfU, ZenonT(60)
    <3> QED
      BY <2>1, <3>1, SMTT(60)
  <2>4. /\ Unpacked(chunk)' = Unpacked(chunk')
        /\ \A i : Residue(i)' = Residue(i)
    BY <2>1 DEF Unpacked, Residue, NoiseAt
  <2>5. chunk'.poly <= MLKEM_K /\ chunk'.at = index
    BY <2>1, <2>2 DEF MLKEM_K
  <2> QED
    BY <2>3, <2>4, <2>5 DEF CompressionExact, FipsCompress
<1>2. CASE write_compressed_v
  <2>1. /\ pc = "write_v" /\ base' = base /\ phase' = phase
        /\ chunk' = [poly |-> MLKEM_K + 1, at |-> index,
                     bytes |-> Pack4(<<compress4(Coefficient(index) + 1665 * MessageBit(index)),
                                       compress4(Coefficient(index + 1)
                                                 + 1665 * MessageBit(index + 1))>>)]
    BY <1>2, Zenon DEF write_compressed_v, inputs
  <2>2. index \in Int /\ 0 <= index /\ index <= 254
    <3>1. \E m \in 0..127 : index = 2 * m
      BY <2>1 DEF KemInv, InFragments
    <3> QED
      BY <3>1
  <2>3. Unpacked(chunk')
          = [k \in 1..2 |->
               FipsCompress((Residue(index + k - 1) + 1665 * MessageBit(index + k - 1)) % 3329, 16)]
    BY <2>1, <2>2, PieceOfV DEF MLKEM_K
  <2>4. /\ Unpacked(chunk)' = Unpacked(chunk')
        /\ \A i : Residue(i)' = Residue(i) /\ MessageBit(i)' = MessageBit(i)
    BY <2>1 DEF Unpacked, Residue, NoiseAt, MessageBit
  <2>5. ~(chunk'.poly <= MLKEM_K) /\ chunk'.at = index
    BY <2>1 DEF MLKEM_K
  <2> QED
    BY <2>3, <2>4, <2>5 DEF CompressionExact, FipsCompress, MLKEM_Q
<1>3. CASE \/ random_bytes \/ validate_and_hash_public_key \/ derive_k_and_coins
           \/ accumulate_u \/ finish_u \/ accumulate_v \/ finish_v
           \/ derive_session_keys \/ exchange_finished \/ ConnectFails
           \/ UNCHANGED vars
  <2>1. UNCHANGED <<chunk, base, phase>>
    <3>1. CASE random_bytes \/ validate_and_hash_public_key \/ derive_k_and_coins
      BY <3>1, Zenon DEF random_bytes, validate_and_hash_public_key, derive_k_and_coins,
                         history, inputs
    <3>2. CASE accumulate_u \/ accumulate_v
      <4>1. UNCHANGED <<inputs, chunk>>
        <5>1. CASE accumulate_u  BY <5>1 DEF accumulate_u
        <5>2. CASE accumulate_v  BY <5>2 DEF accumulate_v
        <5> QED  BY <3>2, <5>1, <5>2
      <4> QED
        BY <4>1, Zenon DEF inputs
    <3>3. CASE finish_u \/ finish_v
      <4>1. \E nonce : FinishPoly(nonce)
        BY <3>3, Zenon DEF finish_u, finish_v
      <4> QED
        BY <4>1, Zenon DEF FinishPoly, inputs
    <3>4. CASE derive_session_keys \/ exchange_finished \/ ConnectFails \/ UNCHANGED vars
      BY <3>4, Zenon DEF derive_session_keys, exchange_finished, ConnectFails, history,
                         inputs, vars
    <3> QED
      BY <1>3, <3>1, <3>2, <3>3, <3>4
  <2> QED
    BY <2>1, PieceKept
<1> QED
  BY <1>1, <1>2, <1>3 DEF Next

\* Every piece of ciphertext that write_compressed_u and write_compressed_v of
\* core/mlkem512_stream.c hand out unpacks to FIPS 203's compression of the
\* coefficients, for every int16_t coefficient and every message: the
\* multiply-and-shift constants of montgomery_reduce, barrett_reduce,
\* compress10 and compress4 are exact.
THEOREM CompressionIsFips == SessionSpec => []CompressionExact
<1>1. SessionInit => CompressionExact
  BY Zenon DEF SessionInit, Init, CompressionExact
<1>2. KemInv /\ CompressionExact /\ [SessionNext]_allVars => CompressionExact'
  BY CompressionStep, SessionStep
<1> QED
  BY <1>1, <1>2, EncapsulationCorrect, PTL DEF SessionSpec

-----------------------------------------------------------------------------
(* The first record of the session. *)

\* Both ends before it, the other end, and an end's state.
Fresh(mode) ==
    [mode |-> mode, sequence |-> [d \in Directions |-> 0],
     secret |-> [d \in Directions |-> Secret(d, mode)]]
Other(who) == IF who = "client" THEN "server" ELSE "client"
End(who) == IF who = "client" THEN client ELSE server

\* How a frame may arrive.
Arrivals(frame) ==
    LET bytes == frame.ciphertext
        n == Len(bytes)
        other(ciphertext) == [frame EXCEPT !.ciphertext = ciphertext]
    IN  {frame, [frame EXCEPT !.genuine = FALSE], [frame EXCEPT !.sequence = @ + 1],
         [frame EXCEPT !.tag = SymDiff(@, Flip)],
         other(Append(bytes, Mark)), other(Append(bytes, {}))}
        \cup {other([bytes EXCEPT ![i] = SymDiff(@, Flip)]) :
                i \in {1, 8, 9, 16, 17, n} \cap (1..n)}
        \cup {other(SubSeq(bytes, 1, n - 1)) : i \in {1} \cap (1..n)}

\* One end has sealed m in a session of this mode, and the frame is on its way
\* or was opened as it arrived.
Exchanged(who, mode, m) ==
    LET sent == Seal(who, Fresh(mode), m)
        receiver == Other(who)
    IN  /\ message = m /\ End(who) = sent.end
        /\ \/ opened = NotOpened /\ record = sent.frame /\ End(receiver) = Fresh(mode)
           \/ /\ opened # NotOpened /\ record \in Arrivals(sent.frame)
              /\ opened = Open(receiver, Fresh(mode), record)
              /\ End(receiver) = AfterOpen(receiver, Fresh(mode), who, opened)

RecordInv ==
    /\ record = NoRecord =>
         /\ opened = NotOpened /\ client = server
         /\ pc = "established" => \E mode \in Modes : client = Fresh(mode)
    /\ record # NoRecord =>
         /\ pc = "established"
         /\ \E who \in Directions, mode \in Modes, m \in Messages : Exchanged(who, mode, m)

\* Both ends select the same key.
LEMMA KeysSelected ==
    ASSUME NEW mode \in Modes, NEW k
    PROVE  SelectKey("client", mode, k) = SelectKey("server", mode, k)
<1>1. c0pq_ratchet_step(k) = ratchetStep(k)
  <2> DEFINE y == Key32("chain")
             N == {"chain"} \X Nat
  <2>1. y \in Seq(N) /\ Len(y) <= 64
    BY KeyTyped
  <2> HIDE DEF y, N
  <2>2. ASSUME NEW name, NEW n \in Nat
        PROVE  c0_hmac_sha256(y, Label(name, n)) = RfcHmac(y, Label(name, n))
    <3> DEFINE S == {<<"label", name>>} \X Nat
               label == Label(name, n)
    <3>1. label \in Seq(S)
      BY LabelTyped
    <3> HIDE DEF S, label
    <3>2. c0_hmac_sha256(y, label) = RfcHmac(y, label)
      BY <2>1, <3>1, HmacIsRfc
    <3> QED
      BY <3>2 DEF label
  <2>3. 22 \in Nat /\ 19 \in Nat
    OBVIOUS
  <2>4. c0_hmac_sha256(y, Label("ratchet message", 22)) = RfcHmac(y, Label("ratchet message", 22))
    BY <2>2, <2>3
  <2>5. c0_hmac_sha256(y, Label("ratchet next", 19)) = RfcHmac(y, Label("ratchet next", 19))
    BY <2>2, <2>3
  <2> QED
    BY <2>4, <2>5, Zenon DEF y, c0pq_ratchet_step, ratchetStep
<1>2. mode = "full" \/ mode = "ratchet"
  BY DEF Modes
<1> QED
  BY <1>1, <1>2 DEF SelectKey

\* The associated data of a record.
LEMMA DataTyped ==
    ASSUME NEW from, NEW n \in Nat
    PROVE  /\ \E D : AssociatedData(from, n, 0) \in Seq(D)
           /\ Len(AssociatedData(from, n, 0)) = 18 /\ AssociatedData(from, n, 0) # <<>>
           /\ AssociatedData(from, n, 0)[1] = {<<"header", from, 8 + n + 16, 1>>}
<1> DEFINE h == [k \in 1..10 |-> {<<"header", from, 8 + n + 16, k>>}]
           q == [k \in 1..8 |-> {<<"sequence", 0, k>>}]
           A == {h[k] : k \in 1..10}
           B == {q[k] : k \in 1..8}
<1>1. h \in Seq(A) /\ Len(h) = 10
  <2> DEFINE t == 10
  <2>1. t \in Nat /\ h = [k \in 1..t |-> h[k]]
    OBVIOUS
  <2> HIDE DEF t, h
  <2>2. h \in Seq({h[k] : k \in 1..t}) /\ Len(h) = t
    BY <2>1, ListOf
  <2> QED
    BY <2>2 DEF t
<1>2. q \in Seq(B) /\ Len(q) = 8
  <2> DEFINE t == 8
  <2>1. t \in Nat /\ q = [k \in 1..t |-> q[k]]
    OBVIOUS
  <2> HIDE DEF t, q
  <2>2. q \in Seq({q[k] : k \in 1..t}) /\ Len(q) = t
    BY <2>1, ListOf
  <2> QED
    BY <2>2 DEF t
<1>3. h[1] = {<<"header", from, 8 + n + 16, 1>>}
  OBVIOUS
<1>4. AssociatedData(from, n, 0) = h \o q
  BY DEF AssociatedData
<1> DEFINE U == A \cup B
<1> HIDE DEF h, q, A, B
<1>5. h \in Seq(U) /\ q \in Seq(U)
  BY <1>1, <1>2, JoinedTyped
<1> HIDE DEF U
<1>6. /\ h \o q \in Seq(U) /\ Len(h \o q) = Len(h) + Len(q)
      /\ \A i \in 1..(Len(h) + Len(q)) : (h \o q)[i] = IF i <= Len(h) THEN h[i] ELSE q[i - Len(h)]
  BY <1>5, Joined
<1>7. Len(h \o q) = 18 /\ (h \o q)[1] = h[1]
  BY <1>1, <1>2, <1>6
<1>8. h \o q # <<>>
  <2>1. Len(<<>>) = 0
    OBVIOUS
  <2> QED
    BY <1>7, <2>1
<1>9. \E D : h \o q \in Seq(D)
  BY <1>6
<1> QED
  BY <1>3, <1>4, <1>7, <1>8, <1>9

\* Data of other lengths differ.
LEMMA DataDiffers ==
    ASSUME NEW from, NEW n \in Nat, NEW k \in Nat, n # k
    PROVE  AssociatedData(from, n, 0) # AssociatedData(from, k, 0)
<1>1. AssociatedData(from, n, 0)[1] = {<<"header", from, 8 + n + 16, 1>>}
  BY DataTyped
<1>2. AssociatedData(from, k, 0)[1] = {<<"header", from, 8 + k + 16, 1>>}
  BY DataTyped
<1>3. <<"header", from, 8 + n + 16, 1>> # <<"header", from, 8 + k + 16, 1>>
  OBVIOUS
<1> QED
  BY <1>1, <1>2, <1>3

\* A handshake step is not one of an established session.
LEMMA HandshakeSteps == Handshake => pc # "established" /\ pc' # "established" /\ UNCHANGED recordVars
<1>1. random_bytes => pc # "established" /\ pc' # "established"
  BY DEF random_bytes
<1>2. validate_and_hash_public_key => pc # "established" /\ pc' # "established"
  BY DEF validate_and_hash_public_key
<1>3. derive_k_and_coins => pc # "established" /\ pc' # "established"
  BY DEF derive_k_and_coins
<1>4. accumulate_u => pc # "established" /\ pc' # "established"
  BY DEF accumulate_u
<1>5. finish_u => pc # "established" /\ pc' # "established"
  BY DEF finish_u
<1>6. write_compressed_u => pc # "established" /\ pc' # "established"
  BY DEF write_compressed_u, Abandon
<1>7. accumulate_v => pc # "established" /\ pc' # "established"
  BY DEF accumulate_v
<1>8. finish_v => pc # "established" /\ pc' # "established"
  BY DEF finish_v
<1>9. write_compressed_v => pc # "established" /\ pc' # "established"
  <2> SUFFICES ASSUME write_compressed_v
               PROVE  pc # "established" /\ pc' # "established"
    OBVIOUS
  <2> DEFINE data == Ciphertext(640 + index \div 2, 1)
             last == index + 2 = MLKEM_N
  <2>1. /\ pc = "write_v"
        /\ \/ /\ write_ciphertext(data, TRUE)
              /\ pc' = IF last THEN "returned" ELSE "write_v"
           \/ Abandon
    BY DEF write_compressed_v
  <2> QED
    BY <2>1 DEF Abandon
<1>10. derive_session_keys => pc # "established" /\ pc' # "established"
  BY DEF derive_session_keys
<1>11. ConnectFails => pc # "established" /\ pc' # "established"
  BY DEF ConnectFails
<1> QED
  BY <1>1, <1>2, <1>3, <1>4, <1>5, <1>6, <1>7, <1>8, <1>9, <1>10, <1>11, Zenon DEF Handshake

\* An answer of open has a status.
LEMMA OpenAnswers ==
    ASSUME NEW who, NEW end, NEW frame
    PROVE  Open(who, end, frame) # NotOpened
<1> DEFINE answer == Open(who, end, frame)
<1>1. answer.status \in {"OK", "ERR_AUTH", "ERR_STATE", "ERR_CAPACITY", "ERR_REPLAY"}
  BY DEF Open, asconDecrypt, OrNull, Refusal, c0_ascon_aead128_decrypt
<1> HIDE DEF answer
<1>2. NotOpened.status = "none"
  BY DEF NotOpened
<1>3. answer # NotOpened
  BY <1>1, <1>2
<1> QED
  BY <1>3 DEF answer

\* The record that one end seals: what it holds, and the other end's view.
SealKey(who, mode) == SelectKey("server", mode, Secret(who, mode))
Sealed(who, mode, m) ==
    c0_ascon_aead128_encrypt(<<>>, SealKey(who, mode).message, <<NonceBase(who), 0>>,
                             AssociatedData(who, Len(m), 0), m)

\* What sealing in a fresh session gives.
LEMMA SealIs ==
    ASSUME NEW who \in Directions, NEW mode \in Modes, NEW m
    PROVE  Seal(who, Fresh(mode), m)
             = [frame |-> Frame(who, 0, Sealed(who, mode, m)),
                end |-> Advanced(Fresh(mode), who, SealKey(who, mode).next)]
<1> DEFINE f == Fresh(mode)
<1>1. f.mode = mode /\ f.sequence[who] = 0 /\ f.secret[who] = Secret(who, mode)
  BY DEF Fresh
<1> HIDE DEF f
<1>2. SelectKey(who, f.mode, f.secret[who]) = SealKey(who, mode)
  <2>1. who = "client" \/ who = "server"
    BY DEF Directions
  <2> QED
    BY <1>1, <2>1, KeysSelected DEF SealKey
<1>3. Seal(who, f, m) = [frame |-> Frame(who, 0, Sealed(who, mode, m)),
                         end |-> Advanced(f, who, SealKey(who, mode).next)]
  BY <1>1, <1>2, Zenon DEF Seal, Sealed, asconEncrypt, c0pq_make_record_nonce
<1> QED
  BY <1>3 DEF f

\* What open answers for a frame whose table and direction are the sealed one's.
LEMMA OpenIs ==
    ASSUME NEW who \in Directions, NEW mode \in Modes, NEW frame, frame.from = who,
           NEW n \in Nat, n = Len(frame.ciphertext),
           NEW answer, answer = c0_ascon_aead128_decrypt(
             frame.table, SealKey(who, mode).message, <<NonceBase(who), frame.sequence>>,
             AssociatedData(who, n, frame.sequence), frame.ciphertext, frame.tag)
    PROVE  LET response == Open(Other(who), Fresh(mode), frame)
           IN  /\ ~frame.genuine => response = Refusal("ERR_STATE")
               /\ frame.genuine /\ n > 48 => response = Refusal("ERR_CAPACITY")
               /\ frame.genuine /\ n <= 48 /\ frame.sequence # 0 => response = Refusal("ERR_REPLAY")
               /\ frame.genuine /\ n <= 48 /\ frame.sequence = 0 =>
                    response = answer \/ response = OrNull(answer)
<1> DEFINE f == Fresh(mode)
           r == Other(who)
<1>1. f.mode = mode /\ f.sequence[who] = 0 /\ f.secret[who] = Secret(who, mode)
  BY DEF Fresh
<1>2. r = "client" \/ r = "server"
  BY DEF Other
<1> HIDE DEF f, r
<1>3. SelectKey(r, f.mode, f.secret[who]) = SealKey(who, mode)
  BY <1>1, <1>2, KeysSelected DEF SealKey
<1> DEFINE reply == IF r = "client" THEN answer ELSE OrNull(answer)
<1>4. Open(r, f, frame)
        = CASE ~frame.genuine -> Refusal("ERR_STATE")
            [] frame.genuine /\ n > 48 -> Refusal("ERR_CAPACITY")
            [] frame.genuine /\ n <= 48 /\ frame.sequence # 0 -> Refusal("ERR_REPLAY")
            [] OTHER -> reply
  BY <1>1, <1>3 DEF Open, c0pq_make_record_nonce, asconDecrypt, RecordMax
<1>5. reply = answer \/ reply = OrNull(answer)
  OBVIOUS
<1> HIDE DEF reply
<1>6. /\ ~frame.genuine => Open(r, f, frame) = Refusal("ERR_STATE")
      /\ frame.genuine /\ n > 48 => Open(r, f, frame) = Refusal("ERR_CAPACITY")
      /\ frame.genuine /\ n <= 48 /\ frame.sequence # 0 => Open(r, f, frame) = Refusal("ERR_REPLAY")
      /\ frame.genuine /\ n <= 48 /\ frame.sequence = 0 => Open(r, f, frame) = reply
  BY <1>4
<1> QED
  BY <1>5, <1>6 DEF f, r

\* How a sealed frame is altered on its way: what is kept, and what is another.
Altered(frame, sealed) ==
    \/ ~frame.genuine /\ frame.ciphertext = sealed.ciphertext
    \/ frame.genuine /\ frame.sequence = 1 /\ frame.ciphertext = sealed.ciphertext
    \/ /\ frame.genuine /\ frame.sequence = 0
       /\ frame.ciphertext = sealed.ciphertext /\ frame.tag # sealed.tag
    \/ /\ frame.genuine /\ frame.sequence = 0 /\ frame.tag = sealed.tag
       /\ frame.ciphertext # sealed.ciphertext /\ \E W : frame.ciphertext \in Seq(W)

\* A frame arrives as it was sealed, or altered.
LEMMA ArrivalKinds ==
    ASSUME NEW who, NEW sealed, NEW V, sealed.ciphertext \in Seq(V),
           NEW frame, frame \in Arrivals(Frame(who, 0, sealed))
    PROVE  /\ frame.from = who /\ frame.table = sealed.table
           /\ frame = Frame(who, 0, sealed) \/ Altered(frame, sealed)
<1> DEFINE f == Frame(who, 0, sealed)
           c == sealed.ciphertext
           n == Len(c)
           with(d) == [f EXCEPT !.ciphertext = d]
<1>1. /\ f = [from |-> who, genuine |-> TRUE, sequence |-> 0, ciphertext |-> c,
              tag |-> sealed.tag, table |-> sealed.table]
      /\ f.ciphertext = c
  BY DEF Frame
<1>n. n \in Nat /\ c \in Seq(V)
  OBVIOUS
<1>2. frame \in {f, [f EXCEPT !.genuine = FALSE], [f EXCEPT !.sequence = @ + 1],
                 [f EXCEPT !.tag = SymDiff(@, Flip)], with(Append(c, Mark)), with(Append(c, {}))}
        \cup {with([c EXCEPT ![i] = SymDiff(@, Flip)]) : i \in {1, 8, 9, 16, 17, n} \cap (1..n)}
        \cup {with(SubSeq(c, 1, n - 1)) : i \in {1} \cap (1..n)}
  BY <1>1 DEF Arrivals
<1> HIDE DEF f, c, n
<1>3. \A b : SymDiff(b, Flip) # b
  <2>1. \A b : <<"flip">> \in SymDiff(b, Flip) <=> <<"flip">> \notin b
    BY DEF SymDiff, Flip
  <2> QED
    BY <2>1
<1>4. ASSUME NEW d, frame = with(d), d # c, \E W : d \in Seq(W)
      PROVE  /\ frame.from = who /\ frame.table = sealed.table
             /\ frame.genuine /\ frame.sequence = 0 /\ frame.tag = sealed.tag
             /\ frame.ciphertext # c /\ \E W : frame.ciphertext \in Seq(W)
  <2>1. /\ frame.from = who /\ frame.table = sealed.table /\ frame.ciphertext = d
        /\ frame.genuine /\ frame.sequence = 0 /\ frame.tag = sealed.tag
    BY <1>1, <1>4
  <2> QED
    BY <1>4, <2>1
<1>5. CASE frame = f
  BY <1>1, <1>5 DEF f
<1>6. CASE frame = [f EXCEPT !.genuine = FALSE]
  BY <1>1, <1>6 DEF c, Altered
<1>7. CASE frame = [f EXCEPT !.sequence = @ + 1]
  BY <1>1, <1>7 DEF c, Altered
<1>8. CASE frame = [f EXCEPT !.tag = SymDiff(@, Flip)]
  BY <1>1, <1>3, <1>8 DEF c, Altered
<1>9. ASSUME NEW x, frame = with(Append(c, x))
      PROVE  \E d : frame = with(d) /\ d # c /\ \E W : d \in Seq(W)
  <2>1. c \in Seq(V \cup {x})
    BY <1>n
  <2>2. Append(c, x) \in Seq(V \cup {x}) /\ Len(Append(c, x)) = n + 1
    BY <2>1 DEF n
  <2>3. Append(c, x) # c
    BY <1>n, <2>2 DEF n
  <2> QED
    BY <1>9, <2>2, <2>3
<1>10. ASSUME NEW i \in 1..n, frame = with([c EXCEPT ![i] = SymDiff(@, Flip)])
       PROVE  \E d : frame = with(d) /\ d # c /\ \E W : d \in Seq(W)
  <2> DEFINE x == SymDiff(c[i], Flip)
             d == [c EXCEPT ![i] = x]
             W == V \cup {x}
  <2>1. x # c[i] /\ x \in W /\ frame = with(d)
    BY <1>3, <1>10
  <2>2. c \in Seq(W)
    BY <1>n
  <2> HIDE DEF x, W
  <2>3. d \in Seq(W) /\ d[i] = x
    BY <2>1, <2>2 DEF n
  <2> HIDE DEF d
  <2> QED
    BY <2>1, <2>3
<1>11. ASSUME 1 \in 1..n, frame = with(SubSeq(c, 1, n - 1))
       PROVE  \E d : frame = with(d) /\ d # c /\ \E W : d \in Seq(W)
  <2> DEFINE k == n - 1
             d == SubSeq(c, 1, k)
  <2>1. k \in Nat /\ 1 <= k + 1 /\ k <= n /\ k # n /\ k - 1 + 1 = k
    BY <1>n, <1>11
  <2>f. frame = with(d)
    BY <1>11
  <2> HIDE DEF k
  <2>2. d \in Seq(V) /\ Len(d) = k - 1 + 1
    <3>1. 1 \in Nat /\ 1 <= 1 /\ k <= Len(c)
      BY <2>1 DEF n
    <3> QED
      BY <1>n, <2>1, <3>1, Slice
  <2>3. Len(d) # Len(c)
    BY <1>n, <2>1, <2>2 DEF n
  <2> HIDE DEF d
  <2> QED
    BY <2>2, <2>3, <2>f
<1>12. ASSUME NEW d, frame = with(d), d # c, \E W : d \in Seq(W)
       PROVE  /\ frame.from = who /\ frame.table = sealed.table
              /\ Altered(frame, sealed)
  BY <1>4, <1>12 DEF c, Altered
<1> HIDE DEF with
<1> QED
  BY <1>2, <1>5, <1>6, <1>7, <1>8, <1>9, <1>10, <1>11, <1>12

\* A sealed message keeps its length.
LEMMA SealedTyped ==
    ASSUME NEW y, NEW nonce, NEW data, data # <<>>, NEW U, NEW m \in Seq(U),
           NEW sealed, sealed = c0_ascon_aead128_encrypt(<<>>, y, nonce, data, m)
    PROVE  Len(sealed.ciphertext) = Len(m) /\ \E V : sealed.ciphertext \in Seq(V)
<1> DEFINE t == <<>>
           s == Start(t, y, nonce, data)
<1>1. sealed = c0_ascon_aead128_encrypt(t, y, nonce, data, m)
  OBVIOUS
<1> HIDE DEF t
<1>2. sealed.ciphertext = Cipher(s, m)
  BY <1>1, EncryptIs
<1> QED
  BY <1>2, CipherTyped

\* An altered record of any kind is refused; the unaltered one gives the
\* message.
LEMMA UnalteredOpens ==
    ASSUME NEW who \in Directions, NEW mode \in Modes, NEW m \in Messages,
           NEW sealed, sealed = Sealed(who, mode, m), NEW frame, frame = Frame(who, 0, sealed)
    PROVE  Open(Other(who), Fresh(mode), frame) = [status |-> "OK", plaintext |-> m]
<1> DEFINE U == SUBSET {<<"byte">>, <<"mark">>}
           y == SealKey(who, mode).message
           nonce == <<NonceBase(who), 0>>
           data == AssociatedData(who, Len(m), 0)
           answer == c0_ascon_aead128_decrypt(sealed.table, y, nonce, data, sealed.ciphertext, sealed.tag)
<1>1. m \in Seq(U) /\ Len(m) \in Nat /\ Len(m) <= 48
  BY MessagesAssumption
<1>2. sealed = c0_ascon_aead128_encrypt(<<>>, y, nonce, data, m)
  BY DEF Sealed
<1>3. data # <<>> /\ \E D : data \in Seq(D)
  BY <1>1, DataTyped
<1>4. PICK D : data \in Seq(D)
  BY <1>3
<1>5. Len(sealed.ciphertext) = Len(m)
  BY <1>1, <1>2, <1>3, SealedTyped
<1>6. /\ frame.from = who /\ frame.genuine /\ frame.sequence = 0 /\ frame.table = sealed.table
      /\ frame.ciphertext = sealed.ciphertext /\ frame.tag = sealed.tag
  BY DEF Frame
<1>7. answer = [status |-> "OK", plaintext |-> m]
  <2> HIDE DEF y, nonce, data, U
  <2> QED
    BY <1>1, <1>2, <1>3, <1>4, DecryptInverts
<1>8. OrNull(answer) = answer
  <2> HIDE DEF answer
  <2> QED
    BY <1>7 DEF OrNull
<1> DEFINE n == Len(m)
<1>9. n = Len(frame.ciphertext) /\ n \in Nat /\ n <= 48
  BY <1>1, <1>5, <1>6
<1>10. answer = c0_ascon_aead128_decrypt(frame.table, y, <<NonceBase(who), frame.sequence>>,
                 AssociatedData(who, n, frame.sequence), frame.ciphertext, frame.tag)
  BY <1>6
<1> HIDE DEF n, answer
<1>11. Open(Other(who), Fresh(mode), frame) = answer \/ Open(Other(who), Fresh(mode), frame) = OrNull(answer)
  BY <1>6, <1>9, <1>10, OpenIs
<1> QED
  BY <1>7, <1>8, <1>11

\* Refused: a status that is an error's, and no byte but zeros.
Refused(answer) ==
    /\ answer.status \in {"ERR_STATE", "ERR_CAPACITY", "ERR_REPLAY", "ERR_AUTH"}
    /\ \A k \in DOMAIN answer.plaintext : answer.plaintext[k] = {}

\* An altered record is refused.
LEMMA AlteredRefused ==
    ASSUME NEW who \in Directions, NEW mode \in Modes, NEW m \in Messages,
           NEW frame \in Arrivals(Frame(who, 0, Sealed(who, mode, m))),
           frame # Frame(who, 0, Sealed(who, mode, m))
    PROVE  /\ Refused(Open(Other(who), Fresh(mode), frame))
           /\ ~ (/\ frame.genuine /\ frame.sequence = 0
                 /\ frame.ciphertext = Sealed(who, mode, m).ciphertext
                 /\ frame.tag = Sealed(who, mode, m).tag)
<1> DEFINE sealed == Sealed(who, mode, m)
<1>0. frame \in Arrivals(Frame(who, 0, sealed)) /\ frame # Frame(who, 0, sealed)
  OBVIOUS
<1> SUFFICES /\ Refused(Open(Other(who), Fresh(mode), frame))
             /\ ~ (/\ frame.genuine /\ frame.sequence = 0
                   /\ frame.ciphertext = sealed.ciphertext /\ frame.tag = sealed.tag)
  OBVIOUS
<1> HIDE DEF sealed
<1> DEFINE U == SUBSET {<<"byte">>, <<"mark">>}
           y == SealKey(who, mode).message
           nonce == <<NonceBase(who), 0>>
           data == AssociatedData(who, Len(m), 0)
           n == Len(frame.ciphertext)
           response == Open(Other(who), Fresh(mode), frame)
           answer == c0_ascon_aead128_decrypt(
             frame.table, y, <<NonceBase(who), frame.sequence>>,
             AssociatedData(who, n, frame.sequence), frame.ciphertext, frame.tag)
<1>1. m \in Seq(U) /\ Len(m) \in Nat /\ Len(m) <= 48
  BY MessagesAssumption
<1>2. sealed = c0_ascon_aead128_encrypt(<<>>, y, nonce, data, m)
  BY DEF sealed, Sealed
<1>3. data # <<>> /\ Len(data) = 18 /\ \E D : data \in Seq(D)
  BY <1>1, DataTyped
<1>4. PICK D : data \in Seq(D)
  BY <1>3
<1>5. Len(sealed.ciphertext) = Len(m) /\ \E V : sealed.ciphertext \in Seq(V)
  <2> HIDE DEF U, y, nonce, data
  <2>1. data # <<>> /\ m \in Seq(U)
    BY <1>1, <1>3
  <2> QED
    BY <1>2, <2>1, SealedTyped
<1>6. PICK V : sealed.ciphertext \in Seq(V)
  BY <1>5
<1>k. frame.from = who /\ frame.table = sealed.table /\ Altered(frame, sealed)
  <2> DEFINE f == Frame(who, 0, sealed)
  <2>1. frame \in Arrivals(f) /\ frame # f
    BY <1>0
  <2> HIDE DEF U, y, nonce, data, n, response, answer
  <2>2. frame.from = who /\ frame.table = sealed.table /\ (frame = f \/ Altered(frame, sealed))
    BY <1>6, <2>1, ArrivalKinds
  <2> QED
    BY <2>1, <2>2
<1>7. /\ frame.from = who /\ frame.table = sealed.table
      /\ \/ ~frame.genuine /\ frame.ciphertext = sealed.ciphertext
         \/ frame.genuine /\ frame.sequence = 1 /\ frame.ciphertext = sealed.ciphertext
         \/ /\ frame.genuine /\ frame.sequence = 0
            /\ frame.ciphertext = sealed.ciphertext /\ frame.tag # sealed.tag
         \/ /\ frame.genuine /\ frame.sequence = 0 /\ frame.tag = sealed.tag
            /\ frame.ciphertext # sealed.ciphertext /\ \E W : frame.ciphertext \in Seq(W)
  BY <1>k DEF Altered
<1>8. PICK W : frame.ciphertext \in Seq(W)
  BY <1>5, <1>7
<1>9. n \in Nat /\ n = Len(frame.ciphertext)
  BY <1>8
<1>a. answer = c0_ascon_aead128_decrypt(
        frame.table, y, <<NonceBase(who), frame.sequence>>,
        AssociatedData(who, n, frame.sequence), frame.ciphertext, frame.tag)
  OBVIOUS
<1>b. frame.sequence = 0 =>
        answer = c0_ascon_aead128_decrypt(sealed.table, y, nonce, AssociatedData(who, n, 0),
                                          frame.ciphertext, frame.tag)
  BY <1>7
<1> HIDE DEF n, answer, nonce, U
<1>10. /\ ~frame.genuine => response = Refusal("ERR_STATE")
       /\ frame.genuine /\ n > 48 => response = Refusal("ERR_CAPACITY")
       /\ frame.genuine /\ n <= 48 /\ frame.sequence # 0 => response = Refusal("ERR_REPLAY")
       /\ frame.genuine /\ n <= 48 /\ frame.sequence = 0 =>
            response = answer \/ response = OrNull(answer)
  BY <1>7, <1>9, <1>a, OpenIs
<1> HIDE DEF y, data, response
<1>r. \A status \in {"ERR_STATE", "ERR_CAPACITY", "ERR_REPLAY", "ERR_AUTH"} : Refused(Refusal(status))
  BY DEF Refused, Refusal, Nothing
<1>11. CASE ~frame.genuine
  BY <1>10, <1>11, <1>r DEF response
<1>12. CASE frame.genuine /\ frame.sequence = 1
  BY <1>9, <1>10, <1>12, <1>r DEF response
<1>13. CASE frame.genuine /\ frame.sequence = 0
  <2>1. CASE n > 48
    BY <1>7, <1>10, <1>13, <2>1, <1>r DEF response
  <2>2. CASE n <= 48
    <3> DEFINE data2 == AssociatedData(who, n, 0)
    <3>1. Len(data2) = 18 /\ \E E : data2 \in Seq(E)
      BY <1>9, DataTyped
    <3>2. PICK E : data2 \in Seq(E)
      BY <3>1
    <3>3. n # Len(m) => data2 # data
      BY <1>1, <1>9, DataDiffers DEF data
    <3>4. n = Len(m) => data2 = data
      BY DEF data
    <3> HIDE DEF data2
    <3>5. \/ data2 # data /\ frame.tag = sealed.tag
          \/ data2 = data /\ Len(frame.ciphertext) = Len(m) /\ frame.ciphertext # sealed.ciphertext
             /\ frame.tag = sealed.tag
          \/ data2 = data /\ frame.ciphertext = sealed.ciphertext /\ frame.tag # sealed.tag
      BY <1>5, <1>7, <1>9, <1>13, <3>3, <3>4
    <3>6. c0_ascon_aead128_decrypt(sealed.table, y, nonce, data2, frame.ciphertext, frame.tag)
            = [status |-> "ERR_AUTH", plaintext |-> ZeroBytes(frame.ciphertext)]
      <4>1. Len(data2) = Len(data)
        BY <1>3, <3>1
      <4> DEFINE c2 == frame.ciphertext
                 tag2 == frame.tag
      <4>2. c2 \in Seq(W) /\ Tampering(sealed, m, data, data2, c2, tag2)
        BY <1>8, <3>5 DEF Tampering
      <4> HIDE DEF c2, tag2
      <4>3. data # <<>> /\ m \in Seq(U) /\ data \in Seq(D) /\ data2 \in Seq(E)
        BY <1>1, <1>3, <1>4, <3>2
      <4>4. c0_ascon_aead128_decrypt(sealed.table, y, nonce, data2, c2, tag2)
              = [status |-> "ERR_AUTH", plaintext |-> ZeroBytes(c2)]
        BY <1>2, <4>1, <4>2, <4>3, TamperingIsRefused
      <4> QED
        BY <4>4 DEF c2, tag2
    <3>7. answer = [status |-> "ERR_AUTH", plaintext |-> ZeroBytes(frame.ciphertext)]
      BY <1>b, <1>13, <3>6 DEF data2
    <3>8. Refused(answer) /\ OrNull(answer) = Refusal("ERR_AUTH")
      BY <3>7 DEF Refused, ZeroBytes, OrNull
    <3> QED
      BY <1>7, <1>10, <1>13, <2>2, <3>8, <1>r DEF response
  <2> QED
    BY <1>9, <2>1, <2>2
<1> QED
  BY <1>7, <1>11, <1>12, <1>13

\* What the two ends hold once a record was sealed and, perhaps, opened.
LEMMA EndsAre ==
    ASSUME NEW who \in Directions, NEW mode \in Modes, NEW x
    PROVE  /\ Fresh(mode).mode = mode /\ Fresh(mode).sequence[who] = 0
           /\ Advanced(Fresh(mode), who, x).mode = mode
           /\ Advanced(Fresh(mode), who, x).sequence[who] = 1
<1> DEFINE f == Fresh(mode)
           s == f.sequence
<1>1. f.mode = mode /\ s = [d \in Directions |-> 0]
  BY DEF Fresh
<1>2. f = [mode |-> f.mode, sequence |-> s, secret |-> f.secret]
  BY DEF Fresh
<1>s. s[who] = 0
  BY <1>1
<1>3. [s EXCEPT ![who] = @ + 1][who] = 1
  BY <1>1
<1> HIDE DEF f, s
<1>4. Advanced(f, who, x).mode = f.mode /\ Advanced(f, who, x).sequence = [s EXCEPT ![who] = @ + 1]
  BY <1>2 DEF Advanced, s
<1> QED
  BY <1>1, <1>s, <1>3, <1>4 DEF f, s

\* The receiver's state by what it answered.
LEMMA AfterOpenIs ==
    ASSUME NEW who \in Directions, NEW mode \in Modes, NEW answer
    PROVE  /\ answer.status # "OK" => AfterOpen(Other(who), Fresh(mode), who, answer) = Fresh(mode)
           /\ answer.status = "OK" => AfterOpen(Other(who), Fresh(mode), who, answer)
                                        = Advanced(Fresh(mode), who, SealKey(who, mode).next)
<1> DEFINE f == Fresh(mode)
           r == Other(who)
<1>1. f.mode = mode /\ f.secret[who] = Secret(who, mode)
  BY DEF Fresh
<1>2. r = "client" \/ r = "server"
  BY DEF Other
<1> HIDE DEF f, r
<1>3. SelectKey(r, f.mode, f.secret[who]) = SealKey(who, mode)
  BY <1>1, <1>2, KeysSelected DEF SealKey
<1>4. /\ answer.status # "OK" => AfterOpen(r, f, who, answer) = f
      /\ answer.status = "OK" => AfterOpen(r, f, who, answer) = Advanced(f, who, SealKey(who, mode).next)
  BY <1>3 DEF AfterOpen
<1> QED
  BY <1>4 DEF f, r

\* The record on its way is the standard's exactly when it is unaltered.
LEMMA UnalteredIs ==
    ASSUME NEW who \in Directions, NEW mode \in Modes, NEW m \in Messages,
           message = m, client.mode = mode,
           record.from = who, record.table = Sealed(who, mode, m).table
    PROVE  Unaltered <=> /\ record.genuine /\ record.sequence = 0
                         /\ record.ciphertext = Sealed(who, mode, m).ciphertext
                         /\ record.tag = Sealed(who, mode, m).tag
<1> DEFINE U == SUBSET {<<"byte">>, <<"mark">>}
           sealed == Sealed(who, mode, m)
           y == SealKey(who, mode).message
           nonce == <<NonceBase(who), 0>>
           data == AssociatedData(who, Len(m), 0)
<1>1. m \in Seq(U) /\ Len(m) \in Nat
  BY MessagesAssumption
<1>2. data # <<>> /\ \E D : data \in Seq(D)
  BY <1>1, DataTyped
<1>3. PICK D : data \in Seq(D)
  BY <1>2
<1>4. sealed = c0_ascon_aead128_encrypt(<<>>, y, nonce, data, m)
  BY DEF Sealed
<1>5. Reference = NistEncrypt(sealed.table, y, nonce, data, m)
  BY Zenon DEF Reference, SealKey
<1> HIDE DEF y, nonce, data, U, sealed
<1>6. NistEncrypt(sealed.table, y, nonce, data, m)
        = [ciphertext |-> sealed.ciphertext, tag |-> sealed.tag]
  BY <1>1, <1>2, <1>3, <1>4, EncryptIsNist
<1>7. Reference = [ciphertext |-> sealed.ciphertext, tag |-> sealed.tag]
  BY <1>5, <1>6
<1>8. Unaltered <=> /\ record.genuine /\ record.sequence = 0
                    /\ record.ciphertext = sealed.ciphertext /\ record.tag = sealed.tag
  BY <1>7 DEF Unaltered
<1> QED
  BY <1>8 DEF sealed

\* A frame arrives from the end that sealed it.
LEMMA ArrivalFrom ==
    ASSUME NEW who \in Directions, NEW mode \in Modes, NEW m \in Messages,
           NEW frame, frame \in Arrivals(Frame(who, 0, Sealed(who, mode, m)))
    PROVE  frame.from = who /\ frame.table = Sealed(who, mode, m).table
<1> DEFINE U == SUBSET {<<"byte">>, <<"mark">>}
           y == SealKey(who, mode).message
           nonce == <<NonceBase(who), 0>>
           data == AssociatedData(who, Len(m), 0)
           sealed == Sealed(who, mode, m)
<1>1. m \in Seq(U) /\ Len(m) \in Nat
  BY MessagesAssumption
<1>2. data # <<>>
  BY <1>1, DataTyped
<1>3. sealed = c0_ascon_aead128_encrypt(<<>>, y, nonce, data, m)
  BY DEF Sealed
<1> HIDE DEF U, y, nonce, data, sealed
<1>4. \E V : sealed.ciphertext \in Seq(V)
  BY <1>1, <1>2, <1>3, SealedTyped
<1>5. frame \in Arrivals(Frame(who, 0, sealed))
  BY DEF sealed
<1>6. frame.from = who /\ frame.table = sealed.table
  BY <1>4, <1>5, ArrivalKinds
<1> QED
  BY <1>6 DEF sealed

\* A record that was exchanged is exact.
LEMMA ExchangedExact ==
    ASSUME NEW who \in Directions, NEW mode \in Modes, NEW m \in Messages,
           Exchanged(who, mode, m)
    PROVE  AeadExact
<1> DEFINE f == Fresh(mode)
           g == Frame(who, 0, Sealed(who, mode, m))
           r == Other(who)
           after == Advanced(f, who, SealKey(who, mode).next)
<1>1. /\ message = m /\ End(who) = after
      /\ \/ opened = NotOpened /\ record = g /\ End(r) = f
         \/ /\ opened # NotOpened /\ record \in Arrivals(g) /\ opened = Open(r, f, record)
            /\ End(r) = AfterOpen(r, f, who, opened)
  <2>1. Seal(who, f, m).frame = g /\ Seal(who, f, m).end = after
    <3>1. Seal(who, f, m) = [frame |-> g, end |-> after]
      BY SealIs
    <3> QED
      BY <3>1
  <2> HIDE DEF f, g, r, after
  <2>2. Exchanged(who, mode, m)
    OBVIOUS
  <2> QED
    BY <2>1, <2>2, Zenon DEF Exchanged, f, r
<1>2. f.mode = mode /\ after.mode = mode /\ f # after
  BY EndsAre
<1>3. \A answer : /\ answer.status # "OK" => AfterOpen(r, f, who, answer) = f
                  /\ answer.status = "OK" => AfterOpen(r, f, who, answer) = after
  BY AfterOpenIs
<1>4. record.from = who /\ record.table = Sealed(who, mode, m).table
  <2>1. CASE record = g
    BY <2>1 DEF Frame
  <2>2. CASE record \in Arrivals(g)
    BY <2>2, ArrivalFrom
  <2> QED
    BY <1>1, <2>1, <2>2
<1>5. /\ End(r) = f \/ End(r) = after
      /\ \/ client = End(who) /\ server = End(r)
         \/ client = End(r) /\ server = End(who)
  <2>1. \/ client = End(who) /\ server = End(r)
        \/ client = End(r) /\ server = End(who)
    <3>1. CASE who = "client"
      BY <3>1 DEF End, Other
    <3>2. CASE who = "server"
      BY <3>2 DEF End, Other
    <3> QED
      BY <3>1, <3>2 DEF Directions
  <2> HIDE DEF f, r, after
  <2> QED
    BY <1>1, <1>3, <2>1
<1>6. client.mode = mode
  <2> HIDE DEF f, r, after
  <2> QED
    BY <1>1, <1>2, <1>5
<1>7. Unaltered <=> /\ record.genuine /\ record.sequence = 0
                    /\ record.ciphertext = Sealed(who, mode, m).ciphertext
                    /\ record.tag = Sealed(who, mode, m).tag
  BY <1>1, <1>4, <1>6, UnalteredIs
<1>8. record = g => Unaltered
  BY <1>7 DEF Frame
<1>9. CASE opened = NotOpened
  BY <1>1, <1>8, <1>9 DEF AeadExact
<1>10. CASE opened # NotOpened /\ record = g
  <2>1. Open(r, f, g) = [status |-> "OK", plaintext |-> m]
    BY UnalteredOpens
  <2> HIDE DEF f, r, g, after
  <2>2. opened = [status |-> "OK", plaintext |-> message] /\ opened.status = "OK"
    BY <1>1, <1>10, <2>1
  <2>3. client = server
    BY <1>1, <1>3, <1>5, <1>10, <2>2
  <2> QED
    BY <1>8, <1>10, <2>2, <2>3 DEF AeadExact
<1>11. CASE opened # NotOpened /\ record # g
  <2>1. record \in Arrivals(g) /\ record # g
    BY <1>1, <1>11
  <2>2. Refused(Open(r, f, record)) /\ ~Unaltered
    BY <1>7, <2>1, AlteredRefused
  <2> HIDE DEF f, r, g, after
  <2>3. /\ opened.status \notin {"none", "OK"}
        /\ \A k \in DOMAIN opened.plaintext : opened.plaintext[k] = {}
    BY <1>1, <1>11, <2>2 DEF Refused
  <2>4. client # server
    BY <1>1, <1>2, <1>3, <1>5, <1>11, <2>3
  <2> QED
    BY <2>2, <2>3, <2>4 DEF AeadExact
<1> QED
  BY <1>9, <1>10, <1>11

\* The invariant gives the property.
LEMMA RecordExact == RecordInv => AeadExact
  BY ExchangedExact DEF RecordInv, AeadExact

\* Before the handshake no record is on its way.
LEMMA RecordInit == SessionInit => RecordInv
  BY DEF SessionInit, Init, RecordInv

\* The first record: it is sealed in a fresh session.
LEMMA SealStep ==
    ASSUME RecordInv, NEW m \in Messages, c0pq_client_seal_record(m) \/ sealRecord(m)
    PROVE  RecordInv'
<1>1. /\ pc = "established" /\ pc' = pc /\ record = NoRecord /\ opened = NotOpened
      /\ opened' = opened /\ message' = m /\ client = server
  BY DEF RecordInv, c0pq_client_seal_record, sealRecord, MaySeal, vars
<1>2. PICK mode \in Modes : client = Fresh(mode)
  BY <1>1 DEF RecordInv
<1>3. ASSUME NEW who \in Directions, record' = Seal(who, Fresh(mode), m).frame,
             End(who)' = Seal(who, Fresh(mode), m).end, End(Other(who))' = Fresh(mode)
      PROVE  RecordInv'
  <2>1. Exchanged(who, mode, m)'
    BY <1>1, <1>3 DEF Exchanged
  <2>2. record'.from = who
    BY <1>3, SealIs DEF Frame
  <2>3. record' # NoRecord
    <3>1. NoRecord.from = "nobody"
      BY DEF NoRecord
    <3>2. who # "nobody"
      BY DEF Directions
    <3> QED
      BY <2>2, <3>1, <3>2
  <2> QED
    BY <1>1, <2>1, <2>3 DEF RecordInv
<1>4. CASE c0pq_client_seal_record(m)
  <2>1. /\ record' = Seal("client", client, m).frame /\ client' = Seal("client", client, m).end
        /\ server' = server
    BY <1>4 DEF c0pq_client_seal_record
  <2>2. "client" \in Directions /\ End("client")' = client' /\ End(Other("client"))' = server'
    BY DEF Directions, End, Other
  <2> QED
    BY <1>1, <1>2, <1>3, <2>1, <2>2
<1>5. CASE sealRecord(m)
  <2>1. /\ record' = Seal("server", server, m).frame /\ server' = Seal("server", server, m).end
        /\ client' = client
    BY <1>5 DEF sealRecord
  <2>2. "server" \in Directions /\ End("server")' = server' /\ End(Other("server"))' = client'
    BY DEF Directions, End, Other
  <2> QED
    BY <1>1, <1>2, <1>3, <2>1, <2>2
<1> QED
  BY <1>4, <1>5

\* The end that did not send the record opens it, once.
LEMMA OpenStep ==
    ASSUME RecordInv, c0pq_client_open_record \/ openRecord
    PROVE  RecordInv'
<1>1. /\ record # NoRecord /\ opened = NotOpened /\ pc' = pc /\ message' = message
  BY DEF c0pq_client_open_record, openRecord, MayOpen, vars
<1>2. PICK who \in Directions, mode \in Modes, m \in Messages : Exchanged(who, mode, m)
  BY <1>1 DEF RecordInv
<1> DEFINE f == Fresh(mode)
           r == Other(who)
<1>3. /\ pc = "established" /\ message = m /\ End(who) = Seal(who, f, m).end
      /\ record = Seal(who, f, m).frame /\ End(r) = f
  BY <1>1, <1>2 DEF RecordInv, Exchanged
<1>4. record.from = who
  BY <1>3, SealIs DEF Frame
<1>5. Arriving = Arrivals(record)
  BY DEF Arriving, Arrivals
<1>6. ASSUME NEW frame \in Arriving, record' = frame, opened' = Open(r, f, frame),
             End(r)' = AfterOpen(r, f, who, opened'), End(who)' = End(who)
      PROVE  RecordInv'
  <2>1. opened' # NotOpened
    BY <1>6, OpenAnswers
  <2>2. frame \in Arrivals(Seal(who, f, m).frame)
    BY <1>3, <1>5
  <2> HIDE DEF f, r
  <2>3. /\ message' = m /\ End(who)' = Seal(who, f, m).end
        /\ opened' # NotOpened /\ record' \in Arrivals(Seal(who, f, m).frame)
        /\ opened' = Open(r, f, record') /\ End(r)' = AfterOpen(r, f, who, opened')
    BY <1>1, <1>3, <1>6, <2>1, <2>2
  <2>4. Exchanged(who, mode, m)'
    BY <2>3, Zenon DEF Exchanged, f, r
  <2>5. pc' = "established"
    BY <1>1, <1>3
  <2>6. record' # NoRecord
    <3>1. frame \in Arrivals(Frame(who, 0, Sealed(who, mode, m)))
      BY <2>2, SealIs DEF f
    <3>2. frame.from = who
      BY <3>1, ArrivalFrom
    <3>3. NoRecord.from = "nobody"
      BY DEF NoRecord
    <3>4. who # "nobody"
      BY DEF Directions
    <3> QED
      BY <1>6, <3>2, <3>3, <3>4
  <2> QED
    BY <2>4, <2>5, <2>6 DEF RecordInv
<1>7. CASE c0pq_client_open_record
  <2>1. record.from = "server"
    BY <1>7 DEF c0pq_client_open_record, MayOpen
  <2>2. who = "server" /\ r = "client"
    BY <1>4, <2>1 DEF Other
  <2>3. PICK frame \in Arriving :
          /\ record' = frame /\ opened' = Open("client", client, frame)
          /\ client' = AfterOpen("client", client, "server", opened') /\ server' = server
    BY <1>7 DEF c0pq_client_open_record
  <2>4. End("client") = client /\ End("client")' = client' /\ End("server") = server /\ End("server")' = server'
    BY DEF End
  <2> HIDE DEF f, r
  <2> QED
    BY <1>3, <1>6, <2>2, <2>3, <2>4
<1>8. CASE openRecord
  <2>1. record.from = "client"
    BY <1>8 DEF openRecord, MayOpen
  <2>2. who = "client" /\ r = "server"
    BY <1>4, <2>1 DEF Other
  <2>3. PICK frame \in Arriving :
          /\ record' = frame /\ opened' = Open("server", server, frame)
          /\ server' = AfterOpen("server", server, "client", opened') /\ client' = client
    BY <1>8 DEF openRecord
  <2>4. End("client") = client /\ End("client")' = client' /\ End("server") = server /\ End("server")' = server'
    BY DEF End
  <2> HIDE DEF f, r
  <2> QED
    BY <1>3, <1>6, <2>2, <2>3, <2>4
<1> QED
  BY <1>7, <1>8

\* Every step keeps the invariant.
LEMMA RecordStep == RecordInv /\ [SessionNext]_allVars => RecordInv'
<1> SUFFICES ASSUME RecordInv, [SessionNext]_allVars
             PROVE  RecordInv'
  OBVIOUS
<1>1. CASE Handshake
  <2>1. pc # "established" /\ pc' # "established" /\ UNCHANGED recordVars
    BY <1>1, HandshakeSteps
  <2> QED
    BY <2>1 DEF RecordInv, recordVars
<1>2. CASE Establish
  <2>1. pc # "established"
    BY <1>2 DEF Establish, exchange_finished
  <2>2. record' = NoRecord /\ opened' = NotOpened
    BY <1>2, <2>1 DEF Establish, RecordInv
  <2>3. PICK mode \in Modes : client' = Fresh(mode) /\ server' = Fresh(mode)
    BY <1>2 DEF Establish, Fresh
  <2> QED
    BY <2>2, <2>3 DEF RecordInv
<1>3. CASE \E m \in Messages : c0pq_client_seal_record(m) \/ sealRecord(m)
  BY <1>3, SealStep
<1>4. CASE c0pq_client_open_record \/ openRecord
  BY <1>4, OpenStep
<1>5. CASE UNCHANGED allVars
  <2>1. UNCHANGED <<pc, client, server, record, message, opened>>
    BY <1>5 DEF allVars, vars, recordVars
  <2> QED
    BY <2>1 DEF RecordInv, Exchanged, End
<1> QED
  BY <1>1, <1>2, <1>3, <1>4, <1>5 DEF SessionNext

\* Every sealed record is the one SP 800-232 defines for its message, of any
\* length up to 48 bytes, and it opens at the other end to exactly that
\* message, after which both ends hold the same secrets; an altered record of
\* any of the kinds that arrive is refused, and leaves no byte of plaintext.
THEOREM RecordsAreExact == SessionSpec => []AeadExact
<1>1. SessionSpec => []RecordInv
  BY RecordInit, RecordStep, PTL DEF SessionSpec
<1> QED
  BY <1>1, RecordExact, PTL
=============================================================================
