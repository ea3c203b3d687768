--------------------------- MODULE KemArithmetic ---------------------------
(***************************************************************************)
(* The int16_t coefficient arithmetic of core/mlkem512_stream.c: reduction *)
(* modulo q, compression and packing, and the magnitude bounds that say    *)
(* how large an intermediate value of a transform can become.              *)
(*                                                                         *)
(* Values keep their C width.  A product that needs more than 31 bits is   *)
(* formed in two halves, so that TLC's integers hold every operand.        *)
(***************************************************************************)
EXTENDS Integers, Sequences, FiniteSetsExt, Functions

MLKEM_Q == 3329
MLKEM_QINV == 62209
MLKEM_N == 256
MLKEM_K == 2

Int16Max == 32767

\* A cast to int16_t.
Int16(v) == ((v + 32768) % 65536) - 32768

\* The four 8x8 products and the sign correction: the exact int32_t product.
multiply_s16(a, b) == a * b

\* value / 2^16 modulo q.
montgomery_reduce(value) ==
    LET factor == Int16(Int16(value) * MLKEM_QINV)
    IN  (value - multiply_s16(factor, MLKEM_Q)) \div 65536

\* The representative of value modulo q nearest to zero.
barrett_reduce(value) ==
    LET v == (67108864 + MLKEM_Q \div 2) \div MLKEM_Q   \* 2^26 / q, rounded
        quotient == (multiply_s16(v, value) + 33554432) \div 67108864
    IN  Int16(value - multiply_s16(quotient, MLKEM_Q))

fqmul(a, b) == montgomery_reduce(multiply_s16(a, b))

\* The representative of value in 0..q-1.
freeze_coefficient(value) ==
    LET reduced == barrett_reduce(value)
    IN  IF reduced < 0 THEN reduced + MLKEM_Q ELSE reduced

\* (a * 1290167) >> 32 for a below 2^22: 1290167 = 629 * 2048 + 1975.
MultiplyShift32(a) ==
    LET high == a \div 2048
        low == a % 2048
        middle == high * 1975 + low * 629 + (low * 1975) \div 2048
    IN  (high * 629 + middle \div 2048) \div 1024

\* (a * 80635) >> 28 for a below 2^16: 80635 = 4 * 16384 + 15099.
MultiplyShift28(a) == (a * 4 + (a * 15099) \div 16384) \div 16384

\* Faulty variant of compress10: truncates instead of rounding.
compress10_truncating(coefficient) ==
    MultiplyShift32(freeze_coefficient(coefficient) * 1024) % 1024

compress10(coefficient) ==
    MultiplyShift32(freeze_coefficient(coefficient) * 1024 + 1665) % 1024

compress4(coefficient) ==
    MultiplyShift28(freeze_coefficient(coefficient) * 16 + 1665) % 16

\* Four 10-bit values in five bytes, as write_compressed_u packs them.
Pack10(t) ==
    << t[1] % 256,
       (t[1] \div 256) + ((t[2] * 4) % 256),
       (t[2] \div 64) + ((t[3] * 16) % 256),
       (t[3] \div 16) + ((t[4] * 64) % 256),
       t[4] \div 4 >>

\* Two 4-bit values in one byte, as write_compressed_v packs them.
Pack4(t) == << t[1] + t[2] * 16 >>

\* Two 12-bit coefficients in the three bytes of an encoded public key.
Encode12(first, second) ==
    << first % 256, (first \div 256) + (second % 16) * 16, second \div 16 >>

\* The two coefficients read back from a byte triple of the public key.
Decode12(triple) ==
    << triple[1] + (triple[2] % 16) * 256, (triple[2] \div 16) + triple[3] * 16 >>

-----------------------------------------------------------------------------
(* Magnitude bounds: given bounds on the operands, a bound on the result.  *)

ZetaBound == 1659      \* the largest magnitude in the table zetas
BarrettBound == 1664   \* (q - 1) / 2
Scale == 1441          \* the final factor of inverse_ntt

\* |montgomery_reduce(v)| when |v| <= a * b.
FqmulBound(a, b) == (a * b + 32768 * MLKEM_Q) \div 65536

\* One layer of ntt: a coefficient becomes itself plus or minus a product.
NttLayer(b) == b + FqmulBound(ZetaBound, b)

\* The seven layers of ntt, from the largest butterfly to the smallest.
NttBound(b) ==
    LET after[k \in 0..7] == IF k = 0 THEN b ELSE NttLayer(after[k - 1])
    IN  after[7]

\* Faulty variant of InverseNttLayer: the sums are not reduced.
InverseNttLayerUnreduced(b) ==
    [sum |-> 2 * b, next |-> Max({2 * b, FqmulBound(ZetaBound, 2 * b)})]

\* One layer of inverse_ntt: a sum, reduced, and a difference, multiplied.
\* "sum" bounds the value before its reduction.
InverseNttLayer(b) ==
    [sum |-> 2 * b, next |-> Max({BarrettBound, FqmulBound(ZetaBound, 2 * b)})]

\* inverse_ntt: the largest intermediate value and the bound on the result.
InverseNttBound(b) ==
    LET after[k \in 0..7] ==
            IF k = 0 THEN [peak |-> b, b |-> b]
            ELSE LET before == after[k - 1]
                     layer == InverseNttLayer(before.b)
                 IN  [peak |-> Max({before.peak, layer.sum, layer.next}),
                      b |-> layer.next]
    IN  [peak |-> after[7].peak, b |-> FqmulBound(after[7].b, Scale)]

\* base_multiply_add: the largest amount added to an accumulator entry.
BaseMultiplyBound(a, b, zeta) ==
    LET p == FqmulBound(a, b) IN Max({FqmulBound(p, zeta) + p, 2 * p})
=============================================================================
