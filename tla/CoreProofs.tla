------------------------------ MODULE CoreProofs ------------------------------
(***************************************************************************)
(* Proofs about the block buffer of core/sha256.c and the HMAC and HKDF    *)
(* built on it: however a message is cut into pieces, the device hashes    *)
(* the blocks that FIPS 180-4 defines for the whole of it.  And about      *)
(* core/ascon_aead128.c: it encrypts what SP 800-232 defines, decrypts it  *)
(* again, and refuses what was altered.                                    *)
(***************************************************************************)
EXTENDS StreamHash, AsconStream, TLAPS, WellFoundedInduction

-----------------------------------------------------------------------------
(* Slices of sequences. *)

\* A slice that need not be empty: its length and its elements.
LEMMA Slice ==
    ASSUME NEW S, NEW s \in Seq(S), NEW a \in Nat, NEW b \in Nat,
           1 <= a, a <= b + 1, b <= Len(s)
    PROVE  /\ SubSeq(s, a, b) \in Seq(S)
           /\ Len(SubSeq(s, a, b)) = b - a + 1
           /\ \A i \in 1..(b - a + 1) : SubSeq(s, a, b)[i] = s[a + i - 1]
  OBVIOUS

\* Two sequences with the same elements are the same.
LEMMA SameElements ==
    ASSUME NEW S, NEW s \in Seq(S), NEW t \in Seq(S), Len(s) = Len(t),
           \A i \in 1..Len(s) : s[i] = t[i]
    PROVE  s = t
  OBVIOUS

\* A concatenation, element by element.
LEMMA Joined ==
    ASSUME NEW S, NEW s \in Seq(S), NEW t \in Seq(S)
    PROVE  /\ s \o t \in Seq(S) /\ Len(s \o t) = Len(s) + Len(t)
           /\ \A i \in 1..(Len(s) + Len(t)) :
                (s \o t)[i] = IF i <= Len(s) THEN s[i] ELSE t[i - Len(s)]
  OBVIOUS

\* A slice of a concatenation that lies in its first part.
LEMMA SliceOfFirst ==
    ASSUME NEW S, NEW s \in Seq(S), NEW t \in Seq(S), NEW a \in Nat, NEW b \in Nat,
           1 <= a, a <= b + 1, b <= Len(s)
    PROVE  SubSeq(s \o t, a, b) = SubSeq(s, a, b)
<1>1. /\ s \o t \in Seq(S) /\ b <= Len(s \o t) /\ Len(s) \in Nat /\ Len(t) \in Nat
      /\ Len(s \o t) = Len(s) + Len(t)
  BY Joined
<1>2. ASSUME NEW i \in 1..(b - a + 1)
      PROVE  (s \o t)[a + i - 1] = s[a + i - 1]
  BY <1>1, Joined
<1>3. /\ SubSeq(s \o t, a, b) \in Seq(S) /\ Len(SubSeq(s \o t, a, b)) = b - a + 1
      /\ \A i \in 1..(b - a + 1) : SubSeq(s \o t, a, b)[i] = (s \o t)[a + i - 1]
  BY <1>1, Slice
<1>4. /\ SubSeq(s, a, b) \in Seq(S) /\ Len(SubSeq(s, a, b)) = b - a + 1
      /\ \A i \in 1..(b - a + 1) : SubSeq(s, a, b)[i] = s[a + i - 1]
  BY Slice
<1> QED
  BY <1>2, <1>3, <1>4, SameElements

\* One that lies in its second part.
LEMMA SliceOfSecond ==
    ASSUME NEW S, NEW s \in Seq(S), NEW t \in Seq(S), NEW a \in Nat, NEW b \in Nat,
           1 <= a, a <= b + 1, b <= Len(t)
    PROVE  SubSeq(s \o t, Len(s) + a, Len(s) + b) = SubSeq(t, a, b)
<1>1. /\ s \o t \in Seq(S) /\ Len(s \o t) = Len(s) + Len(t) /\ Len(s) \in Nat /\ Len(t) \in Nat
  BY Joined
<1> DEFINE n == Len(s)
<1>2. ASSUME NEW i \in 1..(b - a + 1)
      PROVE  (s \o t)[n + a + i - 1] = t[a + i - 1]
  <2>1. /\ n + a + i - 1 \in 1..(n + Len(t)) /\ ~(n + a + i - 1 <= n)
        /\ (n + a + i - 1) - n = a + i - 1
    BY <1>1
  <2> QED
    BY <2>1, Joined
<1> DEFINE u == s \o t
           e == n + a
           f == n + b
<1>3. /\ u \in Seq(S) /\ e \in Nat /\ f \in Nat /\ 1 <= e /\ e <= f + 1 /\ f <= Len(u)
      /\ f - e + 1 = b - a + 1
  BY <1>1
<1>4. \A i \in 1..(b - a + 1) : u[e + i - 1] = t[a + i - 1]
  BY <1>2
<1> HIDE DEF u, e, f
<1>5. /\ SubSeq(u, e, f) \in Seq(S) /\ Len(SubSeq(u, e, f)) = b - a + 1
      /\ \A i \in 1..(b - a + 1) : SubSeq(u, e, f)[i] = u[e + i - 1]
  BY <1>3, Slice
<1>6. /\ SubSeq(t, a, b) \in Seq(S) /\ Len(SubSeq(t, a, b)) = b - a + 1
      /\ \A i \in 1..(b - a + 1) : SubSeq(t, a, b)[i] = t[a + i - 1]
  BY Slice
<1>7. SubSeq(u, e, f) = SubSeq(t, a, b)
  BY <1>4, <1>5, <1>6, SameElements
<1> QED
  BY <1>7 DEF u, e, f

\* A slice is cut in two.
LEMMA SliceCut ==
    ASSUME NEW S, NEW s \in Seq(S), NEW a \in Nat, NEW b \in Nat, NEW c \in Nat,
           1 <= a, a <= b + 1, b <= c, c <= Len(s)
    PROVE  SubSeq(s, a, c) = SubSeq(s, a, b) \o SubSeq(s, b + 1, c)
<1>1. /\ SubSeq(s, a, c) \in Seq(S) /\ Len(SubSeq(s, a, c)) = c - a + 1
      /\ \A i \in 1..(c - a + 1) : SubSeq(s, a, c)[i] = s[a + i - 1]
  BY Slice
<1>2. /\ SubSeq(s, a, b) \in Seq(S) /\ Len(SubSeq(s, a, b)) = b - a + 1
      /\ \A i \in 1..(b - a + 1) : SubSeq(s, a, b)[i] = s[a + i - 1]
  BY Slice
<1>3. /\ SubSeq(s, b + 1, c) \in Seq(S) /\ Len(SubSeq(s, b + 1, c)) = c - b
      /\ \A i \in 1..(c - b) : SubSeq(s, b + 1, c)[i] = s[b + i]
  <2>1. /\ b + 1 \in Nat /\ 1 <= b + 1 /\ b + 1 <= c + 1 /\ c - (b + 1) + 1 = c - b
        /\ \A i \in 1..(c - b) : (b + 1) + i - 1 = b + i
    OBVIOUS
  <2> QED
    BY <2>1, Slice
<1> DEFINE u == SubSeq(s, a, b)
           v == SubSeq(s, b + 1, c)
<1> HIDE DEF u, v
<1>4. /\ u \o v \in Seq(S) /\ Len(u \o v) = c - a + 1
      /\ \A i \in 1..(c - a + 1) : (u \o v)[i] = IF i <= b - a + 1 THEN u[i] ELSE v[i - (b - a + 1)]
  <2>1. u \in Seq(S) /\ v \in Seq(S) /\ Len(u) = b - a + 1 /\ Len(v) = c - b
    BY <1>2, <1>3 DEF u, v
  <2>2. (b - a + 1) + (c - b) = c - a + 1
    OBVIOUS
  <2>3. /\ u \o v \in Seq(S) /\ Len(u \o v) = Len(u) + Len(v)
        /\ \A i \in 1..(Len(u) + Len(v)) :
             (u \o v)[i] = IF i <= Len(u) THEN u[i] ELSE v[i - Len(u)]
    BY <2>1, Joined
  <2>4. Len(u) + Len(v) = c - a + 1
    BY <2>1, <2>2
  <2> QED
    BY <2>1, <2>3, <2>4
<1>5. ASSUME NEW i \in 1..(c - a + 1)
      PROVE  (u \o v)[i] = s[a + i - 1]
  <2>1. CASE i <= b - a + 1
    BY <1>2, <1>4, <2>1 DEF u
  <2>2. CASE ~(i <= b - a + 1)
    <3>1. i - (b - a + 1) \in 1..(c - b) /\ b + (i - (b - a + 1)) = a + i - 1
      BY <2>2
    <3> QED
      BY <1>3, <1>4, <2>2, <3>1 DEF v
  <2> QED
    BY <2>1, <2>2
<1> QED
  BY <1>1, <1>4, <1>5, SameElements DEF u, v

\* A slice of a slice.
LEMMA SliceOfSlice ==
    ASSUME NEW S, NEW s \in Seq(S), NEW c \in Nat, NEW d \in Nat, NEW a \in Nat, NEW b \in Nat,
           1 <= c, c <= d + 1, d <= Len(s), 1 <= a, a <= b + 1, b <= d - c + 1
    PROVE  SubSeq(SubSeq(s, c, d), a, b) = SubSeq(s, c + a - 1, c + b - 1)
<1> DEFINE u == SubSeq(s, c, d)
<1>1. /\ u \in Seq(S) /\ Len(u) = d - c + 1
      /\ \A i \in 1..(d - c + 1) : u[i] = s[c + i - 1]
  BY Slice
<1> HIDE DEF u
<1>2. /\ SubSeq(u, a, b) \in Seq(S) /\ Len(SubSeq(u, a, b)) = b - a + 1
      /\ \A i \in 1..(b - a + 1) : SubSeq(u, a, b)[i] = u[a + i - 1]
  BY <1>1, Slice
<1> DEFINE e == c + a - 1
           f == c + b - 1
<1>3. e \in Nat /\ f \in Nat /\ 1 <= e /\ e <= f + 1 /\ f <= Len(s) /\ f - e + 1 = b - a + 1
  OBVIOUS
<1> HIDE DEF e, f
<1>4. /\ SubSeq(s, e, f) \in Seq(S) /\ Len(SubSeq(s, e, f)) = b - a + 1
      /\ \A i \in 1..(b - a + 1) : SubSeq(s, e, f)[i] = s[e + i - 1]
  BY <1>3, Slice
<1>5. ASSUME NEW i \in 1..(b - a + 1)
      PROVE  u[a + i - 1] = s[e + i - 1]
  <2>1. a + i - 1 \in 1..(d - c + 1) /\ c + (a + i - 1) - 1 = e + i - 1
    BY DEF e
  <2> QED
    BY <1>1, <2>1
<1>6. SubSeq(u, a, b) = SubSeq(s, e, f)
  BY <1>2, <1>4, <1>5, SameElements
<1> QED
  BY <1>6 DEF u, e, f

-----------------------------------------------------------------------------
(* The block buffer. *)

\* The first n blocks of a message.
FirstBlocks(m, n) ==
    [k \in 1..n |-> SubSeq(m, BlockBytes * (k - 1) + 1, BlockBytes * k)]

\* What follows them.
AfterBlocks(m, n) == SubSeq(m, n * BlockBytes + 1, Len(m))

\* A context that was fed the message m, in whatever pieces.
Holds(ctx, m) ==
    /\ ctx.total = Len(m)
    /\ ctx.blocks = FirstBlocks(m, Len(m) \div BlockBytes)
    /\ ctx.buffer = AfterBlocks(m, Len(m) \div BlockBytes)

\* A block, and the blocks, of a message.
LEMMA BlocksTyped ==
    ASSUME NEW S, NEW m \in Seq(S), NEW n \in Nat, 64 * n <= Len(m)
    PROVE  /\ FirstBlocks(m, n) \in Seq(Seq(S)) /\ Len(FirstBlocks(m, n)) = n
           /\ \A k \in 1..n : /\ FirstBlocks(m, n)[k] = SubSeq(m, 64 * (k - 1) + 1, 64 * k)
                              /\ SubSeq(m, 64 * (k - 1) + 1, 64 * k) \in Seq(S)
           /\ AfterBlocks(m, n) \in Seq(S) /\ Len(AfterBlocks(m, n)) = Len(m) - 64 * n
           /\ AfterBlocks(m, n) = SubSeq(m, 64 * n + 1, Len(m))
<1>1. ASSUME NEW k \in 1..n
      PROVE  SubSeq(m, 64 * (k - 1) + 1, 64 * k) \in Seq(S)
  <2> DEFINE a == 64 * (k - 1) + 1
             b == 64 * k
  <2>1. a \in Nat /\ b \in Nat /\ 1 <= a /\ a <= b + 1 /\ b <= Len(m)
    OBVIOUS
  <2> HIDE DEF a, b
  <2>2. SubSeq(m, a, b) \in Seq(S)
    BY <2>1, Slice
  <2> QED
    BY <2>2 DEF a, b
<1>2. FirstBlocks(m, n) = [k \in 1..n |-> SubSeq(m, 64 * (k - 1) + 1, 64 * k)]
  BY DEF FirstBlocks, BlockBytes
<1>3. AfterBlocks(m, n) = SubSeq(m, 64 * n + 1, Len(m))
  BY DEF AfterBlocks, BlockBytes
<1>4. SubSeq(m, 64 * n + 1, Len(m)) \in Seq(S)
      /\ Len(SubSeq(m, 64 * n + 1, Len(m))) = Len(m) - 64 * n
  <2> DEFINE a == 64 * n + 1
             b == Len(m)
  <2>1. a \in Nat /\ b \in Nat /\ 1 <= a /\ a <= b + 1 /\ b <= Len(m)
        /\ b - a + 1 = Len(m) - 64 * n
    OBVIOUS
  <2> HIDE DEF a, b
  <2>2. SubSeq(m, a, b) \in Seq(S) /\ Len(SubSeq(m, a, b)) = b - a + 1
    BY <2>1, Slice
  <2> QED
    BY <2>1, <2>2 DEF a, b
<1>5. FirstBlocks(m, n) \in Seq(Seq(S)) /\ Len(FirstBlocks(m, n)) = n
  <2>1. FirstBlocks(m, n) \in [1..n -> Seq(S)]
    BY <1>1, <1>2
  <2> QED
    BY <2>1
<1>6. \A k \in 1..n : FirstBlocks(m, n)[k] = SubSeq(m, 64 * (k - 1) + 1, 64 * k)
  BY <1>2
<1> QED
  BY <1>1, <1>3, <1>4, <1>5, <1>6

\* The blocks of what follows the first p blocks are the next blocks.
LEMMA MoreBlocks ==
    ASSUME NEW S, NEW m \in Seq(S), NEW p \in Nat, NEW w \in Nat, 64 * (p + w) <= Len(m)
    PROVE  /\ FirstBlocks(m, p) \o FirstBlocks(AfterBlocks(m, p), w) = FirstBlocks(m, p + w)
           /\ AfterBlocks(AfterBlocks(m, p), w) = AfterBlocks(m, p + w)
<1> DEFINE rest == AfterBlocks(m, p)
           n == Len(m)
           c == 64 * p + 1
<1>1. /\ n \in Nat /\ 64 * p <= n /\ 64 * w <= n - 64 * p /\ p + w \in Nat
      /\ c \in Nat /\ 1 <= c /\ c <= n + 1
  OBVIOUS
<1>2. /\ rest \in Seq(S) /\ Len(rest) = n - 64 * p /\ rest = SubSeq(m, c, n)
  BY <1>1, BlocksTyped
<1> HIDE DEF rest, n, c
<1>3. ASSUME NEW a \in Nat, NEW b \in Nat, 1 <= a, a <= b + 1, b <= n - 64 * p
      PROVE  SubSeq(rest, a, b) = SubSeq(m, 64 * p + a, 64 * p + b)
  <2>1. b <= n - c + 1 /\ c + a - 1 = 64 * p + a /\ c + b - 1 = 64 * p + b
    BY <1>1, <1>3 DEF c
  <2>2. n <= Len(m)
    BY <1>1 DEF n
  <2>3. SubSeq(SubSeq(m, c, n), a, b) = SubSeq(m, c + a - 1, c + b - 1)
    BY <1>1, <1>3, <2>1, <2>2, SliceOfSlice
  <2> QED
    BY <1>2, <2>1, <2>3
<1>4. AfterBlocks(rest, w) = AfterBlocks(m, p + w)
  <2> DEFINE a == 64 * w + 1
             b == n - 64 * p
  <2>1. /\ a \in Nat /\ b \in Nat /\ 1 <= a /\ a <= b + 1 /\ b <= n - 64 * p
        /\ 64 * p + a = 64 * (p + w) + 1 /\ 64 * p + b = n
    BY <1>1
  <2>2. AfterBlocks(rest, w) = SubSeq(rest, a, b)
    BY <1>2, SMTT(30) DEF AfterBlocks, BlockBytes
  <2>3. AfterBlocks(m, p + w) = SubSeq(m, 64 * (p + w) + 1, n)
    BY DEF AfterBlocks, BlockBytes, n
  <2> HIDE DEF a, b
  <2>4. SubSeq(rest, a, b) = SubSeq(m, 64 * p + a, 64 * p + b)
    BY <1>3, <2>1
  <2> QED
    BY <2>1, <2>2, <2>3, <2>4
<1>5. FirstBlocks(m, p) \o FirstBlocks(rest, w) = FirstBlocks(m, p + w)
  <2> DEFINE u == FirstBlocks(m, p)
             v == FirstBlocks(rest, w)
             t == FirstBlocks(m, p + w)
  <2>1. /\ u \in Seq(Seq(S)) /\ Len(u) = p
        /\ \A k \in 1..p : u[k] = SubSeq(m, 64 * (k - 1) + 1, 64 * k)
    <3>1. 64 * p <= Len(m)
      BY <1>1 DEF n
    <3> QED
      BY <3>1, BlocksTyped
  <2>2. /\ t \in Seq(Seq(S)) /\ Len(t) = p + w
        /\ \A k \in 1..(p + w) : t[k] = SubSeq(m, 64 * (k - 1) + 1, 64 * k)
    BY <1>1, BlocksTyped
  <2>3. /\ v \in Seq(Seq(S)) /\ Len(v) = w
        /\ \A k \in 1..w : v[k] = SubSeq(rest, 64 * (k - 1) + 1, 64 * k)
    <3>1. rest \in Seq(S) /\ 64 * w <= Len(rest)
      BY <1>1, <1>2
    <3> QED
      BY <3>1, BlocksTyped
  <2>4. ASSUME NEW k \in 1..w
        PROVE  v[k] = SubSeq(m, 64 * (p + k - 1) + 1, 64 * (p + k))
    <3> DEFINE a == 64 * (k - 1) + 1
               b == 64 * k
    <3>1. /\ a \in Nat /\ b \in Nat /\ 1 <= a /\ a <= b + 1 /\ b <= n - 64 * p
          /\ 64 * p + a = 64 * (p + k - 1) + 1 /\ 64 * p + b = 64 * (p + k)
      BY <1>1
    <3>2. v[k] = SubSeq(rest, a, b)
      BY <2>3
    <3> HIDE DEF a, b
    <3>3. SubSeq(rest, a, b) = SubSeq(m, 64 * p + a, 64 * p + b)
      BY <1>3, <3>1
    <3> QED
      BY <3>1, <3>2, <3>3
  <2> HIDE DEF u, v, t
  <2>5. /\ u \o v \in Seq(Seq(S)) /\ Len(u \o v) = Len(u) + Len(v)
        /\ \A i \in 1..(Len(u) + Len(v)) :
             (u \o v)[i] = IF i <= Len(u) THEN u[i] ELSE v[i - Len(u)]
    BY <2>1, <2>3, Joined, ZenonT(60)
  <2>6. ASSUME NEW i \in 1..(p + w)
        PROVE  (u \o v)[i] = t[i]
    <3>1. CASE i <= p
      <4>1. i \in 1..p /\ i \in 1..(Len(u) + Len(v)) /\ i <= Len(u)
        BY <2>1, <2>3, <3>1
      <4>2. (u \o v)[i] = u[i]
        BY <2>5, <4>1
      <4>3. u[i] = t[i]
        BY <2>1, <2>2, <4>1
      <4> QED
        BY <4>2, <4>3
    <3>2. CASE ~(i <= p)
      <4>1. i - p \in 1..w /\ p + (i - p) = i
        BY <3>2
      <4> QED
        <5>1. i \in 1..(Len(u) + Len(v)) /\ ~(i <= Len(u))
          BY <2>1, <2>3, <3>2
        <5>2. (u \o v)[i] = v[i - p]
          BY <2>1, <2>5, <5>1
        <5>3. v[i - p] = SubSeq(m, 64 * (p + (i - p) - 1) + 1, 64 * (p + (i - p)))
          BY <2>4, <4>1
        <5>4. p + (i - p) - 1 = i - 1
          BY <4>1
        <5>5. v[i - p] = SubSeq(m, 64 * (i - 1) + 1, 64 * i)
          BY <4>1, <5>3, <5>4
        <5> QED
          BY <2>2, <5>2, <5>5
    <3> QED
      BY <3>1, <3>2
  <2>7. Len(u \o v) = p + w
    BY <2>1, <2>3, <2>5
  <2>8. u \o v = t
    BY <2>2, <2>5, <2>6, <2>7, SameElements
  <2> QED
    BY <2>8 DEF u, v, t
<1> QED
  BY <1>4, <1>5 DEF rest

\* The message grows: its blocks stay, and what follows them grows with it.
LEMMA BlocksStay ==
    ASSUME NEW S, NEW m \in Seq(S), NEW x \in Seq(S), NEW q \in Nat, 64 * q <= Len(m)
    PROVE  /\ FirstBlocks(m \o x, q) = FirstBlocks(m, q)
           /\ AfterBlocks(m \o x, q) = AfterBlocks(m, q) \o x
<1> DEFINE n == Len(m)
           u == m \o x
<1>1. /\ u \in Seq(S) /\ Len(u) = n + Len(x) /\ n \in Nat /\ Len(x) \in Nat
  BY Joined
<1>2. ASSUME NEW k \in 1..q
      PROVE  SubSeq(m \o x, 64 * (k - 1) + 1, 64 * k) = SubSeq(m, 64 * (k - 1) + 1, 64 * k)
  <2> DEFINE a == 64 * (k - 1) + 1
             b == 64 * k
  <2>1. a \in Nat /\ b \in Nat /\ 1 <= a /\ a <= b + 1 /\ b <= Len(m)
    BY <1>1
  <2> HIDE DEF a, b
  <2>2. SubSeq(m \o x, a, b) = SubSeq(m, a, b)
    BY <2>1, SliceOfFirst
  <2> QED
    BY <2>2 DEF a, b
<1>3. FirstBlocks(m \o x, q) = FirstBlocks(m, q)
  BY <1>2 DEF FirstBlocks, BlockBytes
<1>4. AfterBlocks(m \o x, q) = AfterBlocks(m, q) \o x
  <2> DEFINE a == 64 * q + 1
             c == Len(u)
  <2>1. a \in Nat /\ c \in Nat /\ 1 <= a /\ a <= n + 1 /\ n <= c /\ c <= Len(u) /\ c = n + Len(x)
    BY <1>1
  <2>2. AfterBlocks(u, q) = SubSeq(u, a, c) /\ AfterBlocks(m, q) = SubSeq(m, a, n)
    BY DEF AfterBlocks, BlockBytes
  <2> HIDE DEF a, c, n, u
  <2>3. SubSeq(u, a, c) = SubSeq(u, a, n) \o SubSeq(u, n + 1, c)
    <3>1. /\ u \in Seq(S) /\ a \in Nat /\ n \in Nat /\ c \in Nat
          /\ 1 <= a /\ a <= n + 1 /\ n <= c /\ c <= Len(u)
      BY <1>1, <2>1
    <3> QED
      BY <3>1, SliceCut
  <2>4. SubSeq(u, a, n) = SubSeq(m, a, n)
    <3>1. n <= Len(m)
      BY <1>1 DEF n
    <3>2. SubSeq(m \o x, a, n) = SubSeq(m, a, n)
      BY <1>1, <2>1, <3>1, SliceOfFirst
    <3> QED
      BY <3>2 DEF u
  <2>5. SubSeq(u, n + 1, c) = x
    <3> DEFINE e == 1
               f == Len(x)
    <3>1. e \in Nat /\ f \in Nat /\ 1 <= e /\ e <= f + 1 /\ f <= Len(x)
      BY <1>1
    <3>2. SubSeq(x, e, f) = x
      OBVIOUS
    <3> HIDE DEF e, f
    <3>3. SubSeq(m \o x, Len(m) + e, Len(m) + f) = SubSeq(x, e, f)
      BY <3>1, SliceOfSecond
    <3> QED
      BY <2>1, <3>2, <3>3 DEF u, n, e, f
  <2> QED
    BY <2>2, <2>3, <2>4, <2>5 DEF u
<1> QED
  BY <1>3, <1>4

\* A message's blocks, the rest, and one more block.
LEMMA OneMoreBlock ==
    ASSUME NEW S, NEW m \in Seq(S), NEW q \in Nat, 64 * (q + 1) <= Len(m)
    PROVE  /\ FirstBlocks(m, q) \o <<SubSeq(AfterBlocks(m, q), 1, 64)>> = FirstBlocks(m, q + 1)
           /\ SubSeq(AfterBlocks(m, q), 65, Len(AfterBlocks(m, q))) = AfterBlocks(m, q + 1)
<1>1. /\ FirstBlocks(m, q) \o FirstBlocks(AfterBlocks(m, q), 1) = FirstBlocks(m, q + 1)
      /\ AfterBlocks(AfterBlocks(m, q), 1) = AfterBlocks(m, q + 1)
  BY MoreBlocks
<1>2. FirstBlocks(AfterBlocks(m, q), 1) = <<SubSeq(AfterBlocks(m, q), 1, 64)>>
  BY DEF FirstBlocks, BlockBytes
<1>3. AfterBlocks(AfterBlocks(m, q), 1) =
        SubSeq(AfterBlocks(m, q), 65, Len(AfterBlocks(m, q)))
  BY DEF AfterBlocks, BlockBytes
<1> QED
  BY <1>1, <1>2, <1>3

\* Whole blocks of a length.
LEMMA BlocksIn ==
    ASSUME NEW n \in Nat
    PROVE  /\ n \div BlockBytes \in Nat
           /\ 64 * (n \div BlockBytes) <= n /\ n < 64 * (n \div BlockBytes) + 64
           /\ \A k \in Nat : 64 * k <= n /\ n < 64 * k + 64 => n \div BlockBytes = k
  BY DEF BlockBytes

\* A context holds a message when it has transformed a number of its blocks
\* and buffers what follows, less than a block.
LEMMA HoldsFrom ==
    ASSUME NEW S, NEW m \in Seq(S), NEW k \in Nat, 64 * k <= Len(m), Len(m) < 64 * k + 64,
           NEW ctx, ctx.total = Len(m), ctx.blocks = FirstBlocks(m, k),
           ctx.buffer = AfterBlocks(m, k)
    PROVE  Holds(ctx, m)
<1>1. Len(m) \in Nat
  OBVIOUS
<1>2. Len(m) \div BlockBytes = k
  BY <1>1, BlocksIn
<1> QED
  BY <1>2 DEF Holds

\* Nothing before and nothing after.
LEMMA EmptyParts ==
    ASSUME NEW S, NEW s \in Seq(S)
    PROVE  /\ s \o <<>> = s /\ <<>> \o s = s
           /\ SubSeq(s, 1, 0) = <<>> /\ SubSeq(s, Len(s) + 1, Len(s)) = <<>>
           /\ SubSeq(s, 1, Len(s)) = s
           /\ (Len(s) = 0) <=> (s = <<>>)
  OBVIOUS

\* c0_sha256_update with the two places where the input is cut named.
UpdateAt(ctx, x, take, filled, whole) ==
    LET head == ctx.buffer \o SubSeq(x, 1, take)
        rest == SubSeq(x, take + 1, Len(x))
        tail == AfterBlocks(rest, whole)
    IN  [buffer |-> IF tail # <<>> THEN tail ELSE IF filled THEN <<>> ELSE head,
         total |-> ctx.total + Len(x),
         blocks |-> ctx.blocks \o (IF filled THEN <<head>> ELSE <<>>)
                      \o FirstBlocks(rest, whole)]

LEMMA UpdateCuts ==
    ASSUME NEW ctx, NEW x, x # <<>>
    PROVE  LET started == Len(ctx.buffer) # 0
               room == BlockBytes - Len(ctx.buffer)
               take == IF ~started THEN 0 ELSE IF Len(x) < room THEN Len(x) ELSE room
               filled == started /\ Len(ctx.buffer \o SubSeq(x, 1, take)) = BlockBytes
               rest == SubSeq(x, take + 1, Len(x))
           IN  c0_sha256_update(ctx, x) =
                 UpdateAt(ctx, x, take, filled, Len(rest) \div BlockBytes)
  BY DEF c0_sha256_update, UpdateAt, AfterBlocks, FirstBlocks

\* Nothing is buffered: whole blocks are transformed straight from the input.
LEMMA UpdateFresh ==
    ASSUME NEW S, NEW m \in Seq(S), NEW x \in Seq(S), NEW q \in Nat, Len(m) = 64 * q,
           NEW ctx, ctx.total = Len(m), ctx.blocks = FirstBlocks(m, q), ctx.buffer = <<>>,
           NEW w \in Nat, 64 * w <= Len(x), Len(x) < 64 * w + 64
    PROVE  Holds(UpdateAt(ctx, x, 0, FALSE, w), m \o x)
<1> DEFINE u == m \o x
           new == UpdateAt(ctx, x, 0, FALSE, w)
<1>1. /\ u \in Seq(S) /\ Len(u) = Len(m) + Len(x) /\ Len(x) \in Nat /\ 64 * q <= Len(m)
  <2>1. u \in Seq(S) /\ Len(u) = Len(m) + Len(x)
    BY Joined, Zenon
  <2> QED
    BY <2>1
<1>2. ctx.buffer \o SubSeq(x, 1, 0) = <<>> /\ SubSeq(x, 0 + 1, Len(x)) = x
  BY EmptyParts
<1>3. /\ new.total = Len(m) + Len(x)
      /\ new.buffer = AfterBlocks(x, w)
      /\ new.blocks = (FirstBlocks(m, q) \o <<>>) \o FirstBlocks(x, w)
  BY <1>2 DEF UpdateAt
<1>4. /\ FirstBlocks(u, q) = FirstBlocks(m, q)
      /\ AfterBlocks(u, q) = AfterBlocks(m, q) \o x
  BY <1>1, BlocksStay, Zenon
<1>5. AfterBlocks(m, q) = <<>>
  <2>1. AfterBlocks(m, q) \in Seq(S) /\ Len(AfterBlocks(m, q)) = 0
    BY BlocksTyped
  <2> QED
    BY <2>1, EmptyParts
<1>6. AfterBlocks(u, q) = x
  BY <1>4, <1>5, EmptyParts
<1>7. FirstBlocks(m, q) \o <<>> = FirstBlocks(m, q)
  <2>1. FirstBlocks(m, q) \in Seq(Seq(S))
    BY BlocksTyped
  <2> QED
    BY <2>1, EmptyParts
<1>8. 64 * (q + w) <= Len(u) /\ Len(u) < 64 * (q + w) + 64 /\ q + w \in Nat
  BY <1>1
<1> HIDE DEF u, new
<1>9. /\ FirstBlocks(u, q) \o FirstBlocks(AfterBlocks(u, q), w) = FirstBlocks(u, q + w)
      /\ AfterBlocks(AfterBlocks(u, q), w) = AfterBlocks(u, q + w)
  BY <1>1, <1>8, MoreBlocks
<1>10. /\ new.total = Len(u) /\ new.blocks = FirstBlocks(u, q + w)
       /\ new.buffer = AfterBlocks(u, q + w)
  BY <1>1, <1>3, <1>4, <1>6, <1>7, <1>9
<1>11. Holds(new, u)
  BY <1>1, <1>8, <1>10, HoldsFrom
<1> QED
  BY <1>11 DEF u, new

\* The input does not fill the started block.
LEMMA UpdateUnfilled ==
    ASSUME NEW S, NEW m \in Seq(S), NEW x \in Seq(S), NEW q \in Nat, 64 * q <= Len(m),
           Len(m) + Len(x) < 64 * q + 64,
           NEW ctx, ctx.total = Len(m), ctx.blocks = FirstBlocks(m, q),
           ctx.buffer = AfterBlocks(m, q)
    PROVE  Holds(UpdateAt(ctx, x, Len(x), FALSE, 0), m \o x)
<1> DEFINE u == m \o x
           new == UpdateAt(ctx, x, Len(x), FALSE, 0)
<1>1. /\ u \in Seq(S) /\ Len(u) = Len(m) + Len(x) /\ Len(x) \in Nat /\ Len(m) \in Nat
  BY Joined
<1>2. SubSeq(x, 1, Len(x)) = x /\ SubSeq(x, Len(x) + 1, Len(x)) = <<>>
  BY EmptyParts
<1>3. FirstBlocks(<<>>, 0) = <<>> /\ AfterBlocks(<<>>, 0) = <<>>
  BY DEF FirstBlocks, AfterBlocks, BlockBytes
<1>4. /\ new.total = Len(m) + Len(x)
      /\ new.buffer = ctx.buffer \o x
      /\ new.blocks = (FirstBlocks(m, q) \o <<>>) \o <<>>
  BY <1>2, <1>3 DEF UpdateAt
<1>5. /\ FirstBlocks(u, q) = FirstBlocks(m, q)
      /\ AfterBlocks(u, q) = AfterBlocks(m, q) \o x
  BY BlocksStay
<1>6. (FirstBlocks(m, q) \o <<>>) \o <<>> = FirstBlocks(m, q)
  <2>1. FirstBlocks(m, q) \in Seq(Seq(S))
    BY BlocksTyped
  <2> QED
    BY <2>1, EmptyParts
<1>7. /\ new.total = Len(u) /\ new.blocks = FirstBlocks(u, q)
      /\ new.buffer = AfterBlocks(u, q)
  BY <1>1, <1>4, <1>5, <1>6
<1>8. 64 * q <= Len(u) /\ Len(u) < 64 * q + 64
  BY <1>1
<1> HIDE DEF u, new
<1>9. Holds(new, u)
  BY <1>1, <1>7, <1>8, HoldsFrom
<1> QED
  BY <1>9 DEF u, new

\* The rest of a block and what follows it.
LEMMA FillBlock ==
    ASSUME NEW S, NEW held \in Seq(S), NEW x \in Seq(S), NEW t \in Nat,
           Len(held) + t = 64, t <= Len(x)
    PROVE  /\ held \o SubSeq(x, 1, t) = SubSeq(held \o x, 1, 64)
           /\ SubSeq(x, t + 1, Len(x)) = SubSeq(held \o x, 65, Len(held \o x))
<1> DEFINE all == held \o x
           h == Len(held)
           n == Len(x)
<1>1. all \in Seq(S) /\ Len(all) = h + n /\ h \in Nat /\ n \in Nat
  BY Joined
<1>2. \A i \in 1..(h + n) : all[i] = IF i <= h THEN held[i] ELSE x[i - h]
  BY Joined
<1>3. h + t = 64 /\ t <= n /\ held \in Seq(S) /\ Len(held) = h /\ x \in Seq(S) /\ Len(x) = n
  OBVIOUS
<1> HIDE DEF all, h, n
<1>4. held \o SubSeq(x, 1, t) = SubSeq(all, 1, 64)
  <2> DEFINE u == SubSeq(x, 1, t)
             v == held \o u
             w == SubSeq(all, 1, 64)
  <2>1. /\ u \in Seq(S) /\ Len(u) = t /\ \A i \in 1..t : u[i] = x[i]
    BY <1>1, <1>3
  <2> HIDE DEF u
  <2>2. /\ v \in Seq(S) /\ Len(v) = h + t
        /\ \A i \in 1..(h + t) : v[i] = IF i <= h THEN held[i] ELSE u[i - h]
    BY <1>3, <2>1, Joined
  <2>3. /\ w \in Seq(S) /\ Len(w) = 64 /\ \A i \in 1..64 : w[i] = all[i]
    <3> DEFINE c == 64
    <3>1. c \in Nat /\ c <= Len(all)
      BY <1>1, <1>3
    <3> HIDE DEF c
    <3>2. LET y == SubSeq(all, 1, c)
          IN  y \in Seq(S) /\ Len(y) = c /\ \A i \in 1..c : y[i] = all[i]
      BY <1>1, <3>1
    <3> QED
      BY <3>2 DEF c
  <2> HIDE DEF v, w
  <2>4. ASSUME NEW i \in 1..64 PROVE v[i] = w[i]
    <3>1. i \in 1..(h + n) /\ i \in 1..(h + t) /\ w[i] = all[i]
      <4>1. i \in 1..(h + n) /\ i \in 1..(h + t)
        BY <1>1, <1>3
      <4> QED
        BY <2>3, <4>1
    <3>2. CASE i <= h
      BY <1>2, <2>2, <3>1, <3>2
    <3>3. CASE ~(i <= h)
      <4>1. i - h \in 1..t
        BY <1>1, <1>3, <3>3
      <4>2. v[i] = u[i - h] /\ all[i] = x[i - h]
        BY <1>2, <2>2, <3>1, <3>3
      <4> QED
        BY <2>1, <3>1, <4>1, <4>2
    <3> QED
      BY <3>2, <3>3
  <2>5. v = w
    <3>1. Len(v) = 64 /\ Len(w) = 64 /\ v \in Seq(S) /\ w \in Seq(S)
      BY <1>3, <2>2, <2>3
    <3>2. Len(v) = Len(w) /\ \A i \in 1..Len(v) : v[i] = w[i]
      BY <2>4, <3>1
    <3> QED
      BY <3>1, <3>2, SameElements, Zenon
  <2> QED
    BY <2>5 DEF v, w, u
<1>5. SubSeq(x, t + 1, n) = SubSeq(all, 65, h + n)
  <2> DEFINE u == SubSeq(x, t + 1, n)
             w == SubSeq(all, 65, h + n)
  <2>1. /\ u \in Seq(S) /\ Len(u) = n - t /\ \A i \in 1..(n - t) : u[i] = x[t + i]
    BY <1>1, <1>3
  <2>2. /\ w \in Seq(S) /\ Len(w) = n - t /\ \A i \in 1..(n - t) : w[i] = all[64 + i]
    BY <1>1, <1>3
  <2> HIDE DEF u, w
  <2>3. ASSUME NEW i \in 1..(n - t) PROVE u[i] = w[i]
    <3>1. 64 + i \in 1..(h + n) /\ ~(64 + i <= h) /\ (64 + i) - h = t + i
      BY <1>1, <1>3
    <3>2. all[64 + i] = x[t + i]
      BY <1>2, <3>1
    <3> QED
      BY <2>1, <2>2, <3>2
  <2>4. u = w
    BY <2>1, <2>2, <2>3, SameElements
  <2> QED
    BY <2>4 DEF u, w
<1> QED
  BY <1>1, <1>4, <1>5 DEF all, n

\* The input fills the started block and goes on.
LEMMA UpdateFilled ==
    ASSUME NEW S, NEW m \in Seq(S), NEW x \in Seq(S), NEW q \in Nat, NEW t \in Nat, NEW w \in Nat,
           64 * q <= Len(m), Len(m) + t = 64 * q + 64, t <= Len(x),
           64 * w <= Len(x) - t, Len(x) - t < 64 * w + 64,
           NEW ctx, ctx.total = Len(m), ctx.blocks = FirstBlocks(m, q),
           ctx.buffer = AfterBlocks(m, q)
    PROVE  Holds(UpdateAt(ctx, x, t, TRUE, w), m \o x)
<1> DEFINE u == m \o x
           new == UpdateAt(ctx, x, t, TRUE, w)
           held == AfterBlocks(m, q)
           head == held \o SubSeq(x, 1, t)
           rest == SubSeq(x, t + 1, Len(x))
           all == held \o x
<1>1. /\ u \in Seq(S) /\ Len(u) = Len(m) + Len(x) /\ Len(x) \in Nat /\ Len(m) \in Nat
  BY Joined
<1>2. /\ new.total = Len(m) + Len(x)
      /\ new.buffer = AfterBlocks(rest, w)
      /\ new.blocks = (FirstBlocks(m, q) \o <<head>>) \o FirstBlocks(rest, w)
  BY DEF UpdateAt
<1>3. /\ FirstBlocks(u, q) = FirstBlocks(m, q) /\ AfterBlocks(u, q) = all
  BY BlocksStay
<1>held. held \in Seq(S)
  BY BlocksTyped
<1>4. held \in Seq(S) /\ Len(held) = 64 - t
  <2>1. Len(held) = Len(m) - 64 * q
    BY BlocksTyped
  <2> HIDE DEF held
  <2> QED
    BY <1>1, <1>held, <2>1
<1>5. 64 * (q + 1) <= Len(u) /\ 64 * ((q + 1) + w) <= Len(u)
      /\ Len(u) < 64 * ((q + 1) + w) + 64 /\ q + 1 \in Nat /\ (q + 1) + w \in Nat
  BY <1>1
<1> HIDE DEF u, new, held
<1>6. all \in Seq(S) /\ Len(all) = 64 - t + Len(x)
  BY <1>4, Joined, SMTT(30)
<1>7. head = SubSeq(all, 1, 64) /\ rest = SubSeq(all, 65, Len(all))
  <2>1. Len(held) + t = 64
    BY <1>4
  <2> QED
    BY <1>held, <2>1, FillBlock
<1> HIDE DEF all, head, rest
<1>9. /\ FirstBlocks(u, q) \o <<head>> = FirstBlocks(u, q + 1)
      /\ rest = AfterBlocks(u, q + 1)
  <2>1. /\ FirstBlocks(u, q) \o <<SubSeq(AfterBlocks(u, q), 1, 64)>> = FirstBlocks(u, q + 1)
        /\ SubSeq(AfterBlocks(u, q), 65, Len(AfterBlocks(u, q))) = AfterBlocks(u, q + 1)
    BY <1>1, <1>5, OneMoreBlock
  <2> QED
    BY <1>3, <1>7, <2>1
<1>10. /\ FirstBlocks(u, q + 1) \o FirstBlocks(AfterBlocks(u, q + 1), w)
            = FirstBlocks(u, (q + 1) + w)
       /\ AfterBlocks(AfterBlocks(u, q + 1), w) = AfterBlocks(u, (q + 1) + w)
  <2> DEFINE p == q + 1
  <2>1. p \in Nat /\ 64 * (p + w) <= Len(u)
    BY <1>5
  <2> HIDE DEF p
  <2>2. /\ FirstBlocks(u, p) \o FirstBlocks(AfterBlocks(u, p), w) = FirstBlocks(u, p + w)
        /\ AfterBlocks(AfterBlocks(u, p), w) = AfterBlocks(u, p + w)
    BY <1>1, <2>1, MoreBlocks
  <2> QED
    BY <2>2 DEF p
<1>11. /\ new.total = Len(u) /\ new.blocks = FirstBlocks(u, (q + 1) + w)
       /\ new.buffer = AfterBlocks(u, (q + 1) + w)
  BY <1>1, <1>2, <1>3, <1>9, <1>10
<1>12. Holds(new, u)
  BY <1>1, <1>5, <1>11, HoldsFrom
<1> QED
  BY <1>12 DEF u, new

\* c0_sha256_update feeds a context its input, wherever the input is cut: a
\* context that holds a message holds the message and the input after it.
THEOREM UpdateHolds ==
    ASSUME NEW S, NEW m \in Seq(S), NEW x \in Seq(S), NEW ctx, Holds(ctx, m)
    PROVE  Holds(c0_sha256_update(ctx, x), m \o x)
<1>1. CASE x = <<>>
  <2>1. c0_sha256_update(ctx, x) = ctx
    BY <1>1 DEF c0_sha256_update
  <2>2. m \o x = m
    BY <1>1, EmptyParts
  <2> QED
    BY <2>1, <2>2
<1>2. CASE x # <<>>
  <2> DEFINE q == Len(m) \div BlockBytes
             held == ctx.buffer
             started == Len(held) # 0
             room == BlockBytes - Len(held)
             take == IF ~started THEN 0 ELSE IF Len(x) < room THEN Len(x) ELSE room
             filled == started /\ Len(held \o SubSeq(x, 1, take)) = BlockBytes
             rest == SubSeq(x, take + 1, Len(x))
             whole == Len(rest) \div BlockBytes
  <2>1. c0_sha256_update(ctx, x) = UpdateAt(ctx, x, take, filled, whole)
    BY <1>2, UpdateCuts, Zenon
  <2>2. /\ ctx.total = Len(m) /\ ctx.blocks = FirstBlocks(m, q)
        /\ ctx.buffer = AfterBlocks(m, q)
    BY DEF Holds
  <2>3. Len(m) \in Nat /\ Len(x) \in Nat /\ Len(x) > 0
    BY <1>2
  <2>4. q \in Nat /\ 64 * q <= Len(m) /\ Len(m) < 64 * q + 64
    BY <2>3, BlocksIn
  <2> HIDE DEF q
  <2>5. held \in Seq(S) /\ Len(held) = Len(m) - 64 * q
    <3>1. AfterBlocks(m, q) \in Seq(S) /\ Len(AfterBlocks(m, q)) = Len(m) - 64 * q
      BY <2>4, BlocksTyped
    <3> QED
      BY <2>2, <3>1
  <2> HIDE DEF held
  <2>6. CASE ~started
    <3>1. take = 0 /\ filled = FALSE
      BY <2>6
    <3>2. Len(m) = 64 * q /\ held = <<>>
      BY <2>3, <2>4, <2>5, <2>6
    <3>3. rest = x
      BY <3>1, EmptyParts
    <3>4. whole \in Nat /\ 64 * whole <= Len(x) /\ Len(x) < 64 * whole + 64
      BY <2>3, <3>3, BlocksIn
    <3> HIDE DEF whole, take, filled
    <3>5. ctx.buffer = <<>>
      BY <3>2 DEF held
    <3>6. Holds(UpdateAt(ctx, x, 0, FALSE, whole), m \o x)
      BY <2>2, <2>4, <3>2, <3>4, <3>5, UpdateFresh
    <3> QED
      BY <2>1, <3>1, <3>6
  <2>7. CASE started /\ Len(x) < room
    <3>1. take = Len(x)
      BY <2>7
    <3>2. SubSeq(x, 1, take) = x /\ rest = <<>>
      BY <3>1, EmptyParts
    <3>3. Len(m) + Len(x) < 64 * q + 64
      BY <2>3, <2>4, <2>5, <2>7 DEF BlockBytes
    <3>4. filled = FALSE
      <4>1. Len(held \o x) = Len(held) + Len(x)
        BY <2>5, Joined
      <4>2. Len(held \o x) # BlockBytes
        BY <2>3, <2>4, <2>5, <3>3, <4>1 DEF BlockBytes
      <4> QED
        BY <3>2, <4>2
    <3>5. whole = 0
      <4>1. Len(rest) = 0
        BY <3>2
      <4> HIDE DEF rest
      <4> QED
        BY <4>1 DEF BlockBytes
    <3> HIDE DEF whole, take, filled
    <3>6. Holds(UpdateAt(ctx, x, Len(x), FALSE, 0), m \o x)
      BY <2>2, <2>4, <3>3, UpdateUnfilled
    <3> QED
      BY <2>1, <3>1, <3>4, <3>5, <3>6
  <2>8. CASE started /\ ~(Len(x) < room)
    <3>1. take = room
      BY <2>8
    <3>2. /\ room \in Nat /\ Len(held) + room = 64 /\ room <= Len(x)
          /\ Len(m) + room = 64 * q + 64
      BY <2>3, <2>4, <2>5, <2>8 DEF BlockBytes
    <3>3. filled = TRUE
      <4>1. SubSeq(x, 1, room) \in Seq(S) /\ Len(SubSeq(x, 1, room)) = room
        BY <3>2
      <4> HIDE DEF room
      <4>2. Len(held \o SubSeq(x, 1, room)) = Len(held) + room
        BY <2>5, <4>1, Joined
      <4>3. Len(held \o SubSeq(x, 1, take)) = BlockBytes
        BY <3>1, <3>2, <4>2 DEF BlockBytes
      <4> QED
        BY <2>8, <4>3
    <3>4. Len(rest) = Len(x) - room /\ Len(x) - room \in Nat
      BY <2>3, <3>1, <3>2
    <3>5. whole \in Nat /\ 64 * whole <= Len(x) - room /\ Len(x) - room < 64 * whole + 64
      <4> DEFINE n == Len(rest)
      <4>1. n \in Nat
        BY <3>4
      <4> HIDE DEF n, rest, room
      <4>2. n \div BlockBytes \in Nat /\ 64 * (n \div BlockBytes) <= n
            /\ n < 64 * (n \div BlockBytes) + 64
        BY <4>1, BlocksIn
      <4> QED
        BY <3>4, <4>2 DEF n
    <3> HIDE DEF whole, take, filled, room
    <3>6. Holds(UpdateAt(ctx, x, room, TRUE, whole), m \o x)
      BY <2>2, <2>4, <3>2, <3>5, UpdateFilled
    <3> QED
      BY <2>1, <3>1, <3>3, <3>6
  <2> QED
    BY <2>6, <2>7, <2>8
<1> QED
  BY <1>1, <1>2

-----------------------------------------------------------------------------
(* The padding. *)

\* The length in blocks of a padded message, and the zeros it needs.
LEMMA PaddingLength ==
    ASSUME NEW n \in Nat, NEW q \in Nat, 64 * q <= n, n < 64 * q + 64
    PROVE  LET z == IF n - 64 * q <= 55 THEN 55 - (n - 64 * q) ELSE 119 - (n - 64 * q)
           IN  (CHOOSE k \in 0..63 : (n + 1 + k + 8) % BlockBytes = 0) = z
<1> DEFINE r == n - 64 * q
           z == IF r <= 55 THEN 55 - r ELSE 119 - r
<1>1. r \in 0..63 /\ n = 64 * q + r
  OBVIOUS
<1> HIDE DEF r
<1>2. z \in 0..63
  BY <1>1
<1>3. (n + 1 + z + 8) % 64 = 0
  <2>1. CASE r <= 55
    <3>1. n + 1 + z + 8 = 64 * (q + 1)
      BY <1>1, <2>1
    <3>2. (64 * (q + 1)) % 64 = 0
      OBVIOUS
    <3> QED
      BY <3>1, <3>2
  <2>2. CASE ~(r <= 55)
    <3>1. n + 1 + z + 8 = 64 * (q + 2)
      BY <1>1, <2>2
    <3>2. (64 * (q + 2)) % 64 = 0
      OBVIOUS
    <3> QED
      BY <3>1, <3>2
  <2> QED
    BY <2>1, <2>2
<1>4. ASSUME NEW k \in 0..63, (n + 1 + k + 8) % 64 = 0 PROVE k = z
  <2> HIDE DEF z
  <2>1. n + 1 + k + 8 \in Nat /\ n + 1 + z + 8 \in Nat
    BY <1>2
  <2> DEFINE a == n + 1 + k + 8
             b == n + 1 + z + 8
  <2>2. a - b = k - z
    BY <1>2
  <2> HIDE DEF a, b
  <2>3. a = 64 * (a \div 64) /\ b = 64 * (b \div 64) /\ a \div 64 \in Int /\ b \div 64 \in Int
    BY <1>3, <1>4, <2>1 DEF a, b
  <2> QED
    BY <1>2, <2>2, <2>3
<1>5. (CHOOSE k \in 0..63 : (n + 1 + k + 8) % 64 = 0) = z
  BY <1>2, <1>3, <1>4
<1> QED
  BY <1>5 DEF BlockBytes, r

\* Concatenation is associative.
Regrouped(s, t, u) == (s \o t) \o u = s \o (t \o u)

LEMMA Associative ==
    ASSUME NEW S, NEW s \in Seq(S), NEW t \in Seq(S), NEW u \in Seq(S)
    PROVE  Regrouped(s, t, u)
<1> DEFINE st == s \o t
           tu == t \o u
           l == st \o u
           r == s \o tu
           a == Len(s)
           b == Len(t)
           c == Len(u)
<1>0. a \in Nat /\ b \in Nat /\ c \in Nat
  OBVIOUS
<1>1. /\ st \in Seq(S) /\ Len(st) = a + b
      /\ \A i \in 1..(a + b) : st[i] = IF i <= a THEN s[i] ELSE t[i - a]
  BY Joined
<1>2. /\ tu \in Seq(S) /\ Len(tu) = b + c
      /\ \A i \in 1..(b + c) : tu[i] = IF i <= b THEN t[i] ELSE u[i - b]
  BY Joined
<1> HIDE DEF st, tu
<1>3. /\ l \in Seq(S) /\ Len(l) = (a + b) + c
      /\ \A i \in 1..((a + b) + c) : l[i] = IF i <= a + b THEN st[i] ELSE u[i - (a + b)]
  <2>0. st \in Seq(S)
    BY <1>1
  <2>1. st \in Seq(S) /\ Len(st) = a + b
    BY <1>1
  <2>2. /\ l \in Seq(S) /\ Len(l) = Len(st) + Len(u)
        /\ \A i \in 1..(Len(st) + Len(u)) :
             l[i] = IF i <= Len(st) THEN st[i] ELSE u[i - Len(st)]
    BY <2>0, Joined
  <2> QED
    BY <2>1, <2>2, Zenon
<1>4. /\ r \in Seq(S) /\ Len(r) = a + (b + c)
      /\ \A i \in 1..(a + (b + c)) : r[i] = IF i <= a THEN s[i] ELSE tu[i - a]
  <2>0. tu \in Seq(S)
    BY <1>2
  <2>1. tu \in Seq(S) /\ Len(tu) = b + c
    BY <1>2
  <2>2. /\ r \in Seq(S) /\ Len(r) = Len(s) + Len(tu)
        /\ \A i \in 1..(Len(s) + Len(tu)) :
             r[i] = IF i <= Len(s) THEN s[i] ELSE tu[i - Len(s)]
    BY <2>0, Joined
  <2> QED
    BY <2>1, <2>2, Zenon
<1> HIDE DEF l, r, a, b, c
<1>5. Len(l) = Len(r)
  BY <1>0, <1>3, <1>4
<1>6. ASSUME NEW i \in 1..Len(l) PROVE l[i] = r[i]
  <2>1. i \in 1..((a + b) + c) /\ i \in 1..(a + (b + c))
    BY <1>0, <1>3
  <2>2. CASE i <= a
    <3>1. i <= a + b /\ i \in 1..(a + b)
      BY <1>0, <2>1, <2>2
    <3> QED
      BY <1>1, <1>3, <1>4, <2>1, <2>2, <3>1
  <2>3. CASE ~(i <= a) /\ i <= a + b
    <3>1. i \in 1..(a + b) /\ i - a \in 1..(b + c) /\ i - a <= b
      BY <1>0, <2>1, <2>3
    <3> QED
      BY <1>1, <1>2, <1>3, <1>4, <2>1, <2>3, <3>1
  <2>4. CASE ~(i <= a + b)
    <3>1. i - a \in 1..(b + c) /\ ~(i - a <= b) /\ ~(i <= a) /\ (i - a) - b = i - (a + b)
      BY <1>0, <2>1, <2>4
    <3>2. l[i] = u[i - (a + b)]
      BY <1>3, <2>1, <2>4
    <3>3. r[i] = tu[i - a]
      BY <1>4, <2>1, <3>1
    <3>4. tu[i - a] = u[(i - a) - b]
      BY <1>2, <3>1
    <3> QED
      BY <3>1, <3>2, <3>3, <3>4
  <2> QED
    BY <2>2, <2>3, <2>4
<1>7. l = r
  BY <1>3, <1>4, <1>5, <1>6, SameElements
<1> QED
  BY <1>7 DEF l, r, st, tu, Regrouped

LEMMA ZerosTyped ==
    ASSUME NEW T, PadZero \in T, NEW n \in Nat
    PROVE  Zeros(n) \in Seq(T) /\ Len(Zeros(n)) = n /\ \A i \in 1..n : Zeros(n)[i] = PadZero
  BY DEF Zeros

LEMMA ZerosJoin ==
    ASSUME NEW n \in Nat, NEW k \in Nat
    PROVE  Zeros(n) \o Zeros(k) = Zeros(n + k)
<1>1. PadZero \in {PadZero} /\ n + k \in Nat
  OBVIOUS
<1> DEFINE T == {PadZero}
           u == Zeros(n)
           v == Zeros(k)
           w == Zeros(n + k)
<1>2. /\ u \in Seq(T) /\ Len(u) = n /\ \A i \in 1..n : u[i] = PadZero
      /\ v \in Seq(T) /\ Len(v) = k /\ \A i \in 1..k : v[i] = PadZero
      /\ w \in Seq(T) /\ Len(w) = n + k /\ \A i \in 1..(n + k) : w[i] = PadZero
  BY <1>1, ZerosTyped
<1> HIDE DEF T, u, v, w
<1>3. /\ u \o v \in Seq(T) /\ Len(u \o v) = n + k
      /\ \A i \in 1..(n + k) : (u \o v)[i] = IF i <= n THEN u[i] ELSE v[i - n]
  BY <1>2, Joined
<1>4. ASSUME NEW i \in 1..(n + k) PROVE (u \o v)[i] = PadZero
  <2>1. i <= n => i \in 1..n
    OBVIOUS
  <2>2. ~(i <= n) => i - n \in 1..k
    OBVIOUS
  <2> QED
    BY <1>2, <1>3, <2>1, <2>2
<1>5. u \o v = w
  BY <1>2, <1>3, <1>4, SameElements
<1> QED
  BY <1>5 DEF u, v, w

\* A message of whole blocks is cut into them.
LEMMA WholePieces ==
    ASSUME NEW S, NEW s \in Seq(S), NEW c \in Nat, Len(s) = 64 * c
    PROVE  Pieces(s, BlockBytes) = FirstBlocks(s, c)
<1>1. (Len(s) + BlockBytes - 1) \div BlockBytes = c
  BY DEF BlockBytes
<1>2. ASSUME NEW k \in 1..c
      PROVE  (IF BlockBytes * k < Len(s) THEN BlockBytes * k ELSE Len(s)) = BlockBytes * k
  BY DEF BlockBytes
<1> QED
  BY <1>1, <1>2, Zenon DEF Pieces, FirstBlocks

LEMMA OneBlock ==
    ASSUME NEW s
    PROVE  FirstBlocks(s, 1) = <<SubSeq(s, 1, 64)>>
<1>1. FirstBlocks(s, 1) = [k \in 1..1 |-> SubSeq(s, 64 * (k - 1) + 1, 64 * k)]
  BY DEF FirstBlocks, BlockBytes
<1> QED
  BY <1>1

LEMMA BothBlocks ==
    ASSUME NEW s
    PROVE  FirstBlocks(s, 2) = <<SubSeq(s, 1, 64), SubSeq(s, 65, 128)>>
<1> DEFINE g == FirstBlocks(s, 2)
           a == SubSeq(s, 1, 64)
           b == SubSeq(s, 65, 128)
<1>1. g = [k \in 1..2 |-> SubSeq(s, 64 * (k - 1) + 1, 64 * k)]
  BY DEF FirstBlocks, BlockBytes
<1>2. g[1] = a /\ g[2] = b /\ DOMAIN g = 1..2 /\ g = [k \in 1..2 |-> g[k]]
  BY <1>1
<1> HIDE DEF g, a, b
<1>3. g = <<a, b>>
  BY <1>2
<1> QED
  BY <1>3 DEF g, a, b

\* One block, and two, that make up a sequence.
LEMMA TwoBlocks ==
    ASSUME NEW T, NEW d \in Seq(T), NEW e \in Seq(T), Len(d) = 64, Len(e) = 64
    PROVE  FirstBlocks(d, 1) = <<d>> /\ FirstBlocks(d \o e, 2) = <<d, e>>
<1>1. FirstBlocks(d, 1) = <<SubSeq(d, 1, 64)>>
  BY OneBlock, Zenon
<1>2. SubSeq(d, 1, 64) = d
  BY EmptyParts
<1>3. FirstBlocks(d \o e, 2) = <<SubSeq(d \o e, 1, 64), SubSeq(d \o e, 65, 128)>>
  BY BothBlocks, Zenon
<1>4. SubSeq(d \o e, 1, 64) = d
  <2> DEFINE c == 64
             one == 1
  <2>1. c \in Nat /\ one \in Nat /\ 1 <= one /\ one <= c + 1 /\ c <= Len(d)
    OBVIOUS
  <2> HIDE DEF c, one
  <2>2. SubSeq(d \o e, one, c) = SubSeq(d, one, c)
    BY <2>1, SliceOfFirst
  <2> QED
    BY <1>2, <2>2 DEF c, one
<1>5. SubSeq(d \o e, 65, 128) = e
  <2> DEFINE a == 1
             b == Len(e)
  <2>1. a \in Nat /\ b \in Nat /\ 1 <= a /\ a <= b + 1 /\ b <= Len(e)
    OBVIOUS
  <2>2. SubSeq(e, a, b) = e
    BY EmptyParts
  <2>3. Len(d) + a = 65 /\ Len(d) + b = 128
    OBVIOUS
  <2> HIDE DEF a, b
  <2>4. SubSeq(d \o e, Len(d) + a, Len(d) + b) = SubSeq(e, a, b)
    BY <2>1, SliceOfSecond, ZenonT(60)
  <2> QED
    BY <2>2, <2>3, <2>4
<1> QED
  BY <1>1, <1>2, <1>3, <1>4, <1>5

LEMMA Pair ==
    ASSUME NEW d, NEW e
    PROVE  <<d>> \o <<e>> = <<d, e>>
<1> DEFINE T == {d, e}
           s == <<d>>
           t == <<e>>
           v == <<d, e>>
<1>1. /\ s \in Seq(T) /\ Len(s) = 1 /\ s[1] = d
      /\ t \in Seq(T) /\ Len(t) = 1 /\ t[1] = e
      /\ v \in Seq(T) /\ Len(v) = 2 /\ v[1] = d /\ v[2] = e
  OBVIOUS
<1> HIDE DEF T, s, t, v
<1>2. /\ s \o t \in Seq(T) /\ Len(s \o t) = 2
      /\ \A i \in 1..2 : (s \o t)[i] = IF i <= 1 THEN s[i] ELSE t[i - 1]
  BY <1>1, Joined
<1>3. \A i \in 1..2 : (s \o t)[i] = v[i]
  BY <1>1, <1>2
<1>4. s \o t = v
  BY <1>1, <1>2, <1>3, SameElements
<1> QED
  BY <1>4 DEF s, t, v

\* The mark, z zeros and the length field f after what is buffered.
TailOf(b, z, f) == b \o ((<<PadMark>> \o Zeros(z)) \o f)

\* It is the last block,
ShortTail(b, f) ==
    LET marked == Append(b, PadMark)
    IN  /\ TailOf(b, 55 - Len(b), f) = (marked \o Zeros(56 - Len(marked))) \o f
        /\ Len(TailOf(b, 55 - Len(b), f)) = 64

\* or the last two.
LongTail(T, b, f) ==
    LET marked == Append(b, PadMark)
    IN  /\ TailOf(b, 119 - Len(b), f)
             = (marked \o Zeros(64 - Len(marked))) \o (Zeros(56) \o f)
        /\ Len(marked \o Zeros(64 - Len(marked))) = 64
        /\ Len(Zeros(56) \o f) = 64
        /\ marked \o Zeros(64 - Len(marked)) \in Seq(T)
        /\ Zeros(56) \o f \in Seq(T)

\* The padding takes one block when the mark leaves room for the length, two
\* otherwise.
LEMMA PaddedTail ==
    ASSUME NEW T, PadMark \in T, PadZero \in T, NEW b \in Seq(T), NEW f \in Seq(T),
           Len(b) < 64, Len(f) = 8
    PROVE  /\ Len(b) <= 55 => ShortTail(b, f)
           /\ Len(b) > 55 => LongTail(T, b, f)
<1> DEFINE one == <<PadMark>>
           marked == Append(b, PadMark)
           r == Len(b)
           tail(z) == b \o ((one \o Zeros(z)) \o f)
<1>1. one \in Seq(T) /\ Len(one) = 1 /\ marked = b \o one /\ r \in Nat /\ Len(marked) = r + 1
      /\ marked \in Seq(T) /\ r < 64
  OBVIOUS
<1>t. one \in Seq(T) /\ marked \in Seq(T)
  BY <1>1
<1> HIDE DEF one, marked, r
<1>2. ASSUME NEW z \in Nat
      PROVE  /\ tail(z) = (marked \o Zeros(z)) \o f
             /\ marked \o Zeros(z) \in Seq(T) /\ Len(marked \o Zeros(z)) = r + 1 + z
  <2> DEFINE zz == Zeros(z)
             oz == one \o zz
             mz == marked \o zz
  <2>1. zz \in Seq(T) /\ Len(zz) = z
    BY ZerosTyped
  <2> HIDE DEF zz
  <2>2. oz \in Seq(T)
    BY <1>1, <2>1, Joined
  <2>3. mz \in Seq(T) /\ Len(mz) = Len(marked) + Len(zz)
    BY <1>1, <2>1, Joined
  <2>4. mz = b \o oz
    <3>1. (b \o one) \o zz = b \o (one \o zz)
      <4>1. zz \in Seq(T)
        BY <2>1
      <4>2. Regrouped(b, one, zz)
        BY <1>t, <4>1, Associative
      <4> QED
        BY <4>2 DEF Regrouped
    <3> QED
      BY <1>1, <3>1
  <2> HIDE DEF oz, mz
  <2>5. (b \o oz) \o f = b \o (oz \o f)
    <3>1. Regrouped(b, oz, f)
      BY <2>2, Associative
    <3> QED
      BY <3>1 DEF Regrouped
  <2>6. Len(mz) = r + 1 + z
    BY <1>1, <2>1, <2>3
  <2> QED
    BY <2>3, <2>4, <2>5, <2>6 DEF oz, mz, zz
<1>3. CASE r <= 55
  <2> DEFINE z == 55 - r
             mz == marked \o Zeros(z)
  <2>1. z \in Nat /\ 56 - Len(marked) = z /\ r + 1 + z = 56
    BY <1>1, <1>3
  <2> HIDE DEF z
  <2>2. tail(z) = mz \o f /\ mz \in Seq(T) /\ Len(mz) = 56
    BY <1>2, <2>1
  <2> HIDE DEF mz
  <2>3. Len(mz \o f) = Len(mz) + Len(f)
    BY <2>2, Joined, ZenonT(60)
  <2>4. Len(tail(z)) = 64
    BY <2>2, <2>3
  <2>5. /\ tail(55 - r) = (marked \o Zeros(56 - Len(marked))) \o f
        /\ Len(tail(55 - r)) = 64
    BY <2>1, <2>2, <2>4, Zenon DEF z, mz
  <2>6. ~(r > 55)
    BY <1>1, <1>3
  <2> QED
    BY <2>5, <2>6, Zenon DEF r, one, marked, ShortTail, TailOf
<1>4. CASE r > 55
  <2> DEFINE z == 63 - r
             y == Zeros(z)
             k == Zeros(56)
             mz == marked \o y
             kf == k \o f
  <2>1. z \in Nat /\ z + 56 \in Nat /\ 56 \in Nat /\ 64 - Len(marked) = z /\ r + 1 + z = 64
        /\ z + 56 = 119 - r
    BY <1>1, <1>4
  <2> HIDE DEF z
  <2>2. y \in Seq(T) /\ k \in Seq(T) /\ Len(k) = 56 /\ y \o k = Zeros(z + 56)
    <3>0. z \in Nat /\ 56 \in Nat
      BY <2>1
    <3>1. y \in Seq(T) /\ k \in Seq(T) /\ Len(k) = 56
      BY <3>0, ZerosTyped, ZenonT(60)
    <3>2. y \o k = Zeros(z + 56)
      BY <3>0, ZerosJoin, ZenonT(60)
    <3> QED
      BY <3>1, <3>2
  <2>t. y \in Seq(T) /\ k \in Seq(T)
    BY <2>2
  <2>3. mz \in Seq(T) /\ Len(mz) = 64
    BY <1>2, <2>1
  <2>4. tail(z + 56) = (marked \o Zeros(z + 56)) \o f
    BY <1>2, <2>1
  <2> HIDE DEF y, k
  <2>5. (marked \o y) \o k = marked \o (y \o k)
    <3>1. Regrouped(marked, y, k)
      BY <1>t, <2>t, Associative
    <3> QED
      BY <3>1 DEF Regrouped
  <2>6. kf \in Seq(T) /\ Len(kf) = 64
    <3>1. kf \in Seq(T) /\ Len(kf) = Len(k) + Len(f)
      BY <2>t, Joined, ZenonT(60)
    <3> QED
      BY <2>2, <3>1
  <2> HIDE DEF mz
  <2>7. (mz \o k) \o f = mz \o (k \o f)
    <3>1. mz \in Seq(T)
      BY <2>3
    <3>2. Regrouped(mz, k, f)
      BY <2>t, <3>1, Associative
    <3> QED
      BY <3>2 DEF Regrouped
  <2>8. tail(z + 56) = mz \o kf
    BY <2>2, <2>4, <2>5, <2>7 DEF mz
  <2> HIDE DEF kf
  <2>9. tail(119 - r) = mz \o kf
    BY <2>1, <2>8
  <2>10. /\ tail(119 - r) = (marked \o Zeros(64 - Len(marked))) \o (Zeros(56) \o f)
         /\ Len(marked \o Zeros(64 - Len(marked))) = 64
         /\ Len(Zeros(56) \o f) = 64
         /\ marked \o Zeros(64 - Len(marked)) \in Seq(T)
         /\ Zeros(56) \o f \in Seq(T)
    BY <2>1, <2>3, <2>6, <2>9, Zenon DEF mz, kf, y, k
  <2>11. ~(r <= 55)
    BY <1>1, <1>4
  <2> QED
    BY <2>10, <2>11, Zenon DEF r, one, marked, LongTail, TailOf
<1> QED
  <2>1. r <= 55 \/ r > 55
    BY <1>1
  <2> QED
    BY <2>1, <1>3, <1>4, Zenon DEF r, one, marked

\* c0_sha256_final on a context that holds a message.
LEMMA FinalBlocks ==
    ASSUME NEW T, PadMark \in T, PadZero \in T, NEW m \in Seq(T),
           LengthField(Len(m)) \in Seq(T), NEW ctx, Holds(ctx, m)
    PROVE  c0_sha256_final(ctx) = Sha256Blocks(m)
<1> DEFINE n == Len(m)
           q == n \div BlockBytes
           b == ctx.buffer
           f == LengthField(n)
           marked == Append(b, PadMark)
           z == CHOOSE k \in 0..63 : (n + 1 + k + 8) % BlockBytes = 0
           y == (<<PadMark>> \o Zeros(z)) \o f
           padded == (Append(m, PadMark) \o Zeros(z)) \o f
<1>1. n \in Nat /\ q \in Nat /\ 64 * q <= n /\ n < 64 * q + 64
  <2>1. n \in Nat
    OBVIOUS
  <2> HIDE DEF n
  <2> QED
    BY <2>1, BlocksIn
<1>2. ctx.total = n /\ ctx.blocks = FirstBlocks(m, q) /\ b = AfterBlocks(m, q)
  BY DEF Holds
<1> HIDE DEF q
<1>3. b \in Seq(T) /\ Len(b) = n - 64 * q
  <2>1. AfterBlocks(m, q) \in Seq(T) /\ Len(AfterBlocks(m, q)) = Len(m) - 64 * q
    BY <1>1, BlocksTyped
  <2> QED
    BY <1>2, <2>1
<1>4. f \in Seq(T) /\ Len(f) = 8
  BY DEF LengthField
<1>5. z = IF Len(b) <= 55 THEN 55 - Len(b) ELSE 119 - Len(b)
  <2>1. z = IF n - 64 * q <= 55 THEN 55 - (n - 64 * q) ELSE 119 - (n - 64 * q)
    <3> HIDE DEF n
    <3> QED
      BY <1>1, PaddingLength
  <2> HIDE DEF b, z
  <2> QED
    BY <1>3, <2>1
<1>6. z \in Nat
  <2> HIDE DEF z, b, n
  <2> QED
    BY <1>1, <1>3, <1>5
<1>7. Sha256Blocks(m) = Pieces(padded, BlockBytes)
  BY DEF Sha256Blocks
<1>8. c0_sha256_final(ctx) =
        IF Len(marked) > LengthAt
        THEN (ctx.blocks \o <<marked \o Zeros(BlockBytes - Len(marked))>>)
               \o << (<<>> \o Zeros(LengthAt - Len(<<>>))) \o f >>
        ELSE (ctx.blocks \o <<>>) \o << (marked \o Zeros(LengthAt - Len(marked))) \o f >>
  BY <1>2 DEF c0_sha256_final
<1> HIDE DEF b, f, z, n
<1>9. y \in Seq(T) /\ Len(y) = z + 9 /\ padded = m \o y
  <2> DEFINE one == <<PadMark>>
             zz == Zeros(z)
             oz == one \o zz
  <2>1. one \in Seq(T) /\ Len(one) = 1 /\ Append(m, PadMark) = m \o one
    OBVIOUS
  <2>2. zz \in Seq(T) /\ Len(zz) = z
    BY <1>6, ZerosTyped
  <2>t. one \in Seq(T) /\ zz \in Seq(T) /\ f \in Seq(T)
    BY <1>4, <2>1, <2>2
  <2> HIDE DEF one, zz
  <2>3. oz \in Seq(T) /\ Len(oz) = Len(one) + Len(zz)
    BY <2>t, Joined
  <2>4. Regrouped(m, one, zz)
    BY <2>t, Associative
  <2> HIDE DEF oz
  <2>5. Regrouped(m, oz, f)
    BY <2>t, <2>3, Associative
  <2>6. oz \o f \in Seq(T) /\ Len(oz \o f) = Len(oz) + Len(f)
    BY <2>t, <2>3, Joined
  <2>7. Len(oz \o f) = z + 9
    BY <1>4, <1>6, <2>1, <2>2, <2>3, <2>6
  <2>8. ((m \o one) \o zz) \o f = m \o (oz \o f)
    BY <2>4, <2>5 DEF Regrouped, oz
  <2> QED
    BY <2>1, <2>6, <2>7, <2>8 DEF oz, zz, one
<1> HIDE DEF y, padded
<1>10. /\ FirstBlocks(m \o y, q) = FirstBlocks(m, q)
       /\ AfterBlocks(m \o y, q) = b \o y
  <2>1. 64 * q <= Len(m)
    BY <1>1 DEF n
  <2>2. /\ FirstBlocks(m \o y, q) = FirstBlocks(m, q)
        /\ AfterBlocks(m \o y, q) = AfterBlocks(m, q) \o y
    BY <1>1, <1>9, <2>1, BlocksStay
  <2> QED
    BY <1>2, <2>2
<1>11. padded \in Seq(T) /\ Len(padded) = n + (z + 9)
  <2>1. m \o y \in Seq(T) /\ Len(m \o y) = Len(m) + Len(y)
    BY <1>9, Joined
  <2> QED
    BY <1>9, <2>1 DEF n
<1>12. ASSUME NEW w \in Nat, n + (z + 9) = 64 * (q + w)
       PROVE  Sha256Blocks(m) = ctx.blocks \o FirstBlocks(b \o y, w)
  <2> DEFINE c == q + w
  <2>1. c \in Nat /\ Len(padded) = 64 * c
    BY <1>1, <1>11, <1>12
  <2> HIDE DEF c
  <2>2. Sha256Blocks(m) = FirstBlocks(padded, c)
    BY <1>7, <1>11, <2>1, WholePieces
  <2>3. FirstBlocks(padded, q) \o FirstBlocks(AfterBlocks(padded, q), w) = FirstBlocks(padded, q + w)
    <3>1. 64 * (q + w) <= Len(padded)
      BY <1>1, <1>11, <2>1 DEF c
    <3> QED
      BY <1>1, <1>11, <3>1, MoreBlocks
  <2> QED
    BY <1>2, <1>9, <1>10, <2>2, <2>3 DEF c
<1>13. Append(b, PadMark) \in Seq(T) /\ Len(marked) = Len(b) + 1 /\ Len(b) < 64 /\ Len(b) \in Nat
  BY <1>1, <1>3
<1>14. FirstBlocks(m, q) \in Seq(Seq(T))
  <2>1. 64 * q <= Len(m)
    BY <1>1 DEF n
  <2> QED
    BY <1>1, <2>1, BlocksTyped
<1> DEFINE bs == ctx.blocks
<1>15. CASE Len(b) <= 55
  <2> DEFINE d == (marked \o Zeros(56 - Len(marked))) \o f
  <2>1. b \o y = d /\ Len(b \o y) = 64
    <3>1. z = 55 - Len(b)
      BY <1>5, <1>15
    <3>2. ShortTail(b, f)
      BY <1>3, <1>4, <1>13, <1>15, PaddedTail
    <3>3. TailOf(b, 55 - Len(b), f) = d /\ Len(TailOf(b, 55 - Len(b), f)) = 64
      BY <3>2, Zenon DEF ShortTail
    <3>4. b \o y = TailOf(b, 55 - Len(b), f)
      BY <3>1, Zenon DEF y, TailOf
    <3> QED
      BY <3>3, <3>4
  <2>2. b \o y \in Seq(T)
    BY <1>3, <1>9, Joined
  <2>3. n + (z + 9) = 64 * (q + 1)
    BY <1>1, <1>3, <1>5, <1>15
  <2>4. Sha256Blocks(m) = bs \o FirstBlocks(b \o y, 1)
    BY <1>12, <2>3
  <2> DEFINE e == b \o y
  <2>5. FirstBlocks(e, 1) = <<e>>
    <3> HIDE DEF e
    <3>1. e \in Seq(T) /\ Len(e) = 64
      BY <2>1, <2>2 DEF e
    <3> QED
      BY <3>1, TwoBlocks
  <2>6. bs \o <<>> = bs
    BY <1>2, <1>14, EmptyParts
  <2>7. c0_sha256_final(ctx) = (bs \o <<>>) \o <<d>>
    <3>1. ~(Len(marked) > LengthAt) /\ LengthAt = 56
      BY <1>13, <1>15 DEF LengthAt
    <3> HIDE DEF marked
    <3> QED
      BY <1>8, <3>1
  <2> HIDE DEF d, bs
  <2> QED
    BY <2>1, <2>4, <2>5, <2>6, <2>7
<1>16. CASE Len(b) > 55
  <2> DEFINE d == marked \o Zeros(64 - Len(marked))
             e == Zeros(56) \o f
  <2>1. /\ b \o y = d \o e /\ d \in Seq(T) /\ e \in Seq(T) /\ Len(d) = 64 /\ Len(e) = 64
    <3>1. z = 119 - Len(b)
      BY <1>5, <1>13, <1>16
    <3>2. LongTail(T, b, f)
      BY <1>3, <1>4, <1>13, <1>16, PaddedTail
    <3>3. /\ TailOf(b, 119 - Len(b), f) = d \o e
          /\ d \in Seq(T) /\ e \in Seq(T) /\ Len(d) = 64 /\ Len(e) = 64
      BY <3>2, Zenon DEF LongTail
    <3>4. b \o y = TailOf(b, 119 - Len(b), f)
      BY <3>1, Zenon DEF y, TailOf
    <3> QED
      BY <3>3, <3>4
  <2>2. n + (z + 9) = 64 * (q + 2)
    BY <1>1, <1>3, <1>5, <1>13, <1>16
  <2>3. Sha256Blocks(m) = bs \o FirstBlocks(b \o y, 2)
    BY <1>12, <2>2
  <2>4. c0_sha256_final(ctx) = (bs \o <<d>>) \o <<e>>
    <3>1. Len(marked) > LengthAt /\ LengthAt = 56 /\ BlockBytes = 64
      BY <1>13, <1>16 DEF LengthAt, BlockBytes
    <3>2. <<>> \o Zeros(LengthAt - Len(<<>>)) = Zeros(56)
      <4>1. LengthAt - Len(<<>>) = 56
        BY DEF LengthAt
      <4>2. Zeros(56) \in Seq(T)
        BY ZerosTyped
      <4> QED
        BY <4>1, <4>2, EmptyParts
    <3> HIDE DEF marked
    <3> QED
      BY <1>8, <3>1, <3>2
  <2> HIDE DEF d, e
  <2>5. FirstBlocks(d \o e, 2) = <<d, e>>
    BY <2>1, TwoBlocks
  <2>6. (bs \o <<d>>) \o <<e>> = bs \o <<d, e>>
    <3>1. bs \in Seq(Seq(T)) /\ <<d>> \in Seq(Seq(T)) /\ <<e>> \in Seq(Seq(T))
      BY <1>2, <1>14, <2>1
    <3>2. Regrouped(bs, <<d>>, <<e>>)
      BY <3>1, Associative
    <3>3. <<d>> \o <<e>> = <<d, e>>
      BY Pair, Zenon
    <3> QED
      BY <3>2, <3>3 DEF Regrouped
  <2> HIDE DEF bs
  <2> QED
    BY <2>1, <2>3, <2>4, <2>5, <2>6
<1> QED
  BY <1>13, <1>15, <1>16

\* A sequence over a larger set.
LEMMA Wider ==
    ASSUME NEW S, NEW U, S \subseteq U, NEW s \in Seq(S)
    PROVE  s \in Seq(U)
  OBVIOUS

\* c0_sha256_final on a context that holds a message gives the blocks that
\* FIPS 180-4 defines for the whole message, whether or not the mark leaves
\* room for the length.
THEOREM FinalIsSha256 ==
    ASSUME NEW S, NEW m \in Seq(S), NEW ctx, Holds(ctx, m)
    PROVE  c0_sha256_final(ctx) = Sha256Blocks(m)
<1> DEFINE f == LengthField(Len(m))
           L == {f[k] : k \in 1..8}
           T == S \cup {PadMark, PadZero} \cup L
<1>1. f \in Seq(L)
  BY DEF LengthField
<1>2. PadMark \in T /\ PadZero \in T /\ S \subseteq T /\ L \subseteq T
  OBVIOUS
<1> HIDE DEF T, f, L
<1>3. m \in Seq(T) /\ f \in Seq(T)
  BY <1>1, <1>2, Wider
<1>4. LengthField(Len(m)) \in Seq(T)
  BY <1>3 DEF f
<1> QED
  BY <1>2, <1>3, <1>4, FinalBlocks

\* A fresh context holds the empty message.
LEMMA InitHolds == Holds(c0_sha256_init, <<>>)
<1>1. Len(<<>>) = 0 /\ 0 \div BlockBytes = 0
  BY DEF BlockBytes
<1>2. FirstBlocks(<<>>, 0) = <<>> /\ AfterBlocks(<<>>, 0) = <<>>
  BY DEF FirstBlocks, AfterBlocks, BlockBytes
<1> QED
  BY <1>1, <1>2 DEF Holds, c0_sha256_init

-----------------------------------------------------------------------------
(* HMAC and HKDF. *)

\* A function on 1..n is a sequence of length n.
LEMMA FunctionIsSeq ==
    ASSUME NEW M, NEW n \in Nat, NEW s \in [1..n -> M]
    PROVE  s \in Seq(M) /\ Len(s) = n
  OBVIOUS

\* The key block of RFC 2104.
RfcBlock(key) == [k \in 1..BlockBytes |-> IF k <= Len(key) THEN key[k] ELSE PadZero]

\* The device's key block is that of the RFC.
LEMMA KeyBlockIsRfc ==
    ASSUME NEW K, NEW key \in Seq(K), Len(key) <= 64
    PROVE  KeyBlock(key) = RfcBlock(key)
<1> DEFINE T == K \cup {PadZero}
           n == Len(key)
           z == Zeros(64 - n)
           r == [k \in 1..64 |-> IF k <= n THEN key[k] ELSE PadZero]
<1>1. n \in Nat /\ 64 - n \in Nat /\ K \subseteq T /\ PadZero \in T
  OBVIOUS
<1>2. KeyBlock(key) = key \o z
  BY DEF KeyBlock, ZeroPadded, BlockBytes
<1>3. RfcBlock(key) = r
  BY DEF RfcBlock, BlockBytes
<1> HIDE DEF T
<1>4. key \in Seq(T)
  BY <1>1, Wider
<1>5. z \in Seq(T) /\ Len(z) = 64 - n /\ \A i \in 1..(64 - n) : z[i] = PadZero
  BY <1>1, ZerosTyped
<1> HIDE DEF z
<1>6. /\ key \o z \in Seq(T) /\ Len(key \o z) = 64
      /\ \A i \in 1..64 : (key \o z)[i] = IF i <= n THEN key[i] ELSE z[i - n]
  <2>1. /\ key \o z \in Seq(T) /\ Len(key \o z) = n + Len(z)
        /\ \A i \in 1..(n + Len(z)) : (key \o z)[i] = IF i <= n THEN key[i] ELSE z[i - n]
    BY <1>4, <1>5, Joined
  <2>2. n + Len(z) = 64
    BY <1>1, <1>5
  <2> QED
    BY <2>1, <2>2
<1>7. r \in Seq(T) /\ Len(r) = 64
  <2> DEFINE c == 64
  <2>1. \A k \in 1..n : key[k] \in T
    BY <1>4
  <2>2. \A k \in 1..64 : k <= n => k \in 1..n
    BY <1>1
  <2>3. c \in Nat /\ r \in [1..c -> T]
    BY <1>1, <2>1, <2>2
  <2> HIDE DEF c, r
  <2>4. r \in Seq(T) /\ Len(r) = c
    BY <2>3, FunctionIsSeq
  <2> QED
    BY <2>4 DEF c
<1>8. ASSUME NEW i \in 1..64 PROVE (key \o z)[i] = r[i]
  <2>1. ~(i <= n) => i - n \in 1..(64 - n)
    BY <1>1
  <2> QED
    BY <1>5, <1>6, <2>1
<1> HIDE DEF r
<1>9. key \o z = r
  <2>1. Len(key \o z) = Len(r) /\ \A i \in 1..Len(key \o z) : (key \o z)[i] = r[i]
    BY <1>6, <1>7, <1>8
  <2> QED
    BY <1>6, <1>7, <2>1, SameElements
<1> QED
  BY <1>2, <1>3, <1>9

\* The set of the bytes of a masked key block.
MaskedBytes(mask, key) == {Masked(RfcBlock(key), mask)[k] : k \in 1..64}

LEMMA MaskedTyped ==
    ASSUME NEW mask, NEW key
    PROVE  /\ Masked(RfcBlock(key), mask) \in Seq(MaskedBytes(mask, key))
           /\ Len(Masked(RfcBlock(key), mask)) = 64
<1> DEFINE s == Masked(RfcBlock(key), mask)
           M == {s[k] : k \in 1..64}
<1>1. DOMAIN RfcBlock(key) = 1..64
  BY DEF RfcBlock, BlockBytes
<1>2. s = [k \in 1..64 |-> <<"xor", mask, RfcBlock(key)[k]>>]
  BY <1>1 DEF Masked
<1>3. DOMAIN s = 1..64 /\ s = [k \in 1..64 |-> s[k]]
  BY <1>2
<1> HIDE DEF s
<1>4. s \in [1..64 -> M]
  BY <1>3
<1> HIDE DEF M
<1>5. s \in Seq(M) /\ Len(s) = 64
  <2> DEFINE c == 64
  <2>1. c \in Nat /\ s \in [1..c -> M]
    BY <1>4
  <2> HIDE DEF c
  <2>2. s \in Seq(M) /\ Len(s) = c
    BY <2>1, FunctionIsSeq
  <2> QED
    BY <2>2 DEF c
<1> QED
  BY <1>5 DEF s, M, MaskedBytes

\* An HMAC context that was given the key and fed the message m.
HmacFed(ctx, key, m) ==
    /\ ctx = [inner |-> ctx.inner, outer_pad |-> ctx.outer_pad]
    /\ Holds(ctx.inner, Masked(RfcBlock(key), 54) \o m)
    /\ ctx.outer_pad = Masked(RfcBlock(key), 92)

LEMMA HmacStarts ==
    ASSUME NEW K, NEW key \in Seq(K), Len(key) <= 64
    PROVE  HmacFed(c0_hmac_sha256_init(key), key, <<>>)
<1> DEFINE ctx == c0_hmac_sha256_init(key)
           pad == Masked(RfcBlock(key), 54)
           P == MaskedBytes(54, key)
<1>1. KeyBlock(key) = RfcBlock(key)
  BY KeyBlockIsRfc
<1>2. ctx = [inner |-> c0_sha256_update(c0_sha256_init, pad),
             outer_pad |-> Masked(RfcBlock(key), 92)]
  BY <1>1 DEF c0_hmac_sha256_init
<1>3. pad \in Seq(P)
  BY MaskedTyped
<1> HIDE DEF ctx, pad, P
<1>4. <<>> \in Seq(P) /\ <<>> \o pad = pad /\ pad \o <<>> = pad
  BY <1>3, EmptyParts
<1>5. Holds(c0_sha256_update(c0_sha256_init, pad), <<>> \o pad)
  BY <1>3, <1>4, InitHolds, UpdateHolds
<1>6. Holds(ctx.inner, pad \o <<>>)
  BY <1>2, <1>4, <1>5
<1>7. /\ ctx = [inner |-> ctx.inner, outer_pad |-> ctx.outer_pad]
      /\ ctx.outer_pad = Masked(RfcBlock(key), 92)
  BY <1>2
<1> QED
  BY <1>6, <1>7 DEF HmacFed, ctx, pad

LEMMA HmacFeeds ==
    ASSUME NEW key, NEW S, NEW m \in Seq(S), NEW x \in Seq(S), NEW ctx, HmacFed(ctx, key, m)
    PROVE  HmacFed(c0_hmac_sha256_update(ctx, x), key, m \o x)
<1> DEFINE pad == Masked(RfcBlock(key), 54)
           P == MaskedBytes(54, key)
           U == S \cup P
           new == c0_hmac_sha256_update(ctx, x)
<1>1. pad \in Seq(P) /\ S \subseteq U /\ P \subseteq U
  BY MaskedTyped
<1> HIDE DEF pad, P, U
<1>2. pad \in Seq(U) /\ m \in Seq(U) /\ x \in Seq(U)
  BY <1>1, Wider
<1>3. pad \o m \in Seq(U)
  BY <1>2, Joined
<1>4. Holds(ctx.inner, pad \o m)
  BY DEF HmacFed, pad
<1>5. Holds(c0_sha256_update(ctx.inner, x), (pad \o m) \o x)
  <2> DEFINE u == pad \o m
  <2> HIDE DEF u
  <2>1. u \in Seq(U) /\ Holds(ctx.inner, u)
    BY <1>3, <1>4 DEF u
  <2>2. Holds(c0_sha256_update(ctx.inner, x), u \o x)
    BY <1>2, <2>1, UpdateHolds
  <2> QED
    BY <2>2 DEF u
<1>6. Regrouped(pad, m, x)
  BY <1>2, Associative
<1>7. Holds(c0_sha256_update(ctx.inner, x), pad \o (m \o x))
  BY <1>5, <1>6 DEF Regrouped
<1>8. /\ ctx = [inner |-> ctx.inner, outer_pad |-> ctx.outer_pad]
      /\ ctx.outer_pad = Masked(RfcBlock(key), 92)
  BY DEF HmacFed
<1>9. new = [inner |-> c0_sha256_update(ctx.inner, x), outer_pad |-> ctx.outer_pad]
  BY <1>8 DEF c0_hmac_sha256_update
<1> HIDE DEF new
<1>10. /\ new.inner = c0_sha256_update(ctx.inner, x) /\ new.outer_pad = ctx.outer_pad
       /\ new = [inner |-> new.inner, outer_pad |-> new.outer_pad]
  BY <1>9
<1>11. HmacFed(new, key, m \o x)
  BY <1>7, <1>8, <1>10 DEF HmacFed, pad
<1> QED
  BY <1>11 DEF new

LEMMA InnerBytesTyped ==
    InnerBytes \in Seq({InnerBytes[k] : k \in 1..32})
<1> DEFINE s == InnerBytes
           M == {s[k] : k \in 1..32}
<1>1. DOMAIN s = 1..32 /\ s = [k \in 1..32 |-> s[k]]
  BY DEF InnerBytes
<1> HIDE DEF s
<1>2. s \in [1..32 -> M]
  BY <1>1
<1> HIDE DEF M
<1>3. s \in Seq(M)
  <2> DEFINE c == 32
  <2>1. c \in Nat /\ s \in [1..c -> M]
    BY <1>2
  <2> HIDE DEF c
  <2> QED
    BY <2>1, FunctionIsSeq
<1> QED
  BY <1>3 DEF s, M

LEMMA HmacEnds ==
    ASSUME NEW key, NEW S, NEW m \in Seq(S), NEW ctx, HmacFed(ctx, key, m)
    PROVE  c0_hmac_sha256_final(ctx) = RfcHmac(key, m)
<1> DEFINE pad == Masked(RfcBlock(key), 54)
           opad == Masked(RfcBlock(key), 92)
           I == {InnerBytes[k] : k \in 1..32}
           U == S \cup MaskedBytes(54, key)
           V == I \cup MaskedBytes(92, key)
           outer == c0_sha256_update(c0_sha256_update(c0_sha256_init, opad), InnerBytes)
<1>1. RfcHmac(key, m) = [inner |-> Sha256Blocks(pad \o m),
                         outer |-> Sha256Blocks(opad \o InnerBytes)]
  BY Zenon DEF RfcHmac, RfcBlock
<1>2. c0_hmac_sha256_final(ctx) = [inner |-> c0_sha256_final(ctx.inner),
                                   outer |-> c0_sha256_final(outer)]
  BY Zenon DEF c0_hmac_sha256_final, HmacFed
<1>3. pad \in Seq(MaskedBytes(54, key)) /\ opad \in Seq(MaskedBytes(92, key))
  BY MaskedTyped
<1>4. InnerBytes \in Seq(I)
  BY InnerBytesTyped
<1>5. S \subseteq U /\ MaskedBytes(54, key) \subseteq U
      /\ I \subseteq V /\ MaskedBytes(92, key) \subseteq V
  OBVIOUS
<1>in. Holds(ctx.inner, pad \o m)
  BY DEF HmacFed
<1> HIDE DEF pad, opad, I, U, V
<1>6. pad \in Seq(U) /\ m \in Seq(U)
  BY <1>3, <1>5, Wider
<1>7. opad \in Seq(V) /\ InnerBytes \in Seq(V) /\ <<>> \in Seq(V)
  BY <1>3, <1>4, <1>5, Wider
<1>8. c0_sha256_final(ctx.inner) = Sha256Blocks(pad \o m)
  <2> DEFINE u == pad \o m
  <2>1. u \in Seq(U)
    BY <1>6, Joined
  <2> HIDE DEF u
  <2>2. Holds(ctx.inner, u)
    BY <1>in DEF u
  <2>3. c0_sha256_final(ctx.inner) = Sha256Blocks(u)
    BY <2>1, <2>2, FinalIsSha256
  <2> QED
    BY <2>3 DEF u
<1>9. Holds(outer, opad \o InnerBytes)
  <2>1. Holds(c0_sha256_update(c0_sha256_init, opad), <<>> \o opad)
    BY <1>7, InitHolds, UpdateHolds
  <2>2. Holds(c0_sha256_update(c0_sha256_init, opad), opad)
    BY <1>7, <2>1, EmptyParts
  <2> QED
    BY <1>7, <2>2, UpdateHolds
<1> HIDE DEF outer
<1>10. c0_sha256_final(outer) = Sha256Blocks(opad \o InnerBytes)
  <2> DEFINE u == opad \o InnerBytes
  <2>1. u \in Seq(V)
    BY <1>7, Joined
  <2> HIDE DEF u
  <2>2. Holds(outer, u)
    BY <1>9 DEF u
  <2>3. c0_sha256_final(outer) = Sha256Blocks(u)
    BY <2>1, <2>2, FinalIsSha256
  <2> QED
    BY <2>3 DEF u
<1> QED
  BY <1>1, <1>2, <1>8, <1>10

\* A message handed over in one piece, the first of any number.
LEMMA HmacFirst ==
    ASSUME NEW K, NEW key \in Seq(K), Len(key) <= 64, NEW S, NEW a \in Seq(S)
    PROVE  HmacFed(c0_hmac_sha256_update(c0_hmac_sha256_init(key), a), key, a)
<1> DEFINE ctx == c0_hmac_sha256_init(key)
<1>1. HmacFed(ctx, key, <<>>)
  BY HmacStarts
<1> HIDE DEF ctx
<1>2. <<>> \in Seq(S) /\ <<>> \o a = a
  BY EmptyParts
<1>3. HmacFed(c0_hmac_sha256_update(ctx, a), key, <<>> \o a)
  BY <1>1, <1>2, HmacFeeds
<1> QED
  BY <1>2, <1>3 DEF ctx

\* c0_hmac_sha256 computes the tag of RFC 2104 for every key of at most a
\* block and every message: the blocks of both of its hashes are those of the
\* whole of what RFC 2104 hashes.
THEOREM HmacIsRfc ==
    ASSUME NEW K, NEW key \in Seq(K), Len(key) <= 64, NEW S, NEW m \in Seq(S)
    PROVE  c0_hmac_sha256(key, m) = RfcHmac(key, m)
<1> DEFINE ctx == c0_hmac_sha256_update(c0_hmac_sha256_init(key), m)
<1>1. HmacFed(ctx, key, m)
  BY HmacFirst
<1> HIDE DEF ctx
<1>2. c0_hmac_sha256_final(ctx) = RfcHmac(key, m)
  BY <1>1, HmacEnds
<1> QED
  BY <1>2 DEF ctx, c0_hmac_sha256

\* The same for a message in two pieces, cut anywhere.
LEMMA HmacOfTwo ==
    ASSUME NEW K, NEW key \in Seq(K), Len(key) <= 64, NEW S, NEW a \in Seq(S), NEW b \in Seq(S)
    PROVE  c0_hmac_sha256_final(
             c0_hmac_sha256_update(
               c0_hmac_sha256_update(c0_hmac_sha256_init(key), a), b)) = RfcHmac(key, a \o b)
<1> DEFINE ctx == c0_hmac_sha256_update(c0_hmac_sha256_init(key), a)
           then == c0_hmac_sha256_update(ctx, b)
           m == a \o b
<1>1. HmacFed(ctx, key, a)
  BY HmacFirst
<1> HIDE DEF ctx
<1>2. HmacFed(then, key, m) /\ m \in Seq(S)
  BY <1>1, HmacFeeds, Joined
<1> HIDE DEF then, m
<1>3. c0_hmac_sha256_final(then) = RfcHmac(key, m)
  BY <1>2, HmacEnds
<1> QED
  BY <1>3 DEF ctx, then, m

\* c0_hkdf_sha256_extract computes the key of RFC 5869, although it keys HMAC
\* with nothing where the RFC asks for 32 zero bytes when there is no salt.
THEOREM ExtractIsRfc ==
    ASSUME NEW K, NEW salt \in Seq(K), Len(salt) <= 64, NEW S, NEW material \in Seq(S)
    PROVE  c0_hkdf_sha256_extract(salt, material) = RfcExtract(salt, material)
<1>1. c0_hkdf_sha256_extract(salt, material) = RfcHmac(salt, material)
  BY HmacIsRfc DEF c0_hkdf_sha256_extract
<1>2. CASE salt # <<>>
  BY <1>1, <1>2 DEF RfcExtract
<1>3. CASE salt = <<>>
  <2>1. Len(<<>>) = 0 /\ Len(Zeros(32)) = 32 /\ \A k \in 1..32 : Zeros(32)[k] = PadZero
    BY DEF Zeros
  <2>2. RfcBlock(<<>>) = [k \in 1..64 |-> PadZero]
    BY <2>1 DEF RfcBlock, BlockBytes
  <2>3. RfcBlock(Zeros(32)) = [k \in 1..64 |-> PadZero]
    <3> DEFINE y == Zeros(32)
    <3>1. Len(y) = 32 /\ \A k \in 1..64 : k <= 32 => y[k] = PadZero
      BY <2>1
    <3> HIDE DEF y
    <3>2. RfcBlock(y) = [k \in 1..64 |-> IF k <= Len(y) THEN y[k] ELSE PadZero]
      BY DEF RfcBlock, BlockBytes
    <3>3. \A k \in 1..64 : (IF k <= Len(y) THEN y[k] ELSE PadZero) = PadZero
      BY <3>1
    <3> QED
      BY <3>2, <3>3, Zenon DEF y
  <2>4. RfcHmac(<<>>, material) = RfcHmac(Zeros(32), material)
    BY <2>2, <2>3, Zenon DEF RfcHmac, RfcBlock
  <2> QED
    BY <1>1, <1>3, <2>4 DEF RfcExtract
<1> QED
  BY <1>2, <1>3

\* c0_hkdf_sha256_expand computes the first block of output of RFC 5869 for
\* every info string.
THEOREM ExpandIsRfc ==
    ASSUME NEW K, NEW prk \in Seq(K), Len(prk) <= 64, NEW S, NEW info \in Seq(S)
    PROVE  c0_hkdf_sha256_expand(prk, info) = RfcExpand(prk, info)
<1> DEFINE one == <<"counter", 1>>
           counter == <<one>>
           U == S \cup {one}
           first == c0_hmac_sha256_update(c0_hmac_sha256_init(prk), <<>>)
           second == c0_hmac_sha256_update(first, info)
           third == c0_hmac_sha256_update(second, counter)
           m == info \o counter
<1>1. c0_hkdf_sha256_expand(prk, info) = c0_hmac_sha256_final(third)
  BY DEF c0_hkdf_sha256_expand
<1>u. S \subseteq U /\ one \in U
  OBVIOUS
<1> HIDE DEF U, one
<1>2. counter \in Seq(U) /\ <<>> \in Seq(U) /\ info \in Seq(U)
  BY <1>u, Wider
<1>3. Append(info, one) = m
  BY <1>2
<1> HIDE DEF counter
<1>4. HmacFed(first, prk, <<>>)
  BY <1>2, HmacFirst
<1> HIDE DEF first
<1>5. HmacFed(second, prk, <<>> \o info) /\ <<>> \o info = info
  BY <1>2, <1>4, HmacFeeds, EmptyParts
<1> HIDE DEF second
<1>6. HmacFed(third, prk, m) /\ m \in Seq(U)
  BY <1>2, <1>5, HmacFeeds, Joined
<1> HIDE DEF third, m
<1>7. c0_hmac_sha256_final(third) = RfcHmac(prk, m)
  BY <1>6, HmacEnds
<1> QED
  BY <1>1, <1>3, <1>7 DEF RfcExpand, one

-----------------------------------------------------------------------------
(* Ascon-AEAD128 in core/ascon_aead128.c. *)

\* A state of the cipher, its rate, the output numbered k, and what a
\* permutation is looked up by.
IsState(s) == s = [rate |-> s.rate, capacity |-> s.capacity, table |-> s.table]
IsRate(r) == r = [i \in 1..16 |-> r[i]]
OutputRate(k) == [i \in 1..16 |-> {<<"out", k, i>>}]
PermutationInput(s, rounds) == <<rounds, s.rate, s.capacity>>

\* The rate with n bytes XORed in, with n bytes put in place of its own, and
\* with the padding after n bytes.
Xored(rate, bytes, n) ==
    [i \in 1..16 |-> IF i <= n THEN SymDiff(rate[i], bytes[i]) ELSE rate[i]]
Replaced(rate, bytes, n) == [i \in 1..16 |-> IF i <= n THEN bytes[i] ELSE rate[i]]
Marked(rate, n) == [i \in 1..16 |-> IF i = n + 1 THEN SymDiff(rate[i], Mark) ELSE rate[i]]

\* The same in the second word.
XoredHigh(rate, bytes, n) ==
    [i \in 1..16 |-> IF 9 <= i /\ i <= 8 + n THEN SymDiff(rate[i], bytes[i - 8]) ELSE rate[i]]
ReplacedHigh(rate, bytes, n) ==
    [i \in 1..16 |-> IF 9 <= i /\ i <= 8 + n THEN bytes[i - 8] ELSE rate[i]]

\* A state with another rate.
WithRate(s, r) == [rate |-> r, capacity |-> s.capacity, table |-> s.table]

\* XOR with zero and XOR twice.
LEMMA XorZero == ASSUME NEW a PROVE SymDiff(a, {}) = a
  BY DEF SymDiff

\* XOR twice with the same bytes.
LEMMA XorTwice == ASSUME NEW a, NEW b PROVE SymDiff(a, SymDiff(a, b)) = b
  BY DEF SymDiff

\* Bytes that reach the second word, cut in two.
LEMMA Halves ==
    ASSUME NEW U, NEW bytes \in Seq(U), NEW n \in Nat, n = Len(bytes), 8 <= n
    PROVE  /\ DOMAIN SubSeq(bytes, 1, 8) = 1..8
           /\ \A i \in 1..8 : SubSeq(bytes, 1, 8)[i] = bytes[i]
           /\ DOMAIN SubSeq(bytes, 9, n) = 1..(n - 8)
           /\ \A i \in 9..n : SubSeq(bytes, 9, n)[i - 8] = bytes[i]
<1>1. /\ SubSeq(bytes, 1, 8) \in Seq(U) /\ Len(SubSeq(bytes, 1, 8)) = 8
      /\ \A i \in 1..8 : SubSeq(bytes, 1, 8)[i] = bytes[i]
  OBVIOUS
<1>2. /\ SubSeq(bytes, 9, n) \in Seq(U) /\ Len(SubSeq(bytes, 9, n)) = n - 9 + 1
      /\ \A i \in 1..(n - 9 + 1) : SubSeq(bytes, 9, n)[i] = bytes[9 + i - 1]
  BY Slice
<1>3. ASSUME NEW i \in 9..n  PROVE  SubSeq(bytes, 9, n)[i - 8] = bytes[i]
  <2>1. i - 8 \in 1..(n - 9 + 1) /\ 9 + (i - 8) - 1 = i
    OBVIOUS
  <2> QED
    BY <1>2, <2>1
<1> QED
  BY <1>1, <1>2, <1>3

\* The rate of a state, whatever else it holds.
LEMMA Projections ==
    ASSUME NEW s, NEW r
    PROVE  /\ IsState(WithRate(s, r)) /\ WithRate(s, r).rate = r
           /\ WithRate(s, r).capacity = s.capacity /\ WithRate(s, r).table = s.table
           /\ \A q : WithRate(WithRate(s, r), q) = WithRate(s, q)
  BY DEF IsState, WithRate

\* One word of the rate.
LEMMA XorLow ==
    ASSUME NEW s, IsState(s), NEW n \in Nat, n <= 8, NEW bytes, DOMAIN bytes = 1..n
    PROVE  XorLane(s, 0, bytes) = WithRate(s, Xored(s.rate, bytes, n))
<1> DEFINE r == [i \in 1..16 |->
                   LET k == i - 8 * 0
                   IN  IF k \in DOMAIN bytes THEN SymDiff(s.rate[i], bytes[k]) ELSE s.rate[i]]
<1>1. XorLane(s, 0, bytes) = [s EXCEPT !.rate = r]
  BY DEF XorLane, RateBytes, LaneBytes
<1>2. ASSUME NEW i \in 1..16
      PROVE  r[i] = IF i <= n THEN SymDiff(s.rate[i], bytes[i]) ELSE s.rate[i]
  <2>1. i - 8 * 0 = i
    OBVIOUS
  <2>2. (i \in DOMAIN bytes) <=> i <= n
    OBVIOUS
  <2> QED
    BY <2>1, <2>2
<1>3. IsRate(r)
  BY DEF IsRate
<1> HIDE DEF r
<1>4. [s EXCEPT !.rate = r] = WithRate(s, r)
  BY DEF IsState, WithRate
<1>5. r = Xored(s.rate, bytes, n)
  BY <1>2, <1>3, Zenon DEF Xored, IsRate
<1> QED
  BY <1>1, <1>4, <1>5

\* The same in the second word.
LEMMA XorHigh ==
    ASSUME NEW s, IsState(s), NEW n \in Nat, n <= 8, NEW bytes, DOMAIN bytes = 1..n
    PROVE  XorLane(s, 1, bytes) = WithRate(s, XoredHigh(s.rate, bytes, n))
<1> DEFINE r == [i \in 1..16 |->
                   LET k == i - 8 * 1
                   IN  IF k \in DOMAIN bytes THEN SymDiff(s.rate[i], bytes[k]) ELSE s.rate[i]]
<1>1. XorLane(s, 1, bytes) = [s EXCEPT !.rate = r]
  BY DEF XorLane, RateBytes, LaneBytes
<1>2. ASSUME NEW i \in 1..16
      PROVE  r[i] = IF 9 <= i /\ i <= 8 + n THEN SymDiff(s.rate[i], bytes[i - 8]) ELSE s.rate[i]
  <2>1. i - 8 * 1 = i - 8
    OBVIOUS
  <2>2. (i - 8 \in DOMAIN bytes) <=> 9 <= i /\ i <= 8 + n
    OBVIOUS
  <2> QED
    BY <2>1, <2>2
<1>3. IsRate(r)
  BY DEF IsRate
<1> HIDE DEF r
<1>4. [s EXCEPT !.rate = r] = WithRate(s, r)
  BY DEF IsState, WithRate
<1>5. r = XoredHigh(s.rate, bytes, n)
  BY <1>2, <1>3, Zenon DEF XoredHigh, IsRate
<1> QED
  BY <1>1, <1>4, <1>5

\* Bytes put in place of those of a word.
LEMMA SetLow ==
    ASSUME NEW s, IsState(s), NEW n \in Nat, n <= 8, NEW bytes, DOMAIN bytes = 1..n
    PROVE  SetLane(s, 0, bytes) = WithRate(s, Replaced(s.rate, bytes, n))
<1> DEFINE r == [i \in 1..16 |->
                   LET k == i - 8 * 0
                   IN  IF k \in DOMAIN bytes THEN bytes[k] ELSE s.rate[i]]
<1>1. SetLane(s, 0, bytes) = [s EXCEPT !.rate = r]
  BY DEF SetLane, RateBytes, LaneBytes
<1>2. ASSUME NEW i \in 1..16
      PROVE  r[i] = IF i <= n THEN bytes[i] ELSE s.rate[i]
  <2>1. i - 8 * 0 = i
    OBVIOUS
  <2>2. (i \in DOMAIN bytes) <=> i <= n
    OBVIOUS
  <2> QED
    BY <2>1, <2>2
<1>3. IsRate(r)
  BY DEF IsRate
<1> HIDE DEF r
<1>4. [s EXCEPT !.rate = r] = WithRate(s, r)
  BY DEF IsState, WithRate
<1>5. r = Replaced(s.rate, bytes, n)
  BY <1>2, <1>3, Zenon DEF Replaced, IsRate
<1> QED
  BY <1>1, <1>4, <1>5

\* The same in the second word.
LEMMA SetHigh ==
    ASSUME NEW s, IsState(s), NEW n \in Nat, n <= 8, NEW bytes, DOMAIN bytes = 1..n
    PROVE  SetLane(s, 1, bytes) = WithRate(s, ReplacedHigh(s.rate, bytes, n))
<1> DEFINE r == [i \in 1..16 |->
                   LET k == i - 8 * 1
                   IN  IF k \in DOMAIN bytes THEN bytes[k] ELSE s.rate[i]]
<1>1. SetLane(s, 1, bytes) = [s EXCEPT !.rate = r]
  BY DEF SetLane, RateBytes, LaneBytes
<1>2. ASSUME NEW i \in 1..16
      PROVE  r[i] = IF 9 <= i /\ i <= 8 + n THEN bytes[i - 8] ELSE s.rate[i]
  <2>1. i - 8 * 1 = i - 8
    OBVIOUS
  <2>2. (i - 8 \in DOMAIN bytes) <=> 9 <= i /\ i <= 8 + n
    OBVIOUS
  <2> QED
    BY <2>1, <2>2
<1>3. IsRate(r)
  BY DEF IsRate
<1> HIDE DEF r
<1>4. [s EXCEPT !.rate = r] = WithRate(s, r)
  BY DEF IsState, WithRate
<1>5. r = ReplacedHigh(s.rate, bytes, n)
  BY <1>2, <1>3, Zenon DEF ReplacedHigh, IsRate
<1> QED
  BY <1>1, <1>4, <1>5

\* Both words.
LEMMA XorWords ==
    ASSUME NEW q, NEW n \in Nat, 8 <= n, n <= 16, NEW bytes, NEW low, NEW high,
           \A i \in 1..8 : low[i] = bytes[i], \A i \in 9..n : high[i - 8] = bytes[i]
    PROVE  XoredHigh(Xored(q, low, 8), high, n - 8) = Xored(q, bytes, n)
<1> DEFINE p == Xored(q, low, 8)
           r == XoredHigh(p, high, n - 8)
<1>1. ASSUME NEW i \in 1..16
      PROVE  p[i] = IF i <= 8 THEN SymDiff(q[i], low[i]) ELSE q[i]
  BY DEF Xored
<1>2. ASSUME NEW i \in 1..16
      PROVE  r[i] = IF 9 <= i /\ i <= 8 + (n - 8) THEN SymDiff(p[i], high[i - 8]) ELSE p[i]
  BY DEF XoredHigh
<1>3. IsRate(r)
  BY DEF XoredHigh, IsRate
<1> HIDE DEF p, r
<1>4. ASSUME NEW i \in 1..16
      PROVE  r[i] = IF i <= n THEN SymDiff(q[i], bytes[i]) ELSE q[i]
  <2>1. CASE i <= 8
    <3>1. low[i] = bytes[i] /\ ~(9 <= i) /\ i <= n
      BY <2>1
    <3> QED
      BY <1>1, <1>2, <2>1, <3>1
  <2>2. CASE 9 <= i /\ i <= n
    <3>1. high[i - 8] = bytes[i] /\ ~(i <= 8) /\ i <= 8 + (n - 8)
      BY <2>2
    <3> QED
      BY <1>1, <1>2, <2>2, <3>1
  <2>3. CASE n < i
    <3>1. ~(i <= 8) /\ ~(i <= n) /\ ~(i <= 8 + (n - 8))
      BY <2>3
    <3> QED
      BY <1>1, <1>2, <3>1
  <2> QED
    BY <2>1, <2>2, <2>3
<1>5. r = Xored(q, bytes, n)
  BY <1>3, <1>4, Zenon DEF Xored, IsRate
<1> QED
  BY <1>5 DEF r, p

\* A block or a last part, over one word or two.
LEMMA PutXor ==
    ASSUME NEW s, IsState(s), NEW U, NEW bytes \in Seq(U), NEW n \in Nat, n = Len(bytes), n <= 16
    PROVE  Put(s, bytes, "xor") = WithRate(s, Xored(s.rate, bytes, n))
<1>1. CASE n < 8
  <2>1. Put(s, bytes, "xor") = XorLane(s, 0, bytes)
    BY <1>1 DEF Put, PutLane, LaneBytes
  <2>2. DOMAIN bytes = 1..n /\ n <= 8
    BY <1>1
  <2> QED
    BY <2>1, <2>2, XorLow
<1>2. CASE 8 <= n
  <2> DEFINE low == SubSeq(bytes, 1, 8)
             high == SubSeq(bytes, 9, n)
             t == XorLane(s, 0, low)
             p == Xored(s.rate, low, 8)
  <2>1. Put(s, bytes, "xor") = XorLane(t, 1, high)
    BY <1>2 DEF Put, PutLane, LaneBytes
  <2>2. /\ DOMAIN low = 1..8 /\ \A i \in 1..8 : low[i] = bytes[i]
        /\ DOMAIN high = 1..(n - 8) /\ \A i \in 9..n : high[i - 8] = bytes[i]
        /\ n - 8 \in Nat /\ n - 8 <= 8
    BY <1>2, Halves
  <2> HIDE DEF low, high
  <2>3. t = WithRate(s, p)
    <3> DEFINE e == 8
    <3>1. e \in Nat /\ e <= 8 /\ DOMAIN low = 1..e
      BY <2>2
    <3>2. t = XorLane(s, 0, low) /\ p = Xored(s.rate, low, e)
      OBVIOUS
    <3> HIDE DEF e, t, p
    <3> QED
      BY <3>1, <3>2, XorLow
  <2> HIDE DEF t
  <2>4. XoredHigh(p, high, n - 8) = Xored(s.rate, bytes, n)
    <3>1. 8 <= n /\ n <= 16
      BY <1>2
    <3>2. (\A i \in 1..8 : low[i] = bytes[i]) /\ \A i \in 9..n : high[i - 8] = bytes[i]
      BY <2>2
    <3> QED
      BY <3>1, <3>2, XorWords, SMTT(60)
  <2> HIDE DEF p
  <2>5. IsState(t) /\ t.rate = p
    BY <2>3, Projections
  <2>6. XorLane(t, 1, high) = WithRate(t, XoredHigh(p, high, n - 8))
    BY <2>2, <2>5, XorHigh
  <2> QED
    BY <2>1, <2>3, <2>4, <2>6, Projections
<1> QED
  BY <1>1, <1>2

\* Both words.
LEMMA SetWords ==
    ASSUME NEW q, NEW n \in Nat, 8 <= n, n <= 16, NEW bytes, NEW low, NEW high,
           \A i \in 1..8 : low[i] = bytes[i], \A i \in 9..n : high[i - 8] = bytes[i]
    PROVE  ReplacedHigh(Replaced(q, low, 8), high, n - 8) = Replaced(q, bytes, n)
<1> DEFINE p == Replaced(q, low, 8)
           r == ReplacedHigh(p, high, n - 8)
<1>1. ASSUME NEW i \in 1..16
      PROVE  p[i] = IF i <= 8 THEN low[i] ELSE q[i]
  BY DEF Replaced
<1>2. ASSUME NEW i \in 1..16
      PROVE  r[i] = IF 9 <= i /\ i <= 8 + (n - 8) THEN high[i - 8] ELSE p[i]
  BY DEF ReplacedHigh
<1>3. IsRate(r)
  BY DEF ReplacedHigh, IsRate
<1> HIDE DEF p, r
<1>4. ASSUME NEW i \in 1..16
      PROVE  r[i] = IF i <= n THEN bytes[i] ELSE q[i]
  <2>1. CASE i <= 8
    <3>1. low[i] = bytes[i] /\ ~(9 <= i) /\ i <= n
      BY <2>1
    <3> QED
      BY <1>1, <1>2, <2>1, <3>1
  <2>2. CASE 9 <= i /\ i <= n
    <3>1. high[i - 8] = bytes[i] /\ ~(i <= 8) /\ i <= 8 + (n - 8)
      BY <2>2
    <3> QED
      BY <1>1, <1>2, <2>2, <3>1
  <2>3. CASE n < i
    <3>1. ~(i <= 8) /\ ~(i <= n) /\ ~(i <= 8 + (n - 8))
      BY <2>3
    <3> QED
      BY <1>1, <1>2, <3>1
  <2> QED
    BY <2>1, <2>2, <2>3
<1>5. r = Replaced(q, bytes, n)
  BY <1>3, <1>4, Zenon DEF Replaced, IsRate
<1> QED
  BY <1>5 DEF r, p

\* A block or a last part, put in place.
LEMMA PutSet ==
    ASSUME NEW s, IsState(s), NEW U, NEW bytes \in Seq(U), NEW n \in Nat, n = Len(bytes), n <= 16
    PROVE  Put(s, bytes, "set") = WithRate(s, Replaced(s.rate, bytes, n))
<1>1. CASE n < 8
  <2>1. Put(s, bytes, "set") = SetLane(s, 0, bytes)
    BY <1>1 DEF Put, PutLane, LaneBytes
  <2>2. DOMAIN bytes = 1..n /\ n <= 8
    BY <1>1
  <2> QED
    BY <2>1, <2>2, SetLow
<1>2. CASE 8 <= n
  <2> DEFINE low == SubSeq(bytes, 1, 8)
             high == SubSeq(bytes, 9, n)
             t == SetLane(s, 0, low)
             p == Replaced(s.rate, low, 8)
  <2>1. Put(s, bytes, "set") = SetLane(t, 1, high)
    BY <1>2 DEF Put, PutLane, LaneBytes
  <2>2. /\ DOMAIN low = 1..8 /\ \A i \in 1..8 : low[i] = bytes[i]
        /\ DOMAIN high = 1..(n - 8) /\ \A i \in 9..n : high[i - 8] = bytes[i]
        /\ n - 8 \in Nat /\ n - 8 <= 8
    BY <1>2, Halves
  <2> HIDE DEF low, high
  <2>3. t = WithRate(s, p)
    <3> DEFINE e == 8
    <3>1. e \in Nat /\ e <= 8 /\ DOMAIN low = 1..e
      BY <2>2
    <3>2. t = SetLane(s, 0, low) /\ p = Replaced(s.rate, low, e)
      OBVIOUS
    <3> HIDE DEF e, t, p
    <3> QED
      BY <3>1, <3>2, SetLow
  <2> HIDE DEF t
  <2>4. ReplacedHigh(p, high, n - 8) = Replaced(s.rate, bytes, n)
    <3>1. 8 <= n /\ n <= 16
      BY <1>2
    <3>2. (\A i \in 1..8 : low[i] = bytes[i]) /\ \A i \in 9..n : high[i - 8] = bytes[i]
      BY <2>2
    <3> QED
      BY <3>1, <3>2, SetWords, SMTT(60)
  <2> HIDE DEF p
  <2>5. IsState(t) /\ t.rate = p
    BY <2>3, Projections
  <2>6. SetLane(t, 1, high) = WithRate(t, ReplacedHigh(p, high, n - 8))
    BY <2>2, <2>5, SetHigh
  <2> QED
    BY <2>1, <2>3, <2>4, <2>6, Projections
<1> QED
  BY <1>1, <1>2

\* The padding, in one word or the other.
LEMMA PadIs ==
    ASSUME NEW s, IsState(s), NEW n \in Nat, n <= 15
    PROVE  Pad(s, n) = WithRate(s, Marked(s.rate, n))
<1>1. CASE n < 8
  <2> DEFINE bytes == [k \in 1..(n + 1) |-> IF k = n + 1 THEN Mark ELSE {}]
             r == Xored(s.rate, bytes, n + 1)
  <2>1. Pad(s, n) = XorLane(s, 0, bytes)
    BY <1>1 DEF Pad, LaneBytes
  <2>2. /\ DOMAIN bytes = 1..(n + 1) /\ bytes[n + 1] = Mark
        /\ \A k \in 1..(n + 1) : k # n + 1 => bytes[k] = {}
    OBVIOUS
  <2>3. n + 1 \in Nat /\ n + 1 <= 8
    BY <1>1
  <2> HIDE DEF bytes
  <2>4. XorLane(s, 0, bytes) = WithRate(s, r)
    BY <2>2, <2>3, XorLow
  <2>5. ASSUME NEW i \in 1..16
        PROVE  r[i] = IF i <= n + 1 THEN SymDiff(s.rate[i], bytes[i]) ELSE s.rate[i]
    BY DEF Xored
  <2>6. IsRate(r)
    BY DEF Xored, IsRate
  <2> HIDE DEF r
  <2>7. ASSUME NEW i \in 1..16
        PROVE  r[i] = IF i = n + 1 THEN SymDiff(s.rate[i], Mark) ELSE s.rate[i]
    <3>1. CASE i < n + 1
      <4>1. bytes[i] = {} /\ i <= n + 1 /\ i # n + 1
        BY <2>2, <3>1
      <4> QED
        BY <2>5, <4>1, XorZero
    <3>2. CASE i = n + 1
      BY <2>2, <2>5, <3>2
    <3>3. CASE n + 1 < i
      BY <2>5, <3>3
    <3> QED
      BY <3>1, <3>2, <3>3
  <2>8. r = Marked(s.rate, n)
    BY <2>6, <2>7, Zenon DEF Marked, IsRate
  <2> QED
    BY <2>1, <2>4, <2>8
<1>2. CASE 8 <= n
  <2> DEFINE m == n - 8
             bytes == [k \in 1..(m + 1) |-> IF k = m + 1 THEN Mark ELSE {}]
             r == XoredHigh(s.rate, bytes, m + 1)
  <2>1. Pad(s, n) = XorLane(s, 1, bytes)
    BY <1>2 DEF Pad, LaneBytes
  <2>2. m \in Nat /\ n = m + 8 /\ m + 1 \in Nat /\ m + 1 <= 8
    BY <1>2
  <2> HIDE DEF m
  <2>3. /\ DOMAIN bytes = 1..(m + 1) /\ bytes[m + 1] = Mark
        /\ \A k \in 1..(m + 1) : k # m + 1 => bytes[k] = {}
    BY <2>2
  <2> HIDE DEF bytes
  <2>4. XorLane(s, 1, bytes) = WithRate(s, r)
    BY <2>2, <2>3, XorHigh
  <2>5. ASSUME NEW i \in 1..16
        PROVE  r[i] = IF 9 <= i /\ i <= 8 + (m + 1) THEN SymDiff(s.rate[i], bytes[i - 8])
                      ELSE s.rate[i]
    BY DEF XoredHigh
  <2>6. IsRate(r)
    BY DEF XoredHigh, IsRate
  <2> HIDE DEF r
  <2>7. ASSUME NEW i \in 1..16
        PROVE  r[i] = IF i = n + 1 THEN SymDiff(s.rate[i], Mark) ELSE s.rate[i]
    <3>1. CASE 9 <= i /\ i < n + 1
      <4>1. bytes[i - 8] = {} /\ i <= 8 + (m + 1) /\ i # n + 1
        BY <2>2, <2>3, <3>1
      <4> QED
        BY <2>5, <3>1, <4>1, XorZero
    <3>2. CASE i = n + 1
      <4>1. bytes[i - 8] = Mark /\ 9 <= i /\ i <= 8 + (m + 1)
        BY <2>2, <2>3, <3>2
      <4> QED
        BY <2>5, <3>2, <4>1
    <3>3. CASE i <= 8 \/ n + 1 < i
      <4>1. ~(9 <= i /\ i <= 8 + (m + 1)) /\ i # n + 1
        BY <2>2, <3>3
      <4> QED
        BY <2>5, <4>1
    <3> QED
      BY <2>2, <3>1, <3>2, <3>3
  <2>8. r = Marked(s.rate, n)
    BY <2>6, <2>7, Zenon DEF Marked, IsRate
  <2> QED
    BY <2>1, <2>4, <2>8
<1> QED
  BY <1>1, <1>2

-----------------------------------------------------------------------------
(* The ideal permutation: a table of inputs, each of which names the output *)
(* before it, so that no input occurs twice.                               *)

IsTable(table) == \E V : table \in Seq(V)

\* What a permutation with output number k leaves.
Permuted(k, table) ==
    [rate |-> OutputRate(k), capacity |-> {<<"out", k>>}, table |-> table]

\* The capacity names output m and no other; 0 when it names none.
Carries(capacity, m) ==
    m \in Nat /\ \A k \in Nat : k # 0 => (<<"out", k>> \in capacity <=> k = m)

\* Every input of the table was met right after the output before it.
Chained(table) ==
    IsTable(table) /\ \A k \in 1..Len(table) : Carries(table[k][3], k - 1)

\* A table that has grown, and a state whose last output is none of the
\* table's.
Extends(grown, table) ==
    /\ IsTable(grown) /\ Len(table) <= Len(grown)
    /\ \A k \in 1..Len(table) : grown[k] = table[k]
Strayed(s, table) ==
    /\ Extends(s.table, table)
    /\ \E m \in Nat : Len(table) < m /\ Carries(s.capacity, m)

\* A table and one more input.
LEMMA TableFacts ==
    ASSUME NEW table, IsTable(table), NEW x
    PROVE  /\ Len(table) \in Nat /\ DOMAIN table = 1..Len(table)
           /\ IsTable(Append(table, x)) /\ Len(Append(table, x)) = Len(table) + 1
           /\ Append(table, x)[Len(table) + 1] = x
           /\ \A k \in 1..Len(table) : Append(table, x)[k] = table[k]
<1>1. PICK V : table \in Seq(V)
  BY DEF IsTable
<1>2. table \in Seq(V \cup {x})
  BY <1>1
<1>3. Append(table, x) \in Seq(V \cup {x})
  BY <1>2
<1>4. IsTable(Append(table, x))
  BY <1>3 DEF IsTable
<1> QED
  BY <1>1, <1>2, <1>4

\* The table before the first permutation.
LEMMA EmptyTable == Chained(<<>>)
<1>1. <<>> \in Seq({})
  OBVIOUS
<1>2. IsTable(<<>>)
  BY <1>1 DEF IsTable
<1> QED
  BY <1>2 DEF Chained

\* The smallest of some indices.
LEMMA LeastIndex ==
    ASSUME NEW S \in SUBSET Nat, S # {}
    PROVE  Min(S) \in S
<1>1. PICK x \in S : \A y \in S : ~(<<y, x>> \in OpToRel(<, Nat))
  BY NatLessThanWellFounded, WFMin
<1>2. ASSUME NEW y \in S  PROVE  x <= y
  <2>1. x \in Nat /\ y \in Nat
    OBVIOUS
  <2>2. ASSUME y < x  PROVE  <<y, x>> \in OpToRel(<, Nat)
    BY <2>1, <2>2 DEF OpToRel
  <2>3. ~(y < x)
    BY <1>1, <2>2, Zenon
  <2> QED
    BY <2>1, <2>3
<1> QED
  BY <1>2 DEF Min

\* A permutation by the inputs met so far.
LEMMA PermuteUnfolds ==
    ASSUME NEW s, NEW rounds
    PROVE  LET seen == {k \in DOMAIN s.table : s.table[k] = PermutationInput(s, rounds)}
               k == IF seen = {} THEN Len(s.table) + 1 ELSE Min(seen)
           IN  Permute(s, rounds)
                 = Permuted(k, IF seen = {} THEN Append(s.table, PermutationInput(s, rounds))
                               ELSE s.table)
  BY DEF Permute, Permuted, OutputRate, PermutationInput, RateBytes

\* An input not met yet gets the next number.
LEMMA PermuteNew ==
    ASSUME NEW s, NEW rounds, IsTable(s.table),
           \A k \in 1..Len(s.table) : s.table[k] # PermutationInput(s, rounds)
    PROVE  Permute(s, rounds)
             = Permuted(Len(s.table) + 1, Append(s.table, PermutationInput(s, rounds)))
<1> DEFINE seen == {k \in DOMAIN s.table : s.table[k] = PermutationInput(s, rounds)}
<1>1. seen = {}
  BY TableFacts
<1> QED
  BY <1>1, PermuteUnfolds

\* An input met once gets its number.
LEMMA PermuteSeen ==
    ASSUME NEW s, NEW rounds, IsTable(s.table), NEW k \in 1..Len(s.table),
           s.table[k] = PermutationInput(s, rounds),
           \A j \in 1..Len(s.table) : s.table[j] = PermutationInput(s, rounds) => j = k
    PROVE  Permute(s, rounds) = Permuted(k, s.table)
<1> DEFINE seen == {j \in DOMAIN s.table : s.table[j] = PermutationInput(s, rounds)}
<1>1. seen = {k}
  BY TableFacts
<1>2. Len(s.table) \in Nat
  BY TableFacts
<1>3. Min(seen) = k /\ seen # {}
  BY <1>1, <1>2, LeastIndex
<1> QED
  BY <1>3, PermuteUnfolds

\* In general the output is that of the same input, or a new one.
LEMMA PermuteAny ==
    ASSUME NEW s, NEW rounds, IsTable(s.table)
    PROVE  \/ \E k \in 1..Len(s.table) :
                /\ s.table[k] = PermutationInput(s, rounds)
                /\ Permute(s, rounds) = Permuted(k, s.table)
           \/ Permute(s, rounds)
                = Permuted(Len(s.table) + 1, Append(s.table, PermutationInput(s, rounds)))
<1> DEFINE seen == {k \in DOMAIN s.table : s.table[k] = PermutationInput(s, rounds)}
<1>1. CASE seen = {}
  BY <1>1, PermuteUnfolds
<1>2. CASE seen # {}
  <2>1. seen \in SUBSET (1..Len(s.table)) /\ Len(s.table) \in Nat
    BY TableFacts
  <2>2. Min(seen) \in seen
    <3>1. seen \in SUBSET Nat
      BY <2>1
    <3> HIDE DEF seen
    <3> QED
      BY <1>2, <3>1, LeastIndex
  <2>3. Permute(s, rounds) = Permuted(Min(seen), s.table)
    BY <1>2, PermuteUnfolds
  <2> QED
    BY <2>1, <2>2, <2>3
<1> QED
  BY <1>1, <1>2

\* What a state carries after a permutation, and what XOR leaves it.
LEMMA CarriesOutput ==
    ASSUME NEW k \in Nat, k # 0
    PROVE  Carries({<<"out", k>>}, k)
  BY DEF Carries

\* XOR of other terms keeps the output that a capacity carries.
LEMMA CarriesXor ==
    ASSUME NEW c, NEW m, Carries(c, m), NEW d, \A k \in Nat : <<"out", k>> \notin d
    PROVE  Carries(SymDiff(c, d), m)
  BY DEF Carries, SymDiff

\* The domain bit and the key words are no outputs.
LEMMA NoOutputs ==
    /\ \A k \in Nat : <<"out", k>> \notin {<<"domain">>}
    /\ \A f, key : \A k \in Nat : <<"out", k>> \notin KeyWords(f, key)
<1>1. \A k : <<"out", k>> # <<"domain">>
  OBVIOUS
<1>2. \A k, a, b, c : <<"out", k>> # <<"key", a, b, c>>
  OBVIOUS
<1> QED
  BY <1>1, <1>2 DEF KeyWords

\* Two capacities that carry different outputs differ.
LEMMA CarriesDiffer ==
    ASSUME NEW c, NEW m, Carries(c, m), NEW d, NEW n, Carries(d, n), m # n
    PROVE  c # d
<1>1. m \in Nat /\ n \in Nat /\ (m # 0 \/ n # 0)
  BY DEF Carries
<1>2. CASE m # 0
  <2>1. <<"out", m>> \in c /\ <<"out", m>> \notin d
    BY <1>1, <1>2 DEF Carries
  <2> QED
    BY <2>1
<1>3. CASE n # 0
  <2>1. <<"out", n>> \in d /\ <<"out", n>> \notin c
    BY <1>1, <1>3 DEF Carries
  <2> QED
    BY <2>1
<1> QED
  BY <1>1, <1>2, <1>3

\* A state meets at most the input recorded after its output.
LEMMA InputsDiffer ==
    ASSUME NEW table, Chained(table), NEW k \in 1..Len(table), NEW s, NEW rounds,
           NEW m, Carries(s.capacity, m), k # m + 1
    PROVE  table[k] # PermutationInput(s, rounds)
<1>1. Carries(table[k][3], k - 1) /\ k - 1 # m
  <2>1. m \in Nat /\ Len(table) \in Nat
    BY TableFacts DEF Carries, Chained
  <2> QED
    BY <2>1 DEF Chained
<1>2. table[k][3] # s.capacity
  BY <1>1, CarriesDiffer
<1> QED
  BY <1>2 DEF PermutationInput

\* A permutation of a state that goes on where the table ends.
LEMMA FreshStep ==
    ASSUME NEW s, NEW rounds, Chained(s.table), Carries(s.capacity, Len(s.table))
    PROVE  /\ Permute(s, rounds)
                = Permuted(Len(s.table) + 1, Append(s.table, PermutationInput(s, rounds)))
           /\ Chained(Append(s.table, PermutationInput(s, rounds)))
<1> DEFINE n == Len(s.table)
           x == PermutationInput(s, rounds)
<1>1. IsTable(s.table) /\ n \in Nat
  BY TableFacts DEF Chained
<1>2. ASSUME NEW k \in 1..n  PROVE  s.table[k] # x
  <2>1. k # n + 1
    BY <1>1
  <2> QED
    BY <2>1, InputsDiffer
<1>3. Permute(s, rounds) = Permuted(n + 1, Append(s.table, x))
  BY <1>1, <1>2, PermuteNew
<1>4. x[3] = s.capacity
  BY DEF PermutationInput
<1> HIDE DEF x
<1>5. /\ IsTable(Append(s.table, x)) /\ Len(Append(s.table, x)) = n + 1
      /\ Append(s.table, x)[n + 1] = x
      /\ \A k \in 1..n : Append(s.table, x)[k] = s.table[k]
  BY <1>1, TableFacts
<1>6. ASSUME NEW k \in 1..(n + 1)
      PROVE  Carries(Append(s.table, x)[k][3], k - 1)
  <2>1. CASE k = n + 1
    <3>1. k - 1 = n
      BY <1>1, <2>1
    <3> QED
      BY <1>4, <1>5, <2>1, <3>1
  <2>2. CASE k \in 1..n
    BY <1>5, <2>2 DEF Chained
  <2> QED
    BY <1>1, <2>1, <2>2
<1>7. Chained(Append(s.table, x))
  BY <1>5, <1>6 DEF Chained
<1> QED
  BY <1>3, <1>7 DEF x, n

\* One of a state that meets the input recorded after its output.
LEMMA ReplayStep ==
    ASSUME NEW s, NEW rounds, Chained(s.table), NEW m, Carries(s.capacity, m),
           m + 1 <= Len(s.table), s.table[m + 1] = PermutationInput(s, rounds)
    PROVE  Permute(s, rounds) = Permuted(m + 1, s.table)
<1>1. IsTable(s.table) /\ Len(s.table) \in Nat /\ m \in Nat
  BY TableFacts DEF Chained, Carries
<1>2. m + 1 \in 1..Len(s.table)
  BY <1>1
<1>3. \A j \in 1..Len(s.table) : s.table[j] = PermutationInput(s, rounds) => j = m + 1
  BY InputsDiffer
<1> QED
  BY <1>1, <1>2, <1>3, PermuteSeen

\* One of a state that does not: it strays from the table.
LEMMA StrayStart ==
    ASSUME NEW s, NEW rounds, NEW table, IsTable(table), Extends(s.table, table),
           \A k \in 1..Len(table) : table[k] # PermutationInput(s, rounds)
    PROVE  Strayed(Permute(s, rounds), table)
<1> DEFINE x == PermutationInput(s, rounds)
           n == Len(table)
<1>1. /\ IsTable(s.table) /\ n <= Len(s.table) /\ n \in Nat /\ Len(s.table) \in Nat
      /\ \A k \in 1..n : s.table[k] = table[k]
  BY TableFacts DEF Extends
<1>2. CASE \E k \in 1..Len(s.table) :
             s.table[k] = x /\ Permute(s, rounds) = Permuted(k, s.table)
  <2>1. PICK k \in 1..Len(s.table) :
             s.table[k] = x /\ Permute(s, rounds) = Permuted(k, s.table)
    BY <1>2
  <2>2. n < k /\ k \in Nat /\ k # 0
    BY <1>1, <2>1
  <2>3. Carries({<<"out", k>>}, k)
    BY <2>2, CarriesOutput
  <2> QED
    BY <2>1, <2>2, <2>3 DEF Strayed, Permuted
<1>3. CASE Permute(s, rounds) = Permuted(Len(s.table) + 1, Append(s.table, x))
  <2> DEFINE k == Len(s.table) + 1
  <2>1. n < k /\ k \in Nat /\ k # 0
    BY <1>1
  <2>2. Carries({<<"out", k>>}, k)
    BY <2>1, CarriesOutput
  <2>3. /\ IsTable(Append(s.table, x)) /\ Len(Append(s.table, x)) = k
        /\ \A j \in 1..Len(s.table) : Append(s.table, x)[j] = s.table[j]
    BY <1>1, TableFacts
  <2>4. Extends(Append(s.table, x), table)
    BY <1>1, <2>3 DEF Extends
  <2> HIDE DEF k, x
  <2> QED
    BY <1>3, <2>1, <2>2, <2>4 DEF Strayed, Permuted, k
<1> QED
  BY <1>1, <1>2, <1>3, PermuteAny

\* A state that meets another input than the recorded one strays.
LEMMA LeaveStep ==
    ASSUME NEW s, NEW rounds, NEW table, Chained(table), Extends(s.table, table),
           NEW m, Carries(s.capacity, m),
           m + 1 <= Len(table) => table[m + 1] # PermutationInput(s, rounds)
    PROVE  Strayed(Permute(s, rounds), table)
<1>1. IsTable(table) /\ Len(table) \in Nat /\ m \in Nat
  BY TableFacts DEF Chained, Carries
<1>2. ASSUME NEW k \in 1..Len(table)
      PROVE  table[k] # PermutationInput(s, rounds)
  <2>1. CASE k = m + 1
    BY <1>1, <2>1
  <2> QED
    BY <2>1, InputsDiffer
<1> QED
  BY <1>1, <1>2, StrayStart

\* A strayed state never comes back.
LEMMA StrayOn ==
    ASSUME NEW s, NEW rounds, NEW table, Chained(table), Strayed(s, table)
    PROVE  Strayed(Permute(s, rounds), table)
<1>1. PICK m \in Nat : Len(table) < m /\ Carries(s.capacity, m)
  BY DEF Strayed
<1>2. IsTable(table) /\ Len(table) \in Nat
  BY TableFacts DEF Chained
<1>3. ~(m + 1 <= Len(table))
  BY <1>1, <1>2
<1> QED
  BY <1>1, <1>3, LeaveStep DEF Strayed

-----------------------------------------------------------------------------
(* The loops over blocks. *)

\* Induction up to a bound.
LEMMA UpTo ==
    ASSUME NEW q \in Nat, NEW S, 0 \in S, \A j \in 0..(q - 1) : j \in S => j + 1 \in S
    PROVE  \A j \in 0..q : j \in S
<1> DEFINE failing == {j \in 0..q : j \notin S}
<1> SUFFICES ASSUME failing # {}  PROVE FALSE
  OBVIOUS
<1>1. failing \in SUBSET Nat
  OBVIOUS
<1>2. Min(failing) \in failing
  <2> HIDE DEF failing
  <2> QED
    BY <1>1, LeastIndex
<1>3. PICK x \in failing : \A y \in failing : ~(<<y, x>> \in OpToRel(<, Nat))
  <2> HIDE DEF failing
  <2> QED
    BY <1>1, NatLessThanWellFounded, WFMin
<1>4. x \in 0..q /\ x \notin S /\ x # 0
  OBVIOUS
<1>5. x - 1 \in 0..(q - 1) /\ x - 1 \in 0..q
  BY <1>4
<1>6. <<x - 1, x>> \in OpToRel(<, Nat)
  <2>1. x - 1 \in Nat /\ x \in Nat /\ x - 1 < x
    BY <1>4, <1>5
  <2> QED
    BY <2>1 DEF OpToRel
<1>7. x - 1 \in S
  BY <1>3, <1>5, <1>6, Zenon
<1>8. (x - 1) + 1 = x
  BY <1>4
<1> QED
  BY <1>4, <1>5, <1>7, <1>8

\* The loop is a recursion on the number of blocks.
LEMMA OverBlocksUnfolds ==
    ASSUME NEW s, NEW bytes, Wholes(bytes) \in Nat, NEW how, NEW met,
           met = OverBlocks(s, bytes, how)
    PROVE  met = [j \in 0..Wholes(bytes) |->
                    IF j = 0 THEN s
                    ELSE Permute(Put(met[j - 1], RateBlock(bytes, j), how), 8)]
<1> DEFINE after(t, j) == Permute(Put(t, RateBlock(bytes, j), how), 8)
           Good(f, n) == f = [j \in 0..n |-> IF j = 0 THEN s ELSE after(f[j - 1], j)]
           S == {n \in Nat : \E f : Good(f, n)}
           q == Wholes(bytes)
<1> HIDE DEF after
<1>1. 0 \in S
  <2> DEFINE f == [j \in 0..0 |-> s]
  <2>1. f = [j \in 0..0 |-> IF j = 0 THEN s ELSE after(f[j - 1], j)]
    OBVIOUS
  <2> QED
    BY <2>1
<1>2. ASSUME NEW n \in 0..(q - 1), n \in S  PROVE n + 1 \in S
  <2>1. PICK f : f = [j \in 0..n |-> IF j = 0 THEN s ELSE after(f[j - 1], j)]
    BY <1>2
  <2> DEFINE g == [j \in 0..(n + 1) |-> IF j <= n THEN f[j] ELSE after(f[n], n + 1)]
  <2>2. n \in Nat /\ n + 1 \in Nat
    OBVIOUS
  <2>3. ASSUME NEW j \in 0..(n + 1)
        PROVE  g[j] = IF j = 0 THEN s ELSE after(g[j - 1], j)
    <3>1. CASE j = 0
      BY <2>1, <2>2, <3>1
    <3>2. CASE j \in 1..n
      <4>1. g[j] = f[j] /\ g[j - 1] = f[j - 1] /\ j \in 0..n
        BY <2>2, <3>2
      <4> HIDE DEF g
      <4>2. f[j] = IF j = 0 THEN s ELSE after(f[j - 1], j)
        BY <2>1, <4>1
      <4> QED
        BY <3>2, <4>1, <4>2
    <3>3. CASE j = n + 1
      <4>1. g[j] = after(f[n], n + 1) /\ g[j - 1] = f[n] /\ j # 0
        BY <2>2, <3>3
      <4> HIDE DEF g
      <4> QED
        BY <3>3, <4>1
    <3> QED
      BY <2>2, <3>1, <3>2, <3>3
  <2>4. g = [j \in 0..(n + 1) |-> g[j]]
    OBVIOUS
  <2> HIDE DEF g
  <2>5. g = [j \in 0..(n + 1) |-> IF j = 0 THEN s ELSE after(g[j - 1], j)]
    BY <2>3, <2>4
  <2> QED
    BY <2>2, <2>5
<1>3. q \in S
  <2> HIDE DEF S
  <2>1. \A j \in 0..q : j \in S
    BY <1>1, <1>2, UpTo
  <2> QED
    BY <2>1
<1>4. \E f : Good(f, q)
  BY <1>3
<1>5. met = CHOOSE f : Good(f, q)
  BY DEF OverBlocks, after
<1> HIDE DEF Good, S
<1>6. Good(met, q)
  BY <1>4, <1>5
<1> QED
  BY <1>6 DEF Good, after

\* The standard's recursion on the number of blocks.
LEMMA DuplexUnfolds ==
    ASSUME NEW s, NEW blocks, NEW n \in Nat, n = Len(blocks), n # 0, NEW after,
           after = Duplex(s, blocks)
    PROVE  after = [j \in 1..n |->
                      XorRate(IF j = 1 THEN s ELSE Permute(after[j - 1], 8), blocks[j])]
<1> DEFINE step(t, j) == XorRate(Permute(t, 8), blocks[j])
           first == XorRate(s, blocks[1])
           Good(f, k) == f = [j \in 1..k |-> IF j = 1 THEN first ELSE step(f[j - 1], j)]
           S == {k \in Nat : \E f : Good(f, k + 1)}
<1>1. 0 \in S
  <2> DEFINE f == [j \in 1..1 |-> first]
  <2>1. f = [j \in 1..(0 + 1) |-> IF j = 1 THEN first ELSE step(f[j - 1], j)]
    OBVIOUS
  <2> QED
    BY <2>1
<1>2. ASSUME NEW k \in 0..((n - 1) - 1), k \in S  PROVE k + 1 \in S
  <2> HIDE DEF step, first
  <2> DEFINE m == k + 1
  <2>1. PICK f : f = [j \in 1..m |-> IF j = 1 THEN first ELSE step(f[j - 1], j)]
    BY <1>2
  <2> DEFINE g == [j \in 1..(m + 1) |-> IF j <= m THEN f[j] ELSE step(f[m], m + 1)]
  <2>2. m \in Nat /\ m + 1 \in Nat /\ 1 <= m
    OBVIOUS
  <2>m. m = k + 1
    OBVIOUS
  <2> HIDE DEF m
  <2>3. ASSUME NEW j \in 1..(m + 1)
        PROVE  g[j] = IF j = 1 THEN first ELSE step(g[j - 1], j)
    <3>1. CASE j = 1
      BY <2>1, <2>2, <3>1
    <3>2. CASE j \in 2..m
      <4>1. g[j] = f[j] /\ g[j - 1] = f[j - 1] /\ j \in 1..m
        BY <2>2, <3>2
      <4> HIDE DEF g
      <4>2. f[j] = IF j = 1 THEN first ELSE step(f[j - 1], j)
        BY <2>1, <4>1
      <4> QED
        BY <3>2, <4>1, <4>2
    <3>3. CASE j = m + 1
      <4>1. g[j] = step(f[m], m + 1) /\ g[j - 1] = f[m] /\ j # 1
        BY <2>2, <3>3
      <4> HIDE DEF g
      <4> QED
        BY <3>3, <4>1
    <3> QED
      BY <2>2, <3>1, <3>2, <3>3
  <2>4. g = [j \in 1..(m + 1) |-> g[j]]
    OBVIOUS
  <2> HIDE DEF g
  <2>5. g = [j \in 1..(m + 1) |-> IF j = 1 THEN first ELSE step(g[j - 1], j)]
    BY <2>3, <2>4
  <2> QED
    BY <2>2, <2>5, <2>m
<1>3. n - 1 \in S
  <2> HIDE DEF S
  <2>1. n - 1 \in Nat
    OBVIOUS
  <2> DEFINE p == n - 1
  <2>2. p \in Nat /\ \A j \in 0..(p - 1) : j \in S => j + 1 \in S
    BY <1>2, <2>1
  <2> HIDE DEF p
  <2>3. \A j \in 0..p : j \in S
    BY <1>1, <2>2, UpTo
  <2> QED
    BY <2>2, <2>3 DEF p
<1>4. \E f : Good(f, n)
  <2>1. (n - 1) + 1 = n
    OBVIOUS
  <2> QED
    BY <1>3, <2>1
<1> DEFINE All(f) == f = [j \in 1..n |-> XorRate(IF j = 1 THEN s ELSE Permute(f[j - 1], 8), blocks[j])]
<1>5. after = CHOOSE f : All(f)
  BY DEF Duplex
<1>6. ASSUME NEW f, Good(f, n)  PROVE All(f)
  <2>1. \A j \in 1..n : (IF j = 1 THEN first ELSE step(f[j - 1], j))
                          = XorRate(IF j = 1 THEN s ELSE Permute(f[j - 1], 8), blocks[j])
    OBVIOUS
  <2> HIDE DEF first, step
  <2> QED
    BY <1>6, <2>1
<1> HIDE DEF Good, S
<1>7. All(after)
  <2> HIDE DEF All
  <2> QED
    BY <1>4, <1>5, <1>6
<1> QED
  BY <1>7

\* A permutation leaves a state.
LEMMA PermuteIsState ==
    ASSUME NEW s, NEW rounds
    PROVE  IsState(Permute(s, rounds))
  BY DEF Permute, IsState

\* The blocks of some bytes: how many, and what each one holds.
LEMMA WholesFacts ==
    ASSUME NEW bytes, NEW n \in Nat, n = Len(bytes), NEW q, q = Wholes(bytes)
    PROVE  q \in Nat /\ 16 * q <= n /\ n - 16 * q <= 15 /\ n - 16 * q \in Nat
<1>1. q = n \div 16
  BY DEF Wholes, RateBytes
<1> QED
  BY <1>1

\* A whole block.
LEMMA WholeBlock ==
    ASSUME NEW U, NEW bytes \in Seq(U), NEW q, q = Wholes(bytes), NEW j \in 1..q
    PROVE  /\ RateBlock(bytes, j) \in Seq(U) /\ Len(RateBlock(bytes, j)) = 16
           /\ \A i \in 1..16 : RateBlock(bytes, j)[i] = bytes[16 * (j - 1) + i]
<1> DEFINE n == Len(bytes)
           a == 16 * (j - 1) + 1
           b == 16 * j
<1>0. n \in Nat /\ n = Len(bytes)
  OBVIOUS
<1> HIDE DEF n
<1>1. q \in Nat /\ 16 * q <= n
  BY <1>0, WholesFacts
<1>2. a \in Nat /\ b \in Nat /\ 1 <= a /\ a <= b + 1 /\ b <= n /\ b - a + 1 = 16
  BY <1>0, <1>1
<1>3. RateBlock(bytes, j) = SubSeq(bytes, a, b)
  <2>1. RateBlock(bytes, j) = SubSeq(bytes, a, IF b < n THEN b ELSE n)
    BY <1>0 DEF RateBlock, RateBytes
  <2>2. (IF b < n THEN b ELSE n) = b
    BY <1>0, <1>2
  <2> HIDE DEF a, b
  <2> QED
    BY <2>1, <2>2
<1>4. \A i \in 1..16 : a + i - 1 = 16 * (j - 1) + i
  BY <1>2
<1> HIDE DEF a, b
<1>5. /\ SubSeq(bytes, a, b) \in Seq(U) /\ Len(SubSeq(bytes, a, b)) = b - a + 1
      /\ \A i \in 1..(b - a + 1) : SubSeq(bytes, a, b)[i] = bytes[a + i - 1]
  BY <1>0, <1>2, Slice
<1> QED
  BY <1>2, <1>3, <1>4, <1>5

\* The last part.
LEMMA LastBlock ==
    ASSUME NEW U, NEW bytes \in Seq(U), NEW q, q = Wholes(bytes),
           NEW z, z = Len(bytes) - 16 * q
    PROVE  /\ LastPart(bytes) = RateBlock(bytes, q + 1)
           /\ LastPart(bytes) \in Seq(U) /\ Len(LastPart(bytes)) = z
           /\ \A i \in 1..z : LastPart(bytes)[i] = bytes[16 * q + i]
<1> DEFINE n == Len(bytes)
           a == 16 * q + 1
<1>0. n \in Nat /\ n = Len(bytes)
  OBVIOUS
<1> HIDE DEF n
<1>1. q \in Nat /\ 16 * q <= n /\ n - 16 * q <= 15 /\ z \in Nat /\ z = n - 16 * q
  BY <1>0, WholesFacts
<1>2. a \in Nat /\ 1 <= a /\ a <= n + 1 /\ n - a + 1 = z
  BY <1>0, <1>1
<1>3. LastPart(bytes) = SubSeq(bytes, a, n)
  <2> DEFINE b == 16 * (q + 1)
             e == 16 * ((q + 1) - 1) + 1
  <2>1. LastPart(bytes) = SubSeq(bytes, e, IF b < n THEN b ELSE n)
    BY <1>0 DEF LastPart, RateBlock, RateBytes
  <2>2. (IF b < n THEN b ELSE n) = n /\ e = a
    BY <1>0, <1>1
  <2> HIDE DEF a, b, e
  <2> QED
    BY <2>1, <2>2
<1>4. \A i \in 1..z : a + i - 1 = 16 * q + i
  BY <1>1
<1> HIDE DEF a
<1>5. /\ SubSeq(bytes, a, n) \in Seq(U) /\ Len(SubSeq(bytes, a, n)) = n - a + 1
      /\ \A i \in 1..(n - a + 1) : SubSeq(bytes, a, n)[i] = bytes[a + i - 1]
  <2>1. n <= Len(bytes)
    BY <1>0
  <2> QED
    BY <1>0, <1>2, <2>1, Slice
<1> QED
  BY <1>2, <1>3, <1>4, <1>5 DEF LastPart

\* The states with their block in, and how many bytes that block has.
Merged(met, bytes, how) ==
    [j \in 0..Wholes(bytes) |-> Put(met[j], RateBlock(bytes, j + 1), how)]
Size(bytes, j) == IF j < Wholes(bytes) THEN 16 ELSE Len(bytes) - 16 * Wholes(bytes)

\* Every block by its size.
LEMMA SizeFacts ==
    ASSUME NEW U, NEW bytes \in Seq(U), NEW q, q = Wholes(bytes), NEW j \in 0..q
    PROVE  /\ q \in Nat /\ Size(bytes, j) \in Nat /\ Size(bytes, j) <= 16
           /\ RateBlock(bytes, j + 1) \in Seq(U)
           /\ Len(RateBlock(bytes, j + 1)) = Size(bytes, j)
           /\ \A i \in 1..Size(bytes, j) : RateBlock(bytes, j + 1)[i] = bytes[16 * j + i]
<1> DEFINE n == Len(bytes)
           z == n - 16 * q
<1>1. n \in Nat /\ n = Len(bytes)
  OBVIOUS
<1> HIDE DEF n
<1>2. q \in Nat /\ 16 * q <= n /\ z <= 15 /\ z \in Nat
  BY <1>1, WholesFacts
<1>3. CASE j < q
  <2>1. Size(bytes, j) = 16
    BY <1>3 DEF Size
  <2>2. j + 1 \in 1..q /\ (j + 1) - 1 = j
    BY <1>2, <1>3
  <2>3. /\ RateBlock(bytes, j + 1) \in Seq(U) /\ Len(RateBlock(bytes, j + 1)) = 16
        /\ \A i \in 1..16 : RateBlock(bytes, j + 1)[i] = bytes[16 * ((j + 1) - 1) + i]
    BY <2>2, WholeBlock
  <2> QED
    BY <1>2, <2>1, <2>2, <2>3
<1>4. CASE j = q
  <2>1. Size(bytes, j) = z
    BY <1>1, <1>2, <1>4 DEF Size
  <2>2. /\ LastPart(bytes) = RateBlock(bytes, q + 1)
        /\ LastPart(bytes) \in Seq(U) /\ Len(LastPart(bytes)) = z
        /\ \A i \in 1..z : LastPart(bytes)[i] = bytes[16 * q + i]
    <3>1. z = Len(bytes) - 16 * q
      BY <1>1
    <3> HIDE DEF z
    <3> QED
      BY <3>1, LastBlock
  <2> QED
    BY <1>2, <1>4, <2>1, <2>2
<1> QED
  BY <1>2, <1>3, <1>4

\* A byte by its position, and by its block and place.
LEMMA ByteAt ==
    ASSUME NEW U, NEW bytes \in Seq(U), NEW q, q = Wholes(bytes), NEW i \in 1..Len(bytes)
    PROVE  /\ BlockOf(i) \in 0..q /\ PlaceOf(i) \in 1..16 /\ PlaceOf(i) \in 1..Size(bytes, BlockOf(i))
           /\ RateBlock(bytes, BlockOf(i) + 1)[PlaceOf(i)] = bytes[i]
<1> DEFINE n == Len(bytes)
           j == (i - 1) \div 16
           p == i - 16 * j
<1>1. n \in Nat /\ n = Len(bytes) /\ i \in Int /\ 1 <= i /\ i <= n
  OBVIOUS
<1>2. j \in Int /\ 0 <= j /\ p \in Int /\ 1 <= p /\ p <= 16 /\ i = 16 * j + p
  BY <1>1
<1>3. BlockOf(i) = j /\ PlaceOf(i) = p
  BY DEF BlockOf, PlaceOf, RateBytes
<1> HIDE DEF n, j, p
<1>4. q = n \div 16
  BY <1>1 DEF Wholes, RateBytes
<1>5. q \in Int /\ 16 * q <= n /\ n < 16 * q + 16
  BY <1>1, <1>4
<1>6. j <= q /\ (j = q => p <= n - 16 * q)
  BY <1>1, <1>2, <1>5
<1>7. j \in 0..q
  BY <1>2, <1>5, <1>6
<1>8. p \in 1..Size(bytes, j)
  BY <1>1, <1>2, <1>5, <1>6 DEF Size
<1>9. RateBlock(bytes, j + 1)[p] = bytes[16 * j + p]
  BY <1>7, <1>8, SizeFacts
<1>10. bytes[16 * j + p] = bytes[i] /\ p \in 1..16
  BY <1>2
<1> QED
  BY <1>3, <1>7, <1>8, <1>9, <1>10, Zenon

\* A position by block and place.
LEMMA PositionOf ==
    ASSUME NEW U, NEW bytes \in Seq(U), NEW q, q = Wholes(bytes), NEW j \in 0..q,
           NEW p \in 1..Size(bytes, j)
    PROVE  16 * j + p \in 1..Len(bytes) /\ BlockOf(16 * j + p) = j /\ PlaceOf(16 * j + p) = p
<1> DEFINE n == Len(bytes)
           i == 16 * j + p
<1>1. n \in Nat /\ n = Len(bytes)
  OBVIOUS
<1>2. q = n \div 16
  BY <1>1 DEF Wholes, RateBytes
<1>3. q \in Int /\ 16 * q <= n /\ n < 16 * q + 16 /\ j \in Int /\ 0 <= j /\ j <= q
  BY <1>1, <1>2
<1>4. p \in Int /\ 1 <= p /\ p <= 16 /\ (j = q => p <= n - 16 * q)
  BY <1>1, <1>3 DEF Size
<1> HIDE DEF n
<1>i. i = 16 * j + p
  OBVIOUS
<1> HIDE DEF i
<1>5. i \in Int /\ 1 <= i /\ i <= n
  <2>1. CASE j = q
    <3>1. i = 16 * q + p /\ p <= n - 16 * q
      BY <1>4, <1>i, <2>1
    <3> QED
      BY <1>1, <1>3, <1>4, <3>1
  <2>2. CASE j + 1 <= q
    BY <1>1, <1>3, <1>4, <1>i, <2>2
  <2> QED
    BY <1>3, <2>1, <2>2
<1>6. (i - 1) \div 16 = j
  <2>1. i - 1 = 16 * j + (p - 1)
    BY <1>3, <1>4, <1>i
  <2> QED
    BY <1>3, <1>4, <2>1
<1>7. i - 16 * j = p
  BY <1>3, <1>4, <1>i
<1>8. BlockOf(i) = j
  BY <1>6 DEF BlockOf, RateBytes
<1>9. PlaceOf(i) = p
  BY <1>7, <1>8 DEF PlaceOf, RateBytes
<1>10. i \in 1..n
  BY <1>1, <1>5
<1> QED
  BY <1>1, <1>8, <1>9, <1>10, <1>i

\* What a run of the loop does from block to block, and at its end.
LEMMA RunFacts ==
    ASSUME NEW s, IsState(s), NEW U, NEW bytes \in Seq(U), NEW q, q = Wholes(bytes),
           NEW how \in {"xor", "set"},
           NEW met, met = OverBlocks(s, bytes, how), NEW mrg, mrg = Merged(met, bytes, how)
    PROVE  /\ q \in Nat /\ met[0] = s
           /\ \A j \in 0..(q - 1) : met[j + 1] = Permute(mrg[j], 8)
           /\ \A j \in 0..q : IsState(met[j])
           /\ \A j \in 0..q : mrg[j] = WithRate(met[j], mrg[j].rate)
           /\ \A j \in 0..q : how = "xor" =>
                mrg[j].rate = Xored(met[j].rate, RateBlock(bytes, j + 1), Size(bytes, j))
           /\ \A j \in 0..q : how = "set" =>
                mrg[j].rate = Replaced(met[j].rate, RateBlock(bytes, j + 1), Size(bytes, j))
           /\ Ended(met, bytes, how)
                = WithRate(met[q], Marked(mrg[q].rate, Len(bytes) - 16 * q))
<1> DEFINE n == Len(bytes)
<1>1. n \in Nat /\ n = Len(bytes)
  OBVIOUS
<1> HIDE DEF n
<1>2. q \in Nat /\ n - 16 * q <= 15 /\ n - 16 * q \in Nat
  BY <1>1, WholesFacts
<1>l. LastPart(bytes) = RateBlock(bytes, q + 1) /\ Len(LastPart(bytes)) = n - 16 * q
  BY <1>1, LastBlock
<1>3. met = [j \in 0..q |-> IF j = 0 THEN s
                            ELSE Permute(Put(met[j - 1], RateBlock(bytes, j), how), 8)]
  BY <1>2, OverBlocksUnfolds
<1>4. \A j \in 0..q : met[j] = IF j = 0 THEN s
                               ELSE Permute(Put(met[j - 1], RateBlock(bytes, j), how), 8)
  BY <1>3
<1>5. met[0] = s
  BY <1>2, <1>4
<1>6. \A j \in 0..q : IsState(met[j])
  BY <1>4, PermuteIsState
<1>7. \A j \in 0..q : mrg[j] = Put(met[j], RateBlock(bytes, j + 1), how)
  BY DEF Merged
<1>8. ASSUME NEW j \in 0..(q - 1)
      PROVE  met[j + 1] = Permute(mrg[j], 8)
  <2>1. j + 1 \in 0..q /\ j + 1 # 0 /\ (j + 1) - 1 = j /\ j \in 0..q
    BY <1>2
  <2>2. met[j + 1] = Permute(Put(met[(j + 1) - 1], RateBlock(bytes, j + 1), how), 8)
    BY <1>4, <2>1
  <2> QED
    BY <1>7, <2>1, <2>2
<1>9. ASSUME NEW j \in 0..q
      PROVE  /\ mrg[j] = WithRate(met[j], mrg[j].rate)
             /\ how = "xor" =>
                  mrg[j].rate = Xored(met[j].rate, RateBlock(bytes, j + 1), Size(bytes, j))
             /\ how = "set" =>
                  mrg[j].rate = Replaced(met[j].rate, RateBlock(bytes, j + 1), Size(bytes, j))
  <2> DEFINE b == RateBlock(bytes, j + 1)
             z == Size(bytes, j)
  <2>1. b \in Seq(U) /\ z \in Nat /\ z = Len(b) /\ z <= 16
    BY SizeFacts
  <2>2. IsState(met[j]) /\ mrg[j] = Put(met[j], b, how)
    BY <1>6, <1>7
  <2> HIDE DEF b, z
  <2>3. CASE how = "xor"
    <3>1. mrg[j] = WithRate(met[j], Xored(met[j].rate, b, z))
      BY <2>1, <2>2, <2>3, PutXor
    <3> QED
      BY <2>3, <3>1, Projections DEF b, z
  <2>4. CASE how = "set"
    <3>1. mrg[j] = WithRate(met[j], Replaced(met[j].rate, b, z))
      BY <2>1, <2>2, <2>4, PutSet
    <3> QED
      BY <2>4, <3>1, Projections DEF b, z
  <2> QED
    BY <2>3, <2>4
<1>10. Ended(met, bytes, how) = WithRate(met[q], Marked(mrg[q].rate, n - 16 * q))
  <2>1. q \in 0..q
    BY <1>2
  <2>2. Ended(met, bytes, how) = Pad(mrg[q], n - 16 * q)
    BY <1>2, <1>l, <1>7, <2>1 DEF Ended
  <2>3. mrg[q] = WithRate(met[q], mrg[q].rate)
    BY <1>9, <2>1
  <2>4. IsState(mrg[q])
    BY <2>3, Projections
  <2>5. Pad(mrg[q], n - 16 * q) = WithRate(mrg[q], Marked(mrg[q].rate, n - 16 * q))
    BY <1>2, <2>4, PadIs
  <2> QED
    BY <2>2, <2>3, <2>5, Projections
<1> QED
  BY <1>1, <1>2, <1>5, <1>6, <1>8, <1>9, <1>10

-----------------------------------------------------------------------------
(* Two computations on one table: the second replays the first, or goes     *)
(* astray at the first byte in which they differ, for good.                *)

\* A state that goes on where its table ends.
Live(f) == Chained(f.table) /\ Carries(f.capacity, Len(f.table))

\* State g, on the finished table, is where f was; or beside it.
Replays(g, f, table) == g.rate = f.rate /\ g.capacity = f.capacity /\ g.table = table
Astray(g, f, table) ==
    \/ Strayed(g, table)
    \/ g.rate # f.rate /\ g.capacity = f.capacity /\ g.table = table

\* Growing a table is transitive.
LEMMA ExtendsTwice ==
    ASSUME NEW a, NEW b, NEW c, IsTable(c), Extends(a, b), Extends(b, c)
    PROVE  Extends(a, c)
<1>1. IsTable(a) /\ IsTable(b) /\ Len(a) \in Nat /\ Len(b) \in Nat /\ Len(c) \in Nat
  BY TableFacts DEF Extends
<1> QED
  BY <1>1 DEF Extends

\* A table extends itself.
LEMMA ExtendsSelf == ASSUME NEW a, IsTable(a) PROVE Extends(a, a)
<1>1. Len(a) \in Nat
  BY TableFacts
<1> QED
  BY <1>1 DEF Extends

\* A permutation of a live state adds its input to the table.
LEMMA LivePermute ==
    ASSUME NEW f, NEW rounds, Live(f), NEW t, t = Permute(f, rounds)
    PROVE  /\ Live(t) /\ Extends(t.table, f.table)
           /\ Len(f.table) \in Nat /\ Len(t.table) = Len(f.table) + 1
           /\ t.table[Len(f.table) + 1] = PermutationInput(f, rounds)
           /\ t = Permuted(Len(f.table) + 1, t.table)
<1> DEFINE n == Len(f.table)
           x == PermutationInput(f, rounds)
           u == Append(f.table, x)
<1>1. IsTable(f.table) /\ n \in Nat
  BY TableFacts DEF Live, Chained
<1>2. t = Permuted(n + 1, u) /\ Chained(u)
  BY FreshStep DEF Live
<1>3. /\ IsTable(u) /\ Len(u) = n + 1 /\ u[n + 1] = x
      /\ \A k \in 1..n : u[k] = f.table[k]
  BY <1>1, TableFacts
<1> HIDE DEF u, x
<1>4. t.table = u /\ t.capacity = {<<"out", n + 1>>}
  BY <1>2 DEF Permuted
<1>5. Carries({<<"out", n + 1>>}, n + 1)
  <2>1. n + 1 \in Nat /\ n + 1 # 0
    BY <1>1
  <2> QED
    BY <2>1, CarriesOutput
<1>6. Live(t)
  BY <1>2, <1>3, <1>4, <1>5 DEF Live
<1>7. Extends(u, f.table)
  BY <1>1, <1>3 DEF Extends
<1> QED
  BY <1>1, <1>2, <1>3, <1>4, <1>6, <1>7 DEF x

\* A replayed state meets the recorded input.
LEMMA ReplayPermute ==
    ASSUME NEW f, NEW rounds, Live(f), NEW t, t = Permute(f, rounds),
           NEW table, Chained(table), Extends(table, t.table),
           NEW g, Replays(g, f, table)
    PROVE  Replays(Permute(g, rounds), t, table)
<1> DEFINE n == Len(f.table)
<1>1. /\ n \in Nat /\ Len(t.table) = n + 1 /\ t.table[n + 1] = PermutationInput(f, rounds)
      /\ t = Permuted(n + 1, t.table)
  BY LivePermute
<1>2. n + 1 <= Len(table) /\ table[n + 1] = PermutationInput(f, rounds)
  <2>1. Len(table) \in Nat
    BY TableFacts DEF Chained
  <2> QED
    BY <1>1, <2>1 DEF Extends
<1>3. PermutationInput(g, rounds) = PermutationInput(f, rounds)
  BY DEF PermutationInput, Replays
<1>4. Carries(g.capacity, n) /\ g.table = table
  BY DEF Live, Replays
<1>5. Permute(g, rounds) = Permuted(n + 1, table)
  <2> HIDE DEF n
  <2> QED
    BY <1>2, <1>3, <1>4, ReplayStep
<1> HIDE DEF n
<1> QED
  BY <1>1, <1>5 DEF Replays, Permuted

\* A state beside the recorded one strays.
LEMMA AstrayPermute ==
    ASSUME NEW f, NEW rounds, Live(f), NEW t, t = Permute(f, rounds),
           NEW table, Chained(table), Extends(table, t.table),
           NEW g, Astray(g, f, table)
    PROVE  Strayed(Permute(g, rounds), table)
<1>1. CASE Strayed(g, table)
  BY <1>1, StrayOn
<1>2. CASE g.rate # f.rate /\ g.capacity = f.capacity /\ g.table = table
  <2> DEFINE n == Len(f.table)
  <2>1. n \in Nat /\ Len(t.table) = n + 1 /\ t.table[n + 1] = PermutationInput(f, rounds)
    BY LivePermute
  <2>2. IsTable(table) /\ Len(table) \in Nat
    BY TableFacts DEF Chained
  <2>3. table[n + 1] = PermutationInput(f, rounds)
    BY <2>1, <2>2 DEF Extends
  <2>4. PermutationInput(g, rounds) # PermutationInput(f, rounds)
    BY <1>2 DEF PermutationInput
  <2>5. Carries(g.capacity, n)
    BY <1>2 DEF Live
  <2>6. Extends(g.table, table)
    BY <1>2, <2>2, ExtendsSelf
  <2> HIDE DEF n
  <2> QED
    BY <2>3, <2>4, <2>5, <2>6, LeaveStep
<1> QED
  BY <1>1, <1>2 DEF Astray

\* XOR of constants into the capacity changes none of this.
LEMMA XorCapacityIs ==
    ASSUME NEW s, IsState(s), NEW terms, NEW t, t = XorCapacity(s, terms)
    PROVE  /\ IsState(t) /\ t.rate = s.rate /\ t.table = s.table
           /\ t.capacity = SymDiff(s.capacity, terms)
  BY DEF XorCapacity, IsState

\* A live state stays live.
LEMMA LiveXor ==
    ASSUME NEW f, IsState(f), Live(f), NEW terms, \A k \in Nat : <<"out", k>> \notin terms,
           NEW t, t = XorCapacity(f, terms)
    PROVE  Live(t) /\ t.table = f.table
  BY XorCapacityIs, CarriesXor DEF Live

\* A replayed state stays one.
LEMMA ReplayXor ==
    ASSUME NEW f, IsState(f), NEW g, IsState(g), NEW table, Replays(g, f, table), NEW terms
    PROVE  Replays(XorCapacity(g, terms), XorCapacity(f, terms), table)
<1>1. /\ XorCapacity(f, terms).rate = f.rate
      /\ XorCapacity(f, terms).capacity = SymDiff(f.capacity, terms)
  BY XorCapacityIs
<1>2. /\ XorCapacity(g, terms).rate = g.rate /\ XorCapacity(g, terms).table = g.table
      /\ XorCapacity(g, terms).capacity = SymDiff(g.capacity, terms)
  BY XorCapacityIs
<1> QED
  BY <1>1, <1>2 DEF Replays

\* A strayed state stays one.
LEMMA StrayXor ==
    ASSUME NEW g, IsState(g), NEW table, Strayed(g, table),
           NEW terms, \A k \in Nat : <<"out", k>> \notin terms
    PROVE  Strayed(XorCapacity(g, terms), table)
<1>1. PICK m \in Nat : Len(table) < m /\ Carries(g.capacity, m)
  BY DEF Strayed
<1>2. /\ XorCapacity(g, terms).table = g.table
      /\ XorCapacity(g, terms).capacity = SymDiff(g.capacity, terms)
  BY XorCapacityIs
<1>3. Carries(SymDiff(g.capacity, terms), m)
  BY <1>1, CarriesXor
<1> QED
  BY <1>1, <1>2, <1>3 DEF Strayed

\* A state that is astray stays so.
LEMMA AstrayXor ==
    ASSUME NEW f, IsState(f), NEW g, IsState(g), NEW table, Astray(g, f, table),
           NEW terms, \A k \in Nat : <<"out", k>> \notin terms
    PROVE  Astray(XorCapacity(g, terms), XorCapacity(f, terms), table)
<1>1. CASE Strayed(g, table)
  BY <1>1, StrayXor DEF Astray
<1>2. CASE g.rate # f.rate /\ g.capacity = f.capacity /\ g.table = table
  <2>1. /\ XorCapacity(f, terms).rate = f.rate
        /\ XorCapacity(f, terms).capacity = SymDiff(f.capacity, terms)
    BY XorCapacityIs
  <2>2. /\ XorCapacity(g, terms).rate = g.rate /\ XorCapacity(g, terms).table = g.table
        /\ XorCapacity(g, terms).capacity = SymDiff(g.capacity, terms)
    BY XorCapacityIs
  <2> QED
    BY <1>2, <2>1, <2>2 DEF Astray
<1> QED
  BY <1>1, <1>2 DEF Astray

\* A run over blocks 0 to q: met[j] is the state that block j meets, taken[j]
\* the one that has it in.
Follows(met, taken, q) ==
    /\ \A j \in 0..(q - 1) : met[j + 1] = Permute(taken[j], 8)
    /\ \A j \in 0..q : taken[j].capacity = met[j].capacity /\ taken[j].table = met[j].table

\* A run from a live state is live throughout.
LEMMA LiveRun ==
    ASSUME NEW q \in Nat, NEW met, NEW taken, Follows(met, taken, q), Live(met[0])
    PROVE  \A j \in 0..q : /\ Live(met[j]) /\ Live(taken[j])
                           /\ Extends(met[q].table, met[j].table)
<1> DEFINE S == {j \in 0..q : /\ Live(met[j])
                              /\ \A i \in 0..j : /\ IsTable(met[i].table)
                                                 /\ Extends(met[j].table, met[i].table)}
<1>1. 0 \in S
  <2>1. IsTable(met[0].table)
    BY DEF Live, Chained
  <2> QED
    BY <2>1, ExtendsSelf
<1>2. ASSUME NEW j \in 0..(q - 1), j \in S
      PROVE  j + 1 \in S
  <2>1. j \in 0..q /\ j + 1 \in 0..q
    OBVIOUS
  <2>2. met[j + 1] = Permute(taken[j], 8) /\ Live(taken[j]) /\ taken[j].table = met[j].table
    BY <1>2, <2>1 DEF Follows, Live
  <2>3. Live(met[j + 1]) /\ Extends(met[j + 1].table, met[j].table)
    BY <2>2, LivePermute
  <2>4. ASSUME NEW i \in 0..(j + 1)
        PROVE  IsTable(met[i].table) /\ Extends(met[j + 1].table, met[i].table)
    <3>1. CASE i = j + 1
      BY <2>3, <3>1, ExtendsSelf DEF Live, Chained
    <3>2. CASE i \in 0..j
      <4>1. IsTable(met[i].table) /\ Extends(met[j].table, met[i].table)
        BY <1>2, <3>2
      <4> QED
        BY <2>3, <4>1, ExtendsTwice
    <3> QED
      BY <2>1, <3>1, <3>2
  <2> QED
    BY <2>1, <2>3, <2>4
<1> HIDE DEF S
<1>3. \A j \in 0..q : j \in S
  BY <1>1, <1>2, UpTo
<1> QED
  BY <1>3 DEF S, Follows, Live

\* The run of a second computation: in step as long as it takes in what the
\* first did.
LEMMA InStep ==
    ASSUME NEW q \in Nat, NEW met, NEW taken, Follows(met, taken, q), Live(met[0]),
           NEW table, Chained(table), Extends(table, met[q].table),
           NEW met2, NEW taken2, Follows(met2, taken2, q), Replays(met2[0], met[0], table),
           \A j \in 0..q : met2[j].rate = met[j].rate => taken2[j].rate = taken[j].rate
    PROVE  /\ \A j \in 0..q : Replays(met2[j], met[j], table)
           /\ Replays(taken2[q], taken[q], table)
<1> DEFINE S == {j \in 0..q : Replays(met2[j], met[j], table)}
<1>1. 0 \in S
  OBVIOUS
<1>2. ASSUME NEW j \in 0..q, Replays(met2[j], met[j], table)
      PROVE  Replays(taken2[j], taken[j], table)
  BY <1>2 DEF Replays, Follows
<1>3. ASSUME NEW j \in 0..(q - 1), j \in S
      PROVE  j + 1 \in S
  <2>1. j \in 0..q /\ j + 1 \in 0..q
    OBVIOUS
  <2>2. Replays(taken2[j], taken[j], table)
    BY <1>2, <1>3, <2>1
  <2>3. met[j + 1] = Permute(taken[j], 8) /\ met2[j + 1] = Permute(taken2[j], 8)
    BY DEF Follows
  <2>4. /\ Live(taken[j]) /\ IsTable(met[j + 1].table)
        /\ Extends(met[q].table, met[j + 1].table)
    BY <2>1, LiveRun DEF Live, Chained
  <2>5. Extends(table, met[j + 1].table)
    BY <2>4, ExtendsTwice
  <2>6. Replays(met2[j + 1], met[j + 1], table)
    BY <2>2, <2>3, <2>4, <2>5, ReplayPermute
  <2> QED
    BY <2>1, <2>6
<1>4. q \in 0..q
  OBVIOUS
<1>5. \A j \in 0..q : Replays(met2[j], met[j], table)
  <2> HIDE DEF S
  <2>1. \A j \in 0..q : j \in S
    BY <1>1, <1>3, UpTo
  <2> QED
    BY <2>1 DEF S
<1> QED
  BY <1>2, <1>4, <1>5

\* Astray from the start.
LEMMA StrayRun ==
    ASSUME NEW q \in Nat, NEW table, Chained(table), NEW met, NEW taken,
           Follows(met, taken, q), Strayed(met[0], table)
    PROVE  Strayed(taken[q], table)
<1> DEFINE S == {j \in 0..q : Strayed(met[j], table)}
<1>1. 0 \in S
  OBVIOUS
<1>2. ASSUME NEW j \in 0..q, Strayed(met[j], table)
      PROVE  Strayed(taken[j], table)
  BY <1>2 DEF Strayed, Follows
<1>3. ASSUME NEW j \in 0..(q - 1), j \in S
      PROVE  j + 1 \in S
  <2>1. j \in 0..q /\ j + 1 \in 0..q
    OBVIOUS
  <2>2. met[j + 1] = Permute(taken[j], 8)
    BY DEF Follows
  <2>3. Strayed(met[j + 1], table)
    BY <1>2, <1>3, <2>1, <2>2, StrayOn
  <2> QED
    BY <2>1, <2>3
<1>4. q \in 0..q
  OBVIOUS
<1>5. Strayed(met[q], table)
  <2> HIDE DEF S
  <2>1. \A j \in 0..q : j \in S
    BY <1>1, <1>3, UpTo
  <2> QED
    BY <1>4, <2>1 DEF S
<1> QED
  BY <1>2, <1>4, <1>5

\* Astray from a block that differs.
LEMMA LeaveRun ==
    ASSUME NEW q \in Nat, NEW met, NEW taken, Follows(met, taken, q), Live(met[0]),
           NEW table, Chained(table), Extends(table, met[q].table),
           NEW met2, NEW taken2, Follows(met2, taken2, q), Replays(met2[0], met[0], table),
           NEW i \in 0..q, met2[i].rate = met[i].rate => taken2[i].rate # taken[i].rate
    PROVE  Astray(taken2[q], taken[q], table)
<1> DEFINE S == {j \in 0..q : \/ Strayed(met2[j], table)
                              \/ j <= i /\ Replays(met2[j], met[j], table)}
<1>1. 0 \in S
  OBVIOUS
<1>2. ASSUME NEW j \in 0..q, Strayed(met2[j], table)
      PROVE  Astray(taken2[j], taken[j], table)
  BY <1>2 DEF Strayed, Follows, Astray
<1>3. ASSUME NEW j \in 0..q, Replays(met2[j], met[j], table)
      PROVE  \/ Astray(taken2[j], taken[j], table)
             \/ j # i /\ Replays(taken2[j], taken[j], table)
  BY <1>3 DEF Astray, Replays, Follows
<1>4. ASSUME NEW j \in 0..(q - 1), j \in S
      PROVE  j + 1 \in S
  <2>1. j \in 0..q /\ j + 1 \in 0..q
    OBVIOUS
  <2>2. met[j + 1] = Permute(taken[j], 8) /\ met2[j + 1] = Permute(taken2[j], 8)
    BY DEF Follows
  <2>3. /\ Live(taken[j]) /\ IsTable(met[j + 1].table)
        /\ Extends(met[q].table, met[j + 1].table)
    BY <2>1, LiveRun DEF Live, Chained
  <2>4. Extends(table, met[j + 1].table)
    BY <2>3, ExtendsTwice
  <2>5. CASE Astray(taken2[j], taken[j], table)
    <3>1. Strayed(met2[j + 1], table)
      BY <2>2, <2>3, <2>4, <2>5, AstrayPermute
    <3> QED
      BY <2>1, <3>1
  <2>6. CASE j <= i /\ j # i /\ Replays(taken2[j], taken[j], table)
    <3>1. Replays(met2[j + 1], met[j + 1], table)
      BY <2>2, <2>3, <2>4, <2>6, ReplayPermute
    <3>2. j + 1 <= i
      BY <2>6
    <3> QED
      BY <2>1, <3>1, <3>2
  <2> QED
    BY <1>2, <1>3, <1>4, <2>1, <2>5, <2>6
<1>5. q \in 0..q
  OBVIOUS
<1>6. Strayed(met2[q], table) \/ (q = i /\ Replays(met2[q], met[q], table))
  <2> HIDE DEF S
  <2>1. \A j \in 0..q : j \in S
    BY <1>1, <1>4, UpTo
  <2>2. q <= i => q = i
    OBVIOUS
  <2> QED
    BY <1>5, <2>1, <2>2 DEF S
<1> QED
  BY <1>2, <1>3, <1>5, <1>6

-----------------------------------------------------------------------------
(* The three kinds of run: the code that absorbs or encrypts, the code that *)
(* decrypts, and the standard.                                             *)

\* The rate once block j is in, XORed or put in its place; the last block
\* brings the padding.
TakeIn(rate, bytes, j) ==
    IF j < Wholes(bytes) THEN Xored(rate, RateBlock(bytes, j + 1), 16)
    ELSE Marked(Xored(rate, RateBlock(bytes, j + 1), Size(bytes, j)), Size(bytes, j))
PutIn(rate, bytes, j) ==
    IF j < Wholes(bytes) THEN Replaced(rate, RateBlock(bytes, j + 1), 16)
    ELSE Marked(Replaced(rate, RateBlock(bytes, j + 1), Size(bytes, j)), Size(bytes, j))

\* The states that have their block in.
Taken(met, bytes, how) ==
    [j \in 0..Wholes(bytes) |-> IF j < Wholes(bytes) THEN Merged(met, bytes, how)[j]
                                ELSE Ended(met, bytes, how)]

\* The code's loop is a run.
LEMMA CodeRun ==
    ASSUME NEW s, IsState(s), NEW U, NEW bytes \in Seq(U), NEW q, q = Wholes(bytes),
           NEW how \in {"xor", "set"},
           NEW met, met = OverBlocks(s, bytes, how), NEW taken, taken = Taken(met, bytes, how)
    PROVE  /\ q \in Nat /\ met[0] = s /\ Follows(met, taken, q)
           /\ taken[q] = Ended(met, bytes, how) /\ IsState(taken[q])
           /\ how = "xor" => \A j \in 0..q : taken[j].rate = TakeIn(met[j].rate, bytes, j)
           /\ how = "set" => \A j \in 0..q : taken[j].rate = PutIn(met[j].rate, bytes, j)
<1> DEFINE mrg == Merged(met, bytes, how)
           z == Len(bytes) - 16 * q
           ended == Ended(met, bytes, how)
<1>m. mrg = Merged(met, bytes, how)
  OBVIOUS
<1>t. taken = [j \in 0..q |-> IF j < q THEN mrg[j] ELSE ended]
  BY DEF Taken
<1> HIDE DEF mrg
<1>1. /\ q \in Nat /\ met[0] = s
      /\ \A j \in 0..(q - 1) : met[j + 1] = Permute(mrg[j], 8)
      /\ \A j \in 0..q : mrg[j] = WithRate(met[j], mrg[j].rate)
      /\ ended = WithRate(met[q], Marked(mrg[q].rate, z))
  BY <1>m, RunFacts, SMTT(60)
<1>2. \A j \in 0..q : how = "xor" =>
          mrg[j].rate = Xored(met[j].rate, RateBlock(bytes, j + 1), Size(bytes, j))
  BY <1>m, RunFacts, SMTT(60)
<1>3. \A j \in 0..q : how = "set" =>
          mrg[j].rate = Replaced(met[j].rate, RateBlock(bytes, j + 1), Size(bytes, j))
  BY <1>m, RunFacts, SMTT(60)
<1>4. Size(bytes, q) = z /\ \A j \in 0..q : j < q => Size(bytes, j) = 16
  BY <1>1 DEF Size
<1> HIDE DEF z, ended
<1>5. \A j \in 0..q : j < q => taken[j] = mrg[j]
  BY <1>t, Zenon
<1>6. taken[q] = ended /\ q \in 0..q
  BY <1>1, <1>t
<1>7. Follows(met, taken, q)
  <2>1. ASSUME NEW j \in 0..(q - 1)  PROVE  met[j + 1] = Permute(taken[j], 8)
    <3>1. j \in 0..q /\ j < q
      BY <1>1
    <3> QED
      BY <1>1, <1>5, <3>1
  <2>2. ASSUME NEW j \in 0..q
        PROVE  taken[j].capacity = met[j].capacity /\ taken[j].table = met[j].table
    <3>1. CASE j < q
      BY <1>1, <1>5, <3>1, Projections
    <3>2. CASE j = q
      BY <1>1, <1>6, <3>2, Projections
    <3> QED
      BY <1>1, <3>1, <3>2
  <2> QED
    BY <2>1, <2>2 DEF Follows
<1>8. IsState(taken[q]) /\ taken[q].rate = Marked(mrg[q].rate, z)
  BY <1>1, <1>6, Projections
<1>9. ASSUME how = "xor", NEW j \in 0..q
      PROVE  taken[j].rate = TakeIn(met[j].rate, bytes, j)
  <2>1. CASE j < q
    BY <1>2, <1>4, <1>5, <1>9, <2>1 DEF TakeIn
  <2>2. CASE j = q
    BY <1>1, <1>2, <1>4, <1>8, <1>9, <2>2 DEF TakeIn
  <2> QED
    BY <1>1, <2>1, <2>2
<1>10. ASSUME how = "set", NEW j \in 0..q
       PROVE  taken[j].rate = PutIn(met[j].rate, bytes, j)
  <2>1. CASE j < q
    BY <1>3, <1>4, <1>5, <1>10, <2>1 DEF PutIn
  <2>2. CASE j = q
    BY <1>1, <1>3, <1>4, <1>8, <1>10, <2>2 DEF PutIn
  <2> QED
    BY <1>1, <2>1, <2>2
<1> QED
  BY <1>1, <1>6, <1>7, <1>8, <1>9, <1>10 DEF ended

\* Absorption and encryption.
LEMMA XorRun ==
    ASSUME NEW s, IsState(s), NEW U, NEW bytes \in Seq(U), NEW q, q = Wholes(bytes),
           NEW met, met = OverBlocks(s, bytes, "xor"), NEW taken, taken = Taken(met, bytes, "xor")
    PROVE  /\ q \in Nat /\ met[0] = s /\ Follows(met, taken, q)
           /\ taken[q] = Ended(met, bytes, "xor") /\ IsState(taken[q])
           /\ \A j \in 0..q : taken[j].rate = TakeIn(met[j].rate, bytes, j)
<1> DEFINE how == "xor"
<1>1. how \in {"xor", "set"} /\ how = "xor"
  OBVIOUS
<1>2. met = OverBlocks(s, bytes, how) /\ taken = Taken(met, bytes, how)
  OBVIOUS
<1> HIDE DEF how
<1> QED
  BY <1>1, <1>2, CodeRun

\* Decryption.
LEMMA SetRun ==
    ASSUME NEW s, IsState(s), NEW U, NEW bytes \in Seq(U), NEW q, q = Wholes(bytes),
           NEW met, met = OverBlocks(s, bytes, "set"), NEW taken, taken = Taken(met, bytes, "set")
    PROVE  /\ q \in Nat /\ met[0] = s /\ Follows(met, taken, q)
           /\ taken[q] = Ended(met, bytes, "set") /\ IsState(taken[q])
           /\ \A j \in 0..q : taken[j].rate = PutIn(met[j].rate, bytes, j)
<1> DEFINE how == "set"
<1>1. how \in {"xor", "set"} /\ how = "set"
  OBVIOUS
<1>2. met = OverBlocks(s, bytes, how) /\ taken = Taken(met, bytes, how)
  OBVIOUS
<1> HIDE DEF how
<1> QED
  BY <1>1, <1>2, CodeRun

\* What is in the rate at the places of a block.
LEMMA TakenByte ==
    ASSUME NEW U, NEW bytes \in Seq(U), NEW q, q = Wholes(bytes), NEW j \in 0..q,
           NEW p \in 1..Size(bytes, j), NEW r
    PROVE  TakeIn(r, bytes, j)[p] = SymDiff(r[p], bytes[16 * j + p])
<1> DEFINE z == Size(bytes, j)
           b == RateBlock(bytes, j + 1)
<1>1. z \in Nat /\ z <= 16 /\ b[p] = bytes[16 * j + p] /\ (j < q => z = 16)
  BY SizeFacts, SMTT(60) DEF Size
<1>p. p \in 1..z
  OBVIOUS
<1> HIDE DEF z, b
<1>2. p \in 1..16 /\ p <= z /\ p # z + 1
  BY <1>1, <1>p
<1>3. Xored(r, b, z)[p] = SymDiff(r[p], b[p])
  BY <1>2 DEF Xored
<1>4. Marked(Xored(r, b, z), z)[p] = Xored(r, b, z)[p]
  BY <1>2 DEF Marked
<1>5. TakeIn(r, bytes, j) = Xored(r, b, z) \/ TakeIn(r, bytes, j) = Marked(Xored(r, b, z), z)
  BY <1>1 DEF TakeIn, z, b
<1> QED
  BY <1>1, <1>3, <1>4, <1>5

\* The same for bytes put in place.
LEMMA PutByte ==
    ASSUME NEW U, NEW bytes \in Seq(U), NEW q, q = Wholes(bytes), NEW j \in 0..q,
           NEW p \in 1..Size(bytes, j), NEW r
    PROVE  PutIn(r, bytes, j)[p] = bytes[16 * j + p]
<1> DEFINE z == Size(bytes, j)
           b == RateBlock(bytes, j + 1)
<1>1. z \in Nat /\ z <= 16 /\ b[p] = bytes[16 * j + p] /\ (j < q => z = 16)
  BY SizeFacts, SMTT(60) DEF Size
<1>p. p \in 1..z
  OBVIOUS
<1> HIDE DEF z, b
<1>2. p \in 1..16 /\ p <= z /\ p # z + 1
  BY <1>1, <1>p
<1>3. Replaced(r, b, z)[p] = b[p]
  BY <1>2 DEF Replaced
<1>4. Marked(Replaced(r, b, z), z)[p] = Replaced(r, b, z)[p]
  BY <1>2 DEF Marked
<1>5. PutIn(r, bytes, j) = Replaced(r, b, z) \/ PutIn(r, bytes, j) = Marked(Replaced(r, b, z), z)
  BY <1>1 DEF PutIn, z, b
<1> QED
  BY <1>1, <1>3, <1>4, <1>5

\* Putting the ciphertext of a block in its place is taking in the block.
LEMMA PutIsTake ==
    ASSUME NEW U, NEW bytes \in Seq(U), NEW q, q = Wholes(bytes), NEW j \in 0..q,
           NEW V, NEW c \in Seq(V), Len(c) = Len(bytes), NEW r,
           \A p \in 1..Size(bytes, j) : c[16 * j + p] = SymDiff(r[p], bytes[16 * j + p])
    PROVE  PutIn(r, c, j) = TakeIn(r, bytes, j)
<1> DEFINE z == Size(bytes, j)
           b == RateBlock(bytes, j + 1)
           d == RateBlock(c, j + 1)
<1>1. Wholes(c) = q /\ Size(c, j) = z
  BY DEF Wholes, Size
<1>2. /\ z \in Nat /\ z <= 16 /\ (j < q => z = 16)
      /\ \A p \in 1..z : b[p] = bytes[16 * j + p]
  BY SizeFacts, SMTT(60) DEF Size
<1>3. \A p \in 1..z : d[p] = c[16 * j + p]
  <2> DEFINE k == Wholes(c)
             y == Size(c, j)
  <2>1. k = Wholes(c) /\ j \in 0..k /\ y = z
    BY <1>1
  <2>2. \A p \in 1..y : d[p] = c[16 * j + p]
    <3> HIDE DEF k
    <3> QED
      BY <2>1, SizeFacts
  <2> HIDE DEF y, z
  <2> QED
    BY <2>1, <2>2
<1>4. PutIn(r, c, j) = IF j < q THEN Replaced(r, d, 16) ELSE Marked(Replaced(r, d, z), z)
  BY <1>1 DEF PutIn
<1>5. TakeIn(r, bytes, j) = IF j < q THEN Xored(r, b, 16) ELSE Marked(Xored(r, b, z), z)
  BY DEF TakeIn
<1>6. \A p \in 1..z : d[p] = SymDiff(r[p], b[p])
  BY <1>1, <1>2, <1>3
<1>7. Replaced(r, d, z) = Xored(r, b, z)
  <2> HIDE DEF z, b, d
  <2>1. \A i \in 1..16 : (IF i <= z THEN d[i] ELSE r[i])
                           = (IF i <= z THEN SymDiff(r[i], b[i]) ELSE r[i])
    BY <1>2, <1>6
  <2> QED
    BY <2>1 DEF Replaced, Xored
<1> HIDE DEF z, b, d
<1> QED
  BY <1>2, <1>4, <1>5, <1>7

\* A list given by its elements.
LEMMA ListOf ==
    ASSUME NEW n \in Nat, NEW f, f = [i \in 1..n |-> f[i]]
    PROVE  f \in Seq({f[i] : i \in 1..n}) /\ Len(f) = n
<1> DEFINE V == {f[i] : i \in 1..n}
<1>1. \A i \in 1..n : f[i] \in V
  OBVIOUS
<1> HIDE DEF V
<1>2. f \in [1..n -> V]
  BY <1>1
<1>3. f \in Seq(V) /\ Len(f) = n
  BY <1>2
<1> QED
  BY <1>3 DEF V

\* Byte k of the padded bytes.
PaddedAt(bytes, k) ==
    IF k <= Len(bytes) THEN bytes[k] ELSE IF k = Len(bytes) + 1 THEN Mark ELSE {}

\* A byte of a padded block.
LEMMA PaddedByte ==
    ASSUME NEW bytes, NEW n \in Nat, n = Len(bytes), NEW q, q = Wholes(bytes),
           NEW j \in 0..q, NEW i \in 1..16
    PROVE  PaddedBlocks(bytes)[j + 1][i] = PaddedAt(bytes, 16 * j + i)
<1> DEFINE N == 16 * (q + 1)
           f == Padded(bytes)
           a == 16 * j + 1
           b == 16 * (j + 1)
<1>1. q \in Nat /\ N \in Nat
  BY WholesFacts
<1>2. f = [k \in 1..N |-> IF k <= n THEN bytes[k] ELSE IF k = n + 1 THEN Mark ELSE {}]
  BY DEF Padded, RateBytes, Wholes
<1>3. f = [k \in 1..N |-> f[k]]
  BY <1>2
<1>4. 1 <= a /\ a \in Nat /\ b \in Nat /\ a <= b + 1 /\ b <= N /\ b - a + 1 = 16
  BY <1>1
<1>5. PaddedBlocks(bytes)[j + 1] = SubSeq(f, a, b)
  <2>1. j + 1 \in 1..(q + 1) /\ (j + 1) - 1 = j
    BY <1>1
  <2>2. PaddedBlocks(bytes)[j + 1] = SubSeq(f, 16 * ((j + 1) - 1) + 1, 16 * (j + 1))
    BY <2>1 DEF PaddedBlocks, RateBytes
  <2> HIDE DEF f
  <2> QED
    BY <2>1, <2>2
<1>6. a + i - 1 = 16 * j + i /\ 16 * j + i \in 1..N
  BY <1>1
<1>7. SubSeq(f, a, b)[i] = f[16 * j + i]
  <2> HIDE DEF f, N, a, b
  <2> DEFINE V == {f[k] : k \in 1..N}
  <2>1. f \in Seq(V) /\ Len(f) = N
    BY <1>1, <1>3, ListOf
  <2> HIDE DEF V
  <2>2. \A k \in 1..(b - a + 1) : SubSeq(f, a, b)[k] = f[a + k - 1]
    BY <1>4, <2>1, Slice
  <2> QED
    BY <1>4, <1>6, <2>2
<1> HIDE DEF f, N, a, b
<1> DEFINE k == 16 * j + i
<1>8. f[k] = PaddedAt(bytes, k)
  <2> HIDE DEF k
  <2>1. k \in 1..N
    BY <1>6 DEF k
  <2> QED
    BY <1>2, <2>1 DEF PaddedAt
<1> QED
  BY <1>5, <1>7, <1>8

\* The standard's XOR of a whole block.
LEMMA XorRateIs ==
    ASSUME NEW s, IsState(s), NEW d
    PROVE  XorRate(s, d) = WithRate(s, [i \in 1..16 |-> SymDiff(s.rate[i], d[i])])
  BY DEF XorRate, WithRate, IsState, RateBytes

\* A padded block, all 16 bytes of it XORed in.
LEMMA PaddedIsTake ==
    ASSUME NEW s, IsState(s), NEW U, NEW bytes \in Seq(U), NEW q, q = Wholes(bytes),
           NEW j \in 0..q
    PROVE  XorRate(s, PaddedBlocks(bytes)[j + 1]) = WithRate(s, TakeIn(s.rate, bytes, j))
<1> DEFINE n == Len(bytes)
           z == Size(bytes, j)
           b == RateBlock(bytes, j + 1)
           d == PaddedBlocks(bytes)[j + 1]
           r == s.rate
<1>n. n \in Nat /\ n = Len(bytes)
  OBVIOUS
<1> HIDE DEF n
<1>1. q \in Nat /\ 16 * q <= n /\ n - 16 * q <= 15
  BY <1>n, WholesFacts
<1>2. /\ z \in Nat /\ z <= 16 /\ \A i \in 1..z : b[i] = bytes[16 * j + i]
      /\ z = IF j < q THEN 16 ELSE n - 16 * q
  BY <1>n, SizeFacts, SMTT(60) DEF Size
<1>3. \A i \in 1..16 : d[i] = PaddedAt(bytes, 16 * j + i)
  BY <1>n, PaddedByte
<1>4. XorRate(s, d) = WithRate(s, [i \in 1..16 |-> SymDiff(r[i], d[i])])
  <2> HIDE DEF d
  <2> QED
    BY XorRateIs
<1>5. TakeIn(r, bytes, j) = IF j < q THEN Xored(r, b, 16) ELSE Marked(Xored(r, b, z), z)
  BY DEF TakeIn
<1> HIDE DEF z, b, d, r
<1>6. CASE j < q
  <2>1. z = 16 /\ j + 1 <= q
    BY <1>1, <1>2, <1>6
  <2>2. ASSUME NEW i \in 1..16  PROVE  d[i] = b[i] /\ i <= 16
    <3>1. 16 * j + i <= n
      BY <1>n, <1>1, <2>1
    <3>2. d[i] = bytes[16 * j + i]
      BY <1>n, <1>3, <3>1 DEF PaddedAt
    <3> QED
      BY <1>2, <2>1, <3>2
  <2>3. [i \in 1..16 |-> SymDiff(r[i], d[i])] = Xored(r, b, 16)
    BY <2>2 DEF Xored
  <2> QED
    BY <1>4, <1>5, <1>6, <2>3 DEF d, r
<1>7. CASE j = q
  <2>0. z = n - 16 * j
    BY <1>1, <1>2, <1>7
  <2>1. ASSUME NEW i \in 1..16
        PROVE  /\ i <= z => d[i] = b[i]
               /\ i = z + 1 => d[i] = Mark
               /\ z + 1 < i => d[i] = {}
    <3>1. /\ 16 * j + i <= n <=> i <= z
          /\ 16 * j + i = n + 1 <=> i = z + 1
      BY <1>n, <1>1, <2>0
    <3>2. d[i] = IF i <= z THEN bytes[16 * j + i] ELSE IF i = z + 1 THEN Mark ELSE {}
      BY <1>n, <1>3, <3>1 DEF PaddedAt
    <3>3. /\ i <= z => i \in 1..z
          /\ i = z + 1 => ~(i <= z)
          /\ z + 1 < i => ~(i <= z) /\ i # z + 1
      BY <1>2
    <3> QED
      BY <1>2, <3>2, <3>3
  <2>2. ASSUME NEW i \in 1..16
        PROVE  SymDiff(r[i], d[i])
                 = IF i = z + 1 THEN SymDiff(Xored(r, b, z)[i], Mark) ELSE Xored(r, b, z)[i]
    <3>1. Xored(r, b, z)[i] = IF i <= z THEN SymDiff(r[i], b[i]) ELSE r[i]
      BY DEF Xored
    <3>2. CASE i <= z
      <4>1. i # z + 1
        BY <1>2, <3>2
      <4> QED
        BY <2>1, <3>1, <3>2, <4>1
    <3>3. CASE i = z + 1
      <4>1. ~(i <= z)
        BY <1>2, <3>3
      <4> QED
        BY <2>1, <3>1, <3>3, <4>1
    <3>4. CASE z + 1 < i
      <4>1. i # z + 1 /\ ~(i <= z)
        BY <1>2, <3>4
      <4> QED
        BY <2>1, <3>1, <3>4, <4>1, XorZero
    <3> QED
      BY <1>2, <3>2, <3>3, <3>4
  <2>3. [i \in 1..16 |-> SymDiff(r[i], d[i])] = Marked(Xored(r, b, z), z)
    BY <2>2 DEF Marked
  <2> QED
    BY <1>1, <1>4, <1>5, <1>7, <2>3 DEF d, r
<1> QED
  BY <1>1, <1>6, <1>7

\* The standard's run.
NistMet(s, after, q) == [j \in 0..q |-> IF j = 0 THEN s ELSE Permute(after[j], 8)]
NistTaken(after, q) == [j \in 0..q |-> after[j + 1]]

\* The standard's recursion is a run.
LEMMA NistRun ==
    ASSUME NEW s, IsState(s), NEW U, NEW bytes \in Seq(U), NEW q, q = Wholes(bytes),
           NEW after, after = Duplex(s, PaddedBlocks(bytes)),
           NEW met, met = NistMet(s, after, q), NEW taken, taken = NistTaken(after, q)
    PROVE  /\ q \in Nat /\ met[0] = s /\ Follows(met, taken, q)
           /\ taken[q] = after[q + 1] /\ IsState(taken[q])
           /\ \A j \in 0..q : taken[j].rate = TakeIn(met[j].rate, bytes, j)
<1> DEFINE blocks == PaddedBlocks(bytes)
<1>1. q \in Nat /\ q + 1 \in Nat /\ q + 1 # 0
  BY WholesFacts
<1>2. Len(blocks) = q + 1
  <2>1. blocks = [k \in 1..(q + 1) |-> blocks[k]]
    BY DEF PaddedBlocks
  <2> HIDE DEF blocks
  <2> QED
    BY <1>1, <2>1, ListOf
<1>3. after = [j \in 1..(q + 1) |->
                 XorRate(IF j = 1 THEN s ELSE Permute(after[j - 1], 8), blocks[j])]
  <2>1. after = Duplex(s, blocks)
    OBVIOUS
  <2> DEFINE k == q + 1
  <2>2. k \in Nat /\ k = Len(blocks) /\ k # 0
    BY <1>1, <1>2
  <2> HIDE DEF blocks, k
  <2>3. after = [j \in 1..k |->
                  XorRate(IF j = 1 THEN s ELSE Permute(after[j - 1], 8), blocks[j])]
    BY <2>1, <2>2, DuplexUnfolds
  <2> QED
    BY <2>3 DEF k
<1>4. ASSUME NEW j \in 0..q
      PROVE  /\ met[j] = IF j = 0 THEN s ELSE Permute(after[j], 8)
             /\ taken[j] = after[j + 1] /\ taken[j] = XorRate(met[j], blocks[j + 1])
  <2>1. j + 1 \in 1..(q + 1) /\ (j + 1) - 1 = j /\ (j + 1 = 1 <=> j = 0)
    BY <1>1
  <2>2. met[j] = IF j = 0 THEN s ELSE Permute(after[j], 8)
    BY DEF NistMet
  <2>3. taken[j] = after[j + 1]
    BY DEF NistTaken
  <2>4. after[j + 1] = XorRate(IF j + 1 = 1 THEN s ELSE Permute(after[(j + 1) - 1], 8), blocks[j + 1])
    <3> HIDE DEF blocks
    <3> QED
      BY <1>3, <2>1
  <2> HIDE DEF blocks
  <2> QED
    BY <2>1, <2>2, <2>3, <2>4
<1>5. \A j \in 0..q : IsState(met[j])
  BY <1>4, PermuteIsState
<1>6. \A j \in 0..q : taken[j] = WithRate(met[j], TakeIn(met[j].rate, bytes, j))
  BY <1>4, <1>5, PaddedIsTake
<1> HIDE DEF blocks
<1>7. 0 \in 0..q /\ q \in 0..q
  BY <1>1
<1>8. ASSUME NEW j \in 0..(q - 1)  PROVE  met[j + 1] = Permute(taken[j], 8)
  <2>1. j \in 0..q /\ j + 1 \in 0..q /\ j + 1 # 0
    BY <1>1
  <2> QED
    BY <1>4, <2>1
<1>9. \A j \in 0..q : /\ taken[j].capacity = met[j].capacity /\ taken[j].table = met[j].table
                      /\ taken[j].rate = TakeIn(met[j].rate, bytes, j) /\ IsState(taken[j])
  BY <1>6, Projections
<1> QED
  BY <1>1, <1>4, <1>7, <1>8, <1>9 DEF Follows

-----------------------------------------------------------------------------
(* The cipher's phases, each for a first computation, which writes the     *)
(* table, and for one that meets it written.                               *)

Loaded(table, key, nonce) ==
    [rate |-> <<"constant", key>>, capacity |-> {<<"loaded", key, nonce>>}, table |-> table]

\* Initialisation.
LEMMA LoadedLive ==
    ASSUME NEW key, NEW nonce
    PROVE  Live(Loaded(<<>>, key, nonce))
<1> DEFINE f == Loaded(<<>>, key, nonce)
<1>1. f.table = <<>> /\ f.capacity = {<<"loaded", key, nonce>>}
  BY DEF Loaded
<1>2. Len(f.table) = 0
  BY <1>1
<1> HIDE DEF f
<1>3. Chained(f.table)
  BY <1>1, EmptyTable
<1>4. Carries(f.capacity, 0)
  <2>1. \A k, a, b : <<"out", k>> # <<"loaded", a, b>>
    OBVIOUS
  <2>2. \A k \in Nat : <<"out", k>> \notin f.capacity
    BY <1>1, <2>1, Zenon
  <2> QED
    BY <2>2 DEF Carries
<1>5. Live(f)
  BY <1>2, <1>3, <1>4 DEF Live
<1> QED
  BY <1>5 DEF f

\* The key added after the first permutation.
LEMMA InitializeIs ==
    ASSUME NEW table, NEW key, NEW nonce
    PROVE  /\ initialize(table, key, nonce)
                = XorCapacity(Permute(Loaded(table, key, nonce), 12), KeyWords(3, key))
           /\ IsState(initialize(table, key, nonce))
<1>1. initialize(table, key, nonce)
        = XorCapacity(Permute(Loaded(table, key, nonce), 12), KeyWords(3, key))
  BY DEF initialize, Loaded
<1> QED
  BY <1>1, PermuteIsState, XorCapacityIs

\* Initialisation on an empty table.
LEMMA InitializeLive ==
    ASSUME NEW key, NEW nonce, NEW s, s = initialize(<<>>, key, nonce)
    PROVE  IsState(s) /\ Live(s)
<1> DEFINE f == Loaded(<<>>, key, nonce)
           t == Permute(f, 12)
<1>2. Live(f)
  BY LoadedLive
<1> HIDE DEF f
<1>3. Live(t) /\ IsState(t)
  BY <1>2, LivePermute, PermuteIsState
<1>4. s = XorCapacity(t, KeyWords(3, key)) /\ IsState(s)
  BY InitializeIs DEF f
<1> HIDE DEF t
<1>5. \A k \in Nat : <<"out", k>> \notin KeyWords(3, key)
  BY NoOutputs
<1> QED
  BY <1>3, <1>4, <1>5, LiveXor

\* Initialisation on a table that has it.
LEMMA InitializeReplays ==
    ASSUME NEW key, NEW nonce, NEW s, s = initialize(<<>>, key, nonce),
           NEW table, Chained(table), Extends(table, s.table)
    PROVE  Replays(initialize(table, key, nonce), s, table)
<1> DEFINE f == Loaded(<<>>, key, nonce)
           g == Loaded(table, key, nonce)
           t == Permute(f, 12)
           w == KeyWords(3, key)
<1>1. Replays(g, f, table)
  BY DEF Loaded, Replays
<1>2. Live(f)
  BY LoadedLive
<1>3. s = XorCapacity(t, w) /\ initialize(table, key, nonce) = XorCapacity(Permute(g, 12), w)
  BY InitializeIs
<1> HIDE DEF f, g, w
<1>4. t = Permute(f, 12) /\ IsState(t) /\ IsState(Permute(g, 12))
  BY PermuteIsState
<1> HIDE DEF t
<1>5. Extends(table, t.table)
  BY <1>3, <1>4, XorCapacityIs
<1>6. Replays(Permute(g, 12), t, table)
  BY <1>1, <1>2, <1>4, <1>5, ReplayPermute
<1> QED
  BY <1>3, <1>4, <1>6, ReplayXor

\* The run over some bytes that are XORed in, up to its last state.
LEMMA EndedLive ==
    ASSUME NEW s, IsState(s), Live(s), NEW U, NEW bytes \in Seq(U),
           NEW e, e = Ended(OverBlocks(s, bytes, "xor"), bytes, "xor")
    PROVE  IsState(e) /\ Live(e) /\ Extends(e.table, s.table)
<1> DEFINE q == Wholes(bytes)
           met == OverBlocks(s, bytes, "xor")
           taken == Taken(met, bytes, "xor")
<1>0. q = Wholes(bytes) /\ met = OverBlocks(s, bytes, "xor") /\ taken = Taken(met, bytes, "xor")
  OBVIOUS
<1>e. e = Ended(met, bytes, "xor")
  OBVIOUS
<1> HIDE DEF q, met, taken
<1>1. q \in Nat /\ met[0] = s /\ Follows(met, taken, q) /\ taken[q] = e /\ IsState(e)
  BY <1>0, <1>e, XorRun
<1>2. 0 \in 0..q /\ q \in 0..q
  BY <1>1
<1>3. \A j \in 0..q : /\ Live(met[j]) /\ Live(taken[j])
                      /\ Extends(met[q].table, met[j].table)
  BY <1>1, LiveRun
<1>4. taken[q].table = met[q].table
  BY <1>1, <1>2 DEF Follows
<1> QED
  BY <1>1, <1>2, <1>3, <1>4

\* The same bytes again.
LEMMA EndedReplays ==
    ASSUME NEW s, IsState(s), Live(s), NEW U, NEW bytes \in Seq(U),
           NEW e, e = Ended(OverBlocks(s, bytes, "xor"), bytes, "xor"),
           NEW table, Chained(table), Extends(table, e.table),
           NEW g, IsState(g), Replays(g, s, table),
           NEW d, d = Ended(OverBlocks(g, bytes, "xor"), bytes, "xor")
    PROVE  IsState(d) /\ Replays(d, e, table)
<1> DEFINE q == Wholes(bytes)
           met == OverBlocks(s, bytes, "xor")
           taken == Taken(met, bytes, "xor")
           met2 == OverBlocks(g, bytes, "xor")
           taken2 == Taken(met2, bytes, "xor")
<1>0. /\ q = Wholes(bytes) /\ met = OverBlocks(s, bytes, "xor") /\ taken = Taken(met, bytes, "xor")
      /\ met2 = OverBlocks(g, bytes, "xor") /\ taken2 = Taken(met2, bytes, "xor")
      /\ e = Ended(met, bytes, "xor") /\ d = Ended(met2, bytes, "xor")
  OBVIOUS
<1> HIDE DEF q, met, taken, met2, taken2
<1>1. /\ q \in Nat /\ met[0] = s /\ Follows(met, taken, q) /\ taken[q] = e
      /\ \A j \in 0..q : taken[j].rate = TakeIn(met[j].rate, bytes, j)
  BY <1>0, XorRun
<1>2. /\ met2[0] = g /\ Follows(met2, taken2, q) /\ taken2[q] = d /\ IsState(d)
      /\ \A j \in 0..q : taken2[j].rate = TakeIn(met2[j].rate, bytes, j)
  BY <1>0, XorRun
<1>3. Extends(table, met[q].table)
  BY <1>1 DEF Follows
<1>4. \A j \in 0..q : met2[j].rate = met[j].rate => taken2[j].rate = taken[j].rate
  BY <1>1, <1>2
<1>5. Replays(taken2[q], taken[q], table)
  BY <1>1, <1>2, <1>3, <1>4, InStep
<1> QED
  BY <1>1, <1>2, <1>5

\* Other bytes, as many of them.
LEMMA EndedLeaves ==
    ASSUME NEW s, IsState(s), Live(s), NEW U, NEW bytes \in Seq(U),
           NEW e, e = Ended(OverBlocks(s, bytes, "xor"), bytes, "xor"),
           NEW table, Chained(table), Extends(table, e.table),
           NEW g, IsState(g), Replays(g, s, table),
           NEW V, NEW other \in Seq(V), Len(other) = Len(bytes), other # bytes,
           NEW d, d = Ended(OverBlocks(g, other, "xor"), other, "xor")
    PROVE  IsState(d) /\ Astray(d, e, table)
<1> DEFINE q == Wholes(bytes)
           met == OverBlocks(s, bytes, "xor")
           taken == Taken(met, bytes, "xor")
           met2 == OverBlocks(g, other, "xor")
           taken2 == Taken(met2, other, "xor")
<1>0. /\ q = Wholes(bytes) /\ met = OverBlocks(s, bytes, "xor") /\ taken = Taken(met, bytes, "xor")
      /\ met2 = OverBlocks(g, other, "xor") /\ taken2 = Taken(met2, other, "xor")
      /\ e = Ended(met, bytes, "xor") /\ d = Ended(met2, other, "xor")
  OBVIOUS
<1>q. q = Wholes(other) /\ \A j \in 0..q : Size(other, j) = Size(bytes, j)
  BY DEF Wholes, Size
<1>k. PICK k \in 1..Len(bytes) : other[k] # bytes[k]
  OBVIOUS
<1> HIDE DEF q, met, taken, met2, taken2
<1>1. /\ q \in Nat /\ met[0] = s /\ Follows(met, taken, q) /\ taken[q] = e
      /\ \A j \in 0..q : taken[j].rate = TakeIn(met[j].rate, bytes, j)
  BY <1>0, XorRun
<1>2. /\ met2[0] = g /\ Follows(met2, taken2, q) /\ taken2[q] = d /\ IsState(d)
      /\ \A j \in 0..q : taken2[j].rate = TakeIn(met2[j].rate, other, j)
  BY <1>0, <1>q, XorRun
<1>3. Extends(table, met[q].table)
  BY <1>1 DEF Follows
<1> DEFINE i == BlockOf(k)
           p == PlaceOf(k)
<1>4. i \in 0..q /\ p \in 1..Size(bytes, i) /\ 16 * i + p = k
  BY <1>0, <1>k, ByteAt DEF PlaceOf, RateBytes
<1>5. i \in 0..q /\ p \in 1..Size(other, i)
  BY <1>4, <1>q
<1> HIDE DEF i, p
<1>6. ASSUME met2[i].rate = met[i].rate
      PROVE  taken2[i].rate # taken[i].rate
  <2> DEFINE r == met[i].rate
  <2>1. TakeIn(r, bytes, i)[p] = SymDiff(r[p], bytes[k])
    BY <1>0, <1>4, TakenByte
  <2>2. TakeIn(r, other, i)[p] = SymDiff(r[p], other[k])
    BY <1>0, <1>q, <1>4, <1>5, TakenByte
  <2>3. SymDiff(r[p], bytes[k]) # SymDiff(r[p], other[k])
    <3> HIDE DEF r
    <3> QED
      BY <1>k, XorTwice
  <2> QED
    BY <1>1, <1>2, <1>4, <1>6, <2>1, <2>2, <2>3
<1>7. Astray(taken2[q], taken[q], table)
  BY <1>1, <1>2, <1>3, <1>4, <1>6, LeaveRun
<1> QED
  BY <1>1, <1>2, <1>7

\* The associated data.
LEMMA AbsorbIs ==
    ASSUME NEW s, NEW data, data # <<>>, NEW e, e = Ended(OverBlocks(s, data, "xor"), data, "xor")
    PROVE  /\ absorb_associated_data(s, data) = XorCapacity(Permute(e, 8), {<<"domain">>})
           /\ IsState(absorb_associated_data(s, data)) /\ IsState(Permute(e, 8))
<1>1. absorb_associated_data(s, data) = XorCapacity(Permute(e, 8), {<<"domain">>})
  BY DEF absorb_associated_data
<1> QED
  BY <1>1, PermuteIsState, XorCapacityIs

\* Absorption that writes the table.
LEMMA AbsorbLive ==
    ASSUME NEW s, IsState(s), Live(s), NEW U, NEW data \in Seq(U), data # <<>>,
           NEW t, t = absorb_associated_data(s, data)
    PROVE  IsState(t) /\ Live(t) /\ Extends(t.table, s.table)
<1> DEFINE e == Ended(OverBlocks(s, data, "xor"), data, "xor")
           f == Permute(e, 8)
<1>1. IsState(e) /\ Live(e) /\ Extends(e.table, s.table)
  BY EndedLive
<1>2. t = XorCapacity(f, {<<"domain">>}) /\ IsState(t) /\ IsState(f)
  BY AbsorbIs
<1> HIDE DEF e
<1>3. Live(f) /\ Extends(f.table, e.table)
  BY <1>1, LivePermute
<1> HIDE DEF f
<1>4. Live(t) /\ t.table = f.table
  BY <1>2, <1>3, NoOutputs, LiveXor
<1>5. IsTable(s.table)
  BY DEF Live, Chained
<1> QED
  BY <1>1, <1>2, <1>3, <1>4, <1>5, ExtendsTwice

\* Absorption of the same data.
LEMMA AbsorbReplays ==
    ASSUME NEW s, IsState(s), Live(s), NEW U, NEW data \in Seq(U), data # <<>>,
           NEW t, t = absorb_associated_data(s, data),
           NEW table, Chained(table), Extends(table, t.table),
           NEW g, IsState(g), Replays(g, s, table)
    PROVE  Replays(absorb_associated_data(g, data), t, table)
<1> DEFINE e == Ended(OverBlocks(s, data, "xor"), data, "xor")
           d == Ended(OverBlocks(g, data, "xor"), data, "xor")
           f == Permute(e, 8)
<1>1. Live(e)
  BY EndedLive
<1>2. t = XorCapacity(f, {<<"domain">>}) /\ IsState(f)
  BY AbsorbIs
<1>3. absorb_associated_data(g, data) = XorCapacity(Permute(d, 8), {<<"domain">>}) /\ IsState(Permute(d, 8))
  BY AbsorbIs
<1>e. e = Ended(OverBlocks(s, data, "xor"), data, "xor")
  OBVIOUS
<1>d. d = Ended(OverBlocks(g, data, "xor"), data, "xor")
  OBVIOUS
<1> HIDE DEF e, d
<1>4. Live(f) /\ Extends(f.table, e.table) /\ f = Permute(e, 8)
  BY <1>1, LivePermute
<1> HIDE DEF f
<1>5. Extends(table, f.table)
  BY <1>2, XorCapacityIs
<1>6. Extends(table, e.table)
  BY <1>1, <1>4, <1>5, ExtendsTwice DEF Live, Chained
<1>7. Replays(d, e, table)
  BY <1>e, <1>d, <1>6, EndedReplays
<1>8. Replays(Permute(d, 8), f, table)
  BY <1>1, <1>4, <1>5, <1>7, ReplayPermute
<1> QED
  BY <1>2, <1>3, <1>8, ReplayXor

\* Absorption of other data.
LEMMA AbsorbStrays ==
    ASSUME NEW s, IsState(s), Live(s), NEW U, NEW data \in Seq(U), data # <<>>,
           NEW t, t = absorb_associated_data(s, data),
           NEW table, Chained(table), Extends(table, t.table),
           NEW g, IsState(g), Replays(g, s, table),
           NEW V, NEW other \in Seq(V), Len(other) = Len(data), other # data
    PROVE  Strayed(absorb_associated_data(g, other), table)
<1> DEFINE e == Ended(OverBlocks(s, data, "xor"), data, "xor")
           d == Ended(OverBlocks(g, other, "xor"), other, "xor")
           f == Permute(e, 8)
<1>0. other # <<>>
  OBVIOUS
<1>1. Live(e)
  BY EndedLive
<1>2. t = XorCapacity(f, {<<"domain">>}) /\ IsState(f)
  BY AbsorbIs
<1>3. absorb_associated_data(g, other) = XorCapacity(Permute(d, 8), {<<"domain">>}) /\ IsState(Permute(d, 8))
  BY <1>0, AbsorbIs
<1>e. e = Ended(OverBlocks(s, data, "xor"), data, "xor")
  OBVIOUS
<1>d. d = Ended(OverBlocks(g, other, "xor"), other, "xor")
  OBVIOUS
<1> HIDE DEF e, d
<1>4. Live(f) /\ Extends(f.table, e.table) /\ f = Permute(e, 8)
  BY <1>1, LivePermute
<1> HIDE DEF f
<1>5. Extends(table, f.table)
  BY <1>2, XorCapacityIs
<1>6. Extends(table, e.table)
  BY <1>1, <1>4, <1>5, ExtendsTwice DEF Live, Chained
<1>7. Astray(d, e, table)
  BY <1>e, <1>d, <1>6, EndedLeaves
<1>8. Strayed(Permute(d, 8), table)
  BY <1>1, <1>4, <1>5, <1>7, AstrayPermute
<1> QED
  BY <1>3, <1>8, NoOutputs, StrayXor

\* The tag.
LEMMA FinalizeIs ==
    ASSUME NEW e, NEW key, NEW t, t = Permute(XorCapacity(e, KeyWords(2, key)), 12)
    PROVE  finalize_tag(e, key) = [tag |-> SymDiff(t.capacity, KeyWords(3, key)), table |-> t.table]
  BY DEF finalize_tag

\* A tag carries the last output.
LEMMA FinalizeLive ==
    ASSUME NEW e, IsState(e), Live(e), NEW key, NEW final, final = finalize_tag(e, key)
    PROVE  /\ Chained(final.table) /\ Extends(final.table, e.table)
           /\ Carries(final.tag, Len(final.table))
<1> DEFINE f == XorCapacity(e, KeyWords(2, key))
           t == Permute(f, 12)
           w == KeyWords(3, key)
<1>1. final = [tag |-> SymDiff(t.capacity, w), table |-> t.table]
  BY FinalizeIs
<1>2. final.tag = SymDiff(t.capacity, w) /\ final.table = t.table
  BY <1>1
<1>3. Live(f) /\ f.table = e.table
  BY NoOutputs, LiveXor
<1>w. \A k \in Nat : <<"out", k>> \notin w
  BY NoOutputs
<1> HIDE DEF f, w
<1>4. Live(t) /\ Extends(t.table, f.table)
  BY <1>3, LivePermute
<1> HIDE DEF t
<1>5. Chained(t.table) /\ Carries(t.capacity, Len(t.table))
  BY <1>4 DEF Live
<1>6. Carries(SymDiff(t.capacity, w), Len(t.table))
  BY <1>5, <1>w, CarriesXor
<1> QED
  BY <1>2, <1>3, <1>4, <1>5, <1>6

\* A replayed state gives the same tag.
LEMMA FinalizeReplays ==
    ASSUME NEW e, IsState(e), Live(e), NEW key, NEW final, final = finalize_tag(e, key),
           NEW g, IsState(g), Replays(g, e, final.table)
    PROVE  finalize_tag(g, key) = final
<1> DEFINE f == XorCapacity(e, KeyWords(2, key))
           h == XorCapacity(g, KeyWords(2, key))
           t == Permute(f, 12)
           u == Permute(h, 12)
           w == KeyWords(3, key)
           table == final.table
<1>1. final = [tag |-> SymDiff(t.capacity, w), table |-> t.table]
  BY FinalizeIs
<1>2. finalize_tag(g, key) = [tag |-> SymDiff(u.capacity, w), table |-> u.table]
  BY FinalizeIs
<1>3. Live(f)
  BY NoOutputs, LiveXor
<1>4. Chained(table)
  BY FinalizeLive
<1>5. Replays(h, f, table)
  <2> HIDE DEF table
  <2>1. Replays(g, e, table)
    BY DEF table
  <2> QED
    BY <2>1, ReplayXor
<1>6. table = t.table
  BY <1>1
<1> HIDE DEF f, h, w, table
<1>7. Live(t) /\ t = Permute(f, 12)
  BY <1>3, LivePermute
<1> HIDE DEF t
<1>8. Extends(table, t.table)
  BY <1>4, <1>6, ExtendsSelf DEF Chained
<1>9. Replays(u, t, table)
  BY <1>3, <1>4, <1>5, <1>7, <1>8, ReplayPermute
<1>10. u.capacity = t.capacity /\ u.table = t.table
  BY <1>6, <1>9 DEF Replays
<1> HIDE DEF u
<1> QED
  BY <1>1, <1>2, <1>10

\* A state that is astray gives another tag.
LEMMA FinalizeStrays ==
    ASSUME NEW e, IsState(e), Live(e), NEW key, NEW final, final = finalize_tag(e, key),
           NEW g, IsState(g), Astray(g, e, final.table)
    PROVE  finalize_tag(g, key).tag # final.tag
<1> DEFINE f == XorCapacity(e, KeyWords(2, key))
           h == XorCapacity(g, KeyWords(2, key))
           t == Permute(f, 12)
           u == Permute(h, 12)
           w == KeyWords(3, key)
           table == final.table
<1>1. final = [tag |-> SymDiff(t.capacity, w), table |-> t.table]
  BY FinalizeIs
<1>2. finalize_tag(g, key) = [tag |-> SymDiff(u.capacity, w), table |-> u.table]
  BY FinalizeIs
<1>3. Live(f)
  BY NoOutputs, LiveXor
<1>4. Chained(table) /\ Carries(final.tag, Len(table))
  BY FinalizeLive
<1>5. Astray(h, f, table)
  <2> HIDE DEF table
  <2>1. Astray(g, e, table)
    BY DEF table
  <2> QED
    BY <2>1, NoOutputs, AstrayXor
<1>6. table = t.table
  BY <1>1
<1>w. \A k \in Nat : <<"out", k>> \notin w
  BY NoOutputs
<1> HIDE DEF f, h, w, table
<1>7. t = Permute(f, 12)
  OBVIOUS
<1> HIDE DEF t
<1>8. Extends(table, t.table) /\ IsTable(table)
  BY <1>4, <1>6, ExtendsSelf DEF Chained
<1>9. Strayed(u, table)
  BY <1>3, <1>4, <1>5, <1>7, <1>8, AstrayPermute
<1> HIDE DEF u
<1>10. PICK m \in Nat : Len(table) < m /\ Carries(u.capacity, m)
  BY <1>9 DEF Strayed
<1>11. Carries(SymDiff(u.capacity, w), m)
  BY <1>10, <1>w, CarriesXor
<1>12. Len(table) # m
  <2>1. Len(table) \in Nat
    BY <1>8, TableFacts
  <2> QED
    BY <1>10, <2>1
<1>13. final.tag # SymDiff(u.capacity, w)
  BY <1>4, <1>11, <1>12, CarriesDiffer
<1> QED
  BY <1>2, <1>13

\* The message.  Byte i of its ciphertext is byte i XORed with the rate that
\* its block meets.
Cipher(s, bytes) ==
    [i \in 1..Len(bytes) |->
        SymDiff(OverBlocks(s, bytes, "xor")[BlockOf(i)].rate[PlaceOf(i)], bytes[i])]

\* A ciphertext is as long as its message.
LEMMA CipherTyped ==
    ASSUME NEW s, NEW U, NEW bytes \in Seq(U), NEW c, c = Cipher(s, bytes)
    PROVE  /\ \E V : c \in Seq(V)
           /\ Len(c) = Len(bytes)
<1> DEFINE n == Len(bytes)
           V == {c[i] : i \in 1..n}
<1>1. n \in Nat
  OBVIOUS
<1>2. c = [i \in 1..n |-> c[i]]
  BY DEF Cipher
<1> HIDE DEF n
<1>3. c \in Seq(V) /\ Len(c) = n
  BY <1>1, <1>2, ListOf
<1> HIDE DEF V
<1> QED
  BY <1>3 DEF n

\* A byte of ciphertext, read from the state that took in its block.
LEMMA CipherByte ==
    ASSUME NEW s, IsState(s), NEW U, NEW bytes \in Seq(U), NEW q, q = Wholes(bytes),
           NEW met, met = OverBlocks(s, bytes, "xor"), NEW i \in 1..Len(bytes)
    PROVE  Put(met[BlockOf(i)], RateBlock(bytes, BlockOf(i) + 1), "xor").rate[PlaceOf(i)]
             = SymDiff(met[BlockOf(i)].rate[PlaceOf(i)], bytes[i])
<1> DEFINE mrg == Merged(met, bytes, "xor")
           j == BlockOf(i)
           p == PlaceOf(i)
           b == RateBlock(bytes, j + 1)
           z == Size(bytes, j)
<1>1. j \in 0..q /\ p \in 1..16 /\ p \in 1..z /\ b[p] = bytes[i]
  BY ByteAt
<1>2. mrg[j] = Put(met[j], b, "xor")
  BY <1>1 DEF Merged
<1>3. z \in Nat
  BY <1>1, SizeFacts
<1>m. mrg = Merged(met, bytes, "xor")
  OBVIOUS
<1> HIDE DEF mrg, j, p
<1>4. mrg[j].rate = Xored(met[j].rate, b, z)
  <2> DEFINE how == "xor"
  <2>1. how \in {"xor", "set"} /\ how = "xor"
    OBVIOUS
  <2>2. met = OverBlocks(s, bytes, how) /\ mrg = Merged(met, bytes, how)
    BY <1>m
  <2> HIDE DEF how
  <2>3. \A k \in 0..q : how = "xor" =>
          mrg[k].rate = Xored(met[k].rate, RateBlock(bytes, k + 1), Size(bytes, k))
    BY <2>1, <2>2, RunFacts
  <2> QED
    BY <1>1, <2>1, <2>3
<1> HIDE DEF b, z
<1>5. Xored(met[j].rate, b, z)[p] = SymDiff(met[j].rate[p], b[p])
  BY <1>1, <1>3 DEF Xored
<1>6. Put(met[j], b, "xor").rate[p] = SymDiff(met[j].rate[p], bytes[i])
  BY <1>1, <1>2, <1>4, <1>5
<1> QED
  BY <1>6 DEF j, p, b

\* The standard, on a table that the code wrote.
LEMMA NistReplays ==
    ASSUME NEW s, IsState(s), Live(s), NEW U, NEW bytes \in Seq(U),
           NEW e, e = Ended(OverBlocks(s, bytes, "xor"), bytes, "xor"),
           NEW table, Chained(table), Extends(table, e.table),
           NEW g, IsState(g), Replays(g, s, table),
           NEW after, after = Duplex(g, PaddedBlocks(bytes))
    PROVE  /\ IsState(after[Wholes(bytes) + 1]) /\ Replays(after[Wholes(bytes) + 1], e, table)
           /\ [i \in 1..Len(bytes) |-> after[BlockOf(i) + 1].rate[PlaceOf(i)]] = Cipher(s, bytes)
<1> DEFINE q == Wholes(bytes)
           met == OverBlocks(s, bytes, "xor")
           taken == Taken(met, bytes, "xor")
           met2 == NistMet(g, after, q)
           taken2 == NistTaken(after, q)
<1>0. /\ q = Wholes(bytes) /\ met = OverBlocks(s, bytes, "xor") /\ taken = Taken(met, bytes, "xor")
      /\ e = Ended(met, bytes, "xor")
  OBVIOUS
<1>a. met2 = NistMet(g, after, q) /\ taken2 = NistTaken(after, q)
  OBVIOUS
<1>b. \A j \in 0..q : taken2[j] = after[j + 1]
  BY DEF NistTaken
<1> HIDE DEF q, met, taken, met2, taken2
<1>1. /\ q \in Nat /\ met[0] = s /\ Follows(met, taken, q) /\ taken[q] = e
      /\ \A j \in 0..q : taken[j].rate = TakeIn(met[j].rate, bytes, j)
  BY <1>0, XorRun
<1>2. /\ met2[0] = g /\ Follows(met2, taken2, q)
      /\ taken2[q] = after[q + 1] /\ IsState(taken2[q])
      /\ \A j \in 0..q : taken2[j].rate = TakeIn(met2[j].rate, bytes, j)
  BY <1>0, <1>a, NistRun
<1>3. Extends(table, met[q].table)
  BY <1>1 DEF Follows
<1>4. \A j \in 0..q : met2[j].rate = met[j].rate => taken2[j].rate = taken[j].rate
  BY <1>1, <1>2
<1>5. /\ Replays(taken2[q], taken[q], table)
      /\ \A j \in 0..q : Replays(met2[j], met[j], table)
  BY <1>1, <1>2, <1>3, <1>4, InStep
<1>6. ASSUME NEW i \in 1..Len(bytes)
      PROVE  after[BlockOf(i) + 1].rate[PlaceOf(i)]
               = SymDiff(met[BlockOf(i)].rate[PlaceOf(i)], bytes[i])
  <2> DEFINE j == BlockOf(i)
             p == PlaceOf(i)
  <2>1. j \in 0..q /\ p \in 1..Size(bytes, j) /\ 16 * j + p = i
    BY <1>0, ByteAt DEF PlaceOf, RateBytes
  <2> HIDE DEF j, p
  <2>2. TakeIn(met[j].rate, bytes, j)[p] = SymDiff(met[j].rate[p], bytes[16 * j + p])
    BY <1>0, <2>1, TakenByte
  <2>3. after[j + 1].rate = TakeIn(met[j].rate, bytes, j)
    BY <1>b, <1>2, <1>5, <2>1 DEF Replays
  <2>4. after[j + 1].rate[p] = SymDiff(met[j].rate[p], bytes[i])
    BY <2>1, <2>2, <2>3
  <2> QED
    BY <2>4 DEF j, p
<1>7. Cipher(s, bytes)
        = [i \in 1..Len(bytes) |-> SymDiff(met[BlockOf(i)].rate[PlaceOf(i)], bytes[i])]
  BY <1>0 DEF Cipher
<1>8. [i \in 1..Len(bytes) |-> after[BlockOf(i) + 1].rate[PlaceOf(i)]] = Cipher(s, bytes)
  BY <1>6, <1>7
<1>9. IsState(after[q + 1]) /\ Replays(after[q + 1], e, table)
  BY <1>1, <1>2, <1>5
<1> QED
  BY <1>0, <1>8, <1>9

\* Decryption of the ciphertext.
LEMMA DecryptReplays ==
    ASSUME NEW s, IsState(s), Live(s), NEW U, NEW bytes \in Seq(U),
           NEW e, e = Ended(OverBlocks(s, bytes, "xor"), bytes, "xor"),
           NEW table, Chained(table), Extends(table, e.table),
           NEW g, IsState(g), Replays(g, s, table),
           NEW V, NEW c \in Seq(V), c = Cipher(s, bytes),
           NEW d, d = Ended(OverBlocks(g, c, "set"), c, "set")
    PROVE  /\ IsState(d) /\ Replays(d, e, table)
           /\ \A i \in 1..Len(bytes) :
                SymDiff(OverBlocks(g, c, "set")[BlockOf(i)].rate[PlaceOf(i)], c[i]) = bytes[i]
<1> DEFINE q == Wholes(bytes)
           met == OverBlocks(s, bytes, "xor")
           taken == Taken(met, bytes, "xor")
           met2 == OverBlocks(g, c, "set")
           taken2 == Taken(met2, c, "set")
<1>0. /\ q = Wholes(bytes) /\ met = OverBlocks(s, bytes, "xor") /\ taken = Taken(met, bytes, "xor")
      /\ met2 = OverBlocks(g, c, "set") /\ taken2 = Taken(met2, c, "set")
      /\ e = Ended(met, bytes, "xor") /\ d = Ended(met2, c, "set")
  OBVIOUS
<1>c. Len(c) = Len(bytes)
  BY CipherTyped
<1>q. q = Wholes(c)
  BY <1>c DEF Wholes
<1>b. \A i \in 1..Len(bytes) : c[i] = SymDiff(met[BlockOf(i)].rate[PlaceOf(i)], bytes[i])
  BY DEF Cipher
<1> HIDE DEF q, met, taken, met2, taken2
<1>1. /\ q \in Nat /\ met[0] = s /\ Follows(met, taken, q) /\ taken[q] = e
      /\ \A j \in 0..q : taken[j].rate = TakeIn(met[j].rate, bytes, j)
  BY <1>0, XorRun
<1>2. /\ met2[0] = g /\ Follows(met2, taken2, q) /\ taken2[q] = d /\ IsState(d)
      /\ \A j \in 0..q : taken2[j].rate = PutIn(met2[j].rate, c, j)
  BY <1>0, <1>q, SetRun
<1>3. Extends(table, met[q].table)
  BY <1>1 DEF Follows
<1>4. ASSUME NEW j \in 0..q, met2[j].rate = met[j].rate
      PROVE  taken2[j].rate = taken[j].rate
  <2> DEFINE r == met[j].rate
  <2>1. ASSUME NEW p \in 1..Size(bytes, j)
        PROVE  c[16 * j + p] = SymDiff(r[p], bytes[16 * j + p])
    <3> DEFINE i == 16 * j + p
    <3>1. i \in 1..Len(bytes) /\ BlockOf(i) = j /\ PlaceOf(i) = p
      BY <1>0, PositionOf
    <3> HIDE DEF i
    <3>2. c[i] = SymDiff(r[p], bytes[i])
      BY <1>b, <3>1
    <3> QED
      BY <3>2 DEF i
  <2> HIDE DEF r
  <2>2. PutIn(r, c, j) = TakeIn(r, bytes, j)
    BY <1>0, <1>c, <2>1, PutIsTake
  <2> QED
    BY <1>1, <1>2, <1>4, <2>2 DEF r
<1>5. /\ Replays(taken2[q], taken[q], table)
      /\ \A j \in 0..q : Replays(met2[j], met[j], table)
  BY <1>1, <1>2, <1>3, <1>4, InStep
<1>6. ASSUME NEW i \in 1..Len(bytes)
      PROVE  SymDiff(met2[BlockOf(i)].rate[PlaceOf(i)], c[i]) = bytes[i]
  <2>1. BlockOf(i) \in 0..q
    BY <1>0, ByteAt
  <2>2. met2[BlockOf(i)].rate = met[BlockOf(i)].rate
    BY <1>5, <2>1 DEF Replays
  <2> QED
    BY <1>b, <2>2, XorTwice
<1> QED
  BY <1>0, <1>1, <1>2, <1>5, <1>6

\* Decryption of other bytes, as many of them, and decryption that is astray
\* already.
LEMMA DecryptLeaves ==
    ASSUME NEW s, IsState(s), Live(s), NEW U, NEW bytes \in Seq(U),
           NEW e, e = Ended(OverBlocks(s, bytes, "xor"), bytes, "xor"),
           NEW table, Chained(table), Extends(table, e.table),
           NEW g, IsState(g), Replays(g, s, table),
           NEW V, NEW other \in Seq(V), Len(other) = Len(bytes), other # Cipher(s, bytes),
           NEW d, d = Ended(OverBlocks(g, other, "set"), other, "set")
    PROVE  IsState(d) /\ Astray(d, e, table)
<1> DEFINE q == Wholes(bytes)
           met == OverBlocks(s, bytes, "xor")
           taken == Taken(met, bytes, "xor")
           met2 == OverBlocks(g, other, "set")
           taken2 == Taken(met2, other, "set")
           c == Cipher(s, bytes)
<1>0. /\ q = Wholes(bytes) /\ met = OverBlocks(s, bytes, "xor") /\ taken = Taken(met, bytes, "xor")
      /\ met2 = OverBlocks(g, other, "set") /\ taken2 = Taken(met2, other, "set")
      /\ e = Ended(met, bytes, "xor") /\ d = Ended(met2, other, "set")
  OBVIOUS
<1>q. q = Wholes(other) /\ \A j \in 0..q : Size(other, j) = Size(bytes, j)
  BY DEF Wholes, Size
<1>b. \A i \in 1..Len(bytes) : c[i] = SymDiff(met[BlockOf(i)].rate[PlaceOf(i)], bytes[i])
  BY DEF Cipher
<1>c. Len(c) = Len(bytes) /\ \E W : c \in Seq(W)
  BY CipherTyped
<1> HIDE DEF q, met, taken, met2, taken2, c
<1>k. PICK k \in 1..Len(bytes) : other[k] # c[k]
  <2>1. PICK W : c \in Seq(W)
    BY <1>c
  <2>2. other # c
    BY DEF c
  <2> QED
    BY <1>c, <2>1, <2>2
<1>1. /\ q \in Nat /\ met[0] = s /\ Follows(met, taken, q) /\ taken[q] = e
      /\ \A j \in 0..q : taken[j].rate = TakeIn(met[j].rate, bytes, j)
  BY <1>0, XorRun
<1>2. /\ met2[0] = g /\ Follows(met2, taken2, q) /\ taken2[q] = d /\ IsState(d)
      /\ \A j \in 0..q : taken2[j].rate = PutIn(met2[j].rate, other, j)
  BY <1>0, <1>q, SetRun
<1>3. Extends(table, met[q].table)
  BY <1>1 DEF Follows
<1> DEFINE i == BlockOf(k)
           p == PlaceOf(k)
<1>4. i \in 0..q /\ p \in 1..Size(bytes, i) /\ 16 * i + p = k
  BY <1>0, <1>k, ByteAt DEF PlaceOf, RateBytes
<1>5. p \in 1..Size(other, i) /\ c[k] = SymDiff(met[i].rate[p], bytes[k])
  BY <1>4, <1>q, <1>b
<1> HIDE DEF i, p
<1>6. ASSUME met2[i].rate = met[i].rate
      PROVE  taken2[i].rate # taken[i].rate
  <2> DEFINE r == met[i].rate
  <2>1. TakeIn(r, bytes, i)[p] = SymDiff(r[p], bytes[k])
    BY <1>0, <1>4, TakenByte
  <2>2. PutIn(r, other, i)[p] = other[k]
    BY <1>0, <1>q, <1>4, <1>5, PutByte
  <2> QED
    BY <1>1, <1>2, <1>k, <1>4, <1>5, <1>6, <2>1, <2>2
<1>7. Astray(taken2[q], taken[q], table)
  BY <1>1, <1>2, <1>3, <1>4, <1>6, LeaveRun
<1> QED
  BY <1>1, <1>2, <1>7

\* Decryption that is astray from the start stays so.
LEMMA DecryptStrays ==
    ASSUME NEW table, Chained(table), NEW g, IsState(g), Strayed(g, table),
           NEW V, NEW other \in Seq(V), NEW e,
           NEW d, d = Ended(OverBlocks(g, other, "set"), other, "set")
    PROVE  IsState(d) /\ Astray(d, e, table)
<1> DEFINE q == Wholes(other)
           met == OverBlocks(g, other, "set")
           taken == Taken(met, other, "set")
<1>0. /\ q = Wholes(other) /\ met = OverBlocks(g, other, "set")
      /\ taken = Taken(met, other, "set") /\ d = Ended(met, other, "set")
  OBVIOUS
<1> HIDE DEF q, met, taken
<1>1. q \in Nat /\ met[0] = g /\ Follows(met, taken, q) /\ taken[q] = d /\ IsState(d)
  BY <1>0, SetRun
<1>2. Strayed(taken[q], table)
  BY <1>1, StrayRun
<1> QED
  BY <1>1, <1>2 DEF Astray

-----------------------------------------------------------------------------
(* The cipher. *)

\* The state that meets the message.
Start(table, key, nonce, data) == absorb_associated_data(initialize(table, key, nonce), data)

\* What encryption returns, phase by phase.
LEMMA EncryptIs ==
    ASSUME NEW table, NEW key, NEW nonce, NEW data, data # <<>>, NEW U, NEW m \in Seq(U),
           NEW s, s = Start(table, key, nonce, data),
           NEW e, e = Ended(OverBlocks(s, m, "xor"), m, "xor"),
           NEW sealed, sealed = c0_ascon_aead128_encrypt(table, key, nonce, data, m)
    PROVE  /\ sealed.ciphertext = Cipher(s, m)
           /\ finalize_tag(e, key) = [tag |-> sealed.tag, table |-> sealed.table]
<1> DEFINE met == OverBlocks(s, m, "xor")
           q == Wholes(m)
           final == finalize_tag(e, key)
<1>1. sealed = [ciphertext |-> [i \in 1..Len(m) |->
                    Put(met[BlockOf(i)], RateBlock(m, BlockOf(i) + 1), "xor").rate[PlaceOf(i)]],
                tag |-> final.tag, table |-> final.table]
  BY DEF c0_ascon_aead128_encrypt, Start
<1>2. final = [tag |-> final.tag, table |-> final.table]
  BY DEF finalize_tag
<1>3. IsState(s)
  BY AbsorbIs DEF Start
<1>0. met = OverBlocks(s, m, "xor") /\ q = Wholes(m)
  OBVIOUS
<1> HIDE DEF met, q, final
<1>4. \A i \in 1..Len(m) :
        Put(met[BlockOf(i)], RateBlock(m, BlockOf(i) + 1), "xor").rate[PlaceOf(i)]
          = SymDiff(met[BlockOf(i)].rate[PlaceOf(i)], m[i])
  BY <1>0, <1>3, CipherByte
<1>5. sealed.ciphertext = [i \in 1..Len(m) |-> SymDiff(met[BlockOf(i)].rate[PlaceOf(i)], m[i])]
  BY <1>1, <1>4
<1>6. Cipher(s, m) = [i \in 1..Len(m) |-> SymDiff(met[BlockOf(i)].rate[PlaceOf(i)], m[i])]
  BY <1>0 DEF Cipher
<1>7. sealed.tag = final.tag /\ sealed.table = final.table
  BY <1>1
<1> QED
  BY <1>2, <1>5, <1>6, <1>7 DEF final

\* What decryption writes out, and what it leaves when the tag is wrong.
Uncovered(g, c) ==
    [i \in 1..Len(c) |-> SymDiff(OverBlocks(g, c, "set")[BlockOf(i)].rate[PlaceOf(i)], c[i])]
ZeroBytes(c) == [i \in 1..Len(c) |-> {}]

\* What decryption returns, by its tag.
LEMMA DecryptIs ==
    ASSUME NEW table, NEW key, NEW nonce, NEW data, NEW c, NEW tag,
           NEW g, g = Start(table, key, nonce, data),
           NEW d, d = Ended(OverBlocks(g, c, "set"), c, "set")
    PROVE  /\ finalize_tag(d, key).tag = tag =>
                c0_ascon_aead128_decrypt(table, key, nonce, data, c, tag)
                  = [status |-> "OK", plaintext |-> Uncovered(g, c)]
           /\ finalize_tag(d, key).tag # tag =>
                c0_ascon_aead128_decrypt(table, key, nonce, data, c, tag)
                  = [status |-> "ERR_AUTH", plaintext |-> ZeroBytes(c)]
  BY DEF c0_ascon_aead128_decrypt, Start, Uncovered, ZeroBytes

\* The table that an encryption leaves, and where its states are on it.
LEMMA EncryptRun ==
    ASSUME NEW key, NEW nonce, NEW D, NEW data \in Seq(D), data # <<>>, NEW U, NEW m \in Seq(U),
           NEW s, s = Start(<<>>, key, nonce, data),
           NEW e, e = Ended(OverBlocks(s, m, "xor"), m, "xor"),
           NEW sealed, sealed = c0_ascon_aead128_encrypt(<<>>, key, nonce, data, m),
           NEW table, table = sealed.table
    PROVE  /\ IsState(s) /\ Live(s) /\ IsState(e) /\ Live(e)
           /\ Chained(table) /\ Extends(table, e.table) /\ Extends(table, s.table)
           /\ Extends(table, initialize(<<>>, key, nonce).table)
<1> DEFINE s0 == initialize(<<>>, key, nonce)
           final == finalize_tag(e, key)
<1>1. IsState(s0) /\ Live(s0)
  BY InitializeLive
<1>2. s = absorb_associated_data(s0, data)
  BY DEF Start
<1> HIDE DEF s0
<1>3. IsState(s) /\ Live(s) /\ Extends(s.table, s0.table)
  BY <1>1, <1>2, AbsorbLive
<1>4. IsState(e) /\ Live(e) /\ Extends(e.table, s.table)
  BY <1>3, EndedLive
<1>5. final = [tag |-> sealed.tag, table |-> sealed.table]
  <2> DEFINE t == <<>>
  <2>1. s = Start(t, key, nonce, data) /\ sealed = c0_ascon_aead128_encrypt(t, key, nonce, data, m)
    OBVIOUS
  <2> HIDE DEF t
  <2> QED
    BY <2>1, EncryptIs
<1>6. final.table = table
  BY <1>5
<1>7. Chained(final.table) /\ Extends(final.table, e.table)
  BY <1>4, FinalizeLive
<1> HIDE DEF final
<1>8. IsTable(s.table) /\ IsTable(s0.table)
  BY <1>1, <1>3 DEF Live, Chained
<1>9. Extends(table, s.table)
  BY <1>4, <1>6, <1>7, <1>8, ExtendsTwice
<1>10. Extends(table, s0.table)
  BY <1>3, <1>8, <1>9, ExtendsTwice
<1> QED
  BY <1>3, <1>4, <1>6, <1>7, <1>9, <1>10 DEF s0

\* A second computation with the same key and nonce starts where the first did.
LEMMA StartReplays ==
    ASSUME NEW key, NEW nonce, NEW D, NEW data \in Seq(D), data # <<>>,
           NEW s, s = Start(<<>>, key, nonce, data),
           NEW table, Chained(table), Extends(table, s.table),
           Extends(table, initialize(<<>>, key, nonce).table),
           NEW g, g = Start(table, key, nonce, data)
    PROVE  IsState(g) /\ Replays(g, s, table)
<1> DEFINE s0 == initialize(<<>>, key, nonce)
           g0 == initialize(table, key, nonce)
<1>1. IsState(s0) /\ Live(s0) /\ IsState(g0)
  BY InitializeLive, InitializeIs
<1>2. Replays(g0, s0, table)
  BY InitializeReplays
<1>3. s = absorb_associated_data(s0, data) /\ g = absorb_associated_data(g0, data)
  BY DEF Start
<1> HIDE DEF s0, g0
<1>4. IsState(g)
  BY <1>3, AbsorbIs
<1>5. Replays(g, s, table)
  BY <1>1, <1>2, <1>3, AbsorbReplays
<1> QED
  BY <1>4, <1>5

\* One with other associated data goes astray.
LEMMA StartStrays ==
    ASSUME NEW key, NEW nonce, NEW D, NEW data \in Seq(D), data # <<>>,
           NEW s, s = Start(<<>>, key, nonce, data),
           NEW table, Chained(table), Extends(table, s.table),
           Extends(table, initialize(<<>>, key, nonce).table),
           NEW W, NEW other \in Seq(W), Len(other) = Len(data), other # data,
           NEW g, g = Start(table, key, nonce, other)
    PROVE  IsState(g) /\ Strayed(g, table)
<1> DEFINE s0 == initialize(<<>>, key, nonce)
           g0 == initialize(table, key, nonce)
<1>0. other # <<>>
  OBVIOUS
<1>1. IsState(s0) /\ Live(s0) /\ IsState(g0)
  BY InitializeLive, InitializeIs
<1>2. Replays(g0, s0, table)
  BY InitializeReplays
<1>3. s = absorb_associated_data(s0, data) /\ g = absorb_associated_data(g0, other)
  BY DEF Start
<1> HIDE DEF s0, g0
<1>4. IsState(g)
  BY <1>0, <1>3, AbsorbIs
<1>5. Strayed(g, table)
  BY <1>1, <1>2, <1>3, AbsorbStrays
<1> QED
  BY <1>4, <1>5

\* For every key, nonce, associated data and message, encryption returns the
\* ciphertext and tag that SP 800-232 defines: padding first and splitting
\* then is the same as the code's loop over whole blocks with a last part
\* that is padded in one of two words.
THEOREM EncryptIsNist ==
    ASSUME NEW key, NEW nonce, NEW D, NEW data \in Seq(D), data # <<>>, NEW U, NEW m \in Seq(U),
           NEW sealed, sealed = c0_ascon_aead128_encrypt(<<>>, key, nonce, data, m)
    PROVE  NistEncrypt(sealed.table, key, nonce, data, m)
             = [ciphertext |-> sealed.ciphertext, tag |-> sealed.tag]
<1> DEFINE table == sealed.table
           s0 == initialize(<<>>, key, nonce)
           g0 == initialize(table, key, nonce)
           s == Start(<<>>, key, nonce, data)
           e == Ended(OverBlocks(s, m, "xor"), m, "xor")
           x == Ended(OverBlocks(s0, data, "xor"), data, "xor")
           ad == Duplex(g0, PaddedBlocks(data))
           y == ad[Wholes(data) + 1]
           g == XorCapacity(Permute(y, 8), {<<"domain">>})
           after == Duplex(g, PaddedBlocks(m))
           d == after[Wholes(m) + 1]
<1>1. /\ IsState(s) /\ Live(s) /\ IsState(e) /\ Live(e)
      /\ Chained(table) /\ Extends(table, e.table) /\ Extends(table, s.table)
      /\ Extends(table, s0.table)
  BY EncryptRun
<1>2. /\ sealed.ciphertext = Cipher(s, m)
      /\ finalize_tag(e, key) = [tag |-> sealed.tag, table |-> table]
  <2> DEFINE t == <<>>
  <2>1. s = Start(t, key, nonce, data) /\ sealed = c0_ascon_aead128_encrypt(t, key, nonce, data, m)
    OBVIOUS
  <2> HIDE DEF t
  <2> QED
    BY <2>1, EncryptIs
<1>3. IsState(s0) /\ Live(s0) /\ IsState(g0)
  BY InitializeLive, InitializeIs
<1>4. NistEncrypt(table, key, nonce, data, m)
        = [ciphertext |-> [i \in 1..Len(m) |-> after[BlockOf(i) + 1].rate[PlaceOf(i)]],
           tag |-> finalize_tag(d, key).tag]
  BY DEF NistEncrypt
<1> HIDE DEF table
<1>5. Replays(g0, s0, table)
  BY <1>1, InitializeReplays
<1>6. s = absorb_associated_data(s0, data) /\ s = XorCapacity(Permute(x, 8), {<<"domain">>})
  BY AbsorbIs DEF Start
<1>x. x = Ended(OverBlocks(s0, data, "xor"), data, "xor") /\ ad = Duplex(g0, PaddedBlocks(data))
  OBVIOUS
<1>e. e = Ended(OverBlocks(s, m, "xor"), m, "xor") /\ after = Duplex(g, PaddedBlocks(m))
  OBVIOUS
<1>p. IsState(Permute(x, 8)) /\ IsState(Permute(y, 8))
  BY PermuteIsState
<1> HIDE DEF s0, g0, s, x, ad, e, after
<1>7. IsState(x) /\ Live(x)
  BY <1>3, <1>x, EndedLive
<1> DEFINE f == Permute(x, 8)
<1>8. f = Permute(x, 8) /\ Live(f) /\ Extends(f.table, x.table)
  BY <1>7, LivePermute
<1>9. s = XorCapacity(f, {<<"domain">>}) /\ IsState(f)
  BY <1>6, <1>p
<1> HIDE DEF f
<1>10. Extends(table, f.table)
  BY <1>1, <1>9, XorCapacityIs
<1>11. Extends(table, x.table)
  BY <1>7, <1>8, <1>10, ExtendsTwice DEF Live, Chained
<1>12. IsState(y) /\ Replays(y, x, table)
  BY <1>1, <1>3, <1>5, <1>x, <1>11, NistReplays
<1> HIDE DEF y
<1>13. Replays(Permute(y, 8), f, table)
  BY <1>1, <1>7, <1>8, <1>10, <1>12, ReplayPermute
<1>14. Replays(g, s, table)
  BY <1>9, <1>p, <1>13, ReplayXor
<1>15. IsState(g)
  BY <1>p, XorCapacityIs
<1> HIDE DEF g
<1>16. /\ IsState(d) /\ Replays(d, e, table)
       /\ [i \in 1..Len(m) |-> after[BlockOf(i) + 1].rate[PlaceOf(i)]] = Cipher(s, m)
  BY <1>1, <1>e, <1>14, <1>15, NistReplays
<1> DEFINE final == finalize_tag(e, key)
<1>17. final = finalize_tag(e, key) /\ final.tag = sealed.tag /\ final.table = table
  BY <1>2
<1> HIDE DEF d, final
<1>18. finalize_tag(d, key) = final
  BY <1>1, <1>16, <1>17, FinalizeReplays
<1> QED
  BY <1>2, <1>4, <1>16, <1>17, <1>18 DEF table

\* For every key, nonce, associated data and message, decryption of what
\* encryption returned succeeds and gives the message: the merge of the
\* ciphertext into the state keeps the two in step to the last byte.
THEOREM DecryptInverts ==
    ASSUME NEW key, NEW nonce, NEW D, NEW data \in Seq(D), data # <<>>, NEW U, NEW m \in Seq(U),
           NEW sealed, sealed = c0_ascon_aead128_encrypt(<<>>, key, nonce, data, m)
    PROVE  c0_ascon_aead128_decrypt(sealed.table, key, nonce, data, sealed.ciphertext, sealed.tag)
             = [status |-> "OK", plaintext |-> m]
<1> DEFINE table == sealed.table
           c == sealed.ciphertext
           s == Start(<<>>, key, nonce, data)
           g == Start(table, key, nonce, data)
           e == Ended(OverBlocks(s, m, "xor"), m, "xor")
           d == Ended(OverBlocks(g, c, "set"), c, "set")
           final == finalize_tag(e, key)
<1>1. /\ IsState(s) /\ Live(s) /\ IsState(e) /\ Live(e)
      /\ Chained(table) /\ Extends(table, e.table) /\ Extends(table, s.table)
      /\ Extends(table, initialize(<<>>, key, nonce).table)
  BY EncryptRun
<1>2. c = Cipher(s, m) /\ final = [tag |-> sealed.tag, table |-> table]
  <2> DEFINE t == <<>>
  <2>1. s = Start(t, key, nonce, data) /\ sealed = c0_ascon_aead128_encrypt(t, key, nonce, data, m)
    OBVIOUS
  <2> HIDE DEF t
  <2> QED
    BY <2>1, EncryptIs
<1>3. final.tag = sealed.tag /\ final.table = table
  BY <1>2
<1> HIDE DEF table, c
<1>4. IsState(g) /\ Replays(g, s, table)
  BY <1>1, StartReplays
<1>s. s = Start(<<>>, key, nonce, data) /\ g = Start(table, key, nonce, data)
  OBVIOUS
<1> HIDE DEF s, g
<1>5. Len(c) = Len(m) /\ \E V : c \in Seq(V)
  BY <1>2, CipherTyped
<1>6. PICK V : c \in Seq(V)
  BY <1>5
<1>7. /\ IsState(d) /\ Replays(d, e, table)
      /\ \A i \in 1..Len(m) :
           SymDiff(OverBlocks(g, c, "set")[BlockOf(i)].rate[PlaceOf(i)], c[i]) = m[i]
  BY <1>1, <1>2, <1>4, <1>6, DecryptReplays
<1>e. final = finalize_tag(e, key) /\ d = Ended(OverBlocks(g, c, "set"), c, "set")
  OBVIOUS
<1> HIDE DEF e, d, final
<1>8. finalize_tag(d, key).tag = sealed.tag
  BY <1>1, <1>3, <1>7, <1>e, FinalizeReplays
<1>9. c0_ascon_aead128_decrypt(table, key, nonce, data, c, sealed.tag)
        = [status |-> "OK", plaintext |-> Uncovered(g, c)]
  BY <1>s, <1>e, <1>8, DecryptIs
<1>10. Uncovered(g, c) = m
  <2>1. m = [i \in 1..Len(m) |-> m[i]]
    OBVIOUS
  <2> QED
    BY <1>5, <1>7, <2>1 DEF Uncovered
<1> QED
  BY <1>9, <1>10 DEF table, c

\* Something a sender did not seal: other associated data, other bytes of
\* ciphertext or another tag.
Tampering(sealed, m, data, data2, c2, tag2) ==
    \/ data2 # data /\ tag2 = sealed.tag
    \/ data2 = data /\ Len(c2) = Len(m) /\ c2 # sealed.ciphertext /\ tag2 = sealed.tag
    \/ data2 = data /\ c2 = sealed.ciphertext /\ tag2 # sealed.tag

\* For every key, nonce, associated data and message, decryption refuses, and
\* leaves only zero bytes behind, when any byte of the associated data, of the
\* ciphertext or of the tag is not the one encryption used or returned.
THEOREM TamperingIsRefused ==
    ASSUME NEW key, NEW nonce, NEW D, NEW data \in Seq(D), data # <<>>, NEW U, NEW m \in Seq(U),
           NEW sealed, sealed = c0_ascon_aead128_encrypt(<<>>, key, nonce, data, m),
           NEW W, NEW data2 \in Seq(W), Len(data2) = Len(data),
           NEW V, NEW c2 \in Seq(V), NEW tag2,
           Tampering(sealed, m, data, data2, c2, tag2)
    PROVE  c0_ascon_aead128_decrypt(sealed.table, key, nonce, data2, c2, tag2)
             = [status |-> "ERR_AUTH", plaintext |-> ZeroBytes(c2)]
<1> DEFINE table == sealed.table
           s == Start(<<>>, key, nonce, data)
           g == Start(table, key, nonce, data2)
           e == Ended(OverBlocks(s, m, "xor"), m, "xor")
           d == Ended(OverBlocks(g, c2, "set"), c2, "set")
           final == finalize_tag(e, key)
<1>1. /\ IsState(s) /\ Live(s) /\ IsState(e) /\ Live(e)
      /\ Chained(table) /\ Extends(table, e.table) /\ Extends(table, s.table)
      /\ Extends(table, initialize(<<>>, key, nonce).table)
  BY EncryptRun
<1>2. sealed.ciphertext = Cipher(s, m) /\ final = [tag |-> sealed.tag, table |-> table]
  <2> DEFINE t == <<>>
  <2>1. s = Start(t, key, nonce, data) /\ sealed = c0_ascon_aead128_encrypt(t, key, nonce, data, m)
    OBVIOUS
  <2> HIDE DEF t
  <2> QED
    BY <2>1, EncryptIs
<1>3. final.tag = sealed.tag /\ final.table = table
  BY <1>2
<1> HIDE DEF table
<1>s. s = Start(<<>>, key, nonce, data) /\ g = Start(table, key, nonce, data2)
  OBVIOUS
<1> HIDE DEF s, g
<1>e. /\ e = Ended(OverBlocks(s, m, "xor"), m, "xor") /\ final = finalize_tag(e, key)
      /\ d = Ended(OverBlocks(g, c2, "set"), c2, "set")
  OBVIOUS
<1> HIDE DEF e, d, final
<1>4. finalize_tag(d, key).tag # tag2
  <2>1. CASE data2 # data /\ tag2 = sealed.tag
    <3>1. IsState(g) /\ Strayed(g, table)
      BY <1>1, <1>s, <2>1, StartStrays
    <3>2. IsState(d) /\ Astray(d, e, table)
      BY <1>1, <1>e, <3>1, DecryptStrays
    <3> QED
      BY <1>1, <1>3, <1>e, <2>1, <3>2, FinalizeStrays
  <2>2. CASE data2 = data /\ Len(c2) = Len(m) /\ c2 # sealed.ciphertext /\ tag2 = sealed.tag
    <3>1. IsState(g) /\ Replays(g, s, table)
      BY <1>1, <1>s, <2>2, StartReplays
    <3>2. IsState(d) /\ Astray(d, e, table)
      BY <1>1, <1>2, <1>e, <2>2, <3>1, DecryptLeaves
    <3> QED
      BY <1>1, <1>3, <1>e, <2>2, <3>2, FinalizeStrays
  <2>3. CASE data2 = data /\ c2 = sealed.ciphertext /\ tag2 # sealed.tag
    <3>1. IsState(g) /\ Replays(g, s, table)
      BY <1>1, <1>s, <2>3, StartReplays
    <3>2. IsState(d) /\ Replays(d, e, table)
      BY <1>1, <1>2, <1>e, <2>3, <3>1, DecryptReplays
    <3> QED
      BY <1>1, <1>3, <1>e, <2>3, <3>2, FinalizeReplays
  <2> QED
    BY <2>1, <2>2, <2>3 DEF Tampering
<1> QED
  BY <1>s, <1>e, <1>4, DecryptIs DEF table
=============================================================================
