----------------------- MODULE TransparencyLogProofs -----------------------
(***************************************************************************)
(* Proofs about TransparencyLog, for any requests, any log before the run  *)
(* and tiles of any width that is a power of two, whatever failed calls    *)
(* leave on the connection and whatever takes it away again: what is       *)
(* published is immutable, what a route's answer says of its leaf holds,   *)
(* every signed checkpoint can be rebuilt from the published files, and    *)
(* RFC 9162's verifier accepts that every checkpoint, and every frozen     *)
(* anchor job, extends the ones before it.                                 *)
(*                                                                         *)
(* The order: where a tree is split, the cache of subtrees and the tiles   *)
(* required; powers of two, trees and hashes by induction over ranges, and *)
(* true caches; then the tables, what each call may write to them, and the *)
(* requests (up to FilesNeverChange); the files against the hashes (up to  *)
(* CheckpointsCanBeRebuilt); and PROOF(m, D[n]), its verifier and the      *)
(* frozen jobs.                                                            *)
(***************************************************************************)
EXTENDS TransparencyLog, SequenceTheorems, WellFoundedInduction, TLAPS

\* A set of natural numbers that is not empty has a least element.
LEMMA LeastNatural ==
    ASSUME NEW T \in SUBSET Nat, T # {}
    PROVE  \E m \in T : \A n \in T : m <= n
<1> DEFINE R == OpToRel(<, Nat)
<1>1. IsWellFoundedOn(R, Nat)
  BY NatLessThanWellFounded
<1>2. \A x, y \in Nat : x < y => <<x, y>> \in R
  BY DEF OpToRel
<1> HIDE DEF R
<1>3. PICK x \in T : \A y \in T : <<y, x>> \notin R
  BY <1>1, WFMin
<1>4. ASSUME NEW y \in T PROVE x <= y
  <2>1. x \in Nat /\ y \in Nat /\ <<y, x>> \notin R
    BY <1>3
  <2>2. ~(y < x)
    BY <1>2, <2>1
  <2> QED BY <2>1, <2>2
<1> QED BY <1>4

\* Induction, for a set of numbers.
LEMMA AllNumbers ==
    ASSUME NEW T \in SUBSET Nat, 0 \in T, \A n \in T : n + 1 \in T
    PROVE  T = Nat
<1>1. SUFFICES ASSUME Nat \ T # {} PROVE FALSE
  OBVIOUS
<1>2. PICK m \in Nat \ T : \A n \in Nat \ T : m <= n
  BY <1>1, LeastNatural
<1>3. m # 0 /\ m - 1 \in Nat /\ m - 1 \notin Nat \ T
  BY <1>2
<1>4. (m - 1) + 1 \in T
  BY <1>3
<1> QED BY <1>2, <1>4

-----------------------------------------------------------------------------
(* Where a tree is split.                                                  *)

DoubleBody(g, n, k) == IF 2 * k < n THEN g[2 * k] ELSE k
IsDouble(g, n) == g = [k \in 1..n |-> DoubleBody(g, n, k)]

LEMMA DoubleExists == ASSUME NEW n \in Nat PROVE \E g : IsDouble(g, n)
<1> DEFINE D(m) == {k \in 1..n : n - k < m}
           Has(m) == \E g : g = [k \in D(m) |-> DoubleBody(g, n, k)]
           T == {m \in Nat : Has(m)}
<1>1. 0 \in T
  <2>1. D(0) = {}
    OBVIOUS
  <2> DEFINE g == [k \in {} |-> 0]
  <2>2. g = [k \in D(0) |-> DoubleBody(g, n, k)]
    BY <2>1
  <2> QED BY <2>2
<1>2. ASSUME NEW m \in T PROVE m + 1 \in T
  <2>1. PICK g : g = [k \in D(m) |-> DoubleBody(g, n, k)]
    OBVIOUS
  <2> DEFINE h == [k \in D(m + 1) |-> DoubleBody(g, n, k)]
  <2>2. ASSUME NEW k \in D(m + 1) PROVE DoubleBody(h, n, k) = DoubleBody(g, n, k)
    <3>1. CASE 2 * k < n
      <4>1. 2 * k \in D(m) /\ 2 * k \in D(m + 1)
        BY <3>1
      <4>2. h[2 * k] = DoubleBody(g, n, 2 * k) /\ g[2 * k] = DoubleBody(g, n, 2 * k)
        BY <2>1, <4>1
      <4> HIDE DEF h
      <4> QED BY <3>1, <4>2 DEF DoubleBody
    <3>2. CASE ~(2 * k < n)
      BY <3>2 DEF DoubleBody
    <3> QED BY <3>1, <3>2
  <2>3. h = [k \in D(m + 1) |-> DoubleBody(h, n, k)]
    BY <2>2
  <2>4. Has(m + 1)
    BY <2>3
  <2> HIDE DEF Has
  <2> QED BY <2>4
<1>3. n \in T
  <2> HIDE DEF T
  <2>1. T = Nat
    BY <1>1, <1>2, AllNumbers DEF T
  <2> QED BY <2>1
<1>4. D(n) = 1..n
  OBVIOUS
<1> QED BY <1>3, <1>4 DEF IsDouble

\* largest_power_of_two_less_than: both parts of a split tree have leaves.
LEMMA SplitIs == ASSUME NEW n \in Nat, n >= 2 PROVE Split(n) \in 1..(n - 1)
<1> DEFINE g == CHOOSE d : IsDouble(d, n)
<1>1. IsDouble(g, n)
  BY DoubleExists
<1>2. Split(n) = g[1]
  BY DEF Split, IsDouble, DoubleBody
<1> HIDE DEF g
<1>3. \A k \in 1..n : g[k] = DoubleBody(g, n, k)
  BY <1>1 DEF IsDouble
<1> DEFINE T == {m \in Nat : \A k \in 1..(n - 1) : n - k <= m => g[k] \in 1..(n - 1)}
<1>4. 0 \in T
  OBVIOUS
<1>5. ASSUME NEW m \in T PROVE m + 1 \in T
  <2>1. ASSUME NEW k \in 1..(n - 1), n - k <= m + 1 PROVE g[k] \in 1..(n - 1)
    <3>1. CASE 2 * k < n
      <4>1. 2 * k \in 1..(n - 1) /\ n - 2 * k <= m
        BY <2>1, <3>1
      <4>2. g[2 * k] \in 1..(n - 1)
        BY <4>1
      <4>3. g[k] = g[2 * k]
        BY <1>3, <3>1 DEF DoubleBody
      <4> QED BY <4>2, <4>3
    <3>2. CASE ~(2 * k < n)
      BY <1>3, <3>2 DEF DoubleBody
    <3> QED BY <3>1, <3>2
  <2> QED BY <2>1
<1>6. n \in T
  <2> HIDE DEF T
  <2>1. T = Nat
    BY <1>4, <1>5, AllNumbers DEF T
  <2> QED BY <2>1
<1> QED BY <1>2, <1>6

\* The two halves of a range are ranges, and shorter.
LEMMA Halves ==
    ASSUME NEW N \in Nat, NEW q \in Ranges(N), Width(q) # 1
    PROVE  /\ Left(q) \in Ranges(N) /\ Right(q) \in Ranges(N)
           /\ Width(q) \in Nat
           /\ Width(Left(q)) < Width(q) /\ Width(Right(q)) < Width(q)
<1>1. q[1] \in 0..N /\ q[2] \in 0..N /\ q[1] < q[2]
  BY DEF Ranges
<1>2. Width(q) \in Nat /\ Width(q) >= 2 /\ Width(q) = q[2] - q[1]
  BY <1>1 DEF Width
<1>3. Split(Width(q)) \in 1..(Width(q) - 1)
  BY <1>2, SplitIs
<1>4. PICK k \in 1..(Width(q) - 1) : k = Split(Width(q))
  BY <1>3
<1>5. Left(q) = <<q[1], q[1] + k>> /\ Right(q) = <<q[1] + k, q[2]>>
  BY <1>4 DEF Left, Right
<1>6. q[1] + k \in 0..N /\ q[1] < q[1] + k /\ q[1] + k < q[2]
  BY <1>1, <1>2, <1>4
<1>7. Width(Left(q)) = k /\ Width(Right(q)) = Width(q) - k
  BY <1>1, <1>2, <1>4, <1>5 DEF Width
<1> QED BY <1>1, <1>2, <1>4, <1>5, <1>6, <1>7 DEF Ranges

-----------------------------------------------------------------------------
(* The cache of subtrees.                                                  *)

VisitBody(g, c, q) ==
    IF q \in DOMAIN c THEN {}
    ELSE {q} \cup (IF Width(q) = 1 THEN {} ELSE g[Left(q)] \cup g[Right(q)])
IsVisit(g, c, N) == g = [q \in Ranges(N) |-> VisitBody(g, c, q)]

ValBody(g, c, hs, q) ==
    IF q \in DOMAIN c THEN c[q]
    ELSE IF Width(q) = 1 THEN hs[q[2]]
    ELSE NodeHash(g[Left(q)], g[Right(q)])
IsVal(g, c, hs, N) == g = [q \in Ranges(N) |-> ValBody(g, c, hs, q)]

\* The recursion of mth_range ends.
LEMMA VisitExists == ASSUME NEW N \in Nat, NEW c PROVE \E g : IsVisit(g, c, N)
<1> DEFINE D(m) == {q \in Ranges(N) : Width(q) <= m}
           Has(m) == \E g : g = [q \in D(m) |-> VisitBody(g, c, q)]
           T == {m \in Nat : Has(m)}
<1>1. 0 \in T
  <2>1. D(0) = {}
    BY DEF Ranges, Width
  <2> DEFINE g == [q \in {} |-> 0]
  <2>2. g = [q \in D(0) |-> VisitBody(g, c, q)]
    BY <2>1
  <2> QED BY <2>2
<1>2. ASSUME NEW m \in T PROVE m + 1 \in T
  <2>1. PICK g : g = [q \in D(m) |-> VisitBody(g, c, q)]
    OBVIOUS
  <2> DEFINE h == [q \in D(m + 1) |-> VisitBody(g, c, q)]
  <2>2. ASSUME NEW q \in D(m + 1) PROVE VisitBody(h, c, q) = VisitBody(g, c, q)
    <3>1. CASE Width(q) # 1
      <4>1. /\ Left(q) \in Ranges(N) /\ Right(q) \in Ranges(N) /\ Width(q) \in Nat
            /\ Width(Left(q)) < Width(q) /\ Width(Right(q)) < Width(q)
        BY <3>1, Halves
      <4>2. /\ Width(Left(q)) \in Nat /\ Width(Right(q)) \in Nat
        BY <4>1 DEF Ranges, Width
      <4>3. {Left(q), Right(q)} \subseteq D(m) /\ {Left(q), Right(q)} \subseteq D(m + 1)
        BY <4>1, <4>2
      <4>4. h[Left(q)] = g[Left(q)] /\ h[Right(q)] = g[Right(q)]
        BY <2>1, <4>3
      <4> HIDE DEF h
      <4> QED BY <3>1, <4>4 DEF VisitBody
    <3>2. CASE Width(q) = 1
      BY <3>2 DEF VisitBody
    <3> QED BY <3>1, <3>2
  <2>3. h = [q \in D(m + 1) |-> VisitBody(h, c, q)]
    BY <2>2
  <2>4. Has(m + 1)
    BY <2>3
  <2> HIDE DEF Has
  <2> QED BY <2>4
<1>3. Has(N)
  <2> HIDE DEF Has
  <2>1. T = Nat
    <3> HIDE DEF T
    <3> QED BY <1>1, <1>2, AllNumbers DEF T
  <2> QED BY <2>1
<1>4. D(N) = Ranges(N)
  BY DEF Ranges, Width
<1> QED BY <1>3, <1>4 DEF IsVisit

\* So does the one that computes the hashes.
LEMMA ValExists == ASSUME NEW N \in Nat, NEW c, NEW hs PROVE \E g : IsVal(g, c, hs, N)
<1> DEFINE D(m) == {q \in Ranges(N) : Width(q) <= m}
           Has(m) == \E g : g = [q \in D(m) |-> ValBody(g, c, hs, q)]
           T == {m \in Nat : Has(m)}
<1>1. 0 \in T
  <2>1. D(0) = {}
    BY DEF Ranges, Width
  <2> DEFINE g == [q \in {} |-> 0]
  <2>2. g = [q \in D(0) |-> ValBody(g, c, hs, q)]
    BY <2>1
  <2> QED BY <2>2
<1>2. ASSUME NEW m \in T PROVE m + 1 \in T
  <2>1. PICK g : g = [q \in D(m) |-> ValBody(g, c, hs, q)]
    OBVIOUS
  <2> DEFINE h == [q \in D(m + 1) |-> ValBody(g, c, hs, q)]
  <2>2. ASSUME NEW q \in D(m + 1) PROVE ValBody(h, c, hs, q) = ValBody(g, c, hs, q)
    <3>1. CASE Width(q) # 1
      <4>1. /\ Left(q) \in Ranges(N) /\ Right(q) \in Ranges(N) /\ Width(q) \in Nat
            /\ Width(Left(q)) < Width(q) /\ Width(Right(q)) < Width(q)
        BY <3>1, Halves
      <4>2. /\ Width(Left(q)) \in Nat /\ Width(Right(q)) \in Nat
        BY <4>1 DEF Ranges, Width
      <4>3. {Left(q), Right(q)} \subseteq D(m) /\ {Left(q), Right(q)} \subseteq D(m + 1)
        BY <4>1, <4>2
      <4>4. h[Left(q)] = g[Left(q)] /\ h[Right(q)] = g[Right(q)]
        BY <2>1, <4>3
      <4> HIDE DEF h
      <4> QED BY <3>1, <4>4 DEF ValBody
    <3>2. CASE Width(q) = 1
      BY <3>2 DEF ValBody
    <3> QED BY <3>1, <3>2
  <2>3. h = [q \in D(m + 1) |-> ValBody(h, c, hs, q)]
    BY <2>2
  <2>4. Has(m + 1)
    BY <2>3
  <2> HIDE DEF Has
  <2> QED BY <2>4
<1>3. Has(N)
  <2> HIDE DEF Has
  <2>1. T = Nat
    <3> HIDE DEF T
    <3> QED BY <1>1, <1>2, AllNumbers DEF T
  <2> QED BY <2>1
<1>4. D(N) = Ranges(N)
  BY DEF Ranges, Width
<1> QED BY <1>3, <1>4 DEF IsVal

-----------------------------------------------------------------------------
(* How much of the log a tile covers.                                      *)

SpanBody(g, k) == IF k = 0 THEN 1 ELSE TileWidth * g[k - 1]
IsSpan(g, l) == g = [k \in 0..l |-> SpanBody(g, k)]

LEMMA SpanExists == ASSUME NEW l \in Nat PROVE \E g : IsSpan(g, l)
<1> DEFINE T == {m \in Nat : \E g : IsSpan(g, m)}
<1>1. 0 \in T
  <2> DEFINE g == [k \in 0..0 |-> 1]
  <2>1. g = [k \in 0..0 |-> SpanBody(g, k)]
    BY DEF SpanBody
  <2>2. IsSpan(g, 0)
    BY <2>1 DEF IsSpan
  <2> QED BY <2>2
<1>2. ASSUME NEW m \in T PROVE m + 1 \in T
  <2>1. PICK g : g = [k \in 0..m |-> SpanBody(g, k)]
    BY DEF IsSpan
  <2> DEFINE h == [k \in 0..(m + 1) |-> SpanBody(g, k)]
  <2>2. ASSUME NEW k \in 0..(m + 1) PROVE SpanBody(h, k) = SpanBody(g, k)
    <3>1. CASE k = 0
      BY <3>1 DEF SpanBody
    <3>2. CASE k # 0
      <4>1. k - 1 \in 0..m /\ k - 1 \in 0..(m + 1)
        BY <3>2
      <4>2. h[k - 1] = g[k - 1]
        BY <2>1, <4>1
      <4> HIDE DEF h
      <4> QED BY <4>2 DEF SpanBody
    <3> QED BY <3>1, <3>2
  <2>3. h = [k \in 0..(m + 1) |-> SpanBody(h, k)]
    BY <2>2
  <2>4. IsSpan(h, m + 1)
    BY <2>3 DEF IsSpan
  <2> QED BY <2>4
<1>3. T = Nat
  <2> HIDE DEF T
  <2> QED BY <1>1, <1>2, AllNumbers DEF T
<1> QED BY <1>3

LEMMA SpanType == ASSUME NEW l \in Nat PROVE Span(l) \in Nat \ {0}
<1> DEFINE g == CHOOSE v : IsSpan(v, l)
<1>1. IsSpan(g, l)
  BY SpanExists
<1>2. Span(l) = g[l]
  BY DEF Span, IsSpan, SpanBody
<1> HIDE DEF g
<1>3. \A k \in 0..l : g[k] = SpanBody(g, k)
  BY <1>1 DEF IsSpan
<1> DEFINE T == {m \in Nat : m <= l => g[m] \in Nat \ {0}}
<1>4. 0 \in T
  BY <1>3 DEF SpanBody
<1>5. ASSUME NEW m \in T PROVE m + 1 \in T
  <2>1. SUFFICES ASSUME m + 1 <= l PROVE g[m + 1] \in Nat \ {0}
    OBVIOUS
  <2>2. g[m] \in Nat \ {0} /\ m + 1 \in 0..l /\ m + 1 # 0 /\ (m + 1) - 1 = m
    BY <2>1
  <2>3. g[m + 1] = TileWidth * g[m]
    BY <1>3, <2>2 DEF SpanBody
  <2> QED BY <2>2, <2>3, TileAssumption
<1>6. T = Nat
  <2> HIDE DEF T
  <2> QED BY <1>4, <1>5, AllNumbers DEF T
<1> QED BY <1>2, <1>6

LEMMA DivFacts ==
    ASSUME NEW a \in Nat, NEW b \in Nat \ {0}
    PROVE  /\ a \div b \in Nat /\ a % b \in Nat /\ a % b < b
           /\ a = b * (a \div b) + (a % b)
<1>1. a \div b \in Nat
  OBVIOUS
<1>2. a % b \in Nat /\ a % b < b
  OBVIOUS
<1>3. a = b * (a \div b) + (a % b)
  OBVIOUS
<1> QED BY <1>1, <1>2, <1>3

LEMMA TimesMonotonic ==
    ASSUME NEW a \in Nat, NEW b \in Nat, NEW c \in Nat, a <= b
    PROVE  a * c \in Nat /\ b * c \in Nat /\ a * c <= b * c
<1>1. PICK d \in Nat : b = a + d
  <2>1. b - a \in Nat /\ b = a + (b - a)
    OBVIOUS
  <2> QED BY <2>1
<1>2. b * c = a * c + d * c /\ d * c \in Nat /\ a * c \in Nat
  BY <1>1
<1> QED BY <1>2

\* tiles_required: no tile reaches beyond the size it is required for.
Covers(t, s) ==
    /\ t[1] \in Nat /\ t[2] \in Nat /\ t[3] \in Nat
    /\ (t[2] * TileWidth + t[3]) * Span(t[1]) <= s

LEMMA RequiredTiles == ASSUME NEW s \in Nat, NEW t \in TilesRequired(s) PROVE Covers(t, s)
<1>1. PICK l \in 0..s :
        \/ \E n \in 0..((s \div (Span(l) * TileWidth)) - 1) : t = <<l, n, TileWidth>>
        \/ t = <<l, s \div (Span(l) * TileWidth), (s \div Span(l)) % TileWidth>>
  BY DEF TilesRequired
<1>2. PICK S \in Nat \ {0} : S = Span(l)
  BY SpanType
<1>3. PICK W \in Nat \ {0} : W = TileWidth
  BY TileAssumption
<1>4. S * W \in Nat \ {0}
  BY <1>2, <1>3
<1>5. PICK f \in Nat, r \in Nat : f = s \div (S * W) /\ r < S * W /\ s = (S * W) * f + r
  BY <1>4, DivFacts
<1>6. f * (W * S) <= s
  BY <1>5
<1>7. ASSUME NEW n \in 0..(f - 1), t = <<l, n, W>> PROVE Covers(t, s)
  <2>1. (n + 1) * (W * S) <= f * (W * S)
    BY <1>4, TimesMonotonic
  <2>2. (n + 1) * (W * S) = (n * W + W) * S
    OBVIOUS
  <2>3. (n * W + W) * S <= s
    BY <1>6, <2>1, <2>2
  <2> QED BY <1>2, <1>3, <1>7, <2>3 DEF Covers
<1>8. ASSUME t = <<l, f, (s \div S) % W>> PROVE Covers(t, s)
  <2>1. PICK q \in Nat, x \in Nat : q = s \div S /\ s = S * q + x /\ x < S
    BY DivFacts
  <2>2. PICK d \in Nat, p \in Nat : p = q % W /\ q = W * d + p /\ p < W
    BY DivFacts
  <2>3. f <= d
    <3>1. SUFFICES ASSUME d + 1 <= f PROVE FALSE
      OBVIOUS
    <3>2. (d + 1) * (W * S) <= f * (W * S)
      BY <1>4, <3>1, TimesMonotonic
    <3>3. (q + 1) * S <= (W * d + W) * S
      BY <2>2, TimesMonotonic
    <3>4. (W * d + W) * S = (d + 1) * (W * S) /\ (q + 1) * S = S * q + S
      OBVIOUS
    <3>5. S * q + S <= s
      BY <1>6, <3>2, <3>3, <3>4
    <3> QED BY <2>1, <3>5
  <2>4. f * W <= d * W
    BY <2>3, TimesMonotonic
  <2>5. f * W + p <= q
    BY <2>2, <2>4
  <2>6. (f * W + p) * S <= q * S
    BY <2>5, TimesMonotonic
  <2>7. (f * W + p) * S <= s
    BY <2>1, <2>6
  <2>8. t[1] = l /\ t[2] = f /\ t[3] = p
    BY <1>8, <2>1, <2>2
  <2> QED BY <1>2, <1>3, <2>7, <2>8 DEF Covers
<1> QED BY <1>1, <1>2, <1>3, <1>5, <1>7, <1>8

LEMMA RequiredBundles ==
    ASSUME NEW s \in Nat, NEW b \in BundlesRequired(s)
    PROVE  b[1] \in Nat /\ b[2] \in Nat /\ b[1] * TileWidth + b[2] <= s
<1>1. PICK W \in Nat \ {0} : W = TileWidth
  BY TileAssumption
<1>2. PICK f \in Nat, p \in Nat : f = s \div W /\ p = s % W /\ s = W * f + p
  BY DivFacts
<1>3. \/ \E n \in 0..(f - 1) : b = <<n, W>>
      \/ b = <<f, p>>
  BY <1>1, <1>2 DEF BundlesRequired
<1>4. ASSUME NEW n \in 0..(f - 1), b = <<n, W>> PROVE b[1] * W + b[2] <= s
  <2>1. (n + 1) * W <= f * W
    BY TimesMonotonic
  <2> QED BY <1>2, <1>4, <2>1
<1> QED BY <1>1, <1>2, <1>3, <1>4

-----------------------------------------------------------------------------
(* Slices of a log that only grows.                                        *)

LEMMA SubSeqIs ==
    ASSUME NEW X, NEW a \in Seq(X), NEW m \in Nat \ {0}, NEW n \in Nat
    PROVE  SubSeq(a, m, n) = [i \in 1..(n - m + 1) |-> a[i + m - 1]]
OBVIOUS

LEMMA SameSlice ==
    ASSUME NEW X, NEW a \in Seq(X), NEW b \in Seq(X), NEW lo \in Nat, NEW hi \in Nat,
           hi <= Len(a), hi <= Len(b), \A i \in 1..hi : a[i] = b[i]
    PROVE  SubSeq(a, lo + 1, hi) = SubSeq(b, lo + 1, hi)
<1>1. ASSUME NEW i \in 1..(hi - (lo + 1) + 1) PROVE a[i + (lo + 1) - 1] = b[i + (lo + 1) - 1]
  <2>1. i + (lo + 1) - 1 \in 1..hi
    OBVIOUS
  <2> QED BY <2>1
<1>2. /\ SubSeq(a, lo + 1, hi) = [i \in 1..(hi - (lo + 1) + 1) |-> a[i + (lo + 1) - 1]]
      /\ SubSeq(b, lo + 1, hi) = [i \in 1..(hi - (lo + 1) + 1) |-> b[i + (lo + 1) - 1]]
  BY SubSeqIs
<1>3. [i \in 1..(hi - (lo + 1) + 1) |-> a[i + (lo + 1) - 1]]
      = [i \in 1..(hi - (lo + 1) + 1) |-> b[i + (lo + 1) - 1]]
  BY <1>1
<1> QED BY <1>1, <1>2, <1>3

\* A tile that the smaller log covers has the same entries in the larger one.
LEMMA SameTile ==
    ASSUME NEW X, NEW a \in Seq(X), NEW b \in Seq(X), Len(a) <= Len(b),
           \A i \in 1..Len(a) : a[i] = b[i], NEW t, Covers(t, Len(a))
    PROVE  TileHashes(a, t[1], t[2], t[3]) = TileHashes(b, t[1], t[2], t[3])
<1>1. PICK n \in Nat, w \in Nat, S \in Nat \ {0}, W \in Nat \ {0} :
         n = t[2] /\ w = t[3] /\ S = Span(t[1]) /\ W = TileWidth /\ (n * W + w) * S <= Len(a)
  BY SpanType, TileAssumption DEF Covers
<1>3. PICK m \in Nat : m = n * W + w
  OBVIOUS
<1>4. m * S <= Len(a)
  BY <1>1, <1>3
<1>2. ASSUME NEW i \in 1..w
      PROVE  SubSeq(a, (n * W + i - 1) * S + 1, (n * W + i - 1) * S + S)
             = SubSeq(b, (n * W + i - 1) * S + 1, (n * W + i - 1) * S + S)
  <2>1. PICK k \in Nat : k = n * W + i - 1 /\ k + 1 <= m
    BY <1>3
  <2>2. (k + 1) * S <= m * S /\ k * S \in Nat /\ (k + 1) * S = k * S + S
    BY <2>1, TimesMonotonic
  <2>3. k * S + S <= Len(a) /\ k * S + S \in Nat /\ Len(a) \in Nat /\ Len(b) \in Nat
    BY <1>4, <2>2
  <2>4. SubSeq(a, k * S + 1, k * S + S) = SubSeq(b, k * S + 1, k * S + S)
    BY <2>2, <2>3, SameSlice
  <2> QED BY <2>1, <2>4
<1> QED BY <1>1, <1>2 DEF TileHashes

-----------------------------------------------------------------------------
(* Powers of two: the smallest set that has 1 and is closed under doubling. *)

Powers == {p \in Nat : \A S \in SUBSET Nat : 1 \in S /\ (\A x \in S : 2 * x \in S) => p \in S}

LEMMA PowerOf ==
    /\ 1 \in Powers
    /\ \A p \in Powers : p \in Nat \ {0} /\ 2 * p \in Powers
<1>1. 1 \in Powers
  BY DEF Powers
<1>2. ASSUME NEW p \in Powers PROVE 2 * p \in Powers
  BY DEF Powers
<1>3. ASSUME NEW p \in Powers PROVE p # 0
  <2>1. 1 \in Nat \ {0} /\ \A x \in Nat \ {0} : 2 * x \in Nat \ {0}
    OBVIOUS
  <2>2. Nat \ {0} \in SUBSET Nat
    OBVIOUS
  <2> QED BY <2>1, <2>2 DEF Powers
<1> QED BY <1>1, <1>2, <1>3 DEF Powers

LEMMA PowerInduction ==
    ASSUME NEW S, 1 \in S, \A p \in S \cap Powers : 2 * p \in S
    PROVE  Powers \subseteq S
<1> DEFINE R == S \cap Powers
<1>1. R \in SUBSET Nat /\ 1 \in R /\ \A x \in R : 2 * x \in R
  BY PowerOf DEF Powers
<1> HIDE DEF R
<1>2. \A p \in Powers : p \in R
  BY <1>1 DEF Powers
<1> QED BY <1>2 DEF R

LEMMA PowerHalf == ASSUME NEW p \in Powers, p # 1 PROVE \E q \in Powers : p = 2 * q
<1> DEFINE S == {x \in Nat : x = 1 \/ \E q \in Powers : x = 2 * q}
<1>1. 1 \in S /\ \A x \in S \cap Powers : 2 * x \in S
  BY PowerOf
<1> HIDE DEF S
<1>2. p \in S
  BY <1>1, PowerInduction
<1> QED BY <1>2 DEF S

LEMMA PowerTimes == ASSUME NEW p \in Powers, NEW q \in Powers PROVE p * q \in Powers
<1> DEFINE S == {x \in Nat : x * q \in Powers}
<1>1. 1 \in S
  BY PowerOf
<1>2. ASSUME NEW x \in S \cap Powers PROVE 2 * x \in S
  <2>1. x \in Nat /\ q \in Nat /\ x * q \in Powers
    BY PowerOf
  <2>2. (2 * x) * q = 2 * (x * q)
    BY <2>1
  <2> QED BY <2>1, <2>2, PowerOf
<1> HIDE DEF S
<1>3. p \in S
  BY <1>1, <1>2, PowerInduction
<1> QED BY <1>3 DEF S

LEMMA PowerDivides ==
    ASSUME NEW p \in Powers, NEW q \in Powers, p <= q
    PROVE  \E e \in Powers : q = p * e
<1> DEFINE S == {x \in Nat : \A r \in Powers : r <= x => \E e \in Powers : x = r * e}
<1>1. 1 \in S
  <2>1. ASSUME NEW r \in Powers, r <= 1 PROVE 1 = r * 1
    BY <2>1, PowerOf
  <2> QED BY <2>1, PowerOf
<1>2. ASSUME NEW x \in S \cap Powers PROVE 2 * x \in S
  <2>1. SUFFICES ASSUME NEW r \in Powers, r <= 2 * x PROVE \E e \in Powers : 2 * x = r * e
    OBVIOUS
  <2>2. CASE r = 1
    <3>1. 2 * x \in Powers /\ 2 * x = 1 * (2 * x)
      BY PowerOf
    <3> QED BY <2>2, <3>1
  <2>3. CASE r # 1
    <3>1. PICK h \in Powers : r = 2 * h
      BY <2>3, PowerHalf
    <3>2. h <= x /\ h \in Nat
      BY <2>1, <3>1, PowerOf
    <3>3. PICK e \in Powers : x = h * e
      BY <3>2
    <3>4. 2 * x = r * e
      BY <3>1, <3>2, <3>3, PowerOf
    <3> QED BY <3>4
  <2> QED BY <2>2, <2>3
<1> HIDE DEF S
<1>3. q \in S
  BY <1>1, <1>2, PowerInduction
<1> QED BY <1>3 DEF S

LEMMA PowerGap ==
    ASSUME NEW p \in Powers, NEW q \in Powers, p < q
    PROVE  2 * p <= q
<1>1. p \in Nat \ {0} /\ q \in Nat \ {0}
  BY PowerOf
<1>2. PICK e \in Powers : q = p * e
  BY <1>1, PowerDivides
<1>3. e # 1
  <2>1. p * 1 = p
    BY <1>1
  <2> QED BY <1>1, <1>2, <2>1
<1>4. PICK d \in Nat \ {0} : e = 2 * d
  BY <1>3, PowerHalf, PowerOf
<1>5. q = 2 * (p * d) /\ p * d \in Nat
  BY <1>1, <1>2, <1>4
<1>6. 1 * p <= d * p
  BY <1>1, TimesMonotonic
<1> QED BY <1>1, <1>5, <1>6

\* largest_power_of_two_less_than is what its name says, and nothing else is.
LEMMA SplitPower ==
    ASSUME NEW n \in Nat, n >= 2
    PROVE  Split(n) \in Powers /\ Split(n) < n /\ n <= 2 * Split(n)
<1> DEFINE g == CHOOSE d : IsDouble(d, n)
           Good(k) == k \in Powers /\ k < n /\ n <= 2 * k
<1>1. IsDouble(g, n)
  BY DoubleExists
<1>2. Split(n) = g[1]
  BY DEF Split, IsDouble, DoubleBody
<1> HIDE DEF g
<1>3. \A k \in 1..n : g[k] = DoubleBody(g, n, k)
  BY <1>1 DEF IsDouble
<1> DEFINE T == {m \in Nat : \A k \in Powers : k < n /\ n - k <= m => Good(g[k])}
<1>4. 0 \in T
  BY PowerOf
<1>5. ASSUME NEW m \in T PROVE m + 1 \in T
  <2>1. ASSUME NEW k \in Powers, k < n, n - k <= m + 1 PROVE Good(g[k])
    <3>0. k \in Nat \ {0} /\ k \in 1..n
      <4>1. k \in Nat \ {0}
        BY PowerOf
      <4> QED BY <2>1, <4>1
    <3>1. CASE 2 * k < n
      <4>1. 2 * k \in Powers /\ n - 2 * k <= m
        BY <2>1, <3>0, <3>1, PowerOf
      <4>2. Good(g[2 * k])
        BY <3>1, <4>1
      <4>3. g[k] = g[2 * k]
        BY <1>3, <3>0, <3>1 DEF DoubleBody
      <4> HIDE DEF Good
      <4> QED BY <4>2, <4>3
    <3>2. CASE ~(2 * k < n)
      <4>1. g[k] = k
        BY <1>3, <3>0, <3>2 DEF DoubleBody
      <4> QED BY <2>1, <3>0, <3>2, <4>1
    <3> QED BY <3>1, <3>2
  <2> HIDE DEF Good
  <2> QED BY <2>1
<1>6. n \in T
  <2> HIDE DEF T
  <2>1. T = Nat
    BY <1>4, <1>5, AllNumbers DEF T
  <2> QED BY <2>1
<1>7. Good(g[1])
  <2> HIDE DEF Good
  <2> QED BY <1>6, PowerOf
<1> QED BY <1>2, <1>7

LEMMA SplitUnique ==
    ASSUME NEW n \in Nat, NEW p \in Powers, p < n, n <= 2 * p
    PROVE  Split(n) = p
<1>1. p \in Nat \ {0} /\ n >= 2
  BY PowerOf
<1>2. PICK k \in Powers : k = Split(n) /\ k < n /\ n <= 2 * k
  BY <1>1, SplitPower
<1>3. k \in Nat
  BY PowerOf
<1>4. ~(p < k) /\ ~(k < p)
  BY <1>1, <1>2, <1>3, PowerGap
<1> QED BY <1>1, <1>2, <1>3, <1>4

LEMMA SplitScale ==
    ASSUME NEW w \in Nat, w >= 2, NEW T \in Powers
    PROVE  Split(w * T) = Split(w) * T
<1>1. PICK k \in Powers : k = Split(w) /\ k < w /\ w <= 2 * k
  BY SplitPower
<1>2. k \in Nat \ {0} /\ T \in Nat \ {0}
  BY PowerOf
<1>3. k * T \in Powers
  BY PowerTimes
<1>4. (k + 1) * T <= w * T /\ w * T <= (2 * k) * T /\ w * T \in Nat
  BY <1>1, <1>2, TimesMonotonic
<1>5. (k + 1) * T = k * T + T /\ (2 * k) * T = 2 * (k * T) /\ k * T \in Nat
  BY <1>2
<1>6. k * T < w * T /\ w * T <= 2 * (k * T)
  BY <1>2, <1>4, <1>5
<1> QED BY <1>1, <1>3, <1>4, <1>6, SplitUnique

-----------------------------------------------------------------------------
(* Trees over ranges, and their hashes without a cache.                    *)

AllRanges == {r \in Nat \X Nat : r[1] < r[2]}
H(hs, r) == RangeHash(Empty, hs, r)

LEMMA RangeFacts ==
    ASSUME NEW r \in AllRanges
    PROVE  /\ r[1] \in Nat /\ r[2] \in Nat /\ r = <<r[1], r[2]>> /\ r[1] < r[2]
           /\ Width(r) = r[2] - r[1] /\ Width(r) \in Nat \ {0}
           /\ \A n \in Nat : r[2] <= n => r \in Ranges(n)
<1>1. r[1] \in Nat /\ r[2] \in Nat /\ r = <<r[1], r[2]>> /\ r[1] < r[2]
  BY DEF AllRanges
<1> QED BY <1>1 DEF Ranges, Width

LEMMA RangesAre ==
    ASSUME NEW n \in Nat, NEW r \in Ranges(n)
    PROVE  r \in AllRanges /\ r[2] <= n
BY DEF Ranges, AllRanges

LEMMA TreeHalves ==
    ASSUME NEW r \in AllRanges, Width(r) # 1
    PROVE  \E k \in Powers :
              /\ k = Split(Width(r)) /\ k < Width(r) /\ Width(r) <= 2 * k
              /\ Left(r) = <<r[1], r[1] + k>> /\ Right(r) = <<r[1] + k, r[2]>>
              /\ Left(r) \in AllRanges /\ Right(r) \in AllRanges
              /\ Width(Left(r)) = k /\ Width(Right(r)) = Width(r) - k
<1>1. Width(r) \in Nat /\ Width(r) >= 2
  BY RangeFacts
<1>2. PICK k \in Powers : k = Split(Width(r)) /\ k < Width(r) /\ Width(r) <= 2 * k
  BY <1>1, SplitPower
<1>3. k \in Nat \ {0}
  BY PowerOf
<1>4. Left(r) = <<r[1], r[1] + k>> /\ Right(r) = <<r[1] + k, r[2]>>
  BY <1>2 DEF Left, Right
<1>5. PICK a \in Nat, b \in Nat : a = r[1] /\ b = r[2] /\ a < b /\ Width(r) = b - a
  BY RangeFacts
<1>6. Left(r) \in AllRanges /\ Right(r) \in AllRanges
  BY <1>2, <1>3, <1>4, <1>5 DEF AllRanges
<1>7. Width(Left(r)) = k /\ Width(Right(r)) = Width(r) - k
  BY <1>2, <1>3, <1>4, <1>5 DEF Width
<1> QED BY <1>2, <1>4, <1>6, <1>7

LEMMA TreeInduction ==
    ASSUME NEW S, \A r \in AllRanges : Width(r) = 1 => r \in S,
           \A r \in AllRanges : Width(r) # 1 /\ Left(r) \in S /\ Right(r) \in S => r \in S
    PROVE  AllRanges \subseteq S
<1> DEFINE W == {Width(r) : r \in AllRanges \ S}
<1>1. SUFFICES ASSUME W # {} PROVE FALSE
  OBVIOUS
<1>2. W \in SUBSET Nat
  BY RangeFacts
<1>3. PICK m \in W : \A n \in W : m <= n
  BY <1>1, <1>2, LeastNatural
<1>4. PICK r \in AllRanges \ S : Width(r) = m
  BY <1>3
<1>5. Width(r) # 1
  BY <1>4
<1>6. ASSUME NEW q \in AllRanges, Width(q) < m PROVE q \in S
  <2>1. SUFFICES ASSUME q \notin S PROVE FALSE
    OBVIOUS
  <2>2. Width(q) \in W
    BY <2>1
  <2>3. m <= Width(q) /\ m \in Nat /\ Width(q) \in Nat
    BY <1>2, <1>3, <2>2
  <2> QED BY <1>6, <2>3
<1>7. Left(r) \in S /\ Right(r) \in S
  <2>1. PICK k \in Powers :
              /\ k < Width(r) /\ Left(r) \in AllRanges /\ Right(r) \in AllRanges
              /\ Width(Left(r)) = k /\ Width(Right(r)) = Width(r) - k
    BY <1>5, TreeHalves
  <2>2. k \in Nat \ {0} /\ m \in Nat
    BY <1>2, PowerOf
  <2> QED BY <1>4, <1>6, <2>1, <2>2
<1> QED BY <1>4, <1>5, <1>7

\* The tables that compute a hash agree, whatever range they were asked for.
LEMMA ValAgree ==
    ASSUME NEW N \in Nat, NEW M \in Nat, NEW c, NEW hs, NEW g, NEW h,
           IsVal(g, c, hs, N), IsVal(h, c, hs, M)
    PROVE  \A q \in AllRanges : q[2] <= N /\ q[2] <= M => g[q] = h[q]
<1> DEFINE S == {q \in AllRanges : q[2] <= N /\ q[2] <= M => g[q] = h[q]}
<1>1. ASSUME NEW q \in AllRanges, q[2] <= N, q[2] <= M
      PROVE  g[q] = ValBody(g, c, hs, q) /\ h[q] = ValBody(h, c, hs, q)
  <2>1. q \in Ranges(N) /\ q \in Ranges(M)
    BY <1>1, RangeFacts
  <2> QED BY <2>1 DEF IsVal
<1>2. ASSUME NEW q \in AllRanges, Width(q) = 1 PROVE q \in S
  BY <1>1, <1>2 DEF ValBody
<1>3. ASSUME NEW q \in AllRanges, Width(q) # 1, Left(q) \in S, Right(q) \in S PROVE q \in S
  <2>1. SUFFICES ASSUME q[2] <= N, q[2] <= M PROVE g[q] = h[q]
    BY <1>3
  <2>2. Left(q)[2] <= q[2] /\ Right(q)[2] <= q[2] /\ Left(q)[2] \in Nat /\ Right(q)[2] \in Nat
        /\ q[2] \in Nat
    BY <1>3, TreeHalves, PowerOf, RangeFacts
  <2>3. Left(q)[2] <= N /\ Left(q)[2] <= M /\ Right(q)[2] <= N /\ Right(q)[2] <= M
    BY <2>1, <2>2
  <2>4. g[Left(q)] = h[Left(q)] /\ g[Right(q)] = h[Right(q)]
    BY <1>3, <2>3
  <2> QED BY <1>1, <2>1, <2>4 DEF ValBody
<1>4. AllRanges \subseteq S
  <2> HIDE DEF S
  <2> QED BY <1>2, <1>3, TreeInduction
<1> QED BY <1>4

LEMMA RangeStep ==
    ASSUME NEW c, NEW hs, NEW r \in AllRanges
    PROVE  RangeHash(c, hs, r)
             = IF r \in DOMAIN c THEN c[r]
               ELSE IF Width(r) = 1 THEN hs[r[2]]
               ELSE NodeHash(RangeHash(c, hs, Left(r)), RangeHash(c, hs, Right(r)))
<1> DEFINE V(N) == CHOOSE v : IsVal(v, c, hs, N)
<1>1. \A N \in Nat : IsVal(V(N), c, hs, N)
  BY ValExists
<1>2. \A q \in AllRanges : RangeHash(c, hs, q) = V(q[2])[q]
  BY DEF RangeHash, IsVal, ValBody
<1> HIDE DEF V
<1>3. r[2] \in Nat /\ r \in Ranges(r[2])
  BY RangeFacts
<1>4. V(r[2])[r] = ValBody(V(r[2]), c, hs, r)
  BY <1>1, <1>3 DEF IsVal
<1>5. CASE Width(r) = 1
  BY <1>2, <1>4, <1>5 DEF ValBody
<1>6. CASE Width(r) # 1
  <2>1. Left(r) \in AllRanges /\ Right(r) \in AllRanges
    BY <1>6, TreeHalves
  <2>2. Left(r)[2] <= r[2] /\ Right(r)[2] <= r[2] /\ Left(r)[2] \in Nat /\ Right(r)[2] \in Nat
    BY <1>6, TreeHalves, PowerOf, RangeFacts
  <2>3. V(Left(r)[2])[Left(r)] = V(r[2])[Left(r)] /\ V(Right(r)[2])[Right(r)] = V(r[2])[Right(r)]
    BY <1>1, <1>3, <2>1, <2>2, ValAgree
  <2> QED BY <1>2, <1>4, <1>6, <2>1, <2>3 DEF ValBody
<1> QED BY <1>5, <1>6

LEMMA HashStep ==
    ASSUME NEW hs, NEW r \in AllRanges
    PROVE  H(hs, r) = IF Width(r) = 1 THEN hs[r[2]] ELSE NodeHash(H(hs, Left(r)), H(hs, Right(r)))
<1>1. r \notin DOMAIN Empty
  BY DEF Empty
<1> QED BY <1>1, RangeStep DEF H

LEMMA RootHash ==
    ASSUME NEW X, NEW hs \in Seq(X), Len(hs) # 0
    PROVE  RootOf(hs) = H(hs, <<0, Len(hs)>>)
<1> DEFINE N == Len(hs)
           Body(g, q) == IF Width(q) = 1 THEN hs[q[2]] ELSE NodeHash(g[Left(q)], g[Right(q)])
           Is(g) == g = [q \in Ranges(N) |-> Body(g, q)]
           t == CHOOSE g : Is(g)
           r == <<0, N>>
<1>1. N \in Nat \ {0} /\ hs # << >>
  OBVIOUS
<1>2. RootOf(hs) = t[r]
  BY <1>1 DEF RootOf
<1>3. \A g : Is(g) <=> IsVal(g, Empty, hs, N)
  <2>1. \A q : q \notin DOMAIN Empty
    BY DEF Empty
  <2>2. \A g, q : Body(g, q) = ValBody(g, Empty, hs, q)
    BY <2>1 DEF ValBody
  <2> HIDE DEF Body
  <2> QED BY <2>2 DEF IsVal
<1>4. IsVal(t, Empty, hs, N)
  <2> HIDE DEF Is
  <2> QED BY <1>1, <1>3, ValExists
<1> DEFINE v == CHOOSE g : IsVal(g, Empty, hs, N)
<1>5. IsVal(v, Empty, hs, N)
  <2> HIDE DEF N
  <2> QED BY <1>1, ValExists
<1>6. H(hs, r) = v[r]
  BY DEF H, RangeHash, IsVal, ValBody
<1>7. r \in AllRanges /\ r[2] <= N
  BY <1>1 DEF AllRanges
<1> HIDE DEF t, v, r, N
<1>8. t[r] = v[r]
  BY <1>1, <1>4, <1>5, <1>7, ValAgree
<1> QED BY <1>2, <1>6, <1>8 DEF r, N

\* A tree over the roots of full subtrees of T leaves is the tree over their leaves.
SubtreeRoots(ks, hs, T, d, B) ==
    \A i \in 1..B : ks[i] = H(hs, <<(i - 1) * T + d, i * T + d>>)

LEMMA ScaledHash ==
    ASSUME NEW T \in Powers, NEW d \in Nat, NEW hs, NEW ks, NEW B \in Nat,
           SubtreeRoots(ks, hs, T, d, B)
    PROVE  \A r \in AllRanges : r[2] <= B => H(ks, r) = H(hs, <<r[1] * T + d, r[2] * T + d>>)
<1> DEFINE Up(r) == <<r[1] * T + d, r[2] * T + d>>
           S == {r \in AllRanges : r[2] <= B => H(ks, r) = H(hs, Up(r))}
<1>1. ASSUME NEW r \in AllRanges, Width(r) = 1 PROVE r \in S
  <2>1. SUFFICES ASSUME r[2] <= B PROVE H(ks, r) = H(hs, Up(r))
    OBVIOUS
  <2>2. r[2] \in 1..B /\ r[1] = r[2] - 1
    BY <1>1, <2>1, RangeFacts
  <2>3. H(ks, r) = ks[r[2]]
    BY <1>1, HashStep
  <2>4. ks[r[2]] = H(hs, <<(r[2] - 1) * T + d, r[2] * T + d>>)
    BY <2>2 DEF SubtreeRoots
  <2> QED BY <2>2, <2>3, <2>4
<1>2. ASSUME NEW r \in AllRanges, Width(r) # 1, Left(r) \in S, Right(r) \in S PROVE r \in S
  <2>1. SUFFICES ASSUME r[2] <= B PROVE H(ks, r) = H(hs, Up(r))
    OBVIOUS
  <2>2. PICK k \in Powers :
              /\ k = Split(Width(r)) /\ k < Width(r)
              /\ Left(r) = <<r[1], r[1] + k>> /\ Right(r) = <<r[1] + k, r[2]>>
              /\ Left(r) \in AllRanges /\ Right(r) \in AllRanges
    BY <1>2, TreeHalves
  <2>3. PICK a \in Nat, b \in Nat : a = r[1] /\ b = r[2] /\ a < b /\ Width(r) = b - a
    BY RangeFacts
  <2>4. k \in Nat \ {0} /\ T \in Nat \ {0}
    BY PowerOf
  <2>5. PICK w \in Nat : w = b - a /\ w >= 2 /\ k < w
    BY <2>2, <2>3, <2>4
  <2>6. /\ w * T \in Nat /\ (a + w) * T = a * T + w * T /\ (a + k) * T = a * T + k * T
        /\ a * T \in Nat /\ k * T \in Nat /\ b = a + w
    BY <2>3, <2>4, <2>5
  <2>7. 2 * T <= w * T /\ (k + 1) * T <= w * T /\ (k + 1) * T = k * T + T
    BY <2>4, <2>5, TimesMonotonic
  <2>8. Split(w * T) = k * T
    BY <2>2, <2>3, <2>5, SplitScale
  <2>9. Up(r) = <<a * T + d, a * T + w * T + d>>
    BY <2>3, <2>6
  <2>10. Width(Up(r)) = w * T
    BY <2>6, <2>9 DEF Width
  <2>11. Left(Up(r)) = <<a * T + d, a * T + k * T + d>>
    BY <2>6, <2>8, <2>9, <2>10 DEF Left
  <2>12. Right(Up(r)) = <<a * T + k * T + d, a * T + w * T + d>>
    BY <2>6, <2>8, <2>9, <2>10 DEF Right
  <2>13. Left(Up(r)) = Up(Left(r))
    BY <2>2, <2>3, <2>6, <2>11
  <2>14. Right(Up(r)) = Up(Right(r))
    BY <2>2, <2>3, <2>6, <2>12
  <2>15. Up(r) \in AllRanges /\ Width(Up(r)) # 1
    BY <2>4, <2>6, <2>7, <2>9, <2>10 DEF AllRanges
  <2> HIDE DEF Up
  <2>16. H(hs, Up(r)) = NodeHash(H(hs, Up(Left(r))), H(hs, Up(Right(r))))
    BY <2>13, <2>14, <2>15, HashStep
  <2>17. Left(r)[2] <= B /\ Right(r)[2] <= B
    BY <2>1, <2>2, <2>3, <2>4, <2>5
  <2>18. H(ks, r) = NodeHash(H(ks, Left(r)), H(ks, Right(r)))
    BY <1>2, HashStep
  <2> QED BY <1>2, <2>16, <2>17, <2>18
<1> HIDE DEF S
<1>3. AllRanges \subseteq S
  BY <1>1, <1>2, TreeInduction
<1> QED BY <1>3 DEF S

\* The hash of a range is that of its leaves, wherever they stand.
Shifted(ks, hs, d, B) == \A i \in 1..B : ks[i] = hs[i + d]

LEMMA ShiftedHash ==
    ASSUME NEW d \in Nat, NEW hs, NEW ks, NEW B \in Nat, Shifted(ks, hs, d, B)
    PROVE  \A r \in AllRanges : r[2] <= B => H(ks, r) = H(hs, <<r[1] + d, r[2] + d>>)
<1>1. ASSUME NEW i \in 1..B PROVE ks[i] = H(hs, <<(i - 1) * 1 + d, i * 1 + d>>)
  <2> DEFINE r == <<(i - 1) * 1 + d, i * 1 + d>>
  <2>1. i \in Nat \ {0} /\ (i - 1) * 1 + d = i - 1 + d /\ i * 1 + d = i + d
    OBVIOUS
  <2>2. r \in AllRanges /\ Width(r) = 1 /\ r[2] = i + d
    BY <2>1 DEF AllRanges, Width
  <2>3. ks[i] = hs[i + d]
    BY DEF Shifted
  <2> HIDE DEF r
  <2>4. H(hs, r) = hs[i + d]
    BY <2>2, HashStep
  <2> QED BY <2>3, <2>4 DEF r
<1>2. \A r \in AllRanges : r[2] <= B => H(ks, r) = H(hs, <<r[1] * 1 + d, r[2] * 1 + d>>)
  <2>1. SubtreeRoots(ks, hs, 1, d, B)
    BY <1>1 DEF SubtreeRoots
  <2> QED BY <2>1, PowerOf, ScaledHash
<1>3. \A r \in AllRanges : r[1] * 1 = r[1] /\ r[2] * 1 = r[2]
  BY RangeFacts
<1> QED BY <1>2, <1>3

LEMMA SameHash ==
    ASSUME NEW hs, NEW ks, NEW B \in Nat, \A i \in 1..B : ks[i] = hs[i]
    PROVE  \A r \in AllRanges : r[2] <= B => H(ks, r) = H(hs, r)
<1>1. Shifted(ks, hs, 0, B)
  BY DEF Shifted
<1>2. \A r \in AllRanges : r[2] <= B => H(ks, r) = H(hs, <<r[1] + 0, r[2] + 0>>)
  BY <1>1, ShiftedHash
<1>3. \A r \in AllRanges : <<r[1] + 0, r[2] + 0>> = r
  BY RangeFacts
<1> QED BY <1>2, <1>3

\* What the cache says is so.
TrueCache(c, hs) == \A r \in DOMAIN c : r \in AllRanges /\ c[r] = H(hs, r)

\* mth_range with a cache is mth_range without, if it has the leaves it lacks.
LEMMA CachedTrue ==
    ASSUME NEW c, NEW hs, NEW ks, NEW B \in Nat, TrueCache(c, hs),
           \A i \in 1..B : <<i - 1, i>> \in DOMAIN c \/ ks[i] = hs[i]
    PROVE  \A r \in AllRanges : r[2] <= B => RangeHash(c, ks, r) = H(hs, r)
<1> DEFINE S == {r \in AllRanges : r[2] <= B => RangeHash(c, ks, r) = H(hs, r)}
<1>1. ASSUME NEW r \in AllRanges, Width(r) = 1 PROVE r \in S
  <2>1. SUFFICES ASSUME r[2] <= B PROVE RangeHash(c, ks, r) = H(hs, r)
    OBVIOUS
  <2>2. r[2] \in 1..B /\ r = <<r[2] - 1, r[2]>>
    BY <1>1, <2>1, RangeFacts
  <2>3. r \in DOMAIN c \/ ks[r[2]] = hs[r[2]]
    BY <2>2
  <2>4. H(hs, r) = hs[r[2]]
    BY <1>1, HashStep
  <2>5. RangeHash(c, ks, r) = IF r \in DOMAIN c THEN c[r] ELSE ks[r[2]]
    BY <1>1, RangeStep
  <2> QED BY <2>3, <2>4, <2>5 DEF TrueCache
<1>2. ASSUME NEW r \in AllRanges, Width(r) # 1, Left(r) \in S, Right(r) \in S PROVE r \in S
  <2>1. SUFFICES ASSUME r[2] <= B PROVE RangeHash(c, ks, r) = H(hs, r)
    OBVIOUS
  <2>2. Left(r)[2] <= r[2] /\ Right(r)[2] <= r[2] /\ Left(r)[2] \in Nat /\ Right(r)[2] \in Nat
        /\ r[2] \in Nat
    BY <1>2, TreeHalves, PowerOf, RangeFacts
  <2>3. Left(r)[2] <= B /\ Right(r)[2] <= B
    BY <2>1, <2>2
  <2> QED BY <1>2, <2>3, RangeStep, HashStep DEF TrueCache
<1> HIDE DEF S
<1>3. AllRanges \subseteq S
  BY <1>1, <1>2, TreeInduction
<1> QED BY <1>3 DEF S

\* The ranges that are stored are uncached ones below the one asked for.
LEMMA MissingAre ==
    ASSUME NEW c, NEW r \in AllRanges
    PROVE  \A q \in Missing(c, r) : q \in AllRanges /\ q[2] <= r[2] /\ q \notin DOMAIN c
<1> DEFINE N == r[2]
           g == CHOOSE v : IsVisit(v, c, N)
           S == {q \in AllRanges : q[2] <= N =>
                   \A p \in g[q] : p \in AllRanges /\ p[2] <= N /\ p \notin DOMAIN c}
<1>1. N \in Nat
  BY RangeFacts
<1>2. IsVisit(g, c, N)
  <2> HIDE DEF N
  <2> QED BY <1>1, VisitExists
<1>3. Missing(c, r) = g[r]
  BY DEF Missing, IsVisit, VisitBody
<1> HIDE DEF g, N
<1>4. ASSUME NEW q \in AllRanges, q[2] <= N PROVE g[q] = VisitBody(g, c, q)
  <2>1. q \in Ranges(N)
    BY <1>1, <1>4, RangeFacts
  <2> QED BY <1>2, <2>1 DEF IsVisit
<1>5. ASSUME NEW q \in AllRanges, Width(q) = 1 PROVE q \in S
  BY <1>4, <1>5 DEF VisitBody
<1>6. ASSUME NEW q \in AllRanges, Width(q) # 1, Left(q) \in S, Right(q) \in S PROVE q \in S
  <2>1. SUFFICES ASSUME q[2] <= N, NEW p \in g[q]
                 PROVE  p \in AllRanges /\ p[2] <= N /\ p \notin DOMAIN c
    OBVIOUS
  <2>2. Left(q)[2] <= q[2] /\ Right(q)[2] <= q[2] /\ Left(q)[2] \in Nat /\ Right(q)[2] \in Nat
        /\ q[2] \in Nat
    BY <1>6, TreeHalves, PowerOf, RangeFacts
  <2>3. Left(q)[2] <= N /\ Right(q)[2] <= N
    BY <1>1, <2>1, <2>2
  <2>4. \/ p = q /\ q \notin DOMAIN c
        \/ p \in g[Left(q)] \/ p \in g[Right(q)]
    BY <1>4, <2>1 DEF VisitBody
  <2> QED BY <1>6, <2>1, <2>3, <2>4
<1> HIDE DEF S
<1>7. AllRanges \subseteq S
  BY <1>5, <1>6, TreeInduction
<1>8. r \in S /\ r[2] <= N
  BY <1>1, <1>7 DEF N
<1> QED BY <1>3, <1>8 DEF S, N

-----------------------------------------------------------------------------
(* Paths of hashes, and the verifier of inclusion.                         *)

IsPath(path, hs, rs) == path = [i \in DOMAIN rs |-> H(hs, rs[i])]
Pre(s, t) == Len(s) <= Len(t) /\ \A i \in 1..Len(s) : s[i] = t[i]

Longer(t, s, c) ==
    Len(t) = Len(s) + 1 /\ t[Len(s) + 1] = c /\ \A i \in 1..Len(s) : t[i] = s[i]

LEMMA OneMore ==
    ASSUME NEW rs, NEW N \in Nat, N = Len(rs), NEW s, NEW k \in Nat, k = Len(s), NEW c, NEW t,
           Longer(t, s, c), Pre(t, rs)
    PROVE  Pre(s, rs) /\ Len(t) = k + 1 /\ k + 1 <= N /\ rs[k + 1] = c
<1>1. k + 1 <= N /\ \A i \in 1..(k + 1) : t[i] = rs[i]
  BY DEF Pre, Longer
<1> QED BY <1>1 DEF Pre, Longer

SiblingBody(g, m, r) ==
    IF Width(r) = 1 THEN << >>
    ELSE IF m < Left(r)[2] THEN Append(g[Left(r)], Right(r))
    ELSE Append(g[Right(r)], Left(r))
IsSibling(g, m, n) == g = [r \in Ranges(n) |-> SiblingBody(g, m, r)]

FoldBody(g, m, sib, leaf, path, r) ==
    IF Width(r) = 1 THEN leaf
    ELSE IF m < Left(r)[2] THEN NodeHash(g[Left(r)], path[Len(sib[r])])
    ELSE NodeHash(path[Len(sib[r])], g[Right(r)])
IsFold(g, m, n, sib, leaf, path) == g = [r \in Ranges(n) |-> FoldBody(g, m, sib, leaf, path, r)]

LEMMA SiblingExists == ASSUME NEW n \in Nat, NEW m PROVE \E g : IsSibling(g, m, n)
<1> DEFINE D(w) == {q \in Ranges(n) : Width(q) <= w}
           Has(w) == \E g : g = [q \in D(w) |-> SiblingBody(g, m, q)]
           T == {w \in Nat : Has(w)}
<1>1. 0 \in T
  <2>1. D(0) = {}
    BY DEF Ranges, Width
  <2> DEFINE g == [q \in {} |-> 0]
  <2>2. g = [q \in D(0) |-> SiblingBody(g, m, q)]
    BY <2>1
  <2> QED BY <2>2
<1>2. ASSUME NEW w \in T PROVE w + 1 \in T
  <2>1. PICK g : g = [q \in D(w) |-> SiblingBody(g, m, q)]
    OBVIOUS
  <2> DEFINE h == [q \in D(w + 1) |-> SiblingBody(g, m, q)]
  <2>2. ASSUME NEW q \in D(w + 1) PROVE SiblingBody(h, m, q) = SiblingBody(g, m, q)
    <3>1. CASE Width(q) # 1
      <4>1. /\ Left(q) \in Ranges(n) /\ Right(q) \in Ranges(n) /\ Width(q) \in Nat
            /\ Width(Left(q)) < Width(q) /\ Width(Right(q)) < Width(q)
        BY <3>1, Halves
      <4>2. /\ Width(Left(q)) \in Nat /\ Width(Right(q)) \in Nat
        BY <4>1 DEF Ranges, Width
      <4>3. {Left(q), Right(q)} \subseteq D(w) /\ {Left(q), Right(q)} \subseteq D(w + 1)
        BY <4>1, <4>2
      <4>4. h[Left(q)] = g[Left(q)] /\ h[Right(q)] = g[Right(q)]
        BY <2>1, <4>3
      <4> HIDE DEF h
      <4> QED BY <3>1, <4>4 DEF SiblingBody
    <3>2. CASE Width(q) = 1
      BY <3>2 DEF SiblingBody
    <3> QED BY <3>1, <3>2
  <2>3. h = [q \in D(w + 1) |-> SiblingBody(h, m, q)]
    BY <2>2
  <2>4. Has(w + 1)
    BY <2>3
  <2> HIDE DEF Has
  <2> QED BY <2>4
<1>3. Has(n)
  <2> HIDE DEF Has
  <2>1. T = Nat
    <3> HIDE DEF T
    <3> QED BY <1>1, <1>2, AllNumbers DEF T
  <2> QED BY <2>1
<1>4. D(n) = Ranges(n)
  BY DEF Ranges, Width
<1> QED BY <1>3, <1>4 DEF IsSibling

LEMMA FoldExists ==
    ASSUME NEW n \in Nat, NEW m, NEW sib, NEW leaf, NEW path
    PROVE  \E g : IsFold(g, m, n, sib, leaf, path)
<1> DEFINE D(w) == {q \in Ranges(n) : Width(q) <= w}
           Has(w) == \E g : g = [q \in D(w) |-> FoldBody(g, m, sib, leaf, path, q)]
           T == {w \in Nat : Has(w)}
<1>1. 0 \in T
  <2>1. D(0) = {}
    BY DEF Ranges, Width
  <2> DEFINE g == [q \in {} |-> 0]
  <2>2. g = [q \in D(0) |-> FoldBody(g, m, sib, leaf, path, q)]
    BY <2>1
  <2> QED BY <2>2
<1>2. ASSUME NEW w \in T PROVE w + 1 \in T
  <2>1. PICK g : g = [q \in D(w) |-> FoldBody(g, m, sib, leaf, path, q)]
    OBVIOUS
  <2> DEFINE h == [q \in D(w + 1) |-> FoldBody(g, m, sib, leaf, path, q)]
  <2>2. ASSUME NEW q \in D(w + 1)
        PROVE  FoldBody(h, m, sib, leaf, path, q) = FoldBody(g, m, sib, leaf, path, q)
    <3>1. CASE Width(q) # 1
      <4>1. /\ Left(q) \in Ranges(n) /\ Right(q) \in Ranges(n) /\ Width(q) \in Nat
            /\ Width(Left(q)) < Width(q) /\ Width(Right(q)) < Width(q)
        BY <3>1, Halves
      <4>2. /\ Width(Left(q)) \in Nat /\ Width(Right(q)) \in Nat
        BY <4>1 DEF Ranges, Width
      <4>3. {Left(q), Right(q)} \subseteq D(w) /\ {Left(q), Right(q)} \subseteq D(w + 1)
        BY <4>1, <4>2
      <4>4. h[Left(q)] = g[Left(q)] /\ h[Right(q)] = g[Right(q)]
        BY <2>1, <4>3
      <4> HIDE DEF h
      <4> QED BY <3>1, <4>4 DEF FoldBody
    <3>2. CASE Width(q) = 1
      BY <3>2 DEF FoldBody
    <3> QED BY <3>1, <3>2
  <2>3. h = [q \in D(w + 1) |-> FoldBody(h, m, sib, leaf, path, q)]
    BY <2>2
  <2>4. Has(w + 1)
    BY <2>3
  <2> HIDE DEF Has
  <2> QED BY <2>4
<1>3. Has(n)
  <2> HIDE DEF Has
  <2>1. T = Nat
    <3> HIDE DEF T
    <3> QED BY <1>1, <1>2, AllNumbers DEF T
  <2> QED BY <2>1
<1>4. D(n) = Ranges(n)
  BY DEF Ranges, Width
<1> QED BY <1>3, <1>4 DEF IsFold

LEMMA SiblingsAre ==
    ASSUME NEW n \in Nat, NEW m
    PROVE  /\ IsSibling(Siblings(m, n), m, n)
           /\ \A r \in Ranges(n) : Siblings(m, n)[r] \in Seq(Ranges(n))
<1>1. PICK g : g = Siblings(m, n) /\ IsSibling(g, m, n)
  <2> DEFINE s == CHOOSE g : IsSibling(g, m, n)
  <2>1. IsSibling(s, m, n)
    BY SiblingExists
  <2>2. Siblings(m, n) = s
    BY DEF Siblings, IsSibling, SiblingBody
  <2> HIDE DEF s
  <2> QED BY <2>1, <2>2
<1> DEFINE S == {r \in AllRanges : r \in Ranges(n) => g[r] \in Seq(Ranges(n))}
<1>2. \A r \in Ranges(n) : g[r] = SiblingBody(g, m, r)
  BY <1>1 DEF IsSibling
<1>3. ASSUME NEW r \in AllRanges, Width(r) = 1 PROVE r \in S
  <2>1. << >> \in Seq(Ranges(n))
    OBVIOUS
  <2> QED BY <1>2, <1>3, <2>1 DEF SiblingBody
<1>4. ASSUME NEW r \in AllRanges, Width(r) # 1, Left(r) \in S, Right(r) \in S PROVE r \in S
  <2>1. SUFFICES ASSUME r \in Ranges(n) PROVE g[r] \in Seq(Ranges(n))
    OBVIOUS
  <2>2. PICK X, a, b : /\ X = Ranges(n) /\ a = Left(r) /\ b = Right(r) /\ a \in X /\ b \in X
    BY <1>4, <2>1, Halves
  <2>3. g[a] \in Seq(X) /\ g[b] \in Seq(X)
    BY <1>4, <2>2
  <2>4. Append(g[a], b) \in Seq(X) /\ Append(g[b], a) \in Seq(X)
    BY <2>2, <2>3, AppendProperties
  <2>5. g[r] = Append(g[a], b) \/ g[r] = Append(g[b], a)
    BY <1>2, <1>4, <2>1, <2>2 DEF SiblingBody
  <2> QED BY <2>2, <2>4, <2>5
<1> HIDE DEF S
<1>5. AllRanges \subseteq S
  BY <1>3, <1>4, TreeInduction
<1> QED BY <1>1, <1>5, RangesAre DEF S

\* A verifier's fold g over the path of hashes hs for leaf m.
FoldCase(n, m, hs, path, sib, g) ==
    /\ IsSibling(sib, m, n) /\ \A r \in Ranges(n) : sib[r] \in Seq(Ranges(n))
    /\ IsPath(path, hs, sib[<<0, n>>]) /\ IsFold(g, m, n, sib, hs[m + 1], path)

\* The verifier's fold is, below the root of any subtree with leaf m, that root.
LEMMA FoldIs ==
    ASSUME NEW n \in Nat \ {0}, NEW m \in 0..(n - 1), NEW hs, NEW path, NEW sib, NEW g,
           FoldCase(n, m, hs, path, sib, g)
    PROVE  g[<<0, n>>] = H(hs, <<0, n>>)
<1>0. PICK rs : /\ rs = sib[<<0, n>>] /\ IsPath(path, hs, rs)
                /\ IsSibling(sib, m, n) /\ IsFold(g, m, n, sib, hs[m + 1], path)
                /\ \A r \in Ranges(n) : sib[r] \in Seq(Ranges(n))
  BY DEF FoldCase
<1>1. PICK z \in AllRanges : z = <<0, n>> /\ z \in Ranges(n) /\ z[1] = 0 /\ z[2] = n
                             /\ rs = sib[z]
  <2>1. <<0, n>> \in AllRanges /\ <<0, n>> \in Ranges(n)
    BY DEF AllRanges, Ranges
  <2> QED BY <1>0, <2>1
<1>rs. PICK X : X = Ranges(n) /\ rs \in Seq(X)
  BY <1>0, <1>1
<1>2. PICK N \in Nat : N = Len(rs) /\ X = Ranges(n) /\ rs \in Seq(X) /\ DOMAIN rs = 1..N
  BY <1>rs
<1>3. \A i \in 1..N : path[i] = H(hs, rs[i])
  BY <1>0, <1>2 DEF IsPath
<1> DEFINE Under(r) == r \in Ranges(n) /\ r[1] <= m /\ m < r[2] /\ Pre(sib[r], rs)
           S == {r \in AllRanges : Under(r) => g[r] = H(hs, r)}
<1>4. ASSUME NEW r \in Ranges(n)
      PROVE  g[r] = FoldBody(g, m, sib, hs[m + 1], path, r) /\ sib[r] = SiblingBody(sib, m, r)
  BY <1>0 DEF IsFold, IsSibling
<1>5. ASSUME NEW r \in AllRanges, Width(r) = 1 PROVE r \in S
  <2>1. SUFFICES ASSUME Under(r) PROVE g[r] = H(hs, r)
    OBVIOUS
  <2>2. r[2] = m + 1
    BY <1>5, <2>1, RangeFacts
  <2>3. H(hs, r) = hs[m + 1]
    BY <1>5, <2>2, HashStep
  <2> QED BY <1>4, <1>5, <2>1, <2>3 DEF FoldBody
<1>6. ASSUME NEW r \in AllRanges, Width(r) # 1, Left(r) \in S, Right(r) \in S PROVE r \in S
  <2>1. SUFFICES ASSUME Under(r) PROVE g[r] = H(hs, r)
    OBVIOUS
  <2>2. PICK a \in AllRanges, b \in AllRanges :
          /\ a = Left(r) /\ b = Right(r) /\ a \in X /\ b \in X
          /\ a[1] = r[1] /\ a[2] = b[1] /\ b[2] = r[2]
    <3>1. Left(r) \in Ranges(n) /\ Right(r) \in Ranges(n)
      BY <1>6, <2>1, Halves
    <3>2. /\ Left(r) \in AllRanges /\ Right(r) \in AllRanges
          /\ Left(r)[1] = r[1] /\ Left(r)[2] = Right(r)[1] /\ Right(r)[2] = r[2]
      BY <1>6, TreeHalves
    <3> QED BY <1>2, <3>1, <3>2
  <2>3. H(hs, r) = NodeHash(H(hs, a), H(hs, b))
    BY <1>6, <2>2, HashStep
  <2>4. sib[a] \in Seq(X) /\ sib[b] \in Seq(X) /\ r \in Ranges(n)
    BY <1>0, <1>2, <2>1, <2>2
  <2>5. CASE m < a[2]
    <3>1. sib[r] = Append(sib[a], b)
      BY <1>4, <1>6, <2>2, <2>4, <2>5 DEF SiblingBody
    <3>2. PICK k \in Nat : k = Len(sib[a])
      BY <2>4
    <3>3. Longer(sib[r], sib[a], b)
      BY <2>2, <2>4, <3>1, AppendProperties DEF Longer
    <3>4. Pre(sib[a], rs) /\ Len(sib[r]) = k + 1 /\ k + 1 <= N /\ rs[k + 1] = b
      BY <1>2, <2>1, <3>2, <3>3, OneMore
    <3>5. path[k + 1] = H(hs, b)
      <4>1. k + 1 \in 1..N
        BY <1>2, <3>2, <3>4
      <4>2. path[k + 1] = H(hs, rs[k + 1])
        BY <1>3, <4>1
      <4> QED BY <3>4, <4>2
    <3>6. g[a] = H(hs, a)
      BY <1>2, <1>6, <2>1, <2>2, <2>5, <3>4
    <3>7. g[r] = NodeHash(g[a], path[k + 1])
      BY <1>4, <1>6, <2>2, <2>4, <2>5, <3>4 DEF FoldBody
    <3> QED BY <2>3, <3>5, <3>6, <3>7
  <2>6. CASE ~(m < a[2])
    <3>1. sib[r] = Append(sib[b], a)
      BY <1>4, <1>6, <2>2, <2>4, <2>6 DEF SiblingBody
    <3>2. PICK k \in Nat : k = Len(sib[b])
      BY <2>4
    <3>3. Longer(sib[r], sib[b], a)
      BY <2>2, <2>4, <3>1, AppendProperties DEF Longer
    <3>4. Pre(sib[b], rs) /\ Len(sib[r]) = k + 1 /\ k + 1 <= N /\ rs[k + 1] = a
      BY <1>2, <2>1, <3>2, <3>3, OneMore
    <3>5. path[k + 1] = H(hs, a)
      <4>1. k + 1 \in 1..N
        BY <1>2, <3>2, <3>4
      <4>2. path[k + 1] = H(hs, rs[k + 1])
        BY <1>3, <4>1
      <4> QED BY <3>4, <4>2
    <3>6. g[b] = H(hs, b)
      <4>1. b[1] <= m
        BY <2>2, <2>6, RangeFacts
      <4> QED BY <1>2, <1>6, <2>1, <2>2, <3>4, <4>1
    <3>7. g[r] = NodeHash(path[k + 1], g[b])
      BY <1>4, <1>6, <2>2, <2>4, <2>6, <3>4 DEF FoldBody
    <3> QED BY <2>3, <3>5, <3>6, <3>7
  <2> QED BY <2>5, <2>6
<1>7. AllRanges \subseteq S
  <2> HIDE DEF S
  <2> QED BY <1>5, <1>6, TreeInduction
<1>8. Under(z)
  <2>1. Pre(rs, rs) /\ sib[z] = rs
    BY <1>1, <1>2 DEF Pre
  <2> QED BY <1>1, <2>1
<1> HIDE DEF Under
<1> QED BY <1>1, <1>7, <1>8

\* The path that inclusion_path_cached returns verifies for the leaf it is asked for.
LEMMA InclusionVerifies ==
    ASSUME NEW n \in Nat \ {0}, NEW m \in 0..(n - 1), NEW hs, NEW c, NEW ks,
           \A r \in AllRanges : r[2] <= n => RangeHash(c, ks, r) = H(hs, r)
    PROVE  VerifyInclusion(m, hs[m + 1], InclusionPath(c, ks, m, n), H(hs, <<0, n>>), n)
<1>1. PICK sib : sib = Siblings(m, n) /\ IsSibling(sib, m, n)
                 /\ \A r \in Ranges(n) : sib[r] \in Seq(Ranges(n))
  BY SiblingsAre
<1>2. PICK rs, path : /\ rs = sib[<<0, n>>] /\ rs = InclusionRanges(m, n)
                      /\ path = InclusionPath(c, ks, m, n)
  BY <1>1 DEF InclusionRanges
<1>3. rs \in Seq(Ranges(n))
  <2>1. <<0, n>> \in Ranges(n)
    BY DEF Ranges
  <2> QED BY <1>1, <1>2, <2>1
<1>4. \A i \in DOMAIN rs : RangeHash(c, ks, rs[i]) = H(hs, rs[i])
  BY <1>3, RangesAre
<1>5. IsPath(path, hs, rs) /\ Len(path) = Len(rs)
  <2>1. path = [i \in DOMAIN rs |-> RangeHash(c, ks, rs[i])]
    BY <1>2 DEF InclusionPath
  <2>2. path = [i \in DOMAIN rs |-> H(hs, rs[i])]
    BY <1>4, <2>1
  <2>3. Len(path) = Len(rs)
    <3>1. PICK N \in Nat : N = Len(rs) /\ DOMAIN rs = 1..N
      BY <1>3
    <3>2. path = [i \in 1..N |-> H(hs, rs[i])]
      BY <2>2, <3>1
    <3> QED BY <3>1, <3>2
  <2> QED BY <2>2, <2>3 DEF IsPath
<1> DEFINE g == CHOOSE f : IsFold(f, m, n, sib, hs[m + 1], path)
<1>6. IsFold(g, m, n, sib, hs[m + 1], path)
  BY FoldExists
<1>7. RootFromInclusion(m, n, hs[m + 1], path) = g[<<0, n>>]
  BY <1>1, <1>2, <1>5 DEF RootFromInclusion, IsFold, FoldBody
<1> HIDE DEF g
<1>8. g[<<0, n>>] = H(hs, <<0, n>>)
  <2>1. PICK f : f = g
    OBVIOUS
  <2>2. FoldCase(n, m, hs, path, sib, f)
    BY <1>1, <1>2, <1>5, <1>6, <2>1 DEF FoldCase
  <2>3. f[<<0, n>>] = H(hs, <<0, n>>)
    BY <2>2, FoldIs
  <2> QED BY <2>1, <2>3
<1> QED BY <1>2, <1>7, <1>8 DEF VerifyInclusion

-----------------------------------------------------------------------------
(* Tables t of a connection whose committed tables are d.                  *)

IsTables(t) == t = Tables(t.leaves, t.ranges, t.tiles, t.bundles, t.notes, t.latest)
All(t) == Hashes(t, Size(t))
RootAt(t, s) == H(All(t), <<0, s>>)

LeavesInv(t) ==
    /\ IsTables(t)
    /\ t.leaves \in Seq(Bodies)
    /\ \A i, j \in DOMAIN t.leaves : t.leaves[i] = t.leaves[j] => i = j

\* A cached hash is that of its range, for the leaves that are there.
CacheInv(t) == \A r \in DOMAIN t.ranges : r[2] <= Size(t) /\ TrueCache(t.ranges, All(t))

\* What is published is a function of leaves that are committed.
FilesInv(t, d) ==
    /\ \A x \in DOMAIN t.tiles :
          Covers(x, Size(d)) /\ t.tiles[x] = TileHashes(All(d), x[1], x[2], x[3])
    /\ \A b \in DOMAIN t.bundles :
          /\ b[1] \in Nat /\ b[2] \in Nat /\ b[1] * TileWidth + b[2] <= Size(d)
          /\ t.bundles[b] = Bundle(d, b[1], b[2])

\* So is what is signed, and its files are there.
NotesInv(t, d) ==
    \A s \in DOMAIN t.notes :
       /\ s \in 1..Size(d) /\ t.notes[s] = Note(s, RootAt(d, s))
       /\ BundlesRequired(s) \subseteq DOMAIN t.bundles
       /\ TilesRequired(s) \subseteq DOMAIN t.tiles

\* Nothing that d has is missing from t.
Extends(t, d) ==
    /\ Size(d) <= Size(t) /\ \A i \in 1..Size(d) : t.leaves[i] = d.leaves[i]
    /\ DOMAIN d.tiles \subseteq DOMAIN t.tiles
    /\ DOMAIN d.bundles \subseteq DOMAIN t.bundles
    /\ DOMAIN d.notes \subseteq DOMAIN t.notes

Good(t, d) == LeavesInv(t) /\ CacheInv(t) /\ FilesInv(t, d) /\ NotesInv(t, d)
Sound(t, d) == Good(t, d) /\ Good(d, d) /\ Extends(t, d)

LEMMA TablesAre ==
    ASSUME NEW a, NEW b, NEW c, NEW d, NEW e, NEW f
    PROVE  LET t == Tables(a, b, c, d, e, f)
           IN  /\ t.leaves = a /\ t.ranges = b /\ t.tiles = c
               /\ t.bundles = d /\ t.notes = e /\ t.latest = f /\ IsTables(t)
BY DEF Tables, IsTables

LEMMA ExceptOne ==
    ASSUME NEW t, IsTables(t), NEW x
    PROVE  /\ [t EXCEPT !.ranges = x]
                = Tables(t.leaves, x, t.tiles, t.bundles, t.notes, t.latest)
           /\ [t EXCEPT !.leaves = x]
                = Tables(x, t.ranges, t.tiles, t.bundles, t.notes, t.latest)
           /\ [t EXCEPT !.tiles = x]
                = Tables(t.leaves, t.ranges, x, t.bundles, t.notes, t.latest)
           /\ [t EXCEPT !.bundles = x]
                = Tables(t.leaves, t.ranges, t.tiles, x, t.notes, t.latest)
           /\ [t EXCEPT !.notes = x]
                = Tables(t.leaves, t.ranges, t.tiles, t.bundles, x, t.latest)
           /\ [t EXCEPT !.latest = x]
                = Tables(t.leaves, t.ranges, t.tiles, t.bundles, t.notes, x)
<1>1. PICK u : /\ u = [leaves |-> t.leaves, ranges |-> t.ranges, tiles |-> t.tiles,
                       bundles |-> t.bundles, notes |-> t.notes, latest |-> t.latest]
               /\ t = u
  BY DEF IsTables, Tables
<1>2. /\ [u EXCEPT !.ranges = x]
           = Tables(t.leaves, x, t.tiles, t.bundles, t.notes, t.latest)
      /\ [u EXCEPT !.leaves = x]
           = Tables(x, t.ranges, t.tiles, t.bundles, t.notes, t.latest)
      /\ [u EXCEPT !.tiles = x]
           = Tables(t.leaves, t.ranges, x, t.bundles, t.notes, t.latest)
  BY <1>1 DEF Tables
<1>3. /\ [u EXCEPT !.bundles = x]
           = Tables(t.leaves, t.ranges, t.tiles, x, t.notes, t.latest)
      /\ [u EXCEPT !.notes = x]
           = Tables(t.leaves, t.ranges, t.tiles, t.bundles, x, t.latest)
      /\ [u EXCEPT !.latest = x]
           = Tables(t.leaves, t.ranges, t.tiles, t.bundles, t.notes, x)
  BY <1>1 DEF Tables
<1> QED BY <1>1, <1>2, <1>3

LEMMA SizeType ==
    ASSUME NEW t, LeavesInv(t) PROVE Size(t) \in Nat /\ DOMAIN t.leaves = 1..Size(t)
BY DEF LeavesInv, Size

LEMMA HashesAre ==
    ASSUME NEW t, LeavesInv(t), NEW s \in 0..Size(t)
    PROVE  /\ Hashes(t, s) \in Seq({LeafHash(x) : x \in Bodies}) /\ Len(Hashes(t, s)) = s
           /\ \A i \in 1..s : Hashes(t, s)[i] = LeafHash(t.leaves[i])
<1>1. Size(t) \in Nat /\ t.leaves \in Seq(Bodies)
  BY SizeType DEF LeavesInv
<1>2. \A i \in 1..s : t.leaves[i] \in Bodies
  BY <1>1 DEF Size
<1>3. Hashes(t, s) \in [1..s -> {LeafHash(x) : x \in Bodies}]
  BY <1>2 DEF Hashes
<1> QED BY <1>1, <1>3 DEF Hashes

\* The hashes of all leaves begin with those of the first s.
LEMMA FirstHashes ==
    ASSUME NEW t, NEW d, LeavesInv(t), LeavesInv(d), NEW s \in 0..Size(d), Size(d) <= Size(t),
           \A i \in 1..s : t.leaves[i] = d.leaves[i]
    PROVE  \A i \in 1..s : All(t)[i] = Hashes(d, s)[i] /\ All(d)[i] = Hashes(d, s)[i]
                           /\ Hashes(t, s)[i] = Hashes(d, s)[i]
<1>1. Size(t) \in Nat /\ Size(d) \in Nat
  BY SizeType
<1>2. PICK n \in Nat, m \in Nat : n = Size(t) /\ m = Size(d) /\ s \in 0..m /\ m <= n
  BY <1>1
<1>3. \A i \in 1..s : i \in 1..n /\ i \in 1..m
  BY <1>2
<1> QED BY <1>2, <1>3 DEF All, Hashes

LEMMA SameAll ==
    ASSUME NEW t, NEW d, LeavesInv(t), LeavesInv(d), Extends(t, d)
    PROVE  /\ Size(d) \in Nat /\ Size(t) \in Nat
           /\ \A i \in 1..Size(d) : All(t)[i] = All(d)[i]
           /\ \A s \in 1..Size(d) : RootAt(t, s) = RootAt(d, s)
<1>1. Size(t) \in Nat /\ Size(d) \in Nat
  BY SizeType
<1>2. \A i \in 1..Size(d) : All(t)[i] = All(d)[i]
  <2>1. Size(d) \in 0..Size(d)
    BY <1>1
  <2> QED BY <1>1, <2>1, FirstHashes DEF Extends
<1>3. ASSUME NEW s \in 1..Size(d) PROVE RootAt(t, s) = RootAt(d, s)
  <2>0. PICK hs, ks : hs = All(d) /\ ks = All(t)
    OBVIOUS
  <2>1. PICK B \in Nat : B = Size(d) /\ hs = All(d) /\ ks = All(t)
    BY <1>1, <2>0
  <2>2. PICK r \in AllRanges : r = <<0, s>> /\ r[2] <= B
    <3>1. <<0, s>> \in AllRanges /\ s <= B
      BY <1>1, <2>1 DEF AllRanges
    <3> QED BY <3>1
  <2>3. H(ks, r) = H(hs, r)
    BY <1>2, <2>1, <2>2, SameHash
  <2> QED BY <2>1, <2>2, <2>3 DEF RootAt
<1> QED BY <1>1, <1>2, <1>3

\* What may be written of the files of size s says what the committed leaves say.
LEMMA FilesOf ==
    ASSUME NEW t, NEW d, LeavesInv(t), LeavesInv(d), Extends(t, d), NEW s \in 0..Size(d)
    PROVE  /\ \A x : Covers(x, s) =>
                 /\ Covers(x, Size(d)) /\ Covers(x, Size(t))
                 /\ TileHashes(Hashes(t, s), x[1], x[2], x[3]) = TileHashes(All(d), x[1], x[2], x[3])
           /\ \A b : b[1] \in Nat /\ b[2] \in Nat /\ b[1] * TileWidth + b[2] <= s =>
                 /\ b[1] * TileWidth + b[2] <= Size(d) /\ b[1] * TileWidth + b[2] <= Size(t)
                 /\ Bundle(t, b[1], b[2]) = Bundle(d, b[1], b[2])
<1>1. PICK n \in Nat, m \in Nat : n = Size(t) /\ m = Size(d) /\ m <= n
  BY SizeType DEF Extends
<1>2. s \in Nat /\ s <= m
  BY <1>1
<1>3. ASSUME NEW x, Covers(x, s)
      PROVE  /\ Covers(x, m) /\ Covers(x, n)
             /\ TileHashes(Hashes(t, s), x[1], x[2], x[3]) = TileHashes(All(d), x[1], x[2], x[3])
  <2>1. (x[2] * TileWidth + x[3]) * Span(x[1]) \in Nat
    BY <1>3, SpanType, TileAssumption DEF Covers
  <2>2. Covers(x, m) /\ Covers(x, n)
    BY <1>1, <1>2, <1>3, <2>1 DEF Covers
  <2>3. PICK X, ks, hs : /\ ks = Hashes(t, s) /\ hs = All(d)
                         /\ ks \in Seq(X) /\ Len(ks) = s /\ hs \in Seq(X) /\ Len(hs) = m
    <3>1. s \in 0..n /\ m \in 0..m
      BY <1>1, <1>2
    <3> QED BY <1>1, <3>1, HashesAre DEF All
  <2>4. \A i \in 1..s : ks[i] = hs[i]
    <3>1. \A i \in 1..s : t.leaves[i] = d.leaves[i]
      BY <1>1, <1>2 DEF Extends
    <3> QED BY <1>1, <2>3, <3>1, FirstHashes
  <2>5. TileHashes(ks, x[1], x[2], x[3]) = TileHashes(hs, x[1], x[2], x[3])
    BY <1>2, <1>3, <2>3, <2>4, SameTile
  <2> QED BY <2>2, <2>3, <2>5
<1>4. ASSUME NEW b, b[1] \in Nat, b[2] \in Nat, b[1] * TileWidth + b[2] <= s
      PROVE  /\ b[1] * TileWidth + b[2] <= m /\ b[1] * TileWidth + b[2] <= n
             /\ Bundle(t, b[1], b[2]) = Bundle(d, b[1], b[2])
  <2>1. PICK lo \in Nat, hi \in Nat : lo = b[1] * TileWidth /\ hi = lo + b[2]
    BY <1>4, TileAssumption
  <2>2. hi <= m /\ hi <= n
    BY <1>1, <1>2, <1>4, <2>1
  <2>3. SubSeq(t.leaves, lo + 1, hi) = SubSeq(d.leaves, lo + 1, hi)
    <3>1. /\ t.leaves \in Seq(Bodies) /\ d.leaves \in Seq(Bodies)
          /\ hi <= Len(t.leaves) /\ hi <= Len(d.leaves)
      BY <1>1, <2>2 DEF LeavesInv, Size
    <3>2. \A i \in 1..hi : t.leaves[i] = d.leaves[i]
      BY <1>1, <2>2 DEF Extends
    <3> QED BY <3>1, <3>2, SameSlice
  <2> QED BY <2>1, <2>2, <2>3 DEF Bundle
<1> QED BY <1>1, <1>3, <1>4

\* Once t is committed, its files and notes rest on its own leaves.
LEMMA Committed ==
    ASSUME NEW t, NEW d, Sound(t, d)
    PROVE  Good(t, t)
<1>1. LeavesInv(t) /\ LeavesInv(d) /\ Extends(t, d)
  BY DEF Sound, Good
<1>2. PICK n \in Nat, m \in Nat : n = Size(t) /\ m = Size(d) /\ m <= n
  BY <1>1, SizeType DEF Extends
<1>3. Extends(t, t)
  BY <1>2 DEF Extends
<1>4. ASSUME NEW x \in DOMAIN t.tiles
      PROVE  Covers(x, n) /\ t.tiles[x] = TileHashes(All(t), x[1], x[2], x[3])
  <2>1. Covers(x, m) /\ t.tiles[x] = TileHashes(All(d), x[1], x[2], x[3])
    BY <1>2 DEF Sound, Good, FilesInv
  <2>2. m \in 0..m /\ m \in 0..n
    BY <1>2
  <2>3. /\ Covers(x, n)
        /\ TileHashes(Hashes(t, m), x[1], x[2], x[3]) = TileHashes(All(d), x[1], x[2], x[3])
    BY <1>1, <1>2, <2>1, <2>2, FilesOf
  <2>4. TileHashes(Hashes(t, m), x[1], x[2], x[3]) = TileHashes(All(t), x[1], x[2], x[3])
    BY <1>1, <1>2, <1>3, <2>1, <2>2, FilesOf
  <2> QED BY <2>1, <2>3, <2>4
<1>5. ASSUME NEW b \in DOMAIN t.bundles
      PROVE  /\ b[1] \in Nat /\ b[2] \in Nat /\ b[1] * TileWidth + b[2] <= n
             /\ t.bundles[b] = Bundle(t, b[1], b[2])
  <2>1. /\ b[1] \in Nat /\ b[2] \in Nat /\ b[1] * TileWidth + b[2] <= m
        /\ t.bundles[b] = Bundle(d, b[1], b[2])
    BY <1>2 DEF Sound, Good, FilesInv
  <2>2. m \in 0..m
    BY <1>2
  <2> QED BY <1>1, <1>2, <2>1, <2>2, FilesOf
<1>6. NotesInv(t, t)
  <2>1. \A s \in 1..m : RootAt(t, s) = RootAt(d, s)
    BY <1>1, <1>2, SameAll
  <2>2. \A s \in 1..m : s \in 1..n
    BY <1>2
  <2> QED BY <1>2, <2>1, <2>2 DEF Sound, Good, NotesInv
<1> QED BY <1>2, <1>4, <1>5, <1>6 DEF Sound, Good, FilesInv

-----------------------------------------------------------------------------
(* What a call may write.                                                  *)

LEMMA WrittenIs ==
    ASSUME NEW f, NEW g
    PROVE  /\ DOMAIN Written(f, g) = DOMAIN f \cup DOMAIN g
           /\ \A k \in DOMAIN f : Written(f, g)[k] = f[k]
           /\ \A k \in DOMAIN g \ DOMAIN f : Written(f, g)[k] = g[k]
BY DEF Written

\* Table v is table w after some rows of f were written to it.
Added(v, f, w) ==
    /\ DOMAIN w \subseteq DOMAIN v
    /\ \A k \in DOMAIN v : (k \in DOMAIN w /\ v[k] = w[k]) \/ (k \in DOMAIN f /\ v[k] = f[k])

LEMMA AddedRows ==
    ASSUME NEW f, NEW w, NEW K, K \subseteq DOMAIN f
    PROVE  Added(Written(Restrict(f, K), w), f, w) /\ Added(Written(f, w), f, w) /\ Added(w, f, w)
<1>1. DOMAIN Restrict(f, K) = K /\ \A k \in K : Restrict(f, K)[k] = f[k]
  BY DEF Restrict
<1>2. PICK g : g = Restrict(f, K) /\ DOMAIN g \subseteq DOMAIN f /\ \A k \in DOMAIN g : g[k] = f[k]
  BY <1>1
<1>3. Added(Written(g, w), f, w)
  BY <1>2 DEF Added, Written
<1>4. Added(Written(f, w), f, w)
  BY DEF Added, Written
<1>5. Added(w, f, w)
  BY DEF Added
<1> QED BY <1>2, <1>3, <1>4, <1>5

\* Rows of a publication, for any size there is on disk, replace nothing by anything
\* else.
LEMMA FilesWritten ==
    ASSUME NEW t, NEW d, Sound(t, d), NEW s \in 0..Size(d), NEW u, IsTables(u),
           u.leaves = t.leaves, u.ranges = t.ranges, u.notes = t.notes,
           Added(u.tiles, TileRows(t, s), t.tiles), Added(u.bundles, BundleRows(t, s), t.bundles)
    PROVE  Sound(u, d)
<1>1. LeavesInv(t) /\ LeavesInv(d) /\ Extends(t, d) /\ s \in Nat
  BY SizeType DEF Sound, Good
<1>2. Size(u) = Size(t) /\ All(u) = All(t) /\ LeavesInv(u)
  BY <1>1 DEF Size, All, Hashes, LeavesInv
<1>3. CacheInv(u)
  BY <1>2 DEF Sound, Good, CacheInv
<1>4. ASSUME NEW x \in DOMAIN u.tiles
      PROVE  Covers(x, Size(d)) /\ u.tiles[x] = TileHashes(All(d), x[1], x[2], x[3])
  <2>1. CASE x \in DOMAIN t.tiles /\ u.tiles[x] = t.tiles[x]
    BY <2>1 DEF Sound, Good, FilesInv
  <2>2. CASE x \in DOMAIN TileRows(t, s) /\ u.tiles[x] = TileRows(t, s)[x]
    <3>1. x \in TilesRequired(s) /\ u.tiles[x] = TileHashes(Hashes(t, s), x[1], x[2], x[3])
      BY <2>2 DEF TileRows
    <3>2. Covers(x, s)
      BY <1>1, <3>1, RequiredTiles
    <3> QED BY <1>1, <3>1, <3>2, FilesOf
  <2> QED BY <2>1, <2>2 DEF Added
<1>5. ASSUME NEW b \in DOMAIN u.bundles
      PROVE  /\ b[1] \in Nat /\ b[2] \in Nat /\ b[1] * TileWidth + b[2] <= Size(d)
             /\ u.bundles[b] = Bundle(d, b[1], b[2])
  <2>1. CASE b \in DOMAIN t.bundles /\ u.bundles[b] = t.bundles[b]
    BY <2>1 DEF Sound, Good, FilesInv
  <2>2. CASE b \in DOMAIN BundleRows(t, s) /\ u.bundles[b] = BundleRows(t, s)[b]
    <3>1. b \in BundlesRequired(s) /\ u.bundles[b] = Bundle(t, b[1], b[2])
      BY <2>2 DEF BundleRows
    <3>2. b[1] \in Nat /\ b[2] \in Nat /\ b[1] * TileWidth + b[2] <= s
      BY <1>1, <3>1, RequiredBundles
    <3> QED BY <1>1, <3>1, <3>2, FilesOf
  <2> QED BY <2>1, <2>2 DEF Added
<1>6. FilesInv(u, d)
  BY <1>4, <1>5 DEF FilesInv
<1>7. DOMAIN t.tiles \subseteq DOMAIN u.tiles /\ DOMAIN t.bundles \subseteq DOMAIN u.bundles
  BY DEF Added
<1>8. NotesInv(u, d)
  BY <1>7 DEF Sound, Good, NotesInv
<1>9. Extends(u, d)
  BY <1>1, <1>2, <1>7 DEF Extends
<1> QED BY <1>2, <1>3, <1>6, <1>8, <1>9 DEF Sound, Good

LEMMA PublishedIs ==
    ASSUME NEW t, IsTables(t), NEW s
    PROVE  Published(t, s) = Tables(t.leaves, t.ranges, Written(TileRows(t, s), t.tiles),
                                    Written(BundleRows(t, s), t.bundles), t.notes, t.latest)
<1>1. PICK x, y : x = Written(TileRows(t, s), t.tiles) /\ y = Written(BundleRows(t, s), t.bundles)
  OBVIOUS
<1>2. [t EXCEPT !.tiles = x] = Tables(t.leaves, t.ranges, x, t.bundles, t.notes, t.latest)
  BY ExceptOne
<1>3. [Tables(t.leaves, t.ranges, x, t.bundles, t.notes, t.latest) EXCEPT !.bundles = y]
        = Tables(t.leaves, t.ranges, x, y, t.notes, t.latest)
  BY DEF Tables
<1>4. [t EXCEPT !.tiles = x, !.bundles = y] = [[t EXCEPT !.tiles = x] EXCEPT !.bundles = y]
  OBVIOUS
<1>5. Published(t, s) = [t EXCEPT !.tiles = x, !.bundles = y]
  BY <1>1 DEF Published
<1> QED BY <1>1, <1>2, <1>3, <1>4, <1>5

\* A size that was published is ready.
LEMMA PublishedReady ==
    ASSUME NEW t, IsTables(t), NEW s, s <= Size(t)
    PROVE  Ready(Published(t, s), s)
<1>1. PICK u, x, y : /\ u = Published(t, s) /\ x = Written(TileRows(t, s), t.tiles)
                     /\ y = Written(BundleRows(t, s), t.bundles)
                     /\ u = Tables(t.leaves, t.ranges, x, y, t.notes, t.latest)
  BY PublishedIs
<1>2. u.leaves = t.leaves /\ u.tiles = x /\ u.bundles = y
  BY <1>1, TablesAre
<1>3. TilesRequired(s) \subseteq DOMAIN x /\ BundlesRequired(s) \subseteq DOMAIN y
  BY <1>1 DEF Written, TileRows, BundleRows
<1> QED BY <1>1, <1>2, <1>3 DEF Ready, Size

LEMMA Publication ==
    ASSUME NEW t, NEW d, Sound(t, d), NEW s \in 0..Size(d), NEW u,
           u = Published(t, s) \/ u \in PartlyPublished(t, s)
    PROVE  Sound(u, d) /\ u.leaves = t.leaves
<1>0. DOMAIN TileRows(t, s) = TilesRequired(s) /\ DOMAIN BundleRows(t, s) = BundlesRequired(s)
  BY DEF TileRows, BundleRows
<1>1. PICK f, g : /\ f = TileRows(t, s) /\ DOMAIN f = TilesRequired(s)
                  /\ g = BundleRows(t, s) /\ DOMAIN g = BundlesRequired(s)
  BY <1>0
<1>2. IsTables(t)
  BY DEF Sound, Good, LeavesInv
<1>3. Published(t, s) = Tables(t.leaves, t.ranges, Written(f, t.tiles), Written(g, t.bundles),
                               t.notes, t.latest)
  BY <1>1, <1>2, PublishedIs
<1>4. CASE u = Published(t, s)
  <2>1. /\ IsTables(u) /\ u.leaves = t.leaves /\ u.ranges = t.ranges /\ u.notes = t.notes
        /\ u.tiles = Written(f, t.tiles) /\ u.bundles = Written(g, t.bundles)
    BY <1>3, <1>4, TablesAre
  <2>2. Added(u.tiles, f, t.tiles) /\ Added(u.bundles, g, t.bundles)
    BY <2>1, AddedRows
  <2> QED BY <1>1, <2>1, <2>2, FilesWritten
<1>5. ASSUME NEW B \in Firsts(BundlesRequired(s)),
             u = [t EXCEPT !.bundles = Written(Restrict(BundleRows(t, s), B), t.bundles)]
      PROVE  Sound(u, d) /\ u.leaves = t.leaves
  <2>1. B \subseteq DOMAIN g
    BY <1>1 DEF Firsts
  <2>2. u = Tables(t.leaves, t.ranges, t.tiles, Written(Restrict(g, B), t.bundles), t.notes, t.latest)
    <3>1. PICK y : y = Written(Restrict(g, B), t.bundles)
      OBVIOUS
    <3>2. [t EXCEPT !.bundles = y] = Tables(t.leaves, t.ranges, t.tiles, y, t.notes, t.latest)
      BY <1>2, ExceptOne
    <3> QED BY <1>1, <1>5, <3>1, <3>2
  <2>3. /\ IsTables(u) /\ u.leaves = t.leaves /\ u.ranges = t.ranges /\ u.notes = t.notes
        /\ u.tiles = t.tiles /\ u.bundles = Written(Restrict(g, B), t.bundles)
    BY <2>2, TablesAre
  <2>4. Added(u.tiles, f, t.tiles) /\ Added(u.bundles, g, t.bundles)
    BY <2>1, <2>3, AddedRows
  <2> QED BY <1>1, <2>3, <2>4, FilesWritten
<1>6. ASSUME NEW T \in Firsts(TilesRequired(s)),
             u = [Published(t, s) EXCEPT !.tiles = Written(Restrict(TileRows(t, s), T), t.tiles)]
      PROVE  Sound(u, d) /\ u.leaves = t.leaves
  <2>1. T \subseteq DOMAIN f
    BY <1>1 DEF Firsts
  <2>2. u = Tables(t.leaves, t.ranges, Written(Restrict(f, T), t.tiles), Written(g, t.bundles),
                   t.notes, t.latest)
    BY <1>1, <1>3, <1>6 DEF Tables
  <2>3. /\ IsTables(u) /\ u.leaves = t.leaves /\ u.ranges = t.ranges /\ u.notes = t.notes
        /\ u.tiles = Written(Restrict(f, T), t.tiles) /\ u.bundles = Written(g, t.bundles)
    BY <2>2, TablesAre
  <2>4. Added(u.tiles, f, t.tiles) /\ Added(u.bundles, g, t.bundles)
    BY <2>1, <2>3, AddedRows
  <2> QED BY <1>1, <2>3, <2>4, FilesWritten
<1> QED BY <1>4, <1>5, <1>6 DEF PartlyPublished

\* save_checkpoint: a size is signed with the root of its committed leaves.
LEMMA NoteWritten ==
    ASSUME NEW t, NEW d, Sound(t, d), NEW s \in 1..Size(d), Ready(t, s), NEW u,
           u = SizedNote(t, Note(s, RootAt(d, s))) \/ u = Checkpointed(t, Note(s, RootAt(d, s)))
    PROVE  Sound(u, d) /\ u.leaves = t.leaves /\ s \in DOMAIN u.notes
<1>1. IsTables(t)
  BY DEF Sound, Good, LeavesInv
<1>2. PICK note, v : /\ note = Note(s, RootAt(d, s)) /\ note.size = s
                     /\ v = Written(Row(s, note), t.notes)
  BY DEF Note
<1>3. /\ DOMAIN v = DOMAIN t.notes \cup {s} /\ v[s] = note
      /\ \A k \in DOMAIN t.notes : k # s => v[k] = t.notes[k]
  BY <1>2 DEF Written, Row
<1>4. /\ IsTables(u) /\ u.leaves = t.leaves /\ u.ranges = t.ranges /\ u.notes = v
      /\ u.tiles = t.tiles /\ u.bundles = t.bundles
  <2>1. \/ u = Tables(t.leaves, t.ranges, t.tiles, t.bundles, v, t.latest)
        \/ u = Tables(t.leaves, t.ranges, t.tiles, t.bundles, v, note)
    <3>1. SizedNote(t, note) = [t EXCEPT !.notes = v]
      BY <1>2 DEF SizedNote
    <3>2. SizedNote(t, note) = Tables(t.leaves, t.ranges, t.tiles, t.bundles, v, t.latest)
      <4>1. [t EXCEPT !.notes = v] = Tables(t.leaves, t.ranges, t.tiles, t.bundles, v, t.latest)
        BY <1>1, ExceptOne
      <4> QED BY <3>1, <4>1
    <3>3. Checkpointed(t, note) = Tables(t.leaves, t.ranges, t.tiles, t.bundles, v, note)
      BY <3>2 DEF Checkpointed, Tables
    <3> QED BY <1>2, <3>2, <3>3
  <2> QED BY <2>1, TablesAre
<1>5. Size(u) = Size(t) /\ All(u) = All(t) /\ LeavesInv(u)
  BY <1>4 DEF Size, All, Hashes, LeavesInv, Sound, Good
<1>6. CacheInv(u) /\ FilesInv(u, d)
  BY <1>4, <1>5 DEF Sound, Good, CacheInv, FilesInv
<1>7. NotesInv(u, d)
  BY <1>2, <1>3, <1>4 DEF Sound, Good, NotesInv, Ready
<1>8. Extends(u, d)
  BY <1>3, <1>4, <1>5 DEF Sound, Extends
<1> QED BY <1>3, <1>4, <1>5, <1>6, <1>7, <1>8 DEF Sound, Good

\* _store_range: a cache that is true stays so.
LEMMA StoredTrue ==
    ASSUME NEW c, NEW hs, NEW n \in Nat, TrueCache(c, hs), \A r \in DOMAIN c : r[2] <= n,
           NEW K, \A r \in K : r \in AllRanges /\ r[2] <= n
    PROVE  /\ TrueCache(Stored(c, hs, K), hs) 
           /\ \A r \in DOMAIN Stored(c, hs, K) : r[2] <= n
<1> DEFINE f == [q \in K |-> RangeHash(c, hs, q)]
<1>0. \A i \in 1..n : <<i - 1, i>> \in DOMAIN c \/ hs[i] = hs[i]
  OBVIOUS
<1>1. \A r \in AllRanges : r[2] <= n => RangeHash(c, hs, r) = H(hs, r)
  BY <1>0, CachedTrue
<1>2. DOMAIN f = K /\ \A r \in K : f[r] = H(hs, r)
  BY <1>1
<1>3. Stored(c, hs, K) = Written(f, c)
  BY DEF Stored
<1> HIDE DEF f
<1>4. ASSUME NEW r \in DOMAIN Written(f, c)
      PROVE  r \in AllRanges /\ r[2] <= n /\ Written(f, c)[r] = H(hs, r)
  <2>1. r \in K \/ r \in DOMAIN c
    BY <1>2, WrittenIs
  <2>2. Written(f, c)[r] = IF r \in K THEN f[r] ELSE c[r]
    <3>1. r \in DOMAIN f => Written(f, c)[r] = f[r]
      BY DEF Written
    <3>2. r \in DOMAIN c \ DOMAIN f => Written(f, c)[r] = c[r]
      BY DEF Written
    <3> QED BY <1>2, <2>1, <3>1, <3>2
  <2> QED BY <1>2, <2>1, <2>2 DEF TrueCache
<1> QED BY <1>3, <1>4 DEF TrueCache

\* root() of the log as it is stores hashes of its leaves.
LEMMA RangesRead ==
    ASSUME NEW t, NEW d, Sound(t, d), Size(t) > 0, NEW u,
           u = [t EXCEPT !.ranges =
                  Stored(t.ranges, Hashes(t, Size(t)), Missing(t.ranges, <<0, Size(t)>>))]
    PROVE  Sound(u, d) /\ u.leaves = t.leaves
<1>0. PICK hs, c : hs = All(t) /\ c = t.ranges
  OBVIOUS
<1>1. PICK n \in Nat : n = Size(t) /\ n > 0 /\ hs = All(t) /\ c = t.ranges
  BY <1>0, SizeType DEF Sound, Good
<1>2. PICK r \in AllRanges : r = <<0, n>> /\ r[2] = n
  <2>1. <<0, n>> \in AllRanges
    BY <1>1 DEF AllRanges
  <2> QED BY <2>1
<1>3. PICK K : K = Missing(c, r) /\ \A q \in K : q \in AllRanges /\ q[2] <= n
  BY <1>2, MissingAre
<1>4. PICK v : v = Stored(c, hs, K)
  OBVIOUS
<1>5. IsTables(t) /\ u = [t EXCEPT !.ranges = v]
  BY <1>1, <1>2, <1>3, <1>4 DEF Sound, Good, LeavesInv, All
<1>6. u = Tables(t.leaves, v, t.tiles, t.bundles, t.notes, t.latest)
  BY <1>5, ExceptOne
<1>7. /\ IsTables(u) /\ u.leaves = t.leaves /\ u.ranges = v /\ u.notes = t.notes
      /\ u.tiles = t.tiles /\ u.bundles = t.bundles
  BY ONLY <1>6, TablesAre
<1>8. Size(u) = n /\ All(u) = hs /\ LeavesInv(u)
  BY <1>1, <1>7 DEF Size, All, Hashes, LeavesInv, Sound, Good
<1>9. TrueCache(c, hs) /\ \A q \in DOMAIN c : q[2] <= n
  BY <1>1 DEF Sound, Good, CacheInv, TrueCache
<1>10. TrueCache(v, hs) /\ \A q \in DOMAIN v : q[2] <= n
  BY <1>3, <1>4, <1>9, StoredTrue
<1>11. CacheInv(u)
  BY <1>7, <1>8, <1>10 DEF CacheInv
<1>12. FilesInv(u, d) /\ NotesInv(u, d) /\ Extends(u, d)
  BY <1>1, <1>7, <1>8 DEF Sound, Good, FilesInv, NotesInv, Extends
<1> QED BY <1>7, <1>8, <1>11, <1>12 DEF Sound, Good

\* append: what may be appended is not in the log yet, and goes to its end, with any
\* of the hashes that are stored for it.
LEMMA LeafWritten ==
    ASSUME NEW t, NEW d, Sound(t, d), NEW r \in Request, ~ \E i \in 1..Size(t) : t.leaves[i] = r,
           NEW K \in Storable(t.ranges, Size(t) + 1), NEW u, u = WithLeaf(t, r, K)
    PROVE  /\ Sound(u, d) /\ Size(u) = Size(t) + 1 /\ u.leaves[Size(t) + 1] = r
           /\ \A i \in 1..Size(t) : u.leaves[i] = t.leaves[i]
<1>0. PICK c, a : c = t.ranges /\ a = Append(t.leaves, r)
  OBVIOUS
<1>1. PICK n \in Nat : n = Size(t) /\ c = t.ranges /\ a = Append(t.leaves, r)
  BY <1>0, SizeType DEF Sound, Good
<1>2. /\ t.leaves \in Seq(Bodies) /\ r \in Bodies /\ Len(t.leaves) = n
      /\ \A i, j \in 1..n : t.leaves[i] = t.leaves[j] => i = j
  BY <1>1, SizeType DEF Sound, Good, LeavesInv, Bodies, Size
<1>3. /\ a \in Seq(Bodies) /\ Len(a) = n + 1 /\ a[n + 1] = r
      /\ \A i \in 1..n : a[i] = t.leaves[i]
  BY <1>1, <1>2, AppendProperties
<1>4. PICK w : w = Tables(a, c, t.tiles, t.bundles, t.notes, t.latest)
  OBVIOUS
<1>5. [t EXCEPT !.leaves = Append(t.leaves, r)] = w
  BY <1>1, <1>4, ExceptOne DEF Sound, Good, LeavesInv
<1>6. PICK hs : hs = Hashes(w, n + 1)
  OBVIOUS
<1>7. PICK v : v = Stored(c, hs, K)
  OBVIOUS
<1>8. u = Tables(a, v, t.tiles, t.bundles, t.notes, t.latest)
  <2>1. u = [w EXCEPT !.ranges = v]
    BY <1>1, <1>5, <1>6, <1>7 DEF WithLeaf
  <2> QED BY <1>4, <2>1 DEF Tables
<1>9. /\ IsTables(u) /\ u.leaves = a /\ u.ranges = v /\ u.notes = t.notes
      /\ u.tiles = t.tiles /\ u.bundles = t.bundles
  BY <1>8, TablesAre
<1>10. Size(u) = n + 1 /\ All(u) = hs
  <2>1. w.leaves = a
    BY <1>4, TablesAre
  <2> QED BY <1>3, <1>6, <1>9, <2>1 DEF Size, All, Hashes
<1>11. LeavesInv(u)
  <2>1. \A i, j \in 1..(n + 1) : a[i] = a[j] => i = j
    <3>1. \A i \in 1..n : a[i] # r
      BY <1>1, <1>3
    <3>2. \A i \in 1..(n + 1) : i = n + 1 \/ i \in 1..n
      OBVIOUS
    <3> QED BY <1>2, <1>3, <3>1, <3>2
  <2>2. DOMAIN a = 1..(n + 1)
    BY <1>3
  <2> QED BY <1>3, <1>9, <2>1, <2>2 DEF LeavesInv
<1>12. CacheInv(u)
  <2>1. PICK ks : ks = All(t)
    OBVIOUS
  <2>2. \A i \in 1..n : hs[i] = ks[i]
    <3>1. w.leaves = a /\ n \in Nat
      BY <1>4, TablesAre
    <3> QED BY <1>1, <1>3, <1>6, <2>1, <3>1 DEF Hashes, All
  <2>3. TrueCache(c, ks) /\ \A q \in DOMAIN c : q \in AllRanges /\ q[2] <= n
    BY <1>1, <2>1 DEF Sound, Good, CacheInv, TrueCache
  <2>4. \A q \in DOMAIN c : H(hs, q) = H(ks, q)
    BY <2>2, <2>3, SameHash
  <2>5. PICK m \in Nat : m = n + 1
    OBVIOUS
  <2>6. TrueCache(c, hs) /\ \A q \in DOMAIN c : q[2] <= m
    <3>1. \A q \in DOMAIN c : q[2] \in Nat
      BY <2>3, RangeFacts
    <3> QED BY <2>3, <2>4, <2>5, <3>1 DEF TrueCache
  <2>7. PICK top \in AllRanges : top = <<0, m>> /\ top[2] = m
    <3>1. <<0, m>> \in AllRanges
      BY <2>5 DEF AllRanges
    <3> QED BY <3>1
  <2>8. PICK new \in AllRanges : new = <<n, m>> /\ new[2] = m
    <3>1. <<n, m>> \in AllRanges
      BY <2>5 DEF AllRanges
    <3> QED BY <3>1
  <2>9. K \subseteq {new} \cup Missing(c, top)
    <3>1. m - 1 = n
      BY <2>5
    <3> QED BY <1>1, <2>5, <2>7, <2>8, <3>1 DEF Storable
  <2>10. \A q \in K : q \in AllRanges /\ q[2] <= m
    <3>1. \A q \in Missing(c, top) : q \in AllRanges /\ q[2] <= m
      BY <2>7, MissingAre
    <3> QED BY <2>8, <2>9, <3>1
  <2>11. TrueCache(v, hs) /\ \A q \in DOMAIN v : q[2] <= m
    BY <1>7, <2>6, <2>10, StoredTrue
  <2> QED BY <1>9, <1>10, <2>5, <2>11 DEF CacheInv
<1>13. FilesInv(u, d) /\ NotesInv(u, d)
  BY <1>9 DEF Sound, Good, FilesInv, NotesInv
<1>14. Extends(u, d)
  <2>1. PICK m \in Nat : m = Size(d) /\ m <= n /\ \A i \in 1..m : t.leaves[i] = d.leaves[i]
    BY <1>1, SizeType DEF Sound, Good, Extends
  <2>2. \A i \in 1..m : i \in 1..n
    BY <2>1
  <2> QED BY <1>1, <1>3, <1>9, <1>10, <2>1, <2>2 DEF Sound, Extends
<1> QED BY <1>1, <1>3, <1>9, <1>10, <1>11, <1>12, <1>13, <1>14 DEF Sound, Good

-----------------------------------------------------------------------------
(* What the cache answers, and what stands when the tables change.         *)

LEMMA CacheAnswers ==
    ASSUME NEW t, NEW d, Sound(t, d), NEW r \in AllRanges, r[2] <= Size(d)
    PROVE  RangeHash(t.ranges, Hashes(t, Size(t)), r) = H(All(d), r)
<1>0. PICK c, hs, ks : c = t.ranges /\ ks = All(t) /\ hs = All(d)
  OBVIOUS
<1>1. PICK n \in Nat, m \in Nat :
         /\ n = Size(t) /\ m = Size(d) /\ m <= n /\ c = t.ranges /\ ks = All(t) /\ hs = All(d)
  BY <1>0, SizeType DEF Sound, Good, Extends
<1>2. TrueCache(c, ks)
  BY <1>1 DEF Sound, Good, CacheInv, TrueCache
<1>3. \A i \in 1..n : <<i - 1, i>> \in DOMAIN c \/ ks[i] = ks[i]
  OBVIOUS
<1>4. r[2] <= n /\ r[2] <= m
  BY <1>1, RangeFacts
<1>5. RangeHash(c, ks, r) = H(ks, r)
  BY <1>2, <1>3, <1>4, CachedTrue
<1>6. \A i \in 1..m : ks[i] = hs[i]
  BY <1>1, SameAll DEF Sound, Good
<1>7. H(ks, r) = H(hs, r)
  BY <1>4, <1>6, SameHash
<1> QED BY <1>1, <1>5, <1>7 DEF All

\* Tables e that were committed after d.
Later(e, d) == Good(e, e) /\ Good(d, d) /\ Extends(e, d)
\* Leaves X, and those of t, are all that u has.
Since(t, u, X) ==
    \A i \in 1..Size(u) : u.leaves[i] \in X \/ \E j \in 1..Size(t) : t.leaves[j] = u.leaves[i]
\* The tables t over d become u over e.
Moves(t, d, u, e, X) == Sound(u, e) /\ Later(e, d) /\ Since(t, u, X)

LEMMA LaterFacts ==
    ASSUME NEW e, NEW d, Later(e, d)
    PROVE  /\ Size(d) \in Nat /\ Size(e) \in Nat /\ Size(d) <= Size(e)
           /\ \A i \in 1..Size(d) : e.leaves[i] = d.leaves[i] /\ RootAt(e, i) = RootAt(d, i)
           /\ \A s \in DOMAIN d.notes : s \in DOMAIN e.notes /\ e.notes[s] = d.notes[s]
<1>1. /\ LeavesInv(e) /\ LeavesInv(d) /\ Extends(e, d)
      /\ NotesInv(d, d) /\ NotesInv(e, e)
  BY DEF Later, Good
<1>2. Size(d) \in Nat /\ Size(e) \in Nat /\ \A i \in 1..Size(d) : RootAt(e, i) = RootAt(d, i)
  BY <1>1, SameAll
<1>3. \A s \in DOMAIN d.notes : s \in DOMAIN e.notes /\ e.notes[s] = d.notes[s]
  BY <1>1, <1>2 DEF NotesInv, Extends
<1> QED BY <1>1, <1>2, <1>3 DEF Extends

LEMMA Writes ==
    ASSUME NEW t, NEW d, Sound(t, d), NEW u, Sound(u, d), NEW X, Since(t, u, X), NEW e \in {d, u}
    PROVE  Moves(t, d, u, e, X)
<1>1. CASE e = d
  <2>1. Extends(d, d) /\ Good(d, d)
    BY SizeType DEF Sound, Good, Extends
  <2> QED BY <1>1, <2>1 DEF Moves, Later
<1>2. CASE e = u
  <2>1. Good(u, u)
    BY Committed
  <2>2. Extends(u, u)
    BY <2>1, SizeType DEF Good, Extends
  <2> QED BY <1>2, <2>1, <2>2 DEF Moves, Later, Sound
<1> QED BY <1>1, <1>2

\* A transaction that is lost: what is committed is read again.
LEMMA Undone == ASSUME NEW t, NEW d, Sound(t, d) PROVE Moves(t, d, d, d, {}) /\ Sound(d, d)
<1>1. Extends(d, d) /\ Good(d, d)
  BY SizeType DEF Sound, Good, Extends
<1>2. PICK n \in Nat, m \in Nat :
         /\ n = Size(t) /\ m = Size(d) /\ m <= n /\ \A i \in 1..m : t.leaves[i] = d.leaves[i]
  BY SizeType DEF Sound, Good, Extends
<1>3. \A i \in 1..m : i \in 1..n
  BY <1>2
<1>4. Since(t, d, {})
  BY <1>2, <1>3 DEF Since
<1> QED BY <1>1, <1>4 DEF Moves, Later, Sound

LEMMA SameLeaves == ASSUME NEW t, NEW u, u.leaves = t.leaves, NEW X PROVE Since(t, u, X)
BY DEF Since, Size

-----------------------------------------------------------------------------
(* The requests.                                                           *)

\* Where a request's leaf is, once append returned to it: at the end of its size.
Located(d, r, c) ==
    /\ c = [idx |-> c.size, size |-> c.size]
    /\ c.size \in 1..Size(d) /\ d.leaves[c.size] = r
\* What an answer claims.
Told(d, r, a) ==
    /\ a.index \in 1..Size(d) /\ d.leaves[a.index] = r
    /\ a.status = "pending" =>
          /\ a.checkpoint.size \in DOMAIN d.notes /\ d.notes[a.checkpoint.size] = a.checkpoint
          /\ VerifyInclusion(a.index - 1, LeafHash(r), a.path, a.checkpoint.root, a.checkpoint.size)

HasLeaf == {"publish", "republish", "sign", "save", "prove"}

\* Request r at step p, with append's record c, note g and reply a.
Own(t, d, r, p, c, g, a) ==
    /\ p \in Steps
    /\ p \in {"idle", "append"} => \A i \in 1..Size(t) : t.leaves[i] # r
    /\ p \in HasLeaf => Located(d, r, c)
    /\ p \in {"sign", "save", "prove"} => Ready(d, c.size)
    /\ p \in {"save", "prove"} => g = Note(c.size, RootAt(d, c.size))
    /\ p = "prove" => c.size \in DOMAIN d.notes
    /\ a \in {None, Unavailable} \/ Told(d, r, a)
OwnInv(r) == Own(log, disk, r, at[r], rec[r], signed[r], reply[r])

Shapes ==
    /\ at = [r \in Request |-> at[r]] /\ rec = [r \in Request |-> rec[r]]
    /\ signed = [r \in Request |-> signed[r]] /\ reply = [r \in Request |-> reply[r]]
LogInv ==
    /\ Sound(log, disk)
    /\ ~up => log = disk
    /\ Shapes
    /\ \A r \in Request : OwnInv(r)

LEMMA OwnKept ==
    ASSUME NEW t, NEW d, NEW u, NEW e, NEW X, Moves(t, d, u, e, X),
           NEW r, r \notin X, NEW p, NEW c, NEW g, NEW a, Own(t, d, r, p, c, g, a)
    PROVE  Own(u, e, r, p, c, g, a)
<1>1. PICK n \in Nat, m \in Nat :
         /\ n = Size(d) /\ m = Size(e) /\ n <= m
         /\ \A i \in 1..n : e.leaves[i] = d.leaves[i] /\ RootAt(e, i) = RootAt(d, i)
         /\ \A s \in DOMAIN d.notes : s \in DOMAIN e.notes /\ e.notes[s] = d.notes[s]
  BY LaterFacts DEF Moves
<1>2. \A i \in 1..n : i \in 1..m
  BY <1>1
<1>3. Located(d, r, c) => Located(e, r, c) /\ RootAt(e, c.size) = RootAt(d, c.size)
  BY <1>1, <1>2 DEF Located
<1>4. Located(d, r, c) /\ Ready(d, c.size) => Ready(e, c.size)
  <2>1. DOMAIN d.tiles \subseteq DOMAIN e.tiles /\ DOMAIN d.bundles \subseteq DOMAIN e.bundles
    BY DEF Moves, Later, Extends
  <2>2. Located(d, r, c) => c.size <= m
    BY <1>1 DEF Located
  <2> QED BY <1>1, <2>1, <2>2 DEF Ready
<1>5. Told(d, r, a) => Told(e, r, a)
  BY <1>1, <1>2 DEF Told
<1>6. ASSUME \A i \in 1..Size(t) : t.leaves[i] # r PROVE \A i \in 1..Size(u) : u.leaves[i] # r
  BY <1>6 DEF Moves, Since
<1>7. /\ p \in {"sign", "save", "prove"} => p \in HasLeaf
      /\ p \in {"save", "prove"} => p \in HasLeaf
  BY DEF HasLeaf
<1> QED BY <1>1, <1>3, <1>4, <1>5, <1>6, <1>7 DEF Own

LEMMA Unchanged ==
    ASSUME NEW f, f = [q \in Request |-> f[q]], NEW r \in Request
    PROVE  f = [f EXCEPT ![r] = f[r]]
OBVIOUS

\* One request moves at a time, and the tables only grow under the others.
LEMMA OneMoves ==
    ASSUME LogInv, NEW r \in Request, NEW X, X \subseteq {r}, Moves(log, disk, log', disk', X),
           up, UNCHANGED up, NEW p, NEW c, NEW g, NEW a, Own(log', disk', r, p, c, g, a),
           at' = [at EXCEPT ![r] = p], rec' = [rec EXCEPT ![r] = c],
           signed' = [signed EXCEPT ![r] = g], reply' = [reply EXCEPT ![r] = a]
    PROVE  LogInv'
<1>1. Shapes' /\ at'[r] = p /\ rec'[r] = c /\ signed'[r] = g /\ reply'[r] = a
  BY DEF LogInv, Shapes
<1>2. \A q \in Request \ {r} : /\ at'[q] = at[q] /\ rec'[q] = rec[q]
                               /\ signed'[q] = signed[q] /\ reply'[q] = reply[q]
  BY DEF LogInv, Shapes
<1>3. ASSUME NEW q \in Request \ {r} PROVE OwnInv(q)'
  <2>1. PICK t, d, u, e : t = log /\ d = disk /\ u = log' /\ e = disk'
    OBVIOUS
  <2>2. PICK x, y, z, w : x = at[q] /\ y = rec[q] /\ z = signed[q] /\ w = reply[q]
    OBVIOUS
  <2>3. Own(t, d, q, x, y, z, w) /\ Moves(t, d, u, e, X) /\ q \notin X
    BY <2>1, <2>2 DEF LogInv, OwnInv
  <2>4. Own(u, e, q, x, y, z, w)
    BY <2>3, OwnKept
  <2>5. at'[q] = x /\ rec'[q] = y /\ signed'[q] = z /\ reply'[q] = w
    BY <1>2, <2>2
  <2> QED BY <2>1, <2>4, <2>5 DEF OwnInv
<1>4. OwnInv(r)'
  BY <1>1 DEF OwnInv
<1>5. Sound(log', disk')
  BY DEF Moves
<1> QED BY <1>1, <1>3, <1>4, <1>5 DEF LogInv

\* No request moves, or some are lost.
LEMMA NoneMoves ==
    ASSUME LogInv, Moves(log, disk, log', disk', {}), ~up' => log' = disk',
           UNCHANGED <<rec, signed, reply>>, at' = [r \in Request |-> at'[r]],
           \A r \in Request : at'[r] = at[r] \/ at'[r] = "done"
    PROVE  LogInv'
<1>1. Shapes'
  BY DEF LogInv, Shapes
<1>2. ASSUME NEW q \in Request PROVE OwnInv(q)'
  <2>1. PICK t, d, u, e : t = log /\ d = disk /\ u = log' /\ e = disk'
    OBVIOUS
  <2>2. PICK x, y, z, w : x = at[q] /\ y = rec[q] /\ z = signed[q] /\ w = reply[q]
    OBVIOUS
  <2>3. Own(t, d, q, x, y, z, w) /\ Moves(t, d, u, e, {}) /\ q \notin {}
    BY <2>1, <2>2 DEF LogInv, OwnInv
  <2>4. Own(u, e, q, x, y, z, w)
    BY <2>3, OwnKept
  <2>5. Own(u, e, q, "done", y, z, w)
    BY <2>4 DEF Own, Steps, HasLeaf
  <2>6. at'[q] \in {x, "done"} /\ rec'[q] = y /\ signed'[q] = z /\ reply'[q] = w
    BY <2>2
  <2> QED BY <2>1, <2>4, <2>5, <2>6 DEF OwnInv
<1>3. Sound(log', disk')
  BY DEF Moves
<1> QED BY <1>1, <1>2, <1>3 DEF LogInv

-----------------------------------------------------------------------------
(* The steps.                                                              *)

\* A call that raises leaves tables that are as sound, whatever it had written.
LEMMA AbandonStep ==
    ASSUME LogInv, NEW r \in Request, up, NEW t, Abandon(r, t),
           Sound(t, disk), Since(log, t, {r})
    PROVE  LogInv' /\ Later(disk', disk)
<1>1. Moves(log, disk, log', disk', {r})
  <2>1. PICK v, d, u, e : v = log /\ d = disk /\ u = log' /\ e = disk' /\ u = t /\ e = d
    BY DEF Abandon
  <2>2. Sound(v, d) /\ Sound(u, d) /\ Since(v, u, {r}) /\ e \in {d, u}
    BY <2>1 DEF LogInv
  <2>3. Moves(v, d, u, e, {r})
    BY <2>2, Writes
  <2> QED BY <2>1, <2>3
<1>2. /\ at' = [at EXCEPT ![r] = "done"] /\ reply' = [reply EXCEPT ![r] = Unavailable]
      /\ UNCHANGED <<rec, signed, up>>
  BY DEF Abandon, Answer
<1>3. rec' = [rec EXCEPT ![r] = rec[r]] /\ signed' = [signed EXCEPT ![r] = signed[r]]
  <2>1. rec = [q \in Request |-> rec[q]] /\ signed = [q \in Request |-> signed[q]]
    BY DEF LogInv, Shapes
  <2> QED BY <1>2, <2>1, Unchanged
<1>4. Own(log', disk', r, "done", rec[r], signed[r], Unavailable)
  BY DEF Own, Steps, HasLeaf
<1>5. LogInv'
  BY <1>1, <1>2, <1>3, <1>4, OneMoves
<1> QED BY <1>1, <1>5 DEF Moves

\* A call that ends in a commit, or writes nothing, and sends the request on or
\* answers it.
LEMMA CallStep ==
    ASSUME LogInv, NEW r \in Request, up, UNCHANGED up, Sound(log', disk), disk' \in {disk, log'},
           NEW X, X \subseteq {r}, Since(log, log', X),
           NEW p, NEW c, NEW g, NEW a, at' = [at EXCEPT ![r] = p],
           rec' = [rec EXCEPT ![r] = c] \/ (UNCHANGED rec /\ c = rec[r]),
           signed' = [signed EXCEPT ![r] = g] \/ (UNCHANGED signed /\ g = signed[r]),
           reply' = [reply EXCEPT ![r] = a] \/ (UNCHANGED reply /\ a = reply[r]),
           Moves(log, disk, log', disk', X) => Own(log', disk', r, p, c, g, a)
    PROVE  LogInv' /\ Later(disk', disk)
<1>1. Moves(log, disk, log', disk', X)
  <2>1. PICK v, d, u, e : v = log /\ d = disk /\ u = log' /\ e = disk'
    OBVIOUS
  <2>2. Sound(v, d) /\ Sound(u, d) /\ Since(v, u, X) /\ e \in {d, u}
    BY <2>1 DEF LogInv
  <2>3. Moves(v, d, u, e, X)
    BY <2>2, Writes
  <2> QED BY <2>1, <2>3
<1>2. /\ rec' = [rec EXCEPT ![r] = c] /\ signed' = [signed EXCEPT ![r] = g]
      /\ reply' = [reply EXCEPT ![r] = a]
  <2>1. /\ rec = [q \in Request |-> rec[q]] /\ signed = [q \in Request |-> signed[q]]
        /\ reply = [q \in Request |-> reply[q]]
    BY DEF LogInv, Shapes
  <2> QED BY <2>1, Unchanged
<1>3. LogInv'
  BY <1>1, <1>2, OneMoves
<1> QED BY <1>1, <1>3 DEF Moves

\* What a request has at its step.
LEMMA OwnLeaf ==
    ASSUME LogInv, NEW r \in Request, at[r] \in HasLeaf
    PROVE  \E s \in 1..Size(disk) :
              /\ rec[r] = [idx |-> s, size |-> s] /\ disk.leaves[s] = r
              /\ s \in 0..Size(disk) /\ s <= Size(log) /\ Located(disk, r, rec[r])
              /\ at[r] \in {"sign", "save", "prove"} => Ready(disk, s) /\ Ready(log, s)
              /\ at[r] \in {"save", "prove"} => signed[r] = Note(s, RootAt(disk, s))
              /\ at[r] = "prove" => s \in DOMAIN disk.notes
<1>1. PICK t, d, p, c, g : t = log /\ d = disk /\ p = at[r] /\ c = rec[r] /\ g = signed[r]
  OBVIOUS
<1>2. Sound(t, d) /\ Located(d, r, c)
  BY <1>1 DEF LogInv, OwnInv, Own
<1>3. PICK n \in Nat, m \in Nat : n = Size(d) /\ m = Size(t) /\ n <= m
  BY <1>2, SizeType DEF Sound, Good, Extends
<1>4. PICK s \in 1..n : s = c.size /\ c = [idx |-> s, size |-> s] /\ d.leaves[s] = r
  BY <1>2, <1>3 DEF Located
<1>5. s \in 0..n /\ s <= m
  BY <1>3
<1>6. Ready(d, s) => Ready(t, s)
  BY <1>2, <1>3, <1>5 DEF Ready, Sound, Extends
<1>7. /\ p \in {"sign", "save", "prove"} => Ready(d, s)
      /\ p \in {"save", "prove"} => g = Note(s, RootAt(d, s))
      /\ p = "prove" => s \in DOMAIN d.notes
  BY <1>1, <1>4 DEF LogInv, OwnInv, Own
<1> QED BY <1>1, <1>2, <1>3, <1>4, <1>5, <1>6, <1>7

\* What was answered stays so.
LEMMA ReplyKept ==
    ASSUME LogInv, NEW r \in Request, NEW X, Moves(log, disk, log', disk', X)
    PROVE  reply[r] \in {None, Unavailable} \/ Told(disk', r, reply[r])
<1>1. PICK t, d, u, e, a : t = log /\ d = disk /\ u = log' /\ e = disk' /\ a = reply[r]
  OBVIOUS
<1>2. a \in {None, Unavailable} \/ Told(d, r, a)
  BY <1>1 DEF LogInv, OwnInv, Own
<1>3. PICK n \in Nat, m \in Nat :
         /\ n = Size(d) /\ m = Size(e) /\ n <= m
         /\ \A i \in 1..n : e.leaves[i] = d.leaves[i]
         /\ \A s \in DOMAIN d.notes : s \in DOMAIN e.notes /\ e.notes[s] = d.notes[s]
  BY <1>1, LaterFacts DEF Moves
<1>4. \A i \in 1..n : i \in 1..m
  BY <1>3
<1>5. Told(d, r, a) => Told(e, r, a)
  BY <1>3, <1>4 DEF Told
<1> QED BY <1>1, <1>2, <1>5

LEMMA LocatedKept ==
    ASSUME NEW t, NEW d, NEW u, NEW e, NEW X, Moves(t, d, u, e, X), NEW r, NEW c, Located(d, r, c)
    PROVE  Located(e, r, c)
<1>1. PICK n \in Nat, m \in Nat :
         n = Size(d) /\ m = Size(e) /\ n <= m /\ \A i \in 1..n : e.leaves[i] = d.leaves[i]
  BY LaterFacts DEF Moves
<1>2. \A i \in 1..n : i \in 1..m
  BY <1>1
<1> QED BY <1>1, <1>2 DEF Located

LEMMA BeginStep ==
    ASSUME LogInv, NEW r \in Request, Begin(r)
    PROVE  LogInv' /\ Later(disk', disk)
<1>1. PICK p, a :
         /\ p \in {"append", "done"} /\ at' = [at EXCEPT ![r] = p]
         /\ reply' = [reply EXCEPT ![r] = a] \/ (UNCHANGED reply /\ a = reply[r])
         /\ a = Unavailable \/ a = reply[r]
  <2>1. CASE Goto(r, "append")
    BY <2>1 DEF Goto
  <2>2. CASE Answer(r, Unavailable)
    BY <2>2 DEF Answer
  <2> QED BY <2>1, <2>2 DEF Begin
<1>2. /\ up /\ UNCHANGED <<up, rec, signed>> /\ log' = log /\ disk' = disk /\ at[r] = "idle"
  BY DEF Begin
<1>3. Sound(log', disk) /\ Since(log, log', {})
  BY <1>2, SameLeaves DEF LogInv
<1>4. ASSUME Moves(log, disk, log', disk', {})
      PROVE  Own(log', disk', r, p, rec[r], signed[r], a)
  <2>1. a \in {None, Unavailable} \/ Told(disk', r, a)
    BY <1>1, <1>4, ReplyKept
  <2>2. \A i \in 1..Size(log) : log.leaves[i] # r
    BY <1>2 DEF LogInv, OwnInv, Own
  <2> QED BY <1>1, <1>2, <2>1, <2>2 DEF Own, Steps, HasLeaf
<1> QED BY <1>1, <1>2, <1>3, <1>4, CallStep

LEMMA FailStep ==
    ASSUME LogInv, NEW r \in Request, Fail(r)
    PROVE  LogInv' /\ Later(disk', disk)
<1>1. up /\ Abandon(r, log)
  BY DEF Fail, Free
<1>2. Sound(log, disk) /\ Since(log, log, {r})
  BY SameLeaves DEF LogInv
<1> QED BY <1>1, <1>2, AbandonStep

\* What is on disk is as sound as what is read.
LEMMA DiskSound == ASSUME LogInv, NEW X PROVE Sound(disk, disk) /\ Since(log, disk, X)
<1>1. Sound(disk, disk) /\ Since(log, disk, {})
  BY Undone DEF LogInv, Moves
<1> QED BY <1>1 DEF Since

\* No event is appended twice.
LEMMA NotInLog ==
    ASSUME LogInv, NEW r \in Request, at[r] = "append"
    PROVE  ~InLog(r) /\ ~ \E i \in 1..Size(log) : log.leaves[i] = r
BY DEF LogInv, OwnInv, Own, InLog

LEMMA SinceAppend ==
    ASSUME NEW t, NEW d, Sound(t, d), NEW u, NEW r, Size(u) = Size(t) + 1,
           u.leaves[Size(t) + 1] = r, \A i \in 1..Size(t) : u.leaves[i] = t.leaves[i]
    PROVE  Since(t, u, {r})
<1>1. PICK n \in Nat : n = Size(t)
  BY SizeType DEF Sound, Good
<1>2. \A i \in 1..(n + 1) : i \in 1..n \/ i = n + 1
  OBVIOUS
<1> QED BY <1>1, <1>2 DEF Since

LEMMA AppendStep ==
    ASSUME LogInv, NEW r \in Request, AppendLeaf(r)
    PROVE  LogInv' /\ Later(disk', disk)
<1>1. PICK t, d, n, u : /\ t = log /\ d = disk /\ n \in Nat /\ n = Size(t)
                        /\ u = WithLeaf(t, r, Spine(t)) /\ Sound(t, d)
  <2>1. Sound(log, disk)
    BY DEF LogInv
  <2>2. Size(log) \in Nat
    BY <2>1, SizeType DEF Sound, Good
  <2> QED BY <2>1, <2>2
<1>2. /\ up /\ UNCHANGED up /\ at[r] = "append" /\ ~ \E i \in 1..n : t.leaves[i] = r
      /\ Spine(t) \in Storable(t.ranges, n + 1) /\ log' = u /\ disk' = u
      /\ rec' = [rec EXCEPT ![r] = [idx |-> n + 1, size |-> n + 1]]
      /\ at' = [at EXCEPT ![r] = "publish"] /\ UNCHANGED <<reply, signed>>
  BY <1>1, NotInLog DEF AppendLeaf, Free, Commit, Goto
<1>3. /\ Sound(u, d) /\ Size(u) = n + 1 /\ u.leaves[n + 1] = r
      /\ \A i \in 1..n : u.leaves[i] = t.leaves[i]
  <2>1. PICK K : K = Spine(t) /\ K \in Storable(t.ranges, Size(t) + 1) /\ u = WithLeaf(t, r, K)
    BY <1>1, <1>2
  <2>2. ~ \E i \in 1..Size(t) : t.leaves[i] = r
    BY <1>1, <1>2
  <2>3. /\ Sound(u, d) /\ Size(u) = Size(t) + 1 /\ u.leaves[Size(t) + 1] = r
        /\ \A i \in 1..Size(t) : u.leaves[i] = t.leaves[i]
    BY <1>1, <2>1, <2>2, LeafWritten
  <2> QED BY <1>1, <2>3
<1>4. Since(t, u, {r})
  BY <1>1, <1>3, SinceAppend
<1>5. PICK c : c = [idx |-> n + 1, size |-> n + 1]
  OBVIOUS
<1>6. ASSUME Moves(log, disk, log', disk', {r})
      PROVE  Own(log', disk', r, "publish", c, signed[r], reply[r])
  <2>1. reply[r] \in {None, Unavailable} \/ Told(disk', r, reply[r])
    BY <1>6, ReplyKept
  <2>2. Located(disk', r, c)
    <3>1. c.size = n + 1 /\ c = [idx |-> c.size, size |-> c.size]
      BY <1>5
    <3>2. n + 1 \in 1..Size(u)
      BY <1>1, <1>3
    <3>3. Located(u, r, c)
      BY <1>3, <3>1, <3>2 DEF Located
    <3> QED BY <1>2, <3>3
  <2> QED BY <2>1, <2>2 DEF Own, Steps, HasLeaf
<1>7. Sound(log', disk) /\ disk' \in {disk, log'} /\ Since(log, log', {r})
  BY <1>1, <1>2, <1>3, <1>4
<1> QED BY <1>2, <1>5, <1>6, <1>7, CallStep

LEMMA AppendFailsStep ==
    ASSUME LogInv, NEW r \in Request, AppendFails(r)
    PROVE  LogInv' /\ Later(disk', disk)
<1>1. up /\ at[r] = "append"
  BY DEF AppendFails, Free
<1>2. PICK t : /\ t \in {disk} \cup {WithLeaf(log, r, K) : K \in Storable(log.ranges, Size(log) + 1)}
               /\ Abandon(r, t)
  BY DEF AppendFails
<1>3. CASE t = disk
  <2>1. Sound(t, disk) /\ Since(log, t, {r})
    BY <1>3, DiskSound
  <2> QED BY <1>1, <1>2, <2>1, AbandonStep
<1>4. CASE t # disk
  <2>1. PICK v, d, K : /\ v = log /\ d = disk /\ K \in Storable(v.ranges, Size(v) + 1)
                       /\ t = WithLeaf(v, r, K) /\ Sound(v, d)
    BY <1>2, <1>4 DEF LogInv
  <2>2. ~ \E i \in 1..Size(v) : v.leaves[i] = r
    BY <1>1, <2>1, NotInLog
  <2>3. /\ Sound(t, d) /\ Size(t) = Size(v) + 1 /\ t.leaves[Size(v) + 1] = r
        /\ \A i \in 1..Size(v) : t.leaves[i] = v.leaves[i]
    BY <2>1, <2>2, LeafWritten
  <2>4. Since(v, t, {r})
    BY <2>1, <2>3, SinceAppend
  <2> QED BY <1>1, <1>2, <2>1, <2>3, <2>4, AbandonStep
<1> QED BY <1>3, <1>4

\* Either publication: the request's size is on disk, so it is published soundly.
LEMMA PublishStep ==
    ASSUME LogInv, NEW r \in Request, PublishLeaf(r) \/ Republish(r)
    PROVE  LogInv' /\ Later(disk', disk)
<1>1. PICK p, a :
         /\ p \in {"republish", "sign", "done"} /\ (p = "done" => a = Logged(rec[r].idx))
         /\ at' = [at EXCEPT ![r] = p]
         /\ reply' = [reply EXCEPT ![r] = a] \/ (UNCHANGED reply /\ a = reply[r])
         /\ p # "done" => a = reply[r]
  <2>1. CASE PublishLeaf(r)
    BY <2>1 DEF PublishLeaf, Goto
  <2>2. CASE Republish(r)
    <3>1. CASE Goto(r, "sign")
      BY <3>1 DEF Goto
    <3>2. CASE Answer(r, Logged(rec[r].idx))
      BY <3>2 DEF Answer
    <3> QED BY <2>2, <3>1, <3>2 DEF Republish
  <2> QED BY <2>1, <2>2
<1>2. /\ up /\ UNCHANGED <<up, rec, signed>> /\ at[r] \in HasLeaf
      /\ log' = Published(log, rec[r].size) /\ disk' = log'
  BY DEF PublishLeaf, Republish, Free, Commit, HasLeaf
<1>3. PICK s : /\ rec[r] = [idx |-> s, size |-> s] /\ disk.leaves[s] = r /\ s \in 1..Size(disk)
               /\ s \in 0..Size(disk) /\ s <= Size(log) /\ Located(disk, r, rec[r])
  BY <1>2, OwnLeaf
<1>4. PICK t, d, u : /\ t = log /\ d = disk /\ u = log' /\ disk' = u /\ u = Published(t, s)
                     /\ Sound(t, d) /\ s \in 0..Size(d) /\ s <= Size(t)
  BY <1>2, <1>3 DEF LogInv
<1>5. Sound(u, d) /\ u.leaves = t.leaves
  BY <1>4, Publication
<1>6. Since(t, u, {})
  BY <1>5, SameLeaves
<1>7. Ready(u, s)
  BY <1>4, PublishedReady DEF Sound, Good, LeavesInv
<1>8. ASSUME Moves(log, disk, log', disk', {})
      PROVE  Own(log', disk', r, p, rec[r], signed[r], a)
  <2>1. Located(disk', r, rec[r])
    BY <1>3, <1>8, LocatedKept
  <2>2. CASE p # "done"
    <3>1. a \in {None, Unavailable} \/ Told(disk', r, a)
      BY <1>1, <1>8, <2>2, ReplyKept
    <3>2. Ready(disk', rec[r].size)
      BY <1>3, <1>4, <1>7
    <3>3. p \in {"republish", "sign"}
      BY <1>1, <2>2
    <3> QED BY <2>1, <3>1, <3>2, <3>3 DEF Own, Steps, HasLeaf
  <2>3. CASE p = "done"
    <3>1. Told(disk', r, a)
      BY <1>1, <2>1, <2>3 DEF Told, Logged, Located
    <3> QED BY <2>3, <3>1 DEF Own, Steps, HasLeaf
  <2> QED BY <2>2, <2>3
<1>9. Sound(log', disk) /\ disk' \in {disk, log'} /\ Since(log, log', {})
  BY <1>4, <1>5, <1>6
<1> QED BY <1>1, <1>2, <1>8, <1>9, CallStep

LEMMA PublishFailsStep ==
    ASSUME LogInv, NEW r \in Request, PublishFails(r)
    PROVE  LogInv' /\ Later(disk', disk)
<1>1. up /\ at[r] \in HasLeaf
  BY DEF PublishFails, Free, HasLeaf
<1>2. PICK t : t \in {disk} \cup PartlyPublished(log, rec[r].size) /\ Abandon(r, t)
  BY DEF PublishFails
<1>3. CASE t = disk
  <2>1. Sound(t, disk) /\ Since(log, t, {r})
    BY <1>3, DiskSound
  <2> QED BY <1>1, <1>2, <2>1, AbandonStep
<1>4. CASE t \in PartlyPublished(log, rec[r].size)
  <2>1. PICK s : rec[r] = [idx |-> s, size |-> s] /\ s \in 0..Size(disk)
    BY <1>1, OwnLeaf
  <2>2. PICK v, d : v = log /\ d = disk /\ Sound(v, d) /\ s \in 0..Size(d) /\ t \in PartlyPublished(v, s)
    BY <1>4, <2>1 DEF LogInv
  <2>3. Sound(t, d) /\ t.leaves = v.leaves
    BY <2>2, Publication
  <2>4. Since(v, t, {r})
    BY <2>3, SameLeaves
  <2> QED BY <1>1, <1>2, <2>2, <2>3, <2>4, AbandonStep
<1> QED BY <1>2, <1>3, <1>4

\* issue() signs what is on disk, and finds it ready.
LEMMA SignStep ==
    ASSUME LogInv, NEW r \in Request, Sign(r)
    PROVE  LogInv' /\ Later(disk', disk)
<1>1. up /\ UNCHANGED <<up, log, disk, rec>> /\ at[r] = "sign" /\ at[r] \in HasLeaf
  BY DEF Sign, Free, HasLeaf
<1>2. PICK s : /\ rec[r] = [idx |-> s, size |-> s] /\ s \in 1..Size(disk)
               /\ Located(disk, r, rec[r]) /\ Ready(disk, s) /\ Ready(log, s)
  BY <1>1, OwnLeaf
<1>3. RootFor(s) = RootAt(disk, s)
  <2>1. PICK t, d, q, n : /\ t = log /\ d = disk /\ Sound(t, d) /\ n \in Nat /\ n = Size(d)
                          /\ q = <<0, s>>
    BY SizeType DEF LogInv, Sound, Good
  <2>2. q \in AllRanges /\ q[2] <= Size(d)
    BY <1>2, <2>1 DEF AllRanges
  <2>3. RangeHash(t.ranges, Hashes(t, Size(t)), q) = H(All(d), q)
    BY <2>1, <2>2, CacheAnswers
  <2> QED BY <2>1, <2>3 DEF RootFor, RootAt
<1>4. PICK g : g = Note(s, RootAt(disk, s))
  OBVIOUS
<1>5. /\ signed' = [signed EXCEPT ![r] = g] /\ at' = [at EXCEPT ![r] = "save"]
      /\ UNCHANGED reply
  <2>1. rec[r].size = s
    BY <1>2
  <2> QED BY <1>2, <1>3, <1>4, <2>1 DEF Sign, Goto
<1>6. Sound(log', disk) /\ disk' \in {disk, log'} /\ Since(log, log', {})
  BY <1>1, SameLeaves DEF LogInv
<1>7. ASSUME Moves(log, disk, log', disk', {})
      PROVE  Own(log', disk', r, "save", rec[r], g, reply[r])
  <2>1. reply[r] \in {None, Unavailable} \/ Told(disk', r, reply[r])
    BY <1>7, ReplyKept
  <2>2. rec[r].size = s /\ disk' = disk
    BY <1>1, <1>2
  <2> QED BY <1>2, <1>4, <2>1, <2>2 DEF Own, Steps, HasLeaf
<1> QED BY <1>1, <1>5, <1>6, <1>7, CallStep

\* save_checkpoint commits a note over files that are there.
LEMMA SaveStep ==
    ASSUME LogInv, NEW r \in Request, Save(r)
    PROVE  LogInv' /\ Later(disk', disk)
<1>1. up /\ UNCHANGED <<up, rec, signed>> /\ at[r] = "save" /\ at[r] \in HasLeaf
  BY DEF Save, Free, HasLeaf
<1>2. PICK s : /\ rec[r] = [idx |-> s, size |-> s] /\ s \in 1..Size(disk)
               /\ Located(disk, r, rec[r]) /\ Ready(disk, s) /\ Ready(log, s)
               /\ signed[r] = Note(s, RootAt(disk, s))
  BY <1>1, OwnLeaf
<1>3. PICK t, d, g, u : /\ t = log /\ d = disk /\ Sound(t, d) /\ g = Note(s, RootAt(d, s))
                        /\ g = signed[r] /\ g.size = s /\ u = Checkpointed(t, g)
  BY <1>2 DEF LogInv, Note
<1>4. log' = u /\ disk' = u /\ at' = [at EXCEPT ![r] = "prove"] /\ UNCHANGED reply
  BY <1>2, <1>3 DEF Save, Goto, Commit
<1>5. Sound(u, d) /\ u.leaves = t.leaves /\ s \in DOMAIN u.notes
  BY <1>2, <1>3, NoteWritten
<1>6. Sound(log', disk) /\ disk' \in {disk, log'} /\ Since(log, log', {})
  BY <1>3, <1>4, <1>5, SameLeaves
<1>7. ASSUME Moves(log, disk, log', disk', {})
      PROVE  Own(log', disk', r, "prove", rec[r], signed[r], reply[r])
  <2>1. Own(t, d, r, "save", rec[r], g, reply[r])
    BY <1>1, <1>3 DEF LogInv, OwnInv
  <2>2. Moves(t, d, u, u, {})
    BY <1>3, <1>4, <1>7
  <2>3. Own(u, u, r, "save", rec[r], g, reply[r])
    BY <2>1, <2>2, OwnKept
  <2>4. rec[r].size \in DOMAIN u.notes
    BY <1>2, <1>5
  <2>5. Own(u, u, r, "prove", rec[r], g, reply[r])
    BY <2>3, <2>4 DEF Own, Steps, HasLeaf
  <2> QED BY <1>3, <1>4, <2>5
<1> QED BY <1>1, <1>4, <1>6, <1>7, CallStep

LEMMA SaveFailsStep ==
    ASSUME LogInv, NEW r \in Request, SaveFails(r)
    PROVE  LogInv' /\ Later(disk', disk)
<1>1. up /\ at[r] = "save" /\ at[r] \in HasLeaf
  BY DEF SaveFails, Free, HasLeaf
<1>2. PICK s : s \in 1..Size(disk) /\ Ready(log, s) /\ signed[r] = Note(s, RootAt(disk, s))
  BY <1>1, OwnLeaf
<1>3. PICK v, d, g : /\ v = log /\ d = disk /\ Sound(v, d) /\ g = Note(s, RootAt(d, s))
                     /\ g = signed[r]
  BY <1>2 DEF LogInv
<1>4. PICK t : t \in {disk, SizedNote(v, g), Checkpointed(v, g)} /\ Abandon(r, t)
  BY <1>3 DEF SaveFails
<1>5. Sound(t, disk) /\ Since(log, t, {r})
  <2>1. CASE t = disk
    BY <2>1, DiskSound
  <2>2. CASE t = SizedNote(v, g) \/ t = Checkpointed(v, g)
    <3>1. Sound(t, d) /\ t.leaves = v.leaves
      BY <1>2, <1>3, <2>2, NoteWritten
    <3> QED BY <1>3, <3>1, SameLeaves
  <2> QED BY <1>4, <2>1, <2>2
<1> QED BY <1>1, <1>4, <1>5, AbandonStep

\* The path verifies, so the answer is a receipt.
LEMMA ProveStep ==
    ASSUME LogInv, NEW r \in Request, Prove(r)
    PROVE  LogInv' /\ Later(disk', disk)
<1>1. up /\ UNCHANGED <<up, log, disk, rec>> /\ at[r] = "prove" /\ at[r] \in HasLeaf
  BY DEF Prove, Free, HasLeaf
<1>2. PICK s : /\ rec[r] = [idx |-> s, size |-> s] /\ s \in 1..Size(disk) /\ disk.leaves[s] = r
               /\ signed[r] = Note(s, RootAt(disk, s)) /\ s \in DOMAIN disk.notes
  BY <1>1, OwnLeaf
<1>3. PICK t, d, n, hs : /\ t = log /\ d = disk /\ Sound(t, d) /\ n \in Nat /\ n = Size(d)
                         /\ hs = All(d)
  BY SizeType DEF LogInv, Sound, Good
<1>4. PICK c, ks, path : /\ c = t.ranges /\ ks = Hashes(t, Size(t))
                         /\ path = InclusionPath(c, ks, s - 1, s)
  OBVIOUS
<1>5. s \in Nat \ {0} /\ s <= n /\ s - 1 \in 0..(s - 1)
  BY <1>2, <1>3
<1>6. \A q \in AllRanges : q[2] <= s => RangeHash(c, ks, q) = H(hs, q)
  <2>1. ASSUME NEW q \in AllRanges, q[2] <= s PROVE RangeHash(c, ks, q) = H(hs, q)
    <3>1. q[2] <= Size(d)
      BY <1>3, <1>5, <2>1, RangeFacts
    <3> QED BY <1>3, <1>4, <3>1, CacheAnswers
  <2> QED BY <2>1
<1>7. hs[(s - 1) + 1] = LeafHash(r)
  <2>1. (s - 1) + 1 = s
    BY <1>5
  <2>2. hs[s] = LeafHash(d.leaves[s])
    BY <1>2, <1>3 DEF All, Hashes
  <2> QED BY <1>2, <1>3, <2>1, <2>2
<1>8. VerifyInclusion(s - 1, LeafHash(r), path, RootAt(d, s), s)
  <2>1. PICK m \in 0..(s - 1) : m = s - 1
    BY <1>5
  <2>2. VerifyInclusion(m, hs[m + 1], InclusionPath(c, ks, m, s), H(hs, <<0, s>>), s)
    BY <1>5, <1>6, InclusionVerifies
  <2> QED BY <1>3, <1>4, <1>7, <2>1, <2>2 DEF RootAt
<1>9. PICK g, a : /\ g = Note(s, RootAt(d, s)) /\ g.size = s /\ g.root = RootAt(d, s)
                  /\ a = Pending(s, path, g)
  <2>1. PICK g : g = Note(s, RootAt(d, s)) /\ g.size = s /\ g.root = RootAt(d, s)
    <3>1. PICK x : x = RootAt(d, s)
      OBVIOUS
    <3>2. Note(s, x).size = s /\ Note(s, x).root = x
      BY ONLY DEF Note
    <3> QED BY <3>1, <3>2
  <2> QED BY <2>1
<1>10. /\ at' = [at EXCEPT ![r] = "done"] /\ reply' = [reply EXCEPT ![r] = a]
       /\ UNCHANGED signed
  <2>1. rec[r].idx = s /\ rec[r].size = s /\ signed[r] = g /\ signed[r].root = RootAt(d, s)
    BY <1>2, <1>3, <1>9
  <2>2. VerifyInclusion(rec[r].idx - 1, LeafHash(r),
                        InclusionPath(log.ranges, Hashes(log, Size(log)), rec[r].idx - 1, rec[r].size),
                        signed[r].root, rec[r].size)
    BY <1>3, <1>4, <1>8, <2>1
  <2>3. /\ Answer(r, Pending(rec[r].idx,
                     InclusionPath(log.ranges, Hashes(log, Size(log)), rec[r].idx - 1, rec[r].size),
                     signed[r]))
        /\ UNCHANGED signed
    BY <2>2 DEF Prove
  <2> QED BY <1>3, <1>4, <1>9, <2>1, <2>3 DEF Answer
<1>11. Told(d, r, a)
  <2>1. d.notes[s] = g
    BY <1>2, <1>3, <1>9 DEF Sound, Good, NotesInv
  <2>2. a.index = s /\ a.checkpoint = g /\ a.path = path
    BY <1>9 DEF Pending
  <2> QED BY <1>2, <1>3, <1>8, <1>9, <2>1, <2>2 DEF Told
<1>12. Sound(log', disk) /\ disk' \in {disk, log'} /\ Since(log, log', {})
  BY <1>1, SameLeaves DEF LogInv
<1>13. Own(log', disk', r, "done", rec[r], signed[r], a)
  BY <1>1, <1>3, <1>11 DEF Own, Steps, HasLeaf
<1> QED BY <1>1, <1>10, <1>12, <1>13, CallStep

LEMMA OtherStep ==
    ASSUME LogInv, OtherCommit \/ OtherRollback \/ ReadRoot \/ Freeze \/ Crash \/ Restart
    PROVE  LogInv' /\ Later(disk', disk)
<1>1. /\ UNCHANGED <<rec, signed, reply>> /\ at' = [r \in Request |-> at'[r]]
      /\ \A r \in Request : at'[r] = at[r] \/ at'[r] = "done"
  <2>1. CASE Crash
    BY <2>1 DEF Crash
  <2>2. CASE ~Crash
    <3>1. UNCHANGED local
      BY <2>2 DEF OtherCommit, OtherRollback, ReadRoot, Freeze, Restart
    <3> QED BY <3>1 DEF local, LogInv, Shapes
  <2> QED BY <2>1, <2>2
<1>2. ~up' => log' = disk'
  <2>1. CASE Crash
    BY <2>1 DEF Crash
  <2>2. CASE ~Crash
    <3>1. up'
      BY <2>2 DEF OtherCommit, OtherRollback, ReadRoot, Freeze, Restart
    <3> QED BY <3>1
  <2> QED BY <2>1, <2>2
<1>3. PICK t, d, u, e : t = log /\ d = disk /\ u = log' /\ e = disk' /\ Sound(t, d)
  BY DEF LogInv
<1>4. ASSUME e = d, u = d PROVE Moves(t, d, u, e, {})
  BY <1>3, <1>4, Undone
<1>5. ASSUME Sound(u, d), u.leaves = t.leaves, e \in {d, u} PROVE Moves(t, d, u, e, {})
  <2>1. Since(t, u, {})
    BY <1>5, SameLeaves
  <2> QED BY <1>3, <1>5, <2>1, Writes
<1>6. Moves(t, d, u, e, {})
  <2>1. CASE OtherCommit
    BY <1>3, <1>5, <2>1 DEF OtherCommit, Commit
  <2>2. CASE OtherRollback \/ Freeze \/ Crash
    BY <1>3, <1>4, <2>2 DEF OtherRollback, Freeze, Crash, Commit
  <2>3. CASE ReadRoot
    <3>1. /\ Size(t) > 0 /\ e = d
          /\ u = [t EXCEPT !.ranges =
                    Stored(t.ranges, Hashes(t, Size(t)), Missing(t.ranges, <<0, Size(t)>>))]
      BY <1>3, <2>3 DEF ReadRoot
    <3>2. Sound(u, d) /\ u.leaves = t.leaves
      BY <1>3, <3>1, RangesRead
    <3> QED BY <1>5, <3>1, <3>2
  <2>4. CASE Restart
    <3>1. t = d
      <4>1. ~up /\ log = disk
        BY <2>4 DEF Restart, LogInv
      <4> QED BY <1>3, <4>1
    <3>2. PICK s : s = Size(t) /\ s \in 0..Size(d)
      BY <1>3, <3>1, SizeType DEF Sound, Good
    <3>3. CASE u = t /\ e = d
      BY <1>3, <1>5, <3>3
    <3>4. CASE u = Published(t, s) \/ u \in PartlyPublished(t, s)
      <4>1. Sound(u, d) /\ u.leaves = t.leaves
        BY <1>3, <3>2, <3>4, Publication
      <4>2. disk' \in {disk, log'}
        BY <2>4 DEF Restart, Commit
      <4> QED BY <1>3, <1>5, <4>1, <4>2
    <3>5. \/ u = t /\ e = d
          \/ u = Published(t, s) \/ u \in PartlyPublished(t, s)
      <4>1. \/ log' = log /\ disk' = disk
            \/ log' = Published(log, Size(log)) \/ log' \in PartlyPublished(log, Size(log))
        BY <2>4 DEF Restart, Commit
      <4> QED BY <1>3, <3>2, <4>1
    <3> QED BY <3>3, <3>4, <3>5
  <2> QED BY <2>1, <2>2, <2>3, <2>4
<1>7. Moves(log, disk, log', disk', {})
  BY <1>3, <1>6
<1>8. LogInv'
  BY <1>1, <1>2, <1>7, NoneMoves
<1> QED BY <1>7, <1>8 DEF Moves

LEMMA LogStep == LogInv /\ [Next]_vars => LogInv' /\ Later(disk', disk)
<1> SUFFICES ASSUME LogInv, [Next]_vars PROVE LogInv' /\ Later(disk', disk)
  OBVIOUS
<1>1. ASSUME NEW r \in Request, Attach(r) PROVE LogInv' /\ Later(disk', disk)
  BY <1>1, BeginStep, AppendStep, PublishStep, SignStep, SaveStep, ProveStep, AppendFailsStep,
     PublishFailsStep, SaveFailsStep, FailStep
  DEF Attach
<1>2. CASE Process
  BY <1>2, OtherStep DEF Process
<1>3. CASE UNCHANGED vars
  <2>1. UNCHANGED <<log, disk, up, at, rec, signed, reply>>
    BY <1>3 DEF vars, local
  <2>2. LogInv'
    BY <2>1 DEF LogInv, Shapes, OwnInv
  <2>3. Later(disk', disk)
    BY <2>1, Undone DEF LogInv, Moves
  <2> QED BY <2>2, <2>3
<1> QED BY <1>1, <1>2, <1>3 DEF Next

-----------------------------------------------------------------------------
(* The log before the run.                                                 *)

LEMMA LogInit == Init => LogInv
<1> SUFFICES ASSUME Init PROVE LogInv
  OBVIOUS
<1>1. PICK n, t : n \in OldSizes /\ t = Built(n) /\ log = t /\ disk = t
  BY DEF Init
<1>2. n \in Nat /\ n <= Len(OldBody) /\ Len(OldBody) \in Nat
  BY <1>1, OldAssumption
<1> DEFINE X == {OldBody[i] : i \in DOMAIN OldBody}
<1>3. OldBody \in Seq(X) /\ OldBody \in Seq(Bodies) /\ DOMAIN OldBody = 1..Len(OldBody)
  <2>1. DOMAIN OldBody = 1..Len(OldBody) /\ OldBody = [i \in 1..Len(OldBody) |-> OldBody[i]]
    BY OldAssumption
  <2>2. \A i \in 1..Len(OldBody) : OldBody[i] \in X /\ OldBody[i] \in Bodies
    BY <2>1 DEF Bodies
  <2> HIDE DEF X
  <2>3. OldBody \in [1..Len(OldBody) -> X] /\ OldBody \in [1..Len(OldBody) -> Bodies]
    BY <2>1, <2>2
  <2> QED BY <1>2, <2>1, <2>3, SeqDef
<1> HIDE DEF X
<1>4. PICK hs, K, T, B, a :
        /\ hs = [i \in 1..n |-> LeafHash(OldBody[i])]
        /\ K = UNION {Missing(Empty, <<0, s>>) : s \in 1..n}
        /\ T = UNION {TilesRequired(s) : s \in 0..n}
        /\ B = UNION {BundlesRequired(s) : s \in 0..n}
        /\ a = SubSeq(OldBody, 1, n)
  OBVIOUS
<1>5. PICK c, tt, bb, nn :
        /\ c = [q \in K |-> RangeHash(Empty, hs, q)]
        /\ tt = [x \in T |-> TileHashes(hs, x[1], x[2], x[3])]
        /\ bb = [b \in B |-> SubSeq(OldBody, b[1] * TileWidth + 1, b[1] * TileWidth + b[2])]
        /\ nn = [s \in 1..n |-> Note(s, RangeHash(Empty, hs, <<0, s>>))]
  OBVIOUS
<1>6. t = Tables(a, c, tt, bb, nn, IF n = 0 THEN None ELSE nn[n])
  BY <1>1, <1>4, <1>5 DEF Built
<1>7. /\ IsTables(t) /\ t.leaves = a /\ t.ranges = c /\ t.tiles = tt /\ t.bundles = bb
      /\ t.notes = nn
  BY <1>6, TablesAre
<1>8. a \in Seq(Bodies) /\ Len(a) = n /\ \A i \in 1..n : a[i] = OldBody[i]
  <2>1. \A i \in 1..n : OldBody[i] \in Bodies
    BY <1>2, <1>3
  <2>2. /\ a \in Seq(Bodies) /\ Len(a) = IF 1 <= n THEN n - 1 + 1 ELSE 0
        /\ \A i \in 1..(n - 1 + 1) : a[i] = OldBody[1 + i - 1]
    BY <1>2, <1>4, <2>1, SubSeqProperties
  <2> QED BY <1>2, <2>2
<1>9. Size(t) = n /\ All(t) = hs
  BY <1>4, <1>7, <1>8 DEF Size, All, Hashes
<1>10. LeavesInv(t)
  <2>1. \A i, j \in 1..n : a[i] = a[j] => i = j
    BY <1>2, <1>3, <1>8, OldAssumption
  <2>2. DOMAIN a = 1..n
    BY <1>8
  <2> QED BY <1>7, <1>8, <2>1, <2>2 DEF LeavesInv
<1>11. CacheInv(t)
  <2>1. ASSUME NEW q \in K PROVE q \in AllRanges /\ q[2] <= n /\ c[q] = H(hs, q)
    <3>1. PICK s \in 1..n : q \in Missing(Empty, <<0, s>>)
      BY <1>4
    <3>2. PICK r \in AllRanges : r = <<0, s>> /\ r[2] = s /\ s <= n /\ s \in Nat
      <4>1. <<0, s>> \in AllRanges /\ s <= n /\ s \in Nat
        BY <1>2 DEF AllRanges
      <4> QED BY <4>1
    <3>3. q \in AllRanges /\ q[2] <= s
      BY <3>1, <3>2, MissingAre
    <3>4. q[2] <= n
      BY <1>2, <3>2, <3>3, RangeFacts
    <3> QED BY <1>5, <3>3, <3>4 DEF H
  <2>2. DOMAIN c = K
    BY <1>5
  <2> QED BY <1>7, <1>9, <2>1, <2>2 DEF CacheInv, TrueCache
<1>12. ASSUME NEW x \in T PROVE Covers(x, n)
  <2>1. PICK s \in 0..n : x \in TilesRequired(s)
    BY <1>4
  <2>2. s \in Nat /\ s <= n
    BY <1>2
  <2>3. Covers(x, s)
    BY <2>1, <2>2, RequiredTiles
  <2>4. (x[2] * TileWidth + x[3]) * Span(x[1]) \in Nat
    BY <2>3, SpanType, TileAssumption DEF Covers
  <2> QED BY <1>2, <2>2, <2>3, <2>4 DEF Covers
<1>13. ASSUME NEW b \in B
       PROVE  /\ b[1] \in Nat /\ b[2] \in Nat /\ b[1] * TileWidth + b[2] <= n
              /\ bb[b] = Bundle(t, b[1], b[2])
  <2>1. PICK s \in 0..n : b \in BundlesRequired(s)
    BY <1>4
  <2>2. s \in Nat /\ s <= n
    BY <1>2
  <2>3. b[1] \in Nat /\ b[2] \in Nat /\ b[1] * TileWidth + b[2] <= s
    BY <2>1, <2>2, RequiredBundles
  <2>4. PICK lo \in Nat, hi \in Nat : lo = b[1] * TileWidth /\ hi = lo + b[2]
    BY <2>3, TileAssumption
  <2>5. hi <= n
    BY <1>2, <2>2, <2>3, <2>4
  <2>6. SubSeq(OldBody, lo + 1, hi) = SubSeq(a, lo + 1, hi)
    <3>1. hi <= Len(OldBody) /\ hi <= Len(a)
      BY <1>2, <1>8, <2>5
    <3>2. \A i \in 1..hi : OldBody[i] = a[i]
      BY <1>2, <1>8, <2>5
    <3> QED BY <1>3, <1>8, <3>1, <3>2, SameSlice
  <2>7. bb[b] = SubSeq(OldBody, lo + 1, hi)
    BY <1>5, <2>4
  <2>8. Bundle(t, b[1], b[2]) = SubSeq(a, lo + 1, hi)
    BY <1>7, <2>4 DEF Bundle
  <2> QED BY <2>3, <2>4, <2>5, <2>6, <2>7, <2>8
<1>14. FilesInv(t, t)
  <2>1. DOMAIN tt = T /\ DOMAIN bb = B /\ \A x \in T : tt[x] = TileHashes(hs, x[1], x[2], x[3])
    BY <1>5
  <2> QED BY <1>7, <1>9, <1>12, <1>13, <2>1 DEF FilesInv
<1>15. NotesInv(t, t)
  <2>1. ASSUME NEW s \in 1..n
        PROVE  /\ nn[s] = Note(s, RootAt(t, s)) /\ BundlesRequired(s) \subseteq B
               /\ TilesRequired(s) \subseteq T
    <3>1. s \in 0..n
      BY <1>2
    <3> QED BY <1>4, <1>5, <1>9, <3>1 DEF RootAt, H
  <2>2. DOMAIN nn = 1..n /\ DOMAIN tt = T /\ DOMAIN bb = B
    BY <1>5
  <2> QED BY <1>7, <1>9, <2>1, <2>2 DEF NotesInv
<1>16. Extends(t, t)
  BY <1>2, <1>9 DEF Extends
<1>17. Shapes /\ up
  BY DEF Init, Shapes
<1>18. ASSUME NEW r \in Request PROVE OwnInv(r)
  <2>1. \A i \in 1..n : a[i] # r
    BY <1>2, <1>3, <1>8, OldAssumption
  <2>2. at[r] = "idle" /\ reply[r] = None
    BY DEF Init
  <2>3. Own(t, t, r, "idle", rec[r], signed[r], None)
    BY <1>7, <1>9, <2>1 DEF Own, Steps, HasLeaf
  <2> QED BY <1>1, <2>2, <2>3 DEF OwnInv
<1> QED BY <1>1, <1>10, <1>11, <1>14, <1>15, <1>16, <1>17, <1>18 DEF LogInv, Sound, Good

LEMMA LogHolds == Spec => []LogInv
BY LogInit, LogStep, PTL DEF Spec

-----------------------------------------------------------------------------

\* What receipt.py answers is so, whatever failed calls left on the connection: an
\* index is that of the request's own leaf, a receipt verifies under a checkpoint, and
\* leaf and checkpoint are on disk; no event is logged twice.
THEOREM AnswersAreTrue == Spec => []AnswersHold
<1>1. LogInv => AnswersHold
  <2> SUFFICES ASSUME LogInv PROVE AnswersHold
    OBVIOUS
  <2>1. \A i, j \in DOMAIN log.leaves : log.leaves[i] = log.leaves[j] => i = j
    BY DEF LogInv, Sound, Good, LeavesInv
  <2>2. \A r \in Request : reply[r] \in {None, Unavailable} \/ Told(disk, r, reply[r])
    BY DEF LogInv, OwnInv, Own
  <2> QED BY <2>1, <2>2 DEF AnswersHold, Told
<1> QED BY <1>1, LogHolds, PTL

\* What is in the files and notes of tables t, for leaves of d and then of e.
LEMMA FilesStay ==
    ASSUME NEW t, NEW d, NEW u, NEW e, Sound(t, d), Sound(u, e), Later(e, d)
    PROVE  /\ \A x \in DOMAIN t.tiles \cap DOMAIN u.tiles : u.tiles[x] = t.tiles[x]
           /\ \A b \in DOMAIN t.bundles \cap DOMAIN u.bundles : u.bundles[b] = t.bundles[b]
           /\ \A s \in DOMAIN t.notes \cap DOMAIN u.notes : u.notes[s] = t.notes[s]
<1>1. /\ LeavesInv(d) /\ LeavesInv(e) /\ Extends(e, d)
      /\ FilesInv(t, d) /\ FilesInv(u, e) /\ NotesInv(t, d) /\ NotesInv(u, e)
  BY DEF Sound, Good, Later
<1>2. PICK m \in Nat, n \in Nat : /\ m = Size(d) /\ n = Size(e) /\ m <= n /\ m \in 0..m
                                  /\ \A i \in 1..m : RootAt(e, i) = RootAt(d, i)
  BY LaterFacts
<1>3. ASSUME NEW x \in DOMAIN t.tiles \cap DOMAIN u.tiles PROVE u.tiles[x] = t.tiles[x]
  <2>1. /\ Covers(x, m) /\ t.tiles[x] = TileHashes(All(d), x[1], x[2], x[3])
        /\ u.tiles[x] = TileHashes(All(e), x[1], x[2], x[3])
    BY <1>1, <1>2 DEF FilesInv
  <2>2. Extends(d, d) /\ Extends(e, e) /\ m \in 0..n
    BY <1>2 DEF Extends
  <2>3. TileHashes(Hashes(e, m), x[1], x[2], x[3]) = TileHashes(All(d), x[1], x[2], x[3])
    BY <1>1, <1>2, <2>1, FilesOf
  <2>4. TileHashes(Hashes(e, m), x[1], x[2], x[3]) = TileHashes(All(e), x[1], x[2], x[3])
    BY <1>1, <1>2, <2>1, <2>2, FilesOf
  <2> QED BY <2>1, <2>3, <2>4
<1>4. ASSUME NEW b \in DOMAIN t.bundles \cap DOMAIN u.bundles PROVE u.bundles[b] = t.bundles[b]
  <2>1. /\ b[1] \in Nat /\ b[2] \in Nat /\ b[1] * TileWidth + b[2] <= m
        /\ t.bundles[b] = Bundle(d, b[1], b[2]) /\ u.bundles[b] = Bundle(e, b[1], b[2])
    BY <1>1, <1>2 DEF FilesInv
  <2>2. Bundle(e, b[1], b[2]) = Bundle(d, b[1], b[2])
    BY <1>1, <1>2, <2>1, FilesOf
  <2> QED BY <2>1, <2>2
<1>5. ASSUME NEW s \in DOMAIN t.notes \cap DOMAIN u.notes PROVE u.notes[s] = t.notes[s]
  BY <1>1, <1>2 DEF NotesInv
<1> QED BY <1>3, <1>4, <1>5

\* http.py serves tiles and bundles as immutable, and so they are: no append, repair
\* at start, late publication of an old size or call that failed half way ever changes
\* one, and no size is signed with a second root, for logs and tiles of any size; what
\* is readable follows from leaves that are on disk and stay there.
THEOREM FilesNeverChange == Spec => PublishedIsImmutable
<1>1. ASSUME LogInv, LogInv', Later(disk', disk)
      PROVE  /\ IsPrefix(disk.leaves, disk'.leaves)
             /\ Stays("tiles") /\ Stays("bundles") /\ Stays("notes") /\ Durable'
  <2>1. PICK t, d, u, e : /\ t = log /\ d = disk /\ u = log' /\ e = disk'
                          /\ Sound(t, d) /\ Sound(u, e) /\ Later(e, d)
    BY <1>1 DEF LogInv
  <2>2. IsPrefix(d.leaves, e.leaves)
    <3>1. PICK m \in Nat, n \in Nat :
             /\ m = Len(d.leaves) /\ n = Len(e.leaves) /\ m <= n
             /\ d.leaves \in Seq(Bodies) /\ e.leaves \in Seq(Bodies)
             /\ \A i \in 1..m : e.leaves[i] = d.leaves[i]
      BY <2>1, LaterFacts DEF Later, Good, LeavesInv, Size
    <3>2. SubSeq(d.leaves, 1, m) = SubSeq(e.leaves, 1, m)
      <4>1. \A i \in 1..m : d.leaves[i] = e.leaves[i]
        BY <3>1
      <4>2. SubSeq(d.leaves, 0 + 1, m) = SubSeq(e.leaves, 0 + 1, m)
        BY <3>1, <4>1, SameSlice
      <4> QED BY <4>2
    <3> QED BY <3>1, <3>2 DEF IsPrefix
  <2>3. Sound(d, d) /\ DOMAIN d.tiles \subseteq DOMAIN u.tiles
        /\ DOMAIN d.bundles \subseteq DOMAIN u.bundles /\ DOMAIN d.notes \subseteq DOMAIN u.notes
    BY <2>1, Undone DEF Sound, Later, Extends
  <2>4. Stays("tiles") /\ Stays("bundles") /\ Stays("notes")
    <3>1. /\ \A x \in DOMAIN t.tiles \cap DOMAIN u.tiles : u.tiles[x] = t.tiles[x]
          /\ \A b \in DOMAIN t.bundles \cap DOMAIN u.bundles : u.bundles[b] = t.bundles[b]
          /\ \A s \in DOMAIN t.notes \cap DOMAIN u.notes : u.notes[s] = t.notes[s]
      BY <2>1, FilesStay
    <3>2. /\ \A x \in DOMAIN d.tiles \cap DOMAIN u.tiles : u.tiles[x] = d.tiles[x]
          /\ \A b \in DOMAIN d.bundles \cap DOMAIN u.bundles : u.bundles[b] = d.bundles[b]
          /\ \A s \in DOMAIN d.notes \cap DOMAIN u.notes : u.notes[s] = d.notes[s]
      BY <2>1, <2>3, FilesStay
    <3>3. /\ t.tiles = t["tiles"] /\ u.tiles = u["tiles"] /\ d.tiles = d["tiles"]
          /\ t.bundles = t["bundles"] /\ u.bundles = u["bundles"] /\ d.bundles = d["bundles"]
          /\ t.notes = t["notes"] /\ u.notes = u["notes"] /\ d.notes = d["notes"]
      OBVIOUS
    <3>4. Stays("tiles")
      BY <2>1, <2>3, <3>1, <3>2, <3>3 DEF Stays
    <3>5. Stays("bundles")
      BY <2>1, <2>3, <3>1, <3>2, <3>3 DEF Stays
    <3>6. Stays("notes")
      BY <2>1, <2>3, <3>1, <3>2, <3>3 DEF Stays
    <3> QED BY <3>4, <3>5, <3>6
  <2>5. Durable'
    <3>1. PICK n \in Nat : n = Size(e) /\ FilesInv(u, e) /\ NotesInv(u, e)
      BY <2>1, SizeType DEF Sound, Good
    <3>2. /\ \A x \in DOMAIN u.tiles : /\ (x[2] * TileWidth + x[3]) * Span(x[1]) <= Size(e)
                                       /\ u.tiles[x] = TileHashes(All(e), x[1], x[2], x[3])
          /\ \A b \in DOMAIN u.bundles : /\ b[1] * TileWidth + b[2] <= Size(e)
                                         /\ u.bundles[b] = Bundle(e, b[1], b[2])
          /\ \A s \in DOMAIN u.notes :
                /\ s <= Size(e) /\ u.notes[s] = Note(s, RangeHash(Empty, All(e), <<0, s>>))
      BY <3>1 DEF FilesInv, NotesInv, Covers, RootAt, H
    <3> QED BY <2>1, <3>2 DEF Durable, All
  <2> QED BY <2>1, <2>2, <2>4, <2>5
<1>2. LogInv /\ LogInv' /\ [Next]_vars =>
        [/\ IsPrefix(disk.leaves, disk'.leaves)
         /\ Stays("tiles") /\ Stays("bundles") /\ Stays("notes") /\ Durable']_vars
  BY <1>1, LogStep
<1> QED BY <1>2, LogHolds, PTL DEF Spec, PublishedIsImmutable
-----------------------------------------------------------------------------
(* Division, and the two loops of the verifier that shift by one bit.      *)

LEMMA DivIs ==
    ASSUME NEW a \in Nat, NEW b \in Nat \ {0}, NEW q \in Nat, NEW r \in Nat, r < b, a = q * b + r
    PROVE  a \div b = q /\ a % b = r
<1>1. PICK d \in Nat, m \in Nat : d = a \div b /\ m = a % b /\ m < b /\ a = d * b + m
  BY DivFacts
<1>2. d <= q
  <2>1. SUFFICES ASSUME q + 1 <= d PROVE FALSE
    OBVIOUS
  <2>2. (q + 1) * b <= d * b /\ (q + 1) * b = q * b + b
    BY <2>1, TimesMonotonic
  <2> QED BY <1>1, <2>2
<1>3. q <= d
  <2>1. SUFFICES ASSUME d + 1 <= q PROVE FALSE
    OBVIOUS
  <2>2. (d + 1) * b <= q * b /\ (d + 1) * b = d * b + b
    BY <2>1, TimesMonotonic
  <2> QED BY <1>1, <2>2
<1>4. d = q
  BY <1>2, <1>3
<1> QED BY <1>1, <1>4

LEMMA DivTwice ==
    ASSUME NEW s \in Nat, NEW a \in Nat \ {0}, NEW b \in Nat \ {0}
    PROVE  a * b \in Nat \ {0} /\ (s \div a) \div b = s \div (a * b)
<1>1. PICK q \in Nat, x \in Nat : q = s \div a /\ x < a /\ s = a * q + x
  BY DivFacts
<1>2. PICK d \in Nat, y \in Nat : d = q \div b /\ y < b /\ q = b * d + y
  BY DivFacts
<1>3. y * a + x \in Nat /\ y * a + x < a * b
  <2>1. (y + 1) * a <= b * a /\ (y + 1) * a = y * a + a /\ y * a \in Nat
    BY <1>2, TimesMonotonic
  <2> QED BY <1>1, <2>1
<1>4. s = d * (a * b) + (y * a + x)
  <2>1. a * (b * d + y) = d * (a * b) + y * a
    OBVIOUS
  <2>2. a * q = d * (a * b) + y * a
    BY <1>2, <2>1, Zenon
  <2> QED BY <1>1, <2>2
<1>5. a * b \in Nat \ {0}
  <2>1. a * b \in Nat /\ 1 * b <= a * b
    BY TimesMonotonic
  <2> QED BY <2>1
<1>6. PICK c \in Nat \ {0}, z \in Nat : c = a * b /\ z = y * a + x /\ z < c
  BY <1>3, <1>5
<1>7. s = d * c + z
  BY <1>4, <1>6
<1>8. s \div c = d
  BY <1>6, <1>7, DivIs
<1> QED BY <1>1, <1>2, <1>5, <1>6, <1>8, Zenon

Positive(C) == C \subseteq Nat \ {0}
RaisedBody(g, C, p) == IF p[1] \in C THEN g[<<p[1] \div 2, p[2] \div 2>>] ELSE p
IsRaised(g, C, f, s) == g = [p \in (0..f) \X (0..s) |-> RaisedBody(g, C, p)]

LEMMA HalfPair ==
    ASSUME NEW f \in Nat, NEW s \in Nat, NEW p \in (0..f) \X (0..s), p[1] # 0
    PROVE  /\ <<p[1] \div 2, p[2] \div 2>> \in (0..f) \X (0..s)
           /\ p[1] \div 2 \in Nat /\ p[1] \div 2 < p[1] /\ p[2] \div 2 \in Nat
<1>1. PICK x \in 0..f, y \in 0..s : p = <<x, y>> /\ x # 0
  OBVIOUS
<1>2. x \div 2 \in Nat /\ x \div 2 < x /\ y \div 2 \in Nat /\ y \div 2 <= y
  BY <1>1
<1> QED BY <1>1, <1>2

LEMMA RaisedExists ==
    ASSUME NEW C, Positive(C), NEW f \in Nat, NEW s \in Nat
    PROVE  \E g : IsRaised(g, C, f, s)
<1> DEFINE T == {m \in Nat : \E g : IsRaised(g, C, m, s)}
<1>1. 0 \in T
  <2> DEFINE g == [p \in (0..0) \X (0..s) |-> p]
  <2>1. \A p \in (0..0) \X (0..s) : p[1] \notin C
    BY DEF Positive
  <2>2. g = [p \in (0..0) \X (0..s) |-> RaisedBody(g, C, p)]
    BY <2>1 DEF RaisedBody
  <2>3. IsRaised(g, C, 0, s)
    BY <2>2 DEF IsRaised
  <2> QED BY <2>3
<1>2. ASSUME NEW m \in T PROVE m + 1 \in T
  <2>1. PICK g : g = [p \in (0..m) \X (0..s) |-> RaisedBody(g, C, p)]
    BY DEF IsRaised
  <2> DEFINE h == [p \in (0..(m + 1)) \X (0..s) |-> RaisedBody(g, C, p)]
  <2>2. ASSUME NEW p \in (0..(m + 1)) \X (0..s) PROVE RaisedBody(h, C, p) = RaisedBody(g, C, p)
    <3>1. CASE p[1] \notin C
      BY <3>1 DEF RaisedBody
    <3>2. CASE p[1] \in C
      <4> DEFINE q == <<p[1] \div 2, p[2] \div 2>>
      <4>1. p[1] # 0 /\ m + 1 \in Nat
        BY <3>2 DEF Positive
      <4>2. q \in (0..(m + 1)) \X (0..s) /\ p[1] \div 2 < p[1] /\ p[1] \in 0..(m + 1)
            /\ p[1] \div 2 \in Nat
        BY <4>1, HalfPair
      <4>3. q \in (0..m) \X (0..s)
        BY <4>2
      <4> HIDE DEF q
      <4>4. h[q] = g[q]
        BY <2>1, <4>2, <4>3
      <4> QED BY <3>2, <4>4 DEF RaisedBody, q
    <3> QED BY <3>1, <3>2
  <2>3. h = [p \in (0..(m + 1)) \X (0..s) |-> RaisedBody(h, C, p)]
    BY <2>2
  <2>4. IsRaised(h, C, m + 1, s)
    BY <2>3 DEF IsRaised
  <2> QED BY <2>4
<1>3. T = Nat
  <2> HIDE DEF T
  <2> QED BY <1>1, <1>2, AllNumbers DEF T
<1> QED BY <1>3

LEMMA RaisedAgree ==
    ASSUME NEW C, Positive(C), NEW f \in Nat, NEW s \in Nat, NEW e \in Nat, NEW t \in Nat,
           e <= f, t <= s, NEW g, NEW h, IsRaised(g, C, f, s), IsRaised(h, C, e, t),
           NEW x \in (0..e) \X (0..t)
    PROVE  g[x] = h[x]
<1> DEFINE T == {m \in Nat : \A p \in (0..e) \X (0..t) : p[1] <= m => g[p] = h[p]}
<1>1. ASSUME NEW p \in (0..e) \X (0..t)
      PROVE  g[p] = RaisedBody(g, C, p) /\ h[p] = RaisedBody(h, C, p)
  <2>1. p \in (0..f) \X (0..s)
    OBVIOUS
  <2> QED BY <2>1 DEF IsRaised
<1>2. 0 \in T
  <2>1. ASSUME NEW p \in (0..e) \X (0..t), p[1] <= 0 PROVE p[1] \notin C
    BY <2>1 DEF Positive
  <2> QED BY <1>1, <2>1 DEF RaisedBody
<1>3. ASSUME NEW m \in T PROVE m + 1 \in T
  <2>1. ASSUME NEW p \in (0..e) \X (0..t), p[1] <= m + 1, p[1] \in C PROVE g[p] = h[p]
    <3> DEFINE q == <<p[1] \div 2, p[2] \div 2>>
    <3>1. p[1] # 0
      BY <2>1 DEF Positive
    <3>2. q \in (0..e) \X (0..t) /\ p[1] \div 2 \in Nat /\ p[1] \div 2 < p[1] /\ p[1] \in Nat
      BY <3>1, HalfPair
    <3>3. q[1] <= m
      BY <2>1, <3>2
    <3> HIDE DEF q
    <3>4. g[q] = h[q]
      BY <3>2, <3>3
    <3> QED BY <1>1, <2>1, <3>4 DEF RaisedBody, q
  <2>2. ASSUME NEW p \in (0..e) \X (0..t), p[1] \notin C PROVE g[p] = h[p]
    BY <1>1, <2>2 DEF RaisedBody
  <2> QED BY <2>1, <2>2
<1>4. T = Nat
  <2> HIDE DEF T
  <2> QED BY <1>2, <1>3, AllNumbers DEF T
<1>5. \A p \in (0..e) \X (0..t) : p[1] \in T /\ p[1] <= p[1]
  <2> HIDE DEF T
  <2> QED BY <1>4
<1> QED BY <1>5

LEMMA RaisedStep ==
    ASSUME NEW C, Positive(C), NEW f \in Nat, NEW s \in Nat
    PROVE  Raised(C, f, s) = IF f \in C THEN Raised(C, f \div 2, s \div 2) ELSE <<f, s>>
<1> DEFINE V(a, b) == CHOOSE v : IsRaised(v, C, a, b)
<1>1. \A a, b \in Nat : IsRaised(V(a, b), C, a, b)
  BY RaisedExists
<1>2. \A a, b \in Nat : Raised(C, a, b) = V(a, b)[<<a, b>>]
  BY DEF Raised, IsRaised, RaisedBody
<1> HIDE DEF V
<1>3. <<f, s>> \in (0..f) \X (0..s)
  OBVIOUS
<1>4. V(f, s)[<<f, s>>] = RaisedBody(V(f, s), C, <<f, s>>)
  <2>1. PICK g : g = V(f, s) /\ IsRaised(g, C, f, s)
    BY <1>1
  <2>2. PICK p : p = <<f, s>> /\ p \in (0..f) \X (0..s)
    BY <1>3
  <2>3. g[p] = RaisedBody(g, C, p)
    BY <2>1, <2>2 DEF IsRaised
  <2> QED BY <2>1, <2>2, <2>3
<1>5. CASE f \notin C
  BY <1>2, <1>4, <1>5 DEF RaisedBody
<1>6. CASE f \in C
  <2>1. PICK e \in Nat, t \in Nat : e = f \div 2 /\ t = s \div 2 /\ e <= f /\ t <= s
    OBVIOUS
  <2>2. V(f, s)[<<e, t>>] = V(e, t)[<<e, t>>]
    <3>1. <<e, t>> \in (0..e) \X (0..t)
      OBVIOUS
    <3>2. PICK g, h : g = V(f, s) /\ h = V(e, t)
      OBVIOUS
    <3>3. IsRaised(g, C, f, s) /\ IsRaised(h, C, e, t)
      BY <1>1, <3>2
    <3>4. e <= f /\ t <= s
      BY <2>1
    <3>5. PICK x \in (0..e) \X (0..t) : x = <<e, t>>
      BY <3>1
    <3>6. g[x] = h[x]
      BY <3>3, <3>4, RaisedAgree
    <3> QED BY <3>2, <3>5, <3>6
  <2> QED BY <1>2, <1>4, <1>6, <2>1, <2>2 DEF RaisedBody
<1> QED BY <1>5, <1>6

LEMMA OnesStep ==
    ASSUME NEW f \in Nat, NEW s \in Nat
    PROVE  PastOnes(f, s) = IF f % 2 = 1 THEN PastOnes(f \div 2, s \div 2) ELSE <<f, s>>
<1>1. PICK C : C = Odds
  OBVIOUS
<1>2. Positive(C) /\ (f \in C <=> f % 2 = 1)
  BY <1>1 DEF Odds, Positive
<1>3. Raised(C, f, s) = IF f \in C THEN Raised(C, f \div 2, s \div 2) ELSE <<f, s>>
  BY <1>2, RaisedStep
<1> QED BY <1>1, <1>2, <1>3 DEF PastOnes

LEMMA ZerosStep ==
    ASSUME NEW f \in Nat, NEW s \in Nat
    PROVE  PastZeros(f, s) = IF f # 0 /\ f % 2 = 0 THEN PastZeros(f \div 2, s \div 2) ELSE <<f, s>>
<1>1. PICK C : C = Nat \ ({0} \cup Odds)
  OBVIOUS
<1>2. Positive(C) /\ (f \in C <=> f # 0 /\ f % 2 = 0)
  BY <1>1 DEF Odds, Positive
<1>3. Raised(C, f, s) = IF f \in C THEN Raised(C, f \div 2, s \div 2) ELSE <<f, s>>
  BY <1>2, RaisedStep
<1> QED BY <1>1, <1>2, <1>3 DEF PastZeros

LEMMA HalfThen ==
    ASSUME NEW t \in Nat, NEW p \in Nat \ {0}
    PROVE  (t \div 2) \div p = t \div (2 * p)
<1>1. PICK k \in Nat \ {0} : k = 2
  OBVIOUS
<1>2. (t \div k) \div p = t \div (k * p)
  BY DivTwice
<1> QED BY <1>1, <1>2

\* The loops lift a position to the level at which its lowest bit is the other one.
LEMMA OnesLifted ==
    ASSUME NEW x \in Nat, x % 2 = 0, NEW P \in Powers, NEW s \in Nat
    PROVE  PastOnes(x * P + (P - 1), s) = <<x, s \div P>>
<1> DEFINE S == {p \in Nat : \A t \in Nat : PastOnes(x * p + (p - 1), t) = <<x, t \div p>>}
<1>1. 1 \in S
  <2>1. ASSUME NEW t \in Nat PROVE PastOnes(x, t) = <<x, t>>
    BY OnesStep
  <2>2. x * 1 + (1 - 1) = x /\ \A t \in Nat : t \div 1 = t
    OBVIOUS
  <2> QED BY <2>1, <2>2
<1>2. ASSUME NEW p \in S \cap Powers PROVE 2 * p \in S
  <2>1. SUFFICES ASSUME NEW t \in Nat
                 PROVE  PastOnes(x * (2 * p) + (2 * p - 1), t) = <<x, t \div (2 * p)>>
    BY PowerOf
  <2>2. p \in Nat \ {0} /\ 2 \in Nat \ {0}
    BY PowerOf
  <2>3. PICK y \in Nat : y = x * p + (p - 1)
    BY <2>2
  <2>4. PICK z \in Nat : z = x * (2 * p) + (2 * p - 1) /\ z = 2 * y + 1
    BY <2>2, <2>3
  <2>5. z % 2 = 1 /\ z \div 2 = y
    BY <2>4
  <2>6. t \div 2 \in Nat
    BY DivFacts
  <2>7. PastOnes(z, t) = PastOnes(y, t \div 2)
    BY <2>5, OnesStep
  <2>8. PastOnes(y, t \div 2) = <<x, (t \div 2) \div p>>
    BY <2>3, <2>6
  <2>9. (t \div 2) \div p = t \div (2 * p)
    BY <2>2, HalfThen
  <2> QED BY <2>4, <2>7, <2>8, <2>9
<1> HIDE DEF S
<1>3. P \in S
  BY <1>1, <1>2, PowerInduction
<1> QED BY <1>3 DEF S

LEMMA ZerosLifted ==
    ASSUME NEW x \in Nat, x % 2 = 1, NEW P \in Powers, NEW s \in Nat
    PROVE  PastZeros(x * P, s) = <<x, s \div P>>
<1> DEFINE S == {p \in Nat : \A t \in Nat : PastZeros(x * p, t) = <<x, t \div p>>}
<1>1. 1 \in S
  <2>1. ASSUME NEW t \in Nat PROVE PastZeros(x, t) = <<x, t>>
    BY ZerosStep
  <2>2. x * 1 = x /\ \A t \in Nat : t \div 1 = t
    OBVIOUS
  <2> QED BY <2>1, <2>2
<1>2. ASSUME NEW p \in S \cap Powers PROVE 2 * p \in S
  <2>1. SUFFICES ASSUME NEW t \in Nat PROVE PastZeros(x * (2 * p), t) = <<x, t \div (2 * p)>>
    BY PowerOf
  <2>2. p \in Nat \ {0} /\ 2 \in Nat \ {0} /\ x # 0
    BY PowerOf
  <2>3. PICK y \in Nat : y = x * p /\ y # 0
    BY <2>2
  <2>4. PICK z \in Nat : z = x * (2 * p) /\ z = 2 * y /\ z # 0
    BY <2>2, <2>3
  <2>5. z % 2 = 0 /\ z \div 2 = y
    BY <2>4
  <2>6. t \div 2 \in Nat
    BY DivFacts
  <2>7. PastZeros(z, t) = PastZeros(y, t \div 2)
    BY <2>4, <2>5, ZerosStep
  <2>8. PastZeros(y, t \div 2) = <<x, (t \div 2) \div p>>
    BY <2>3, <2>6
  <2>9. (t \div 2) \div p = t \div (2 * p)
    BY <2>2, HalfThen
  <2> QED BY <2>4, <2>7, <2>8, <2>9
<1> HIDE DEF S
<1>3. P \in S
  BY <1>1, <1>2, PowerInduction
<1> QED BY <1>3 DEF S

-----------------------------------------------------------------------------
(* Tiles.                                                                  *)

LEMMA WidthPower == TileWidth \in Powers /\ TileWidth \in Nat /\ TileWidth >= 2
<1>1. PICK W \in Nat : W = TileWidth /\ W >= 2
  BY TileAssumption
<1>2. Split(2 * W) \in Powers
  BY <1>1, SplitPower
<1> QED BY <1>1, <1>2, PowerAssumption

LEMMA SpanStep ==
    ASSUME NEW l \in Nat
    PROVE  /\ Span(0) = 1 /\ Span(l + 1) = TileWidth * Span(l)
<1> DEFINE V(n) == CHOOSE v : IsSpan(v, n)
<1>1. \A n \in Nat : IsSpan(V(n), n)
  BY SpanExists
<1>2. \A n \in Nat : Span(n) = V(n)[n]
  BY DEF Span, IsSpan, SpanBody
<1> HIDE DEF V
<1>3. \A n \in Nat : \A k \in 0..n : V(n)[k] = SpanBody(V(n), k)
  <2>1. SUFFICES ASSUME NEW n \in Nat, NEW k \in 0..n PROVE V(n)[k] = SpanBody(V(n), k)
    OBVIOUS
  <2>2. PICK g : g = V(n) /\ IsSpan(g, n)
    BY <1>1
  <2>3. g[k] = SpanBody(g, k)
    BY <2>2 DEF IsSpan
  <2> QED BY <2>2, <2>3
<1>4. Span(0) = 1
  <2>1. V(0)[0] = SpanBody(V(0), 0)
    BY <1>3
  <2> QED BY <1>2, <2>1 DEF SpanBody
<1>5. PICK g, h : g = V(l) /\ h = V(l + 1)
  OBVIOUS
<1> DEFINE T == {m \in Nat : m <= l => g[m] = h[m]}
<1>6. 0 \in T
  BY <1>3, <1>5 DEF SpanBody
<1>7. ASSUME NEW m \in T PROVE m + 1 \in T
  <2>1. SUFFICES ASSUME m + 1 <= l PROVE g[m + 1] = h[m + 1]
    OBVIOUS
  <2>2. PICK k \in Nat : k = m + 1 /\ k # 0 /\ k \in 0..l /\ k \in 0..(l + 1) /\ k - 1 = m
    BY <2>1
  <2>3. g[k] = SpanBody(g, k) /\ h[k] = SpanBody(h, k)
    BY <1>3, <1>5, <2>2
  <2>4. g[m] = h[m]
    BY <1>7, <2>1
  <2> QED BY <2>2, <2>3, <2>4 DEF SpanBody
<1>8. T = Nat
  <2> HIDE DEF T
  <2> QED BY <1>6, <1>7, AllNumbers DEF T
<1>9. g[l] = h[l]
  BY <1>8
<1>10. h[l + 1] = TileWidth * h[l]
  <2>1. PICK k \in Nat : k = l + 1 /\ k # 0 /\ k \in 0..k /\ k - 1 = l
    OBVIOUS
  <2>2. h[k] = SpanBody(h, k)
    BY <1>3, <1>5, <2>1
  <2> QED BY <2>1, <2>2 DEF SpanBody
<1> QED BY <1>2, <1>4, <1>5, <1>9, <1>10

LEMMA SpanPower == ASSUME NEW l \in Nat PROVE Span(l) \in Powers
<1> DEFINE T == {m \in Nat : Span(m) \in Powers}
<1>1. 0 \in T
  BY SpanStep, PowerOf
<1>2. ASSUME NEW m \in T PROVE m + 1 \in T
  <2>1. Span(m + 1) = TileWidth * Span(m)
    BY SpanStep
  <2>2. PICK W \in Powers, x \in Powers : W = TileWidth /\ x = Span(m) /\ W * x \in Powers
    BY WidthPower, PowerTimes
  <2>3. m + 1 \in Nat
    OBVIOUS
  <2> QED BY <2>1, <2>2, <2>3
<1>3. T = Nat
  <2> HIDE DEF T
  <2> QED BY <1>1, <1>2, AllNumbers DEF T
<1> QED BY <1>3

\* Where entry j of level l of a tree of size s is, and that it is there.
Placed(s, S, W, j, n, i, w) ==
    /\ n = j \div W /\ i = j % W /\ i < w /\ n * W + i = j /\ w <= W
    /\ w = LET rest == (s \div S) - n * W IN IF rest >= W THEN W ELSE rest
    /\ \/ w = W /\ n \in 0..((s \div (S * W)) - 1)
       \/ w = (s \div S) % W /\ n = s \div (S * W)

LEMMA TileOf ==
    ASSUME NEW s \in Nat, NEW S \in Nat \ {0}, NEW W \in Nat \ {0}, NEW j \in Nat, j < s \div S
    PROVE  \E n \in Nat, i \in Nat, w \in Nat \ {0} : Placed(s, S, W, j, n, i, w)
<1>1. PICK q \in Nat : q = s \div S /\ j < q
  BY DivFacts
<1>2. q \div W = s \div (S * W)
  <2>1. (s \div S) \div W = s \div (S * W)
    BY DivTwice
  <2> QED BY <1>1, <2>1, Zenon
<1>3. PICK n \in Nat, i \in Nat : n = j \div W /\ i = j % W /\ i < W /\ j = W * n + i
  <2>1. j \div W \in Nat /\ j % W \in Nat /\ j % W < W /\ j = W * (j \div W) + (j % W)
    BY DivFacts, Zenon
  <2> QED BY <2>1, Zenon
<1>4. PICK f \in Nat, p \in Nat : f = q \div W /\ p = q % W /\ p < W /\ q = W * f + p
  <2>1. q \div W \in Nat /\ q % W \in Nat /\ q % W < W /\ q = W * (q \div W) + (q % W)
    BY DivFacts, Zenon
  <2> QED BY <2>1, Zenon
<1>5. PICK m \in Nat, g \in Nat : m = n * W /\ g = f * W /\ j = m + i /\ q = g + p
  <2>1. n * W \in Nat /\ W * n = n * W /\ f * W \in Nat /\ W * f = f * W
    OBVIOUS
  <2> QED BY <1>3, <1>4, <2>1
<1>6. CASE q - m >= W
  <2>1. n + 1 <= f
    <3>1. SUFFICES ASSUME f <= n PROVE FALSE
      BY <1>3, <1>4
    <3>2. g <= m
      BY <1>5, <3>1, TimesMonotonic
    <3> QED BY <1>4, <1>5, <1>6, <3>2
  <2>2. n \in 0..((s \div (S * W)) - 1)
    <3>1. s \div (S * W) = f
      BY <1>2, <1>4, Zenon
    <3>2. n \in 0..(f - 1)
      BY <2>1
    <3> QED BY <3>1, <3>2, Zenon
  <2>3. W = LET rest == (s \div S) - n * W IN IF rest >= W THEN W ELSE rest
    BY <1>1, <1>5, <1>6
  <2>4. n * W + i = j /\ W <= W /\ W = W
    BY <1>5
  <2>5. Placed(s, S, W, j, n, i, W)
    BY <1>3, <2>2, <2>3, <2>4, Zenon DEF Placed
  <2> QED BY <2>5
<1>7. CASE q - m < W
  <2>1. n <= f
    <3>1. SUFFICES ASSUME f + 1 <= n PROVE FALSE
      BY <1>3, <1>4
    <3>2. (f + 1) * W <= m /\ (f + 1) * W = g + W
      BY <1>5, <3>1, TimesMonotonic
    <3> QED BY <1>1, <1>4, <1>5, <3>2
  <2>2. f <= n
    <3>1. SUFFICES ASSUME n + 1 <= f PROVE FALSE
      BY <1>3, <1>4
    <3>2. (n + 1) * W <= g /\ (n + 1) * W = m + W
      BY <1>5, <3>1, TimesMonotonic
    <3> QED BY <1>4, <1>5, <1>7, <3>2
  <2>3. n = f /\ q - m = p
    BY <1>5, <2>1, <2>2
  <2>4. n = s \div (S * W)
    BY <1>2, <1>4, <2>3, Zenon
  <2>5. p = (s \div S) % W
    BY <1>1, <1>4
  <2>6. i < p /\ p \in Nat \ {0}
    BY <1>1, <1>5, <2>3
  <2>7. p = LET rest == (s \div S) - n * W IN IF rest >= W THEN W ELSE rest
    BY <1>1, <1>5, <1>7, <2>3
  <2>8. n * W + i = j /\ p <= W
    BY <1>4, <1>5
  <2>9. Placed(s, S, W, j, n, i, p)
    BY <1>3, <2>4, <2>5, <2>6, <2>7, <2>8, Zenon DEF Placed
  <2> QED BY <2>6, <2>9
<1>8. q - m >= W \/ q - m < W
  BY <1>5
<1> QED BY <1>6, <1>7, <1>8

LEMMA TileThere ==
    ASSUME NEW s \in Nat, NEW l \in 0..s, NEW n \in Nat, NEW w \in Nat \ {0}, Span(l) <= s,
           \/ w = TileWidth /\ n \in 0..((s \div (Span(l) * TileWidth)) - 1)
           \/ w = (s \div Span(l)) % TileWidth /\ n = s \div (Span(l) * TileWidth)
    PROVE  <<l, n, w>> \in TilesRequired(s)
<1> DEFINE At(k) == LET full == s \div (Span(k) * TileWidth)
                        part == (s \div Span(k)) % TileWidth
                    IN  {<<k, m, TileWidth>> : m \in 0..(full - 1)}
                          \cup {<<k, full, v>> : v \in {part} \ {0}}
<1>1. TilesRequired(s) = UNION {At(k) : k \in {k \in 0..s : Span(k) <= s}}
  BY DEF TilesRequired
<1>2. <<l, n, w>> \in At(l)
  OBVIOUS
<1> HIDE DEF At
<1> QED BY <1>1, <1>2

LEMMA SliceRoot ==
    ASSUME NEW X, NEW hs \in Seq(X), NEW lo \in Nat, NEW S \in Nat \ {0}, lo + S <= Len(hs)
    PROVE  RootOf(SubSeq(hs, lo + 1, lo + S)) = H(hs, <<lo, lo + S>>)
<1>1. PICK hi \in Nat : hi = lo + S
  OBVIOUS
<1>2. PICK ks : ks = SubSeq(hs, lo + 1, hi)
  OBVIOUS
<1>3. ks = [i \in 1..S |-> hs[i + lo]]
  <2>1. SubSeq(hs, lo + 1, hi) = [i \in 1..(hi - (lo + 1) + 1) |-> hs[i + (lo + 1) - 1]]
    BY SubSeqIs
  <2>2. hi - (lo + 1) + 1 = S /\ \A i \in 1..S : i + (lo + 1) - 1 = i + lo
    BY <1>1
  <2> QED BY <1>2, <2>1, <2>2
<1>4. \A i \in 1..S : hs[i + lo] \in X
  OBVIOUS
<1>5. ks \in Seq(X) /\ Len(ks) = S
  <2>1. ks \in [1..S -> X] /\ S \in Nat
    BY <1>3, <1>4
  <2> QED BY <2>1
<1>6. RootOf(ks) = H(ks, <<0, S>>)
  BY <1>5, RootHash
<1>7. \A i \in 1..S : ks[i] = hs[i + lo]
  BY <1>3
<1>8. PICK r \in AllRanges : r = <<0, S>>
  <2>1. 0 < S
    OBVIOUS
  <2>2. <<0, S>> \in AllRanges
    BY <2>1 DEF AllRanges
  <2> QED BY <2>2
<1>9. H(ks, r) = H(hs, <<r[1] + lo, r[2] + lo>>)
  <2>1. r[2] <= S
    BY <1>8
  <2>2. Shifted(ks, hs, lo, S)
    BY <1>7 DEF Shifted
  <2> QED BY <2>1, <2>2, ShiftedHash
<1>10. <<r[1] + lo, r[2] + lo>> = <<lo, hi>>
  BY <1>1, <1>8
<1> QED BY <1>1, <1>2, <1>6, <1>8, <1>9, <1>10

\* What a published tile says.
LEMMA TileIs ==
    ASSUME Sound(log, disk), NEW l, NEW n, NEW w, <<l, n, w>> \in DOMAIN log.tiles, NEW i \in 1..w
    PROVE  /\ l \in Nat /\ n \in Nat /\ w \in Nat
           /\ (n * TileWidth + i - 1) * Span(l) \in Nat
           /\ (n * TileWidth + i - 1) * Span(l) + Span(l) <= Size(disk)
           /\ log.tiles[<<l, n, w>>][i]
                = H(All(disk), <<(n * TileWidth + i - 1) * Span(l),
                                    (n * TileWidth + i - 1) * Span(l) + Span(l)>>)
<1>1. PICK t : t = <<l, n, w>> /\ t \in DOMAIN log.tiles
  OBVIOUS
<1>2. Covers(t, Size(disk)) /\ log.tiles[t] = TileHashes(All(disk), t[1], t[2], t[3])
  BY <1>1 DEF Sound, Good, FilesInv
<1>3. l \in Nat /\ n \in Nat /\ w \in Nat /\ (n * TileWidth + w) * Span(l) <= Size(disk)
  BY <1>1, <1>2 DEF Covers
<1>4. PICK S \in Nat \ {0}, W \in Nat : S = Span(l) /\ W = TileWidth
  BY <1>3, SpanType, TileAssumption
<1>5. PICK k \in Nat : k = n * W + i - 1 /\ k + 1 <= n * W + w /\ n * W + w \in Nat
  <2>1. n * W \in Nat /\ i \in Nat /\ i >= 1 /\ i <= w
    BY <1>3
  <2> QED BY <1>3, <2>1
<1>6. k * S \in Nat /\ k * S + S <= Size(disk)
  <2>1. (k + 1) * S <= (n * W + w) * S /\ (k + 1) * S = k * S + S /\ k * S \in Nat
    BY <1>5, TimesMonotonic
  <2>2. (n * W + w) * S <= Size(disk) /\ Size(disk) \in Nat /\ (n * W + w) * S \in Nat
    BY <1>3, <1>4, <1>5, SizeType DEF Sound, Good
  <2> QED BY <2>1, <2>2
<1>7. log.tiles[t][i] = RootOf(SubSeq(All(disk), k * S + 1, k * S + S))
  <2>1. log.tiles[t] = TileHashes(All(disk), l, n, w)
    BY <1>1, <1>2
  <2>2. TileHashes(All(disk), l, n, w)[i] = RootOf(SubSeq(All(disk), k * S + 1, k * S + S))
    BY <1>4, <1>5 DEF TileHashes
  <2> QED BY <2>1, <2>2
<1>8. PICK hs : hs = All(disk)
  OBVIOUS
<1>9. hs \in Seq({LeafHash(x) : x \in Bodies}) /\ Len(hs) = Size(disk)
  <2>1. Size(disk) \in 0..Size(disk)
    BY SizeType DEF Sound, Good
  <2>2. LeavesInv(disk)
    BY DEF Sound, Good
  <2> QED BY <1>8, <2>1, <2>2, HashesAre DEF All
<1>10. RootOf(SubSeq(hs, k * S + 1, k * S + S)) = H(hs, <<k * S, k * S + S>>)
  BY <1>6, <1>9, SliceRoot
<1> QED BY <1>1, <1>3, <1>4, <1>5, <1>6, <1>7, <1>8, <1>10

\* What a reader finds at an entry of a checkpoint that was signed.
LEMMA EntryIs ==
    ASSUME Sound(log, disk), NEW s \in DOMAIN log.notes, NEW l \in 0..s, NEW j \in 0..((s \div Span(l)) - 1)
    PROVE  /\ <<l, j \div TileWidth, TileWidthAt(l, j \div TileWidth, s)>> \in DOMAIN log.tiles
           /\ TileEntry(l, j, s) = H(All(disk), <<j * Span(l), j * Span(l) + Span(l)>>)
<1>1. s \in 1..Size(disk) /\ Size(disk) \in Nat /\ s \in Nat
  BY SizeType DEF Sound, Good, NotesInv
<1>2. PICK S \in Nat \ {0}, W \in Nat \ {0} : S = Span(l) /\ W = TileWidth
  BY SpanType, TileAssumption
<1>3. PICK q \in Nat : q = s \div S /\ j \in Nat /\ j < q
  BY <1>1, <1>2, DivFacts
<1>4. S <= s
  <2>1. PICK x \in Nat : s = S * q + x
    BY <1>1, <1>3, DivFacts
  <2>2. 1 * S <= q * S
    BY <1>3, TimesMonotonic
  <2> QED BY <1>1, <2>1, <2>2
<1>5. j < s \div S
  BY <1>3
<1>6. PICK n \in Nat, i \in Nat, w \in Nat \ {0} :
              /\ n = j \div W /\ i = j % W /\ i < w /\ n * W + i = j /\ w <= W
              /\ w = LET rest == (s \div S) - n * W IN IF rest >= W THEN W ELSE rest
              /\ \/ w = W /\ n \in 0..((s \div (S * W)) - 1)
                 \/ w = (s \div S) % W /\ n = s \div (S * W)
  <2>1. PICK n \in Nat, i \in Nat, w \in Nat \ {0} : Placed(s, S, W, j, n, i, w)
    BY <1>1, <1>3, <1>5, TileOf, Zenon
  <2> QED BY <2>1, Zenon DEF Placed
<1>7. w = TileWidthAt(l, n, s)
  BY <1>2, <1>6 DEF TileWidthAt
<1>8. <<l, n, w>> \in TilesRequired(s)
  <2>1. \/ w = TileWidth /\ n \in 0..((s \div (Span(l) * TileWidth)) - 1)
        \/ w = (s \div Span(l)) % TileWidth /\ n = s \div (Span(l) * TileWidth)
    BY <1>2, <1>6, Zenon
  <2>2. Span(l) <= s
    BY <1>2, <1>4
  <2> QED BY <1>1, <2>1, <2>2, TileThere
<1>9. <<l, n, w>> \in DOMAIN log.tiles
  BY <1>8 DEF Sound, Good, NotesInv
<1>10. i + 1 \in 1..w /\ n * W + (i + 1) - 1 = j
  BY <1>6
<1>11. log.tiles[<<l, n, w>>][i + 1] = H(All(disk), <<j * S, j * S + S>>)
  <2>1. PICK k \in 1..w : k = i + 1 /\ n * W + k - 1 = j
    BY <1>10
  <2>2. log.tiles[<<l, n, w>>][k]
                = H(All(disk), <<(n * TileWidth + k - 1) * Span(l),
                                    (n * TileWidth + k - 1) * Span(l) + Span(l)>>)
    BY <1>9, TileIs
  <2> QED BY <1>2, <2>1, <2>2
<1>12. TileEntry(l, j, s) = log.tiles[<<l, n, w>>][i + 1]
  BY <1>2, <1>6, <1>7 DEF TileEntry
<1> QED BY <1>2, <1>6, <1>7, <1>9, <1>11, <1>12

\* An entry of a level above the leaves is the root of the full tile below it.
LEMMA UpperEntry ==
    ASSUME Sound(log, disk), NEW s \in DOMAIN log.notes, NEW k \in Nat, k + 1 \in 0..s,
           NEW j \in 0..((s \div Span(k + 1)) - 1)
    PROVE  TileEntry(k + 1, j, s) = RootOf(log.tiles[<<k, j, TileWidth>>])
<1>1. s \in Nat /\ Size(disk) \in Nat
  BY SizeType DEF Sound, Good, NotesInv
<1>2. PICK T \in Powers, W \in Nat \ {0} : T = Span(k) /\ W = TileWidth /\ Span(k + 1) = W * T
  BY SpanPower, SpanStep, TileAssumption
<1>3. T \in Nat \ {0}
  BY PowerOf
<1>4. PICK S \in Nat \ {0} : S = T * W /\ S = Span(k + 1)
  BY <1>2, SpanType
<1>5. PICK f \in Nat : f = s \div S /\ j \in Nat /\ j < f /\ j \in 0..(f - 1)
  BY <1>1, <1>4, DivFacts
<1>6. <<k, j, W>> \in DOMAIN log.tiles
  <2>1. T <= s
    <3>1. PICK x \in Nat : s = S * f + x
      BY <1>1, <1>5, DivFacts
    <3>2. 1 * S <= f * S
      BY <1>5, TimesMonotonic
    <3>3. 1 * T <= W * T /\ W * T = T * W
      BY <1>3, TimesMonotonic
    <3>4. f * S = S * f
      OBVIOUS
    <3>5. S <= s
      <4>1. PICK y \in Nat : y = f * S /\ S <= y
        BY <1>5, <3>2
      <4>2. y = S * f
        BY <3>4, <4>1
      <4> QED BY <1>1, <3>1, <4>1, <4>2
    <3>6. T <= S
      <4>1. S = W * T
        BY <1>4, <3>3, Zenon
      <4>2. 1 * T = T
        BY <1>3
      <4>3. T <= W * T
        BY <3>3, <4>2
      <4> QED BY <4>1, <4>3, Zenon
    <3> QED BY <1>1, <1>3, <3>5, <3>6
  <2>2. k \in 0..s
    BY <1>1
  <2>3. f = s \div (Span(k) * TileWidth)
    BY <1>2, <1>4, <1>5, Zenon
  <2>4. W = TileWidth /\ j \in 0..((s \div (Span(k) * TileWidth)) - 1)
    BY <1>2, <1>5, <2>3, Zenon
  <2>5. Span(k) <= s
    BY <1>2, <2>1
  <2>6. <<k, j, W>> \in TilesRequired(s)
    BY <1>1, <1>5, <2>2, <2>4, <2>5, TileThere
  <2> QED BY <2>6 DEF Sound, Good, NotesInv
<1>7. PICK hs, ks : hs = All(disk) /\ ks = log.tiles[<<k, j, W>>]
  OBVIOUS
<1>8. PICK d \in Nat : d = j * S
  BY <1>5
<1>9. ASSUME NEW i \in 1..W PROVE ks[i] = H(hs, <<(i - 1) * T + d, i * T + d>>)
  <2>1. ks[i] = H(hs, <<(j * W + i - 1) * T, (j * W + i - 1) * T + T>>)
    BY <1>2, <1>6, <1>7, TileIs
  <2>2. (j * W + i - 1) * T = (i - 1) * T + d /\ (j * W + i - 1) * T + T = i * T + d
    BY <1>3, <1>4, <1>5, <1>8
  <2> QED BY <2>1, <2>2
<1>10. PICK Y : ks \in Seq(Y) /\ Len(ks) = W
  <2>1. PICK t : t = <<k, j, W>> /\ t \in DOMAIN log.tiles
    BY <1>6
  <2>2. ks = TileHashes(hs, t[1], t[2], t[3]) /\ t[3] = W
    BY <1>7, <2>1 DEF Sound, Good, FilesInv
  <2>3. ks = [i \in 1..W |-> ks[i]]
    BY <2>2 DEF TileHashes
  <2>4. PICK Y : Y = {ks[i] : i \in 1..W}
    OBVIOUS
  <2>5. \A i \in 1..W : ks[i] \in Y
    BY <2>4
  <2>6. ks \in [1..W -> Y] /\ W \in Nat
    BY <2>3, <2>5
  <2>7. ks \in Seq(Y) /\ Len(ks) = W
    BY <2>6
  <2> QED BY <2>7
<1>11. RootOf(ks) = H(ks, <<0, W>>)
  BY <1>10, RootHash
<1>12. PICK r \in AllRanges : r = <<0, W>> /\ r[1] = 0 /\ r[2] = W
  <2>1. 0 < W
    OBVIOUS
  <2>2. <<0, W>> \in AllRanges
    BY <2>1 DEF AllRanges
  <2> QED BY <2>2
<1>13. H(ks, r) = H(hs, <<r[1] * T + d, r[2] * T + d>>)
  <2>1. r[2] <= W /\ W \in Nat
    BY <1>12
  <2>2. \A q \in AllRanges : q[2] <= W => H(ks, q) = H(hs, <<q[1] * T + d, q[2] * T + d>>)
    <3>1. SubtreeRoots(ks, hs, T, d, W)
      BY <1>9 DEF SubtreeRoots
    <3> QED BY <2>1, <3>1, ScaledHash
  <2> QED BY <2>1, <2>2
<1>14. r[1] * T + d = j * S /\ r[2] * T + d = j * S + S
  BY <1>3, <1>4, <1>8, <1>12
<1>15. TileEntry(k + 1, j, s) = H(hs, <<j * S, j * S + S>>)
  BY <1>4, <1>7, EntryIs
<1> QED BY <1>2, <1>7, <1>11, <1>12, <1>13, <1>14, <1>15

LEMMA LeafEntry ==
    ASSUME Sound(log, disk), NEW s \in DOMAIN log.notes, NEW j \in 0..(s - 1)
    PROVE  /\ TileEntry(0, j, s) = All(disk)[j + 1]
           /\ BundleEntry(j, s) = disk.leaves[j + 1]
<1>1. s \in 1..Size(disk) /\ Size(disk) \in Nat /\ s \in Nat /\ disk.leaves \in Seq(Bodies)
  BY SizeType DEF Sound, Good, LeavesInv, NotesInv
<1>2. PICK S \in Nat \ {0}, W \in Nat \ {0} : S = 1 /\ S = Span(0) /\ W = TileWidth
  BY SpanStep, TileAssumption
<1>3. s \div S = s /\ S * W = W
  BY <1>1, <1>2
<1>4. j \in Nat /\ j < s /\ j < s \div S /\ j \in 0..((s \div S) - 1) /\ 0 \in 0..s
  BY <1>1, <1>3
<1>5. TileEntry(0, j, s) = All(disk)[j + 1]
  <2>1. TileEntry(0, j, s) = H(All(disk), <<j * S, j * S + S>>)
    BY <1>2, <1>4, EntryIs
  <2>2. PICK r \in AllRanges : r = <<j, j + 1>> /\ Width(r) = 1 /\ r[2] = j + 1
    <3>1. <<j, j + 1>> \in AllRanges /\ Width(<<j, j + 1>>) = 1
      BY <1>4 DEF AllRanges, Width
    <3> QED BY <3>1
  <2>3. j * S = j /\ j * S + S = j + 1
    BY <1>2, <1>4
  <2> QED BY <2>1, <2>2, <2>3, HashStep
<1>6. PICK n \in Nat, i \in Nat, w \in Nat \ {0} : Placed(s, S, W, j, n, i, w)
  BY <1>1, <1>4, TileOf, Zenon
<1>7. /\ n = j \div W /\ i = j % W /\ i < w /\ n * W + i = j
      /\ w = LET rest == (s \div S) - n * W IN IF rest >= W THEN W ELSE rest
      /\ \/ w = W /\ n \in 0..((s \div (S * W)) - 1)
         \/ w = (s \div S) % W /\ n = s \div (S * W)
  BY <1>6, Zenon DEF Placed
<1>8. <<n, w>> \in BundlesRequired(s)
  BY <1>2, <1>3, <1>7 DEF BundlesRequired
<1>9. PICK b : b = <<n, w>> /\ b \in DOMAIN log.bundles /\ b[1] = n /\ b[2] = w
  BY <1>8 DEF Sound, Good, NotesInv
<1>10. log.bundles[b] = SubSeq(disk.leaves, n * W + 1, n * W + w) /\ n * W + w <= Size(disk)
  BY <1>2, <1>9 DEF Sound, Good, FilesInv, Bundle
<1>11. SubSeq(disk.leaves, n * W + 1, n * W + w)[i + 1] = disk.leaves[j + 1]
  <2>1. PICK lo \in Nat, hi \in Nat : lo = n * W + 1 /\ hi = n * W + w /\ lo # 0
    OBVIOUS
  <2>2. SubSeq(disk.leaves, lo, hi) = [x \in 1..(hi - lo + 1) |-> disk.leaves[x + lo - 1]]
    BY <1>1, <2>1, SubSeqIs
  <2>3. i + 1 \in 1..(hi - lo + 1) /\ (i + 1) + lo - 1 = j + 1
    BY <1>7, <2>1
  <2> QED BY <2>1, <2>2, <2>3
<1>12. BundleEntry(j, s) = log.bundles[<<n, w>>][i + 1]
  <2>1. w = TileWidthAt(0, n, s)
    BY <1>2, <1>7 DEF TileWidthAt
  <2> QED BY <1>2, <1>7, <2>1 DEF BundleEntry
<1> QED BY <1>5, <1>9, <1>10, <1>11, <1>12

LEMMA NoteRebuilt ==
    ASSUME Sound(log, disk), NEW s \in DOMAIN log.notes
    PROVE  log.notes[s] = Note(s, RootOf([j \in 1..s |-> TileEntry(0, j - 1, s)]))
<1>1. s \in 1..Size(disk) /\ Size(disk) \in Nat /\ s \in Nat \ {0} /\ log.notes[s] = Note(s, RootAt(disk, s))
  BY SizeType DEF Sound, Good, NotesInv
<1>2. PICK hs : hs = All(disk)
  OBVIOUS
<1>3. RootAt(disk, s) = H(hs, <<0, s>>)
  BY <1>2 DEF RootAt
<1> DEFINE ks == [j \in 1..s |-> TileEntry(0, j - 1, s)]
<1>4. \A j \in 1..s : ks[j] = hs[j]
  <2>1. SUFFICES ASSUME NEW j \in 1..s PROVE TileEntry(0, j - 1, s) = hs[j]
    OBVIOUS
  <2>2. j - 1 \in 0..(s - 1) /\ (j - 1) + 1 = j
    BY <1>1
  <2> QED BY <1>2, <2>2, LeafEntry
<1>5. ks \in Seq({ks[j] : j \in 1..s}) /\ Len(ks) = s
  <2>1. ks \in [1..s -> {ks[j] : j \in 1..s}]
    OBVIOUS
  <2> HIDE DEF ks
  <2> QED BY <1>1, <2>1
<1> HIDE DEF ks
<1>6. RootOf(ks) = H(ks, <<0, s>>)
  BY <1>1, <1>5, RootHash
<1>7. PICK r \in AllRanges : r = <<0, s>> /\ r[2] <= s
  <2>1. <<0, s>> \in AllRanges /\ s <= s
    BY <1>1 DEF AllRanges
  <2> QED BY <2>1
<1>8. H(ks, r) = H(hs, r)
  BY <1>1, <1>4, <1>7, SameHash
<1> QED BY <1>1, <1>3, <1>6, <1>7, <1>8 DEF ks

\* store.py, "Never checkpoint a size whose tiles/bundles are missing": for logs of
\* any length and tiles of any width that is a power of two, what was signed can be
\* rebuilt from the files alone, over interleaved requests, crashes, the repair at start
\* and whatever calls that failed half way left on the connection.
THEOREM CheckpointsCanBeRebuilt == Spec => []CheckpointsRebuild
<1>1. Sound(log, disk) => CheckpointsRebuild
  <2>1. SUFFICES ASSUME Sound(log, disk), NEW s \in DOMAIN log.notes
                 PROVE  /\ BundlesRequired(s) \subseteq DOMAIN log.bundles
                        /\ \A l \in 0..s : \A j \in 0..((s \div Span(l)) - 1) :
                             /\ <<l, j \div TileWidth, TileWidthAt(l, j \div TileWidth, s)>> \in DOMAIN log.tiles
                             /\ IF l = 0 THEN TileEntry(0, j, s) = LeafHash(BundleEntry(j, s))
                                ELSE TileEntry(l, j, s) = RootOf(log.tiles[<<l - 1, j, TileWidth>>])
                        /\ log.notes[s] = Note(s, RootOf([j \in 1..s |-> TileEntry(0, j - 1, s)]))
    BY DEF CheckpointsRebuild
  <2>2. BundlesRequired(s) \subseteq DOMAIN log.bundles
    BY <2>1 DEF Sound, Good, NotesInv
  <2>3. s \in 1..Size(disk) /\ Size(disk) \in Nat /\ s \in Nat
    BY <2>1, SizeType DEF Sound, Good, NotesInv
  <2>4. ASSUME NEW l \in 0..s, NEW j \in 0..((s \div Span(l)) - 1)
        PROVE  /\ <<l, j \div TileWidth, TileWidthAt(l, j \div TileWidth, s)>> \in DOMAIN log.tiles
               /\ IF l = 0 THEN TileEntry(0, j, s) = LeafHash(BundleEntry(j, s))
                  ELSE TileEntry(l, j, s) = RootOf(log.tiles[<<l - 1, j, TileWidth>>])
    <3>1. <<l, j \div TileWidth, TileWidthAt(l, j \div TileWidth, s)>> \in DOMAIN log.tiles
      BY <2>1, EntryIs
    <3>2. CASE l = 0
      <4>1. s \div Span(l) = s
        BY <2>3, <3>2, SpanStep
      <4>2. j \in 0..(s - 1)
        BY <4>1
      <4>3. TileEntry(0, j, s) = All(disk)[j + 1] /\ BundleEntry(j, s) = disk.leaves[j + 1]
        BY <2>1, <4>2, LeafEntry
      <4>4. All(disk)[j + 1] = LeafHash(disk.leaves[j + 1])
        BY <2>3, <4>2 DEF All, Hashes
      <4> QED BY <3>1, <3>2, <4>3, <4>4
    <3>3. CASE l # 0
      <4>1. PICK k \in Nat : l = k + 1 /\ l - 1 = k
        BY <2>3, <3>3
      <4>2. TileEntry(l, j, s) = RootOf(log.tiles[<<k, j, TileWidth>>])
        BY <2>1, <2>4, <4>1, UpperEntry
      <4> QED BY <3>1, <3>3, <4>1, <4>2
    <3> QED BY <3>2, <3>3
  <2> QED BY <2>1, <2>2, <2>4, NoteRebuilt
<1>2. LogInv => Sound(log, disk)
  BY DEF LogInv
<1> QED BY <1>1, <1>2, LogHolds, PTL

-----------------------------------------------------------------------------
(* PROOF(m, D[n]) and the verifier.                                        *)

LEMMA DivHalf ==
    ASSUME NEW s \in Nat, NEW a \in Nat \ {0}
    PROVE  (s \div a) \div 2 = s \div (2 * a)
<1>1. PICK k \in Nat \ {0} : k = 2
  OBVIOUS
<1>2. (s \div a) \div k = s \div (a * k)
  BY DivTwice
<1> QED BY <1>1, <1>2

\* The leaves of the full tree that r is a left part of.
FullWidth(r) == IF Width(r) = 1 THEN 1 ELSE 2 * Split(Width(r))

LEMMA FullWidthIs ==
    ASSUME NEW r \in AllRanges
    PROVE  /\ FullWidth(r) \in Powers /\ FullWidth(r) \in Nat \ {0}
           /\ Width(r) <= FullWidth(r) /\ FullWidth(r) < 2 * Width(r)
           /\ Width(r) \in Powers => FullWidth(r) = Width(r)
<1>1. PICK w \in Nat \ {0} : w = Width(r)
  BY RangeFacts
<1>2. CASE w = 1
  BY <1>1, <1>2, PowerOf DEF FullWidth
<1>3. CASE w # 1
  <2>1. PICK k \in Powers : k = Split(w) /\ k < w /\ w <= 2 * k
    BY <1>3, SplitPower
  <2>2. FullWidth(r) = 2 * k /\ k \in Nat /\ 2 * k \in Powers /\ 2 * k \in Nat \ {0}
    BY <1>1, <1>3, <2>1, PowerOf DEF FullWidth
  <2>3. ASSUME w \in Powers PROVE 2 * k = w
    <3>1. 2 * k <= w
      BY <2>1, <2>3, PowerGap
    <3> QED BY <2>1, <2>2, <3>1
  <2> QED BY <1>1, <2>1, <2>2, <2>3
<1> QED BY <1>2, <1>3

\* A subtree on the way to leaf m - 1: full unless it ends the tree, and a left
\* child if it ends the old tree.
OnTheWay(r, m, n) ==
    /\ r \in Around(m, n)
    /\ \E q \in Nat : r[1] = q * FullWidth(r)
    /\ Width(r) = FullWidth(r) \/ r[2] = n
    /\ r[2] = m => Width(r) = FullWidth(r) /\ \E q \in Nat : r[1] = (2 * q) * FullWidth(r)

\* The verifier when it has been through the path of r.
Reached(hs, m, n, r) ==
    [fn |-> r[1] \div FullWidth(r), sn |-> (n - 1) \div FullWidth(r), ok |-> TRUE,
     fr |-> H(hs, <<r[1], m>>), sr |-> H(hs, r)]

LEMMA LeftStep ==
    ASSUME NEW n \in Nat, NEW m \in Nat, NEW hs, NEW r \in AllRanges,
           OnTheWay(r, m, n), m # r[2], m <= Left(r)[2]
    PROVE  /\ OnTheWay(Left(r), m, n)
           /\ VerifyStep(Reached(hs, m, n, Left(r)), H(hs, Right(r))) = Reached(hs, m, n, r)
<1>1. PICK a \in Nat, b \in Nat : a = r[1] /\ b = r[2] /\ a < b /\ Width(r) = b - a
  BY RangeFacts
<1>2. a < m /\ m < b /\ b <= n /\ Width(r) # 1
  BY <1>1 DEF OnTheWay, Around, Ranges
<1>3. PICK k \in Powers :
              /\ k = Split(Width(r)) /\ k < Width(r) /\ Width(r) <= 2 * k
              /\ Left(r) = <<r[1], r[1] + k>> /\ Right(r) = <<r[1] + k, r[2]>>
              /\ Left(r) \in AllRanges /\ Right(r) \in AllRanges
              /\ Width(Left(r)) = k /\ Width(Right(r)) = Width(r) - k
  BY <1>2, TreeHalves
<1>4. k \in Nat \ {0} /\ FullWidth(r) = 2 * k /\ FullWidth(Left(r)) = k
  BY <1>2, <1>3, PowerOf, FullWidthIs DEF FullWidth
<1>5. PICK q \in Nat : a = q * (2 * k)
  BY <1>1, <1>4 DEF OnTheWay
<1>6. PICK l \in AllRanges : l = Left(r) /\ l[1] = a /\ l[2] = a + k /\ Width(l) = k /\ FullWidth(l) = k
  BY <1>1, <1>3, <1>4
<1>7. a = (2 * q) * k /\ 2 * q \in Nat
  BY <1>4, <1>5
<1>8. OnTheWay(l, m, n)
  <2>1. l \in Around(m, n)
    <3>1. l[1] < m /\ m <= l[2] /\ l[2] <= n
      BY <1>1, <1>2, <1>3, <1>4, <1>6
    <3>2. l \in Ranges(n)
      BY <3>1, <1>6, RangeFacts
    <3> QED BY <3>1, <3>2 DEF Around
  <2> QED BY <1>6, <1>7, <2>1 DEF OnTheWay
<1>9. PICK z \in Nat, y \in Nat : z = (n - 1) \div k /\ y < k /\ n - 1 = z * k + y
  <2>1. PICK e \in Nat : e = n - 1
    BY <1>1, <1>2
  <2>2. PICK z \in Nat, y \in Nat : z = e \div k /\ y < k /\ e = k * z + y
    BY <1>4, DivFacts
  <2>3. e = z * k + y
    BY <1>4, <2>2
  <2> QED BY <2>1, <2>2, <2>3, Zenon
<1>10. 2 * q < z
  <2>1. SUFFICES ASSUME z <= 2 * q PROVE FALSE
    BY <1>7, <1>9
  <2>2. z * k <= a
    BY <1>4, <1>7, <2>1, TimesMonotonic
  <2> QED BY <1>1, <1>2, <1>3, <1>4, <1>9, <2>2
<1>11. Reached(hs, m, n, l) = [fn |-> 2 * q, sn |-> z, ok |-> TRUE, fr |-> H(hs, <<a, m>>), sr |-> H(hs, l)]
  <2>1. a \div k = 2 * q
    <3>1. a = (2 * q) * k + 0 /\ 0 < k
      BY <1>4, <1>7
    <3> QED BY <1>4, <1>7, <3>1, DivIs
  <2> QED BY <1>6, <1>9, <2>1 DEF Reached
<1>12. Reached(hs, m, n, r) = [fn |-> q, sn |-> z \div 2, ok |-> TRUE, fr |-> H(hs, <<a, m>>), sr |-> H(hs, r)]
  <2>1. a \div (2 * k) = q
    <3>1. a = q * (2 * k) + 0 /\ 0 < 2 * k /\ 2 * k \in Nat \ {0}
      BY <1>4, <1>5
    <3> QED BY <3>1, DivIs
  <2>2. (n - 1) \div (2 * k) = z \div 2
    <3>1. PICK e \in Nat : e = n - 1
      BY <1>1, <1>2
    <3>2. (e \div k) \div 2 = e \div (2 * k)
      BY <1>4, DivHalf
    <3> QED BY <1>9, <3>1, <3>2, Zenon
  <2> QED BY <1>1, <1>4, <2>1, <2>2 DEF Reached
<1>13. H(hs, r) = NodeHash(H(hs, l), H(hs, Right(r)))
  BY <1>2, <1>6, HashStep
<1>14. 2 * q \notin Odds /\ 2 * q # z /\ z # 0 /\ (2 * q) \div 2 = q
  BY <1>9, <1>10 DEF Odds
<1>15. PICK c, s : c = H(hs, Right(r)) /\ s = Reached(hs, m, n, l)
  OBVIOUS
<1>16. s.fn = 2 * q /\ s.sn = z /\ s.ok = TRUE /\ s.fr = H(hs, <<a, m>>) /\ s.sr = H(hs, l)
  BY <1>11, <1>15
<1>17. VerifyStep(s, c) = [fn |-> s.fn \div 2, sn |-> s.sn \div 2, ok |-> s.ok,
                           fr |-> s.fr, sr |-> NodeHash(s.sr, c)]
  BY <1>14, <1>16 DEF VerifyStep
<1>18. VerifyStep(s, c) = Reached(hs, m, n, r)
  BY <1>12, <1>13, <1>14, <1>15, <1>16, <1>17
<1> QED BY <1>6, <1>8, <1>15, <1>18

LEMMA RightStep ==
    ASSUME NEW n \in Nat, NEW m \in Nat, NEW hs, NEW r \in AllRanges,
           OnTheWay(r, m, n), m # r[2], ~(m <= Left(r)[2])
    PROVE  /\ OnTheWay(Right(r), m, n)
           /\ VerifyStep(Reached(hs, m, n, Right(r)), H(hs, Left(r))) = Reached(hs, m, n, r)
<1>1. PICK a \in Nat, b \in Nat : a = r[1] /\ b = r[2] /\ a < b /\ Width(r) = b - a
  BY RangeFacts
<1>2. a < m /\ m < b /\ b <= n /\ Width(r) # 1
  BY <1>1 DEF OnTheWay, Around, Ranges
<1>3. PICK k \in Powers :
              /\ k = Split(Width(r)) /\ k < Width(r) /\ Width(r) <= 2 * k
              /\ Left(r) = <<r[1], r[1] + k>> /\ Right(r) = <<r[1] + k, r[2]>>
              /\ Left(r) \in AllRanges /\ Right(r) \in AllRanges
              /\ Width(Left(r)) = k /\ Width(Right(r)) = Width(r) - k
  BY <1>2, TreeHalves
<1>4. k \in Nat \ {0} /\ FullWidth(r) = 2 * k /\ a + k < m
  BY <1>1, <1>2, <1>3, PowerOf DEF FullWidth
<1>5. PICK q \in Nat, x \in Nat : a = q * (2 * k) /\ x = 2 * q + 1
  BY <1>1, <1>4 DEF OnTheWay
<1>6. PICK u \in AllRanges : u = Right(r) /\ u[1] = a + k /\ u[2] = b /\ Width(u) = (b - a) - k
  BY <1>1, <1>3
<1>7. PICK P \in Powers : P = FullWidth(u) /\ P \in Nat \ {0} /\ Width(u) <= P /\ P < 2 * Width(u)
  BY FullWidthIs
<1>8. P <= k
  <2>1. SUFFICES ASSUME k < P PROVE FALSE
    BY <1>4, <1>7
  <2>2. 2 * k <= P
    BY <2>1, PowerGap
  <2> QED BY <1>1, <1>3, <1>4, <1>6, <1>7, <2>2
<1>9. PICK e \in Powers : k = P * e /\ e \in Nat \ {0}
  BY <1>8, PowerDivides, PowerOf
<1>10. a + k = x * k /\ x % 2 = 1 /\ x \div 2 = q
  BY <1>4, <1>5
<1>11. a + k = (x * e) * P /\ x * e \in Nat
  <2>1. (x * e) * P = x * (P * e) /\ x * e \in Nat
    BY <1>7, <1>9
  <2> QED BY <1>9, <1>10, <2>1, Zenon
<1>12. Width(u) = P \/ b = n
  <2>1. CASE b = n
    BY <2>1
  <2>2. CASE b # n
    <3>1. Width(r) = 2 * k
      BY <1>1, <1>4, <2>2 DEF OnTheWay
    <3>2. Width(u) = k
      BY <1>1, <1>4, <1>6, <3>1
    <3> QED BY <1>7, <3>2, FullWidthIs
  <2> QED BY <2>1, <2>2
<1>13. OnTheWay(u, m, n)
  <2>1. u \in Around(m, n)
    <3>1. u[1] < m /\ m <= u[2] /\ u[2] <= n
      BY <1>1, <1>2, <1>4, <1>6
    <3>2. u \in Ranges(n)
      BY <3>1, RangeFacts
    <3> QED BY <3>1, <3>2 DEF Around
  <2>2. u[2] # m
    BY <1>1, <1>2, <1>6
  <2> QED BY <1>6, <1>7, <1>11, <1>12, <2>1, <2>2 DEF OnTheWay
<1>14. PICK d \in Nat : d = n - 1 /\ a + k <= d
  BY <1>1, <1>2, <1>4
<1>15. PICK z \in Nat, y \in Nat : z = d \div P /\ y < P /\ d = P * z + y
  <2>1. PICK Q \in Nat \ {0} : Q = P
    BY <1>7
  <2>2. PICK z \in Nat, y \in Nat : z = d \div Q /\ y < Q /\ d = Q * z + y
    BY DivFacts
  <2> QED BY <2>1, <2>2, Zenon
<1>16. z # 0
  <2>1. SUFFICES ASSUME z = 0 PROVE FALSE
    OBVIOUS
  <2>2. d = y
    BY <1>7, <1>15, <2>1
  <2>3. P <= d
    BY <1>4, <1>7, <1>8, <1>14
  <2> QED BY <1>7, <1>15, <2>2, <2>3
<1>17. x * e \in Odds \/ x * e = z
  <2>1. CASE Width(u) = k
    <3>1. P = k
      BY <1>7, <2>1, FullWidthIs
    <3>2. e = 1
      <4>1. SUFFICES ASSUME e >= 2 PROVE FALSE
        BY <1>9
      <4>2. 2 * P <= e * P /\ e * P = P * e
        BY <1>7, <1>9, <4>1, TimesMonotonic
      <4> QED BY <1>7, <1>9, <3>1, <4>2
    <3>3. x * e = x
      BY <1>5, <3>2
    <3> QED BY <1>10, <3>3 DEF Odds
  <2>2. CASE Width(u) # k
    <3>1. b = n
      <4>1. SUFFICES ASSUME b # n PROVE FALSE
        OBVIOUS
      <4>2. Width(r) = 2 * k
        BY <1>1, <1>4, <4>1 DEF OnTheWay
      <4> QED BY <1>1, <1>4, <1>6, <2>2, <4>2
    <3>2. PICK y2 \in Nat : y2 = Width(u) - 1 /\ y2 < P /\ d = (a + k) + y2
      BY <1>1, <1>3, <1>4, <1>6, <1>7, <1>14, <3>1
    <3>3. PICK v \in Nat : v = x * e /\ d = v * P + y2
      BY <1>11, <3>2
    <3>4. d \div P = v
      BY <1>7, <3>2, <3>3, DivIs
    <3> QED BY <1>15, <3>3, <3>4
  <2> QED BY <2>1, <2>2
<1>18. PastZeros(x * e, z) = <<x, d \div k>>
  <2>1. PastZeros(x * e, z) = <<x, z \div e>>
    BY <1>10, ZerosLifted
  <2>2. (d \div P) \div e = d \div (P * e)
    <3>1. d \in Nat /\ P \in Nat \ {0} /\ e \in Nat \ {0}
      BY <1>7, <1>9
    <3> QED BY ONLY <3>1, <1>7, <1>9, DivTwice
  <2> QED BY <1>9, <1>15, <2>1, <2>2, Zenon
<1>19. Reached(hs, m, n, u) = [fn |-> x * e, sn |-> z, ok |-> TRUE, fr |-> H(hs, <<a + k, m>>), sr |-> H(hs, u)]
  <2>1. (a + k) \div P = x * e
    <3>1. PICK v \in Nat : v = x * e /\ a + k = v * P + 0 /\ 0 < P
      BY <1>7, <1>11
    <3>2. PICK w \in Nat : w = a + k
      BY <1>4
    <3>3. w \div P = v
      BY <1>7, <3>1, <3>2, DivIs
    <3> QED BY <3>1, <3>2, <3>3
  <2> QED BY <1>6, <1>7, <1>14, <1>15, <2>1 DEF Reached
<1>20. Reached(hs, m, n, r) = [fn |-> q, sn |-> (d \div k) \div 2, ok |-> TRUE, fr |-> H(hs, <<a, m>>), sr |-> H(hs, r)]
  <2>1. a \div (2 * k) = q
    <3>1. a = q * (2 * k) + 0 /\ 0 < 2 * k /\ 2 * k \in Nat \ {0}
      BY <1>4, <1>5
    <3> QED BY <3>1, DivIs
  <2>2. (d \div k) \div 2 = d \div (2 * k)
    BY <1>4, DivHalf
  <2> QED BY <1>1, <1>4, <1>14, <2>1, <2>2 DEF Reached
<1>21. H(hs, r) = NodeHash(H(hs, Left(r)), H(hs, u))
  BY <1>2, <1>6, HashStep
<1>22. H(hs, <<a, m>>) = NodeHash(H(hs, Left(r)), H(hs, <<a + k, m>>))
  <2>0. PICK p : p = <<a, m>>
    OBVIOUS
  <2>1. p = <<a, m>> /\ p[1] = a /\ p[2] = m
    BY <2>0
  <2>2. p \in AllRanges /\ Width(p) = m - a
    BY <1>2, <2>1 DEF AllRanges, Width
  <2>3. PICK w \in Nat : w = m - a /\ k < w /\ w <= 2 * k /\ w # 1
    BY <1>1, <1>2, <1>3, <1>4
  <2>4. Split(w) = k
    BY <2>3, SplitUnique
  <2>5. Left(p) = Left(r) /\ Right(p) = <<a + k, m>>
    BY <1>1, <1>3, <2>1, <2>2, <2>3, <2>4 DEF Left, Right
  <2> QED BY <2>1, <2>2, <2>3, <2>5, HashStep
<1>23. PICK c, s : c = H(hs, Left(r)) /\ s = Reached(hs, m, n, u)
  OBVIOUS
<1>24. s.fn = x * e /\ s.sn = z /\ s.ok = TRUE /\ s.fr = H(hs, <<a + k, m>>) /\ s.sr = H(hs, u)
  BY <1>19, <1>23
<1>25. PICK p : p = PastZeros(s.fn, s.sn) /\ p[1] = x /\ p[2] = d \div k
  BY <1>18, <1>24
<1>26. VerifyStep(s, c) = [fn |-> p[1] \div 2, sn |-> p[2] \div 2, ok |-> s.ok,
                           fr |-> NodeHash(c, s.fr), sr |-> NodeHash(c, s.sr)]
  BY <1>16, <1>17, <1>24, <1>25 DEF VerifyStep
<1>27. VerifyStep(s, c) = Reached(hs, m, n, r)
  BY <1>10, <1>20, <1>21, <1>22, <1>23, <1>24, <1>25, <1>26
<1> QED BY <1>6, <1>13, <1>23, <1>27

\* The loop starts at the subtree that ends the old tree: nothing of the path is
\* used when that is the old tree itself.
LEMMA WayStart ==
    ASSUME NEW n \in Nat, NEW m \in Nat, NEW hs, NEW r \in AllRanges, OnTheWay(r, m, n), m = r[2],
           NEW root, root = H(hs, <<0, m>>), NEW path, r[1] # 0 => path[1] = H(hs, r)
    PROVE  /\ VerifyStart(m, n, root, path) = Reached(hs, m, n, r)
           /\ Reached(hs, m, n, r).fn \in Nat
           /\ Reached(hs, m, n, r).fn > 0 <=> r[1] # 0
<1>1. PICK a \in Nat : a = r[1] /\ r = <<a, m>> /\ a < m /\ Width(r) = m - a
  BY RangeFacts
<1>2. m <= n
  BY <1>1 DEF OnTheWay, Around, Ranges
<1>3. PICK P \in Powers : P = FullWidth(r) /\ P \in Nat \ {0} /\ Width(r) = P
  BY FullWidthIs DEF OnTheWay
<1>4. PICK q \in Nat, x \in Nat : x = 2 * q /\ a = x * P
  <2>1. PICK q \in Nat : r[1] = (2 * q) * FullWidth(r)
    BY DEF OnTheWay
  <2> QED BY <1>1, <1>3, <2>1
<1>5. x % 2 = 0
  BY <1>4
<1>6. PICK c \in Nat, d \in Nat : c = m - 1 /\ d = n - 1
  BY <1>1, <1>2
<1>7. c = x * P + (P - 1)
  BY <1>1, <1>3, <1>4, <1>6
<1>8. PastOnes(c, d) = <<x, d \div P>>
  BY <1>5, <1>7, OnesLifted
<1>9. a \div P = x
  <2>1. a = x * P + 0 /\ 0 < P
    BY <1>3, <1>4
  <2> QED BY <1>3, <2>1, DivIs
<1>10. x > 0 <=> a # 0
  <2>1. CASE x = 0
    BY <1>3, <1>4, <2>1
  <2>2. CASE x # 0
    <3>1. 1 * P <= x * P
      BY <1>3, <2>2, TimesMonotonic
    <3> QED BY <1>3, <1>4, <2>2, <3>1
  <2> QED BY <2>1, <2>2
<1>11. Reached(hs, m, n, r) = [fn |-> x, sn |-> d \div P, ok |-> TRUE, fr |-> H(hs, r), sr |-> H(hs, r)]
  BY <1>1, <1>3, <1>6, <1>9 DEF Reached
<1>12. (IF x > 0 THEN path[1] ELSE root) = H(hs, r)
  BY <1>1, <1>10
<1>13. PICK p : p = PastOnes(m - 1, n - 1) /\ p[1] = x /\ p[2] = d \div P
  BY <1>6, <1>8
<1>14. VerifyStart(m, n, root, path)
         = [fn |-> x, sn |-> d \div P, ok |-> TRUE, fr |-> H(hs, r), sr |-> H(hs, r)]
  BY <1>12, <1>13 DEF VerifyStart
<1>15. Reached(hs, m, n, r).fn = x
  BY <1>11
<1> QED BY <1>1, <1>10, <1>11, <1>14, <1>15

ProofBody(g, m, r) ==
    IF m = r[2] THEN (IF r[1] = 0 THEN << >> ELSE <<r>>)
    ELSE IF m <= Left(r)[2] THEN Append(g[Left(r)], Right(r))
    ELSE Append(g[Right(r)], Left(r))
IsProof(g, m, n) == g = [r \in Around(m, n) |-> ProofBody(g, m, r)]

LEMMA AroundHalf ==
    ASSUME NEW n \in Nat, NEW m \in Nat, NEW r \in Around(m, n), m # r[2]
    PROVE  /\ r \in AllRanges /\ Width(r) # 1
           /\ Left(r) \in Ranges(n) /\ Right(r) \in Ranges(n)
           /\ m <= Left(r)[2] => Left(r) \in Around(m, n)
           /\ ~(m <= Left(r)[2]) => Right(r) \in Around(m, n)
<1>1. r \in Ranges(n) /\ r[1] < m /\ m <= r[2]
  BY DEF Around
<1>2. r \in AllRanges /\ r[1] \in Nat /\ r[2] \in Nat /\ Width(r) = r[2] - r[1]
  BY <1>1, RangesAre, RangeFacts
<1>3. Width(r) # 1
  BY <1>1, <1>2
<1>4. Left(r) \in Ranges(n) /\ Right(r) \in Ranges(n)
  BY <1>1, <1>3, Halves
<1>5. PICK k \in Nat : Left(r) = <<r[1], k>> /\ Right(r) = <<k, r[2]>>
  <2>1. PICK k \in Powers : Left(r) = <<r[1], r[1] + k>> /\ Right(r) = <<r[1] + k, r[2]>>
    BY <1>2, <1>3, TreeHalves
  <2>2. r[1] + k \in Nat
    BY <1>2, PowerOf
  <2> QED BY <2>1, <2>2
<1>6. ASSUME m <= Left(r)[2] PROVE Left(r) \in Around(m, n)
  BY <1>1, <1>4, <1>5, <1>6 DEF Around
<1>7. ASSUME ~(m <= Left(r)[2]) PROVE Right(r) \in Around(m, n)
  <2>1. k < m
    BY <1>5, <1>7
  <2> QED BY <1>1, <1>4, <1>5, <2>1 DEF Around
<1> QED BY <1>2, <1>3, <1>4, <1>6, <1>7

\* The recursion of PROOF ends.
LEMMA ProofExists == ASSUME NEW n \in Nat, NEW m \in Nat PROVE \E g : IsProof(g, m, n)
<1> DEFINE D(w) == {q \in Around(m, n) : Width(q) <= w}
           Has(w) == \E g : g = [q \in D(w) |-> ProofBody(g, m, q)]
           T == {w \in Nat : Has(w)}
<1>1. 0 \in T
  <2>1. D(0) = {}
    BY DEF Around, Ranges, Width
  <2> DEFINE g == [q \in {} |-> 0]
  <2>2. g = [q \in D(0) |-> ProofBody(g, m, q)]
    BY <2>1
  <2> QED BY <2>2
<1>2. ASSUME NEW w \in T PROVE w + 1 \in T
  <2>1. PICK g : g = [q \in D(w) |-> ProofBody(g, m, q)]
    OBVIOUS
  <2> DEFINE h == [q \in D(w + 1) |-> ProofBody(g, m, q)]
  <2>2. ASSUME NEW q \in D(w + 1) PROVE ProofBody(h, m, q) = ProofBody(g, m, q)
    <3>1. CASE m # q[2]
      <4>1. /\ q \in Ranges(n) /\ Width(q) # 1
            /\ m <= Left(q)[2] => Left(q) \in Around(m, n)
            /\ ~(m <= Left(q)[2]) => Right(q) \in Around(m, n)
        BY <3>1, AroundHalf DEF Around
      <4>2. /\ Left(q) \in Ranges(n) /\ Right(q) \in Ranges(n) /\ Width(q) \in Nat
            /\ Width(Left(q)) < Width(q) /\ Width(Right(q)) < Width(q)
        BY <4>1, Halves
      <4>3. /\ Width(Left(q)) \in Nat /\ Width(Right(q)) \in Nat
        BY <4>2 DEF Ranges, Width
      <4>4. Width(Left(q)) <= w /\ Width(Right(q)) <= w
            /\ Width(Left(q)) <= w + 1 /\ Width(Right(q)) <= w + 1
        BY <4>2, <4>3
      <4>5. CASE m <= Left(q)[2]
        <5>1. Left(q) \in D(w) /\ Left(q) \in D(w + 1)
          BY <4>1, <4>4, <4>5
        <5>2. h[Left(q)] = g[Left(q)]
          BY <2>1, <5>1
        <5> HIDE DEF h
        <5> QED BY <3>1, <4>5, <5>2 DEF ProofBody
      <4>6. CASE ~(m <= Left(q)[2])
        <5>1. Right(q) \in D(w) /\ Right(q) \in D(w + 1)
          BY <4>1, <4>4, <4>6
        <5>2. h[Right(q)] = g[Right(q)]
          BY <2>1, <5>1
        <5> HIDE DEF h
        <5> QED BY <3>1, <4>6, <5>2 DEF ProofBody
      <4> QED BY <4>5, <4>6
    <3>2. CASE m = q[2]
      BY <3>2 DEF ProofBody
    <3> QED BY <3>1, <3>2
  <2>3. h = [q \in D(w + 1) |-> ProofBody(h, m, q)]
    BY <2>2
  <2>4. Has(w + 1)
    BY <2>3
  <2> HIDE DEF Has
  <2> QED BY <2>4
<1>3. Has(n)
  <2> HIDE DEF Has
  <2>1. T = Nat
    <3> HIDE DEF T
    <3> QED BY <1>1, <1>2, AllNumbers DEF T
  <2> QED BY <2>1
<1>4. D(n) = Around(m, n)
  BY DEF Around, Ranges, Width
<1> QED BY <1>3, <1>4 DEF IsProof

LEMMA ProofType ==
    ASSUME NEW n \in Nat, NEW m \in Nat, NEW g, IsProof(g, m, n)
    PROVE  \A r \in Around(m, n) : g[r] = ProofBody(g, m, r) /\ g[r] \in Seq(Ranges(n))
<1> DEFINE S == {r \in AllRanges : r \in Around(m, n) => g[r] \in Seq(Ranges(n))}
<1>1. \A r \in Around(m, n) : g[r] = ProofBody(g, m, r)
  BY DEF IsProof
<1>2. ASSUME NEW r \in AllRanges, r \in Around(m, n), m = r[2] PROVE g[r] \in Seq(Ranges(n))
  <2>1. PICK X : X = Ranges(n) /\ r \in X
    BY <1>2 DEF Around
  <2>2. << >> \in Seq(X) /\ <<r>> \in Seq(X)
    BY <2>1
  <2>3. g[r] = << >> \/ g[r] = <<r>>
    BY <1>1, <1>2 DEF ProofBody
  <2> QED BY <2>1, <2>2, <2>3
<1>3. ASSUME NEW r \in AllRanges, Width(r) = 1 PROVE r \in S
  <2>1. SUFFICES ASSUME r \in Around(m, n) PROVE g[r] \in Seq(Ranges(n))
    OBVIOUS
  <2>2. m = r[2]
    BY <1>3, <2>1, AroundHalf
  <2> QED BY <1>2, <2>1, <2>2
<1>4. ASSUME NEW r \in AllRanges, Width(r) # 1, Left(r) \in S, Right(r) \in S PROVE r \in S
  <2>1. SUFFICES ASSUME r \in Around(m, n), m # r[2] PROVE g[r] \in Seq(Ranges(n))
    BY <1>2
  <2>2. /\ Left(r) \in Ranges(n) /\ Right(r) \in Ranges(n)
        /\ m <= Left(r)[2] => Left(r) \in Around(m, n)
        /\ ~(m <= Left(r)[2]) => Right(r) \in Around(m, n)
    BY <2>1, AroundHalf
  <2>3. /\ m <= Left(r)[2] => g[r] = Append(g[Left(r)], Right(r))
        /\ ~(m <= Left(r)[2]) => g[r] = Append(g[Right(r)], Left(r))
    BY <1>1, <2>1 DEF ProofBody
  <2>4. /\ m <= Left(r)[2] => g[Left(r)] \in Seq(Ranges(n))
        /\ ~(m <= Left(r)[2]) => g[Right(r)] \in Seq(Ranges(n))
    BY <1>4, <2>2
  <2> QED BY <2>2, <2>3, <2>4, AppendProperties
<1> HIDE DEF S
<1>5. AllRanges \subseteq S
  BY <1>3, <1>4, TreeInduction
<1>6. \A r \in Around(m, n) : r \in AllRanges
  BY RangesAre DEF Around
<1> QED BY <1>1, <1>5, <1>6 DEF S

\* The loop of the verifier, over a path.
RunBody(g, start, path, skip, k) == IF k = skip THEN start ELSE VerifyStep(g[k - 1], path[k])
IsRun(g, start, path, skip, N) == g = [k \in skip..N |-> RunBody(g, start, path, skip, k)]

LEMMA RunExists ==
    ASSUME NEW start, NEW path, NEW skip \in Nat, NEW N \in Nat
    PROVE  \E g : IsRun(g, start, path, skip, N)
<1> DEFINE T == {w \in Nat : \E g : IsRun(g, start, path, skip, w)}
<1>1. 0 \in T
  <2> DEFINE g == [k \in skip..0 |-> start]
  <2>1. \A k \in skip..0 : k = skip
    OBVIOUS
  <2>2. g = [k \in skip..0 |-> RunBody(g, start, path, skip, k)]
    BY <2>1 DEF RunBody
  <2>3. IsRun(g, start, path, skip, 0)
    BY <2>2 DEF IsRun
  <2> QED BY <2>3
<1>2. ASSUME NEW w \in T PROVE w + 1 \in T
  <2>1. PICK g : g = [k \in skip..w |-> RunBody(g, start, path, skip, k)]
    BY DEF IsRun
  <2> DEFINE h == [k \in skip..(w + 1) |-> RunBody(g, start, path, skip, k)]
  <2>2. ASSUME NEW k \in skip..(w + 1)
        PROVE  RunBody(h, start, path, skip, k) = RunBody(g, start, path, skip, k)
    <3>1. CASE k = skip
      BY <3>1 DEF RunBody
    <3>2. CASE k # skip
      <4>1. k - 1 \in skip..w /\ k - 1 \in skip..(w + 1)
        BY <3>2
      <4>2. h[k - 1] = g[k - 1]
        BY <2>1, <4>1
      <4> HIDE DEF h
      <4> QED BY <4>2 DEF RunBody
    <3> QED BY <3>1, <3>2
  <2>3. h = [k \in skip..(w + 1) |-> RunBody(h, start, path, skip, k)]
    BY <2>2
  <2>4. IsRun(h, start, path, skip, w + 1)
    BY <2>3 DEF IsRun
  <2> QED BY <2>4
<1>3. T = Nat
  <2> HIDE DEF T
  <2> QED BY <1>1, <1>2, AllNumbers DEF T
<1> QED BY <1>3

\* The hashes a proof of consistency holds.
TruePath(hs, m, n) ==
  LET rs == ConsistencyRanges(m, n) IN [i \in DOMAIN rs |-> H(hs, rs[i])]

\* The run over the path of the whole tree is, at the length of the path of any
\* subtree on the way, at the roots of that subtree.
LEMMA WayFollowed ==
    ASSUME NEW n \in Nat, NEW m \in 1..(n - 1), NEW hs, NEW g, IsProof(g, m, n),
           NEW rs \in Seq(Ranges(n)), rs = g[<<0, n>>],
           NEW path, IsPath(path, hs, rs),
           NEW start, start = VerifyStart(m, n, H(hs, <<0, m>>), path),
           NEW skip \in Nat, skip = (IF start.fn > 0 THEN 1 ELSE 0),
           NEW run, IsRun(run, start, path, skip, Len(rs)),
           NEW z \in AllRanges, OnTheWay(z, m, n), z = <<0, n>>
    PROVE  skip <= Len(rs) /\ run[Len(rs)] = Reached(hs, m, n, z)
<1> DEFINE S == {r \in AllRanges : OnTheWay(r, m, n) /\ Pre(g[r], rs) =>
                   skip <= Len(g[r]) /\ run[Len(g[r])] = Reached(hs, m, n, r)}
<1>0. m \in Nat
  OBVIOUS
<1>1. \A r \in Around(m, n) : g[r] = ProofBody(g, m, r) /\ g[r] \in Seq(Ranges(n))
  BY <1>0, ProofType
<1>2. ASSUME NEW r \in AllRanges, m = r[2] PROVE r \in S
  <2>1. SUFFICES ASSUME OnTheWay(r, m, n), Pre(g[r], rs)
                 PROVE  skip <= Len(g[r]) /\ run[Len(g[r])] = Reached(hs, m, n, r)
    OBVIOUS
  <2>2. g[r] = IF r[1] = 0 THEN << >> ELSE <<r>>
    BY <1>1, <1>2, <2>1 DEF OnTheWay, ProofBody
  <2>3. Len(g[r]) = (IF r[1] = 0 THEN 0 ELSE 1) /\ Len(g[r]) <= Len(rs)
    BY <2>1, <2>2 DEF Pre
  <2>4. ASSUME r[1] # 0 PROVE path[1] = H(hs, r)
    <3>1. PICK s : s = g[r] /\ Len(s) = 1 /\ s[1] = r
      <4>1. Len(<<r>>) = 1 /\ <<r>>[1] = r
        OBVIOUS
      <4>2. g[r] = <<r>>
        BY <2>2, <2>4
      <4> QED BY <4>1, <4>2
    <3>2. Pre(s, rs)
      BY <2>1, <3>1
    <3>3. 1 <= Len(rs) /\ rs[1] = r
      BY <3>1, <3>2 DEF Pre
    <3> QED BY <3>3 DEF IsPath
  <2>5. /\ start = Reached(hs, m, n, r)
        /\ Reached(hs, m, n, r).fn > 0 <=> r[1] # 0
    <3>1. PICK root : root = H(hs, <<0, m>>) /\ start = VerifyStart(m, n, root, path)
      OBVIOUS
    <3>2. r[1] # 0 => path[1] = H(hs, r)
      BY <2>4
    <3>3. VerifyStart(m, n, root, path) = Reached(hs, m, n, r)
          /\ (Reached(hs, m, n, r).fn > 0 <=> r[1] # 0)
      BY ONLY n \in Nat, <1>0, <1>2, <2>1, <3>1, <3>2, WayStart
    <3> QED BY <3>1, <3>3
  <2>6. skip = Len(g[r])
    BY <2>3, <2>5
  <2>7. run[skip] = start
    <3>1. skip \in skip..Len(rs)
      BY <2>3, <2>6
    <3> QED BY <3>1 DEF IsRun, RunBody
  <2> QED BY <2>5, <2>6, <2>7
<1>3. ASSUME NEW r \in AllRanges, Width(r) = 1 PROVE r \in S
  <2>1. SUFFICES ASSUME OnTheWay(r, m, n) PROVE r \in S
    OBVIOUS
  <2>2. m = r[2]
    BY <1>0, <1>3, <2>1, AroundHalf DEF OnTheWay
  <2> QED BY <1>2, <2>2
<1>4. \A k \in Nat : skip <= k /\ k + 1 <= Len(rs) =>
                      run[k + 1] = VerifyStep(run[k], path[k + 1])
  <2>1. SUFFICES ASSUME NEW k \in Nat, skip <= k, k + 1 <= Len(rs)
                 PROVE  run[k + 1] = VerifyStep(run[k], path[k + 1])
    OBVIOUS
  <2>2. k + 1 \in skip..Len(rs) /\ k + 1 # skip /\ (k + 1) - 1 = k
    BY <2>1
  <2>3. run[k + 1] = RunBody(run, start, path, skip, k + 1)
    BY <2>2 DEF IsRun
  <2> QED BY <2>2, <2>3 DEF RunBody
<1>5. ASSUME NEW r \in AllRanges, Width(r) # 1, Left(r) \in S, Right(r) \in S PROVE r \in S
  <2>1. SUFFICES ASSUME OnTheWay(r, m, n), Pre(g[r], rs), m # r[2]
                 PROVE  skip <= Len(g[r]) /\ run[Len(g[r])] = Reached(hs, m, n, r)
    BY <1>2
  <2>2. r \in Around(m, n)
    BY <2>1 DEF OnTheWay
  <2>3. PICK X : X = Ranges(n)
    OBVIOUS
  <2>4. Left(r) \in X /\ Right(r) \in X /\ Left(r) \in AllRanges /\ Right(r) \in AllRanges
    BY <1>0, <2>1, <2>2, <2>3, AroundHalf, RangesAre
  <2>5. CASE m <= Left(r)[2]
    <3>1. PICK s \in Seq(X), c \in X :
            s = g[Left(r)] /\ c = Right(r) /\ g[r] = Append(s, c)
      BY <1>0, <1>1, <2>1, <2>2, <2>3, <2>4, <2>5, AroundHalf DEF ProofBody
    <3>2. /\ Pre(s, rs) /\ Len(g[r]) = Len(s) + 1
          /\ skip <= Len(s) => run[Len(s) + 1] = VerifyStep(run[Len(s)], H(hs, c))
      <4>1. PICK t : t = g[r] /\ t = Append(s, c) /\ Pre(t, rs)
        BY <2>1, <3>1
      <4>2. Longer(t, s, c)
        BY <4>1, AppendProperties DEF Longer
      <4>3. PICK k \in Nat, N \in Nat : k = Len(s) /\ N = Len(rs) /\ DOMAIN rs = 1..N
        OBVIOUS
      <4>4. Pre(s, rs) /\ Len(t) = k + 1 /\ k + 1 <= N /\ rs[k + 1] = c
        BY ONLY <4>1, <4>2, <4>3, OneMore
      <4>5. path[k + 1] = H(hs, c)
        BY <4>3, <4>4 DEF IsPath
      <4>6. skip <= k => run[k + 1] = VerifyStep(run[k], path[k + 1])
        BY <1>4, <4>3, <4>4
      <4> QED BY <4>1, <4>3, <4>4, <4>5, <4>6
    <3>3. /\ OnTheWay(Left(r), m, n)
          /\ VerifyStep(Reached(hs, m, n, Left(r)), H(hs, Right(r))) = Reached(hs, m, n, r)
      BY <1>0, <2>1, <2>5, LeftStep
    <3>4. skip <= Len(s) /\ run[Len(s)] = Reached(hs, m, n, Left(r))
      BY <1>5, <3>1, <3>2, <3>3
    <3> QED BY <3>1, <3>2, <3>3, <3>4
  <2>6. CASE ~(m <= Left(r)[2])
    <3>1. PICK s \in Seq(X), c \in X :
            s = g[Right(r)] /\ c = Left(r) /\ g[r] = Append(s, c)
      BY <1>0, <1>1, <2>1, <2>2, <2>3, <2>4, <2>6, AroundHalf DEF ProofBody
    <3>2. /\ Pre(s, rs) /\ Len(g[r]) = Len(s) + 1
          /\ skip <= Len(s) => run[Len(s) + 1] = VerifyStep(run[Len(s)], H(hs, c))
      <4>1. PICK t : t = g[r] /\ t = Append(s, c) /\ Pre(t, rs)
        BY <2>1, <3>1
      <4>2. Longer(t, s, c)
        BY <4>1, AppendProperties DEF Longer
      <4>3. PICK k \in Nat, N \in Nat : k = Len(s) /\ N = Len(rs) /\ DOMAIN rs = 1..N
        OBVIOUS
      <4>4. Pre(s, rs) /\ Len(t) = k + 1 /\ k + 1 <= N /\ rs[k + 1] = c
        BY ONLY <4>1, <4>2, <4>3, OneMore
      <4>5. path[k + 1] = H(hs, c)
        BY <4>3, <4>4 DEF IsPath
      <4>6. skip <= k => run[k + 1] = VerifyStep(run[k], path[k + 1])
        BY <1>4, <4>3, <4>4
      <4> QED BY <4>1, <4>3, <4>4, <4>5, <4>6
    <3>3. /\ OnTheWay(Right(r), m, n)
          /\ VerifyStep(Reached(hs, m, n, Right(r)), H(hs, Left(r))) = Reached(hs, m, n, r)
      BY <1>0, <2>1, <2>6, RightStep
    <3>4. skip <= Len(s) /\ run[Len(s)] = Reached(hs, m, n, Right(r))
      BY <1>5, <3>1, <3>2, <3>3
    <3> QED BY <3>1, <3>2, <3>3, <3>4
  <2> QED BY <2>5, <2>6
<1> HIDE DEF S
<1>6. AllRanges \subseteq S
  BY <1>3, <1>5, TreeInduction
<1>7. Pre(rs, rs)
  BY DEF Pre
<1> QED BY <1>6, <1>7 DEF S

\* The proof of consistency made from true hashes is accepted.
LEMMA ConsistencyVerifies ==
    ASSUME NEW n \in Nat \ {0}, NEW m \in 0..n, NEW hs, NEW root,
           m # 0 => root = H(hs, <<0, m>>)
    PROVE  VerifyConsistency(m, n, root, H(hs, <<0, n>>), TruePath(hs, m, n))
<1> DEFINE g == CHOOSE v : IsProof(v, m, n)
<1>1. IsProof(g, m, n)
  BY ProofExists
<1>2. ConsistencyRanges(m, n) = IF m = 0 THEN << >> ELSE g[<<0, n>>]
  BY DEF ConsistencyRanges, IsProof, ProofBody
<1> HIDE DEF g
<1>3. PICK z : z = <<0, n>>
  OBVIOUS
<1>4. z[1] = 0 /\ z[2] = n /\ z \in Ranges(n) /\ z \in AllRanges /\ Width(z) = n
  BY <1>3 DEF Ranges, AllRanges, Width
<1>5. CASE m = 0
  <2>1. TruePath(hs, m, n) = << >>
    BY <1>2, <1>5 DEF TruePath
  <2> QED BY <1>5, <2>1 DEF VerifyConsistency
<1>6. CASE m = n
  <2>1. z \in Around(m, n)
    BY <1>4, <1>6 DEF Around
  <2>2. g[z] = << >>
    BY <1>1, <1>4, <1>6, <2>1 DEF IsProof, ProofBody
  <2>3. TruePath(hs, m, n) = << >>
    BY <1>2, <1>3, <2>2 DEF TruePath
  <2> QED BY <1>6, <2>3 DEF VerifyConsistency
<1>7. CASE m # 0 /\ m # n
  <2>0. m \in Nat /\ m \in 1..(n - 1) /\ m < n
    BY <1>7
  <2>1. z \in Around(m, n)
    BY <1>4, <2>0 DEF Around
  <2>2. PICK rs \in Seq(Ranges(n)) : rs = g[z] /\ rs = ConsistencyRanges(m, n)
    BY <1>1, <1>2, <1>3, <1>7, <2>0, <2>1, ProofType
  <2>3. PICK path : path = [i \in DOMAIN rs |-> H(hs, rs[i])] /\ path = TruePath(hs, m, n)
    BY <2>2 DEF TruePath
  <2>4. Len(path) = Len(rs) /\ Len(rs) \in Nat
    BY <2>3
  <2>5. rs # << >> /\ path # << >>
    <3>2. PICK s \in Seq(Ranges(n)), c \in Ranges(n) : rs = Append(s, c)
      <4>1. PICK X : X = Ranges(n)
        OBVIOUS
      <4>2. /\ Left(z) \in X /\ Right(z) \in X
            /\ m <= Left(z)[2] => Left(z) \in Around(m, n)
            /\ ~(m <= Left(z)[2]) => Right(z) \in Around(m, n)
        BY <1>4, <2>0, <2>1, <4>1, AroundHalf
      <4>3. \A r \in Around(m, n) : g[r] = ProofBody(g, m, r) /\ g[r] \in Seq(X)
        BY <1>1, <2>0, <4>1, ProofType
      <4>4. rs = IF m <= Left(z)[2] THEN Append(g[Left(z)], Right(z))
                                    ELSE Append(g[Right(z)], Left(z))
        BY <1>4, <1>7, <2>1, <2>2, <4>3 DEF ProofBody
      <4>5. CASE m <= Left(z)[2]
        BY <4>1, <4>2, <4>3, <4>4, <4>5
      <4>6. CASE ~(m <= Left(z)[2])
        BY <4>1, <4>2, <4>3, <4>4, <4>6
      <4> QED BY <4>5, <4>6
    <3>3. Len(rs) # 0
      BY <3>2, AppendProperties
    <3> QED BY <2>4, <3>3
  <2>6. PICK P \in Nat \ {0} : P = FullWidth(z) /\ n <= P
    BY <1>4, FullWidthIs
  <2>7. OnTheWay(z, m, n)
    <3>1. z[1] = 0 * FullWidth(z)
      BY <1>4, <2>6
    <3> QED BY <1>4, <2>0, <2>1, <3>1 DEF OnTheWay
  <2>8. Reached(hs, m, n, z)
          = [fn |-> 0, sn |-> 0, ok |-> TRUE, fr |-> H(hs, <<0, m>>), sr |-> H(hs, z)]
    <3>1. 0 \div P = 0
      <4>1. 0 = 0 * P + 0 /\ 0 < P
        BY <2>6
      <4> QED BY <2>6, <4>1, DivIs
    <3>2. (n - 1) \div P = 0
      <4>1. PICK e \in Nat : e = n - 1 /\ e = 0 * P + e /\ e < P
        BY <2>6
      <4>2. e \div P = 0
        BY <2>6, <4>1, DivIs
      <4> QED BY <4>1, <4>2
    <3> QED BY <1>4, <2>6, <3>1, <3>2 DEF Reached
  <2>9. PICK start : start = VerifyStart(m, n, root, path)
    OBVIOUS
  <2>10. PICK skip \in Nat : skip = IF start.fn > 0 THEN 1 ELSE 0
    OBVIOUS
  <2> DEFINE run == CHOOSE v : IsRun(v, start, path, skip, Len(path))
  <2>11. IsRun(run, start, path, skip, Len(path))
    BY <2>4, RunExists
  <2>12. VerifyEnd(start, path) = run[Len(path)]
    BY <2>10 DEF VerifyEnd, IsRun, RunBody
  <2> HIDE DEF run
  <2>13. run[Len(rs)] = Reached(hs, m, n, z)
    <3>1. start = VerifyStart(m, n, H(hs, <<0, m>>), path)
      BY <1>7, <2>9
    <3>2. IsPath(path, hs, rs)
      BY <2>3 DEF IsPath
    <3>3. IsRun(run, start, path, skip, Len(rs))
      BY <2>4, <2>11
    <3>4. rs = g[<<0, n>>]
      BY <1>3, <2>2
    <3>5. n \in Nat
      OBVIOUS
    <3> QED BY ONLY <1>1, <1>3, <1>4, <2>0, <2>2, <2>7, <2>10, <3>1, <3>2, <3>3, <3>4, <3>5,
                    WayFollowed
  <2>14. PICK end : end = VerifyEnd(start, path) /\ end.ok = TRUE /\ end.fr = root
                    /\ end.sr = H(hs, z) /\ end.sn = 0
    BY <1>7, <2>4, <2>8, <2>12, <2>13
  <2> QED BY <1>3, <1>7, <2>0, <2>3, <2>5, <2>9, <2>14 DEF VerifyConsistency
<1> QED BY <1>5, <1>6, <1>7

-----------------------------------------------------------------------------
(* The checkpoints and the frozen jobs, one after the other.               *)

LEMMA ProofRanges ==
    ASSUME NEW n \in Nat, NEW m \in 0..n
    PROVE  /\ DOMAIN ConsistencyRanges(m, n) = 1..Len(ConsistencyRanges(m, n))
           /\ \A i \in DOMAIN ConsistencyRanges(m, n) :
                 ConsistencyRanges(m, n)[i] \in AllRanges /\ ConsistencyRanges(m, n)[i][2] <= n
<1> DEFINE g == CHOOSE v : IsProof(v, m, n)
<1>1. IsProof(g, m, n)
  BY ProofExists
<1>2. ConsistencyRanges(m, n) = IF m = 0 THEN << >> ELSE g[<<0, n>>]
  BY DEF ConsistencyRanges, IsProof, ProofBody
<1> HIDE DEF g
<1>3. PICK X : X = Ranges(n)
  OBVIOUS
<1>4. ConsistencyRanges(m, n) \in Seq(X)
  <2>1. CASE m = 0
    BY <1>2, <2>1
  <2>2. CASE m # 0
    <3>1. PICK z : z = <<0, n>> /\ z[1] = 0 /\ z[2] = n /\ z \in Ranges(n)
      <4>1. 0 \in 0..n /\ n \in 0..n /\ 0 < n
        BY <2>2
      <4>2. <<0, n>> \in Ranges(n)
        BY <4>1 DEF Ranges
      <4> QED BY <4>2
    <3>2. z \in Around(m, n)
      BY <2>2, <3>1 DEF Around
    <3>3. m \in Nat
      OBVIOUS
    <3>4. g[z] \in Seq(X)
      BY <1>1, <1>3, <3>2, <3>3, ProofType
    <3> QED BY <1>2, <2>2, <3>1, <3>4
  <2> QED BY <2>1, <2>2
<1>5. PICK rs \in Seq(X) : rs = ConsistencyRanges(m, n)
  BY <1>4
<1>6. \A i \in DOMAIN rs : rs[i] \in Ranges(n)
  BY <1>3
<1>7. \A i \in DOMAIN rs : rs[i] \in AllRanges /\ rs[i][2] <= n
  BY <1>6, RangesAre
<1> QED BY <1>5, <1>7

LEMMA SamePath ==
    ASSUME NEW B \in Nat, NEW hs, NEW ks, \A i \in 1..B : ks[i] = hs[i],
           NEW n \in 0..B, NEW m \in 0..n
    PROVE  TruePath(ks, m, n) = TruePath(hs, m, n)
<1>1. PICK rs : rs = ConsistencyRanges(m, n)
  OBVIOUS
<1>2. n \in Nat
  OBVIOUS
<1>3. \A i \in DOMAIN rs : rs[i] \in AllRanges /\ rs[i][2] <= n
  BY <1>1, <1>2, ProofRanges
<1>4. \A i \in DOMAIN rs : rs[i][2] \in Nat
  BY <1>3, RangeFacts
<1>5. \A i \in DOMAIN rs : rs[i] \in AllRanges /\ rs[i][2] <= B
  BY <1>3, <1>4
<1>6. \A i \in DOMAIN rs : H(ks, rs[i]) = H(hs, rs[i])
  BY <1>5, SameHash
<1> QED BY <1>1, <1>6 DEF TruePath

LEMMA PathIs ==
    ASSUME NEW t, NEW d, Sound(t, d), NEW n \in 0..Size(d), NEW m \in 0..n
    PROVE  ConsistencyPath(t.ranges, Hashes(t, Size(t)), m, n) = TruePath(All(d), m, n)
<1>1. PICK rs : rs = ConsistencyRanges(m, n)
  OBVIOUS
<1>2. n \in Nat /\ Size(d) \in Nat
  BY SizeType DEF Sound, Good
<1>3. \A i \in DOMAIN rs : RangeHash(t.ranges, Hashes(t, Size(t)), rs[i]) = H(All(d), rs[i])
  <2>1. \A i \in DOMAIN rs : rs[i] \in AllRanges /\ rs[i][2] <= n
    BY <1>1, <1>2, ProofRanges
  <2>2. \A i \in DOMAIN rs : rs[i][2] \in Nat
    BY <2>1, RangeFacts
  <2>3. \A i \in DOMAIN rs : rs[i][2] <= Size(d)
    BY <1>2, <2>1, <2>2
  <2> QED BY <2>1, <2>3, CacheAnswers
<1> QED BY <1>1, <1>3 DEF ConsistencyPath, TruePath

\* What a frozen job claims, from size m on.
JobIs(hs, m, j) ==
  /\ j.root = H(hs, <<0, j.size>>)
  /\ j.checkpoint = Note(j.size, j.root)
  /\ j.path = TruePath(hs, m, j.size)
From(k) == IF k > 1 THEN jobs[k - 1].size ELSE jobs[1].size - 1

JobsInv ==
  /\ \E X : jobs \in Seq(X)
  /\ \A k \in 1..Len(jobs) :
       /\ jobs[k].size \in 1..Size(disk)
       /\ From(k) \in 0..jobs[k].size
       /\ JobIs(All(disk), From(k), jobs[k])

HistoryInv == LogInv /\ JobsInv

\* Every step but the freeze leaves the jobs alone, and the leaves they rest on.
LEMMA JobsStand ==
    ASSUME JobsInv, UNCHANGED jobs, Size(disk) \in Nat, Size(disk)' \in Nat, Size(disk) <= Size(disk)',
           \A i \in 1..Size(disk) : All(disk)'[i] = All(disk)[i]
    PROVE  JobsInv'
<1>1. \E X : jobs' \in Seq(X)
  BY DEF JobsInv
<1>2. PICK hs, ks, B : hs = All(disk) /\ ks = All(disk)' /\ B = Size(disk) /\ B \in Nat
  OBVIOUS
<1>3. ASSUME NEW k \in 1..Len(jobs)
      PROVE  /\ jobs[k].size \in 1..Size(disk)'
             /\ From(k) \in 0..jobs[k].size
             /\ JobIs(ks, From(k), jobs[k])
  <2>1. jobs[k].size \in 1..B /\ From(k) \in 0..jobs[k].size /\ JobIs(hs, From(k), jobs[k])
    BY <1>2 DEF JobsInv
  <2>2. PICK n, m : n = jobs[k].size /\ m = From(k) /\ n \in 1..B /\ m \in 0..n
    BY <2>1
  <2>3. \A i \in 1..B : ks[i] = hs[i]
    BY <1>2
  <2>4. TruePath(ks, m, n) = TruePath(hs, m, n)
    <3>1. B \in Nat /\ n \in 0..B /\ m \in 0..n
      BY <1>2, <2>2
    <3> QED BY ONLY <2>3, <3>1, SamePath
  <2>5. H(ks, <<0, n>>) = H(hs, <<0, n>>)
    <3>1. PICK z \in AllRanges : z = <<0, n>> /\ z[2] <= B
      <4>1. <<0, n>> \in AllRanges
        BY <1>2, <2>2 DEF AllRanges
      <4> QED BY <1>2, <2>2, <4>1
    <3> QED BY <1>2, <2>3, <3>1, SameHash
  <2> QED BY <1>2, <2>1, <2>2, <2>4, <2>5 DEF JobIs
<1>4. \A k \in 1..Len(jobs) : From(k)' = From(k)
  BY DEF From
<1> QED BY <1>1, <1>2, <1>3, <1>4 DEF JobsInv

\* tick's identity: of a size the log has had, with the note of that size.
LEMMA FreezeStep ==
    ASSUME HistoryInv, Freeze
    PROVE  JobsInv'
<1>1. PICK size \in (Anchored + 1)..Size(log) :
        /\ JobNote(size) # None
        /\ jobs' = Append(jobs,
             [size |-> size, root |-> RootFor(size), checkpoint |-> JobNote(size),
              path |-> ConsistencyPath(log.ranges, Hashes(log, Size(log)), Floor(size), size)])
        /\ disk' = disk
  BY DEF Freeze, Commit
<1>2. /\ Size(disk)' = Size(disk) /\ All(disk)' = All(disk) /\ Size(disk) \in Nat
      /\ Size(log) \in Nat /\ Sound(log, disk)
  BY <1>1, SizeType DEF HistoryInv, LogInv, Sound, Good
<1>3. PICK X : jobs \in Seq(X)
  BY DEF HistoryInv, JobsInv
<1>4. PICK N \in Nat : N = Len(jobs) /\ DOMAIN jobs = 1..N
  BY <1>3
<1>5. /\ Anchored \in 0..Size(disk)
      /\ N = 0 => Anchored = 0
      /\ N # 0 => Anchored = jobs[N].size /\ Anchored # 0
  <2>1. CASE N = 0
    <3>1. jobs = << >>
      BY <1>3, <1>4, <2>1
    <3> QED BY <1>2, <2>1, <3>1 DEF Anchored
  <2>2. CASE N # 0
    <3>1. jobs # << >> /\ Last(jobs) = jobs[N]
      BY <1>4, <2>2 DEF Last
    <3>2. jobs[N].size \in 1..Size(disk)
      BY <1>4, <2>2 DEF HistoryInv, JobsInv
    <3> QED BY <1>2, <2>2, <3>1, <3>2 DEF Anchored
  <2> QED BY <2>1, <2>2
<1>6. /\ size \in 1..Size(disk) /\ Anchored < size
      /\ JobNote(size) = Note(size, RootAt(disk, size))
  <2>1. size \in DOMAIN log.notes /\ JobNote(size) = log.notes[size]
    BY <1>1 DEF JobNote
  <2>2. size \in 1..Size(disk) /\ log.notes[size] = Note(size, RootAt(disk, size))
    BY <1>2, <2>1 DEF Sound, Good, NotesInv
  <2> QED BY <1>1, <1>2, <1>5, <2>1, <2>2
<1>7. Floor(size) \in 0..size /\ Floor(size) = IF N = 0 THEN size - 1 ELSE jobs[N].size
  BY <1>2, <1>5, <1>6 DEF Floor
<1>8. PICK j : /\ j = [size |-> size, root |-> RootFor(size), checkpoint |-> JobNote(size),
                       path |-> ConsistencyPath(log.ranges, Hashes(log, Size(log)), Floor(size), size)]
               /\ jobs' = Append(jobs, j)
  BY <1>1
<1>9. /\ j.size = size /\ j.root = RootFor(size) /\ j.checkpoint = JobNote(size)
      /\ j.path = ConsistencyPath(log.ranges, Hashes(log, Size(log)), Floor(size), size)
  <2>1. PICK root, note, path :
          /\ root = RootFor(size) /\ note = JobNote(size)
          /\ path = ConsistencyPath(log.ranges, Hashes(log, Size(log)), Floor(size), size)
    OBVIOUS
  <2>2. j = [size |-> size, root |-> root, checkpoint |-> note, path |-> path]
    <3>1. PICK x : x = [size |-> size, root |-> RootFor(size), checkpoint |-> JobNote(size),
                       path |-> ConsistencyPath(log.ranges, Hashes(log, Size(log)), Floor(size), size)]
      OBVIOUS
    <3>2. x = [size |-> size, root |-> root, checkpoint |-> note, path |-> path]
      BY ONLY <2>1, <3>1, Zenon
    <3> QED BY ONLY <1>8, <3>1, <3>2, Zenon
  <2>3. j.size = size /\ j.root = root /\ j.checkpoint = note /\ j.path = path
    BY ONLY <2>2
  <2> QED BY <2>1, <2>3
<1>10. RootFor(size) = H(All(disk), <<0, size>>)
  <2>1. PICK q : q = <<0, size>> /\ q \in AllRanges /\ q[2] <= Size(disk)
    <3>1. size \in Nat /\ 0 < size /\ size <= Size(disk)
      BY <1>2, <1>6
    <3>2. <<0, size>> \in AllRanges
      BY ONLY <3>1 DEF AllRanges
    <3> QED BY <3>1, <3>2
  <2>2. RangeHash(log.ranges, Hashes(log, Size(log)), q) = H(All(disk), q)
    BY <1>2, <2>1, CacheAnswers
  <2> QED BY <2>1, <2>2 DEF RootFor
<1>11. JobNote(size) = Note(size, RootFor(size))
  BY <1>6, <1>10 DEF RootAt
<1>12. j.path = TruePath(All(disk), Floor(size), size)
  <2>1. size \in 0..Size(disk)
    BY <1>6
  <2> QED BY <1>2, <1>7, <1>9, <2>1, PathIs
<1>13. JobIs(All(disk), Floor(size), j)
  BY <1>9, <1>10, <1>11, <1>12 DEF JobIs
<1>14. /\ jobs' \in Seq(X \cup {j}) /\ Len(jobs') = N + 1 /\ jobs'[N + 1] = j
       /\ \A k \in 1..N : jobs'[k] = jobs[k]
  <2>1. PICK Y : Y = X \cup {j} /\ jobs \in Seq(Y) /\ j \in Y
    <3>1. jobs \in [1..N -> X \cup {j}]
      BY <1>3, <1>4
    <3>2. jobs \in Seq(X \cup {j})
      BY <3>1
    <3> QED BY <3>2
  <2> QED BY <1>4, <1>8, <2>1, AppendProperties
<1>15. \A k \in 1..N : From(k)' = From(k)
  BY <1>4, <1>14 DEF From
<1>16. From(N + 1)' = Floor(size)
  <2>1. CASE N = 0
    BY <1>7, <1>9, <1>14, <2>1 DEF From
  <2>2. CASE N # 0
    BY <1>7, <1>14, <2>2 DEF From
  <2> QED BY <2>1, <2>2
<1>17. ASSUME NEW k \in 1..(N + 1)
       PROVE  /\ jobs'[k].size \in 1..Size(disk)
              /\ From(k)' \in 0..jobs'[k].size
              /\ JobIs(All(disk), From(k)', jobs'[k])
  <2>1. CASE k = N + 1
    BY <1>6, <1>7, <1>9, <1>13, <1>14, <1>16, <2>1
  <2>2. CASE k # N + 1
    <3>1. k \in 1..N
      BY <2>2
    <3>2. jobs'[k] = jobs[k] /\ From(k)' = From(k)
      BY <1>14, <1>15, <3>1
    <3>3. /\ jobs[k].size \in 1..Size(disk)
          /\ From(k) \in 0..jobs[k].size
          /\ JobIs(All(disk), From(k), jobs[k])
      BY <1>4, <3>1 DEF HistoryInv, JobsInv
    <3> QED BY <3>2, <3>3
  <2> QED BY <2>1, <2>2
<1> QED BY <1>2, <1>14, <1>17 DEF JobsInv

LEMMA JobsStep ==
    ASSUME HistoryInv, [Next]_vars
    PROVE  JobsInv'
<1>1. CASE Freeze
  BY <1>1, FreezeStep
<1>2. CASE UNCHANGED jobs
  <2>1. PICK d, e : d = disk /\ e = disk' /\ Later(e, d)
    BY LogStep DEF HistoryInv
  <2>2. /\ Size(d) \in Nat /\ Size(e) \in Nat /\ Size(d) <= Size(e)
        /\ \A i \in 1..Size(d) : All(e)[i] = All(d)[i]
    BY <2>1, SameAll DEF Later, Good, Extends
  <2> QED BY <1>2, <2>1, <2>2, JobsStand DEF HistoryInv
<1>3. Freeze \/ UNCHANGED jobs
  <2>1. ASSUME NEW r \in Request, Attach(r) PROVE UNCHANGED jobs
    BY <2>1 DEF Attach, Begin, AppendLeaf, PublishLeaf, Republish, Sign, Save, Prove, AppendFails,
                PublishFails, SaveFails, Fail, Abandon
  <2>2. ASSUME Process PROVE Freeze \/ UNCHANGED jobs
    BY <2>2 DEF Process, Crash, Restart, OtherCommit, OtherRollback, ReadRoot
  <2>3. ASSUME UNCHANGED vars PROVE UNCHANGED jobs
    BY <2>3 DEF vars
  <2> QED BY <2>1, <2>2, <2>3 DEF Next
<1> QED BY <1>1, <1>2, <1>3

LEMMA HistoryHolds == Spec => []HistoryInv
<1>1. Init => HistoryInv
  <2> SUFFICES ASSUME Init PROVE HistoryInv
    OBVIOUS
  <2>1. jobs = << >>
    BY DEF Init
  <2>2. jobs \in Seq({}) /\ Len(jobs) = 0
    BY <2>1
  <2> QED BY <2>2, LogInit DEF HistoryInv, JobsInv
<1>2. HistoryInv /\ [Next]_vars => HistoryInv'
  BY LogStep, JobsStep DEF HistoryInv
<1> QED BY <1>1, <1>2, PTL DEF Spec

\* store.consistency_proof and canary._automation_checkpoint_identity: for logs of
\* any length, every checkpoint extends every one before it, and every frozen job
\* the job before it, under RFC 9162's verifier, over interleaved requests, crashes and
\* whatever calls that failed half way left on the connection.
THEOREM HistoryIsConsistent == Spec => []ConsistentHistory
<1>1. ASSUME HistoryInv PROVE ConsistentHistory
  <2>0. /\ Size(disk) \in Nat /\ Size(log) \in Nat /\ Size(disk) <= Size(log)
        /\ Sound(log, disk) /\ LeavesInv(log) /\ LeavesInv(disk)
    BY <1>1, SizeType DEF HistoryInv, LogInv, Sound, Good, Extends
  <2>1. PICK hs : hs = All(disk)
    OBVIOUS
  <2>2. ASSUME NEW m \in DOMAIN log.notes, NEW n \in DOMAIN log.notes, m <= n
        PROVE  VerifyConsistency(m, n, log.notes[m].root, log.notes[n].root,
                                 ConsistencyPath(log.ranges, Hashes(log, Size(log)), m, n))
    <3>1. m \in 1..Size(disk) /\ n \in 1..Size(disk)
      BY <2>0 DEF Sound, Good, NotesInv
    <3>2. log.notes[m].root = H(hs, <<0, m>>) /\ log.notes[n].root = H(hs, <<0, n>>)
      <4>1. log.notes[m] = Note(m, H(hs, <<0, m>>)) /\ log.notes[n] = Note(n, H(hs, <<0, n>>))
        BY <2>0, <2>1 DEF Sound, Good, NotesInv, RootAt
      <4> QED BY <4>1 DEF Note
    <3>3. n \in Nat \ {0} /\ n \in 0..Size(disk) /\ m \in 0..n
      BY <2>0, <2>2, <3>1
    <3>4. ConsistencyPath(log.ranges, Hashes(log, Size(log)), m, n) = TruePath(hs, m, n)
      BY <2>0, <2>1, <3>3, PathIs
    <3> QED BY <3>2, <3>3, <3>4, ConsistencyVerifies
  <2>3. ASSUME NEW k \in DOMAIN jobs
        PROVE  /\ jobs[k].checkpoint = Note(jobs[k].size, jobs[k].root)
               /\ LET old == IF k > 1 THEN jobs[k - 1]
                             ELSE Note(jobs[1].size - 1, RootOf(Hashes(log, jobs[1].size - 1)))
                  IN  VerifyConsistency(old.size, jobs[k].size, old.root, jobs[k].root, jobs[k].path)
    <3> DEFINE old == IF k > 1 THEN jobs[k - 1]
                      ELSE Note(jobs[1].size - 1, RootOf(Hashes(log, jobs[1].size - 1)))
    <3>1. PICK N \in Nat : N = Len(jobs) /\ DOMAIN jobs = 1..N
      BY <1>1 DEF HistoryInv, JobsInv
    <3>2. \A i \in 1..N : /\ jobs[i].size \in 1..Size(disk)
                          /\ From(i) \in 0..jobs[i].size
                          /\ JobIs(hs, From(i), jobs[i])
      BY <1>1, <2>1, <3>1 DEF HistoryInv, JobsInv
    <3>3. PICK n, m : /\ n = jobs[k].size /\ m = From(k)
                      /\ n \in Nat \ {0} /\ m \in 0..n /\ n \in 1..Size(disk)
      BY <2>0, <3>1, <3>2
    <3>4. JobIs(hs, m, jobs[k])
      BY <3>1, <3>2, <3>3
    <3>5. old.size = m /\ (m # 0 => old.root = H(hs, <<0, m>>))
      <4>1. CASE k > 1
        <5>1. k - 1 \in 1..N /\ old = jobs[k - 1] /\ m = jobs[k - 1].size
          BY <3>1, <3>3, <4>1 DEF From
        <5>2. JobIs(hs, From(k - 1), jobs[k - 1])
          BY <3>2, <5>1
        <5> QED BY <5>1, <5>2 DEF JobIs
      <4>2. CASE ~(k > 1)
        <5>1. k = 1 /\ m = n - 1 /\ jobs[1].size = n
          BY <3>1, <3>3, <4>2 DEF From
        <5>2. old = Note(m, RootOf(Hashes(log, m)))
          BY <4>2, <5>1
        <5>3. old.size = m /\ old.root = RootOf(Hashes(log, m))
          BY <5>2 DEF Note
        <5>4. ASSUME m # 0 PROVE RootOf(Hashes(log, m)) = H(hs, <<0, m>>)
          <6>1. m \in 0..Size(disk) /\ m \in Nat /\ m \in 0..Size(log)
            BY <2>0, <3>3, <5>1
          <6>2. PICK Y, ks : ks \in Seq(Y) /\ ks = Hashes(log, m) /\ Len(ks) = m
            BY <2>0, <6>1, HashesAre
          <6>3. RootOf(ks) = H(ks, <<0, m>>)
            BY <5>4, <6>2, RootHash
          <6>4. \A i \in 1..m : ks[i] = hs[i]
            <7>1. \A i \in 1..m : i \in 1..Size(disk) /\ log.leaves[i] = disk.leaves[i]
              BY <2>0, <6>1 DEF Sound, Extends
            <7> QED BY <2>1, <6>2, <7>1 DEF All, Hashes
          <6>5. PICK z \in AllRanges : z = <<0, m>> /\ z[2] <= m
            <7>1. <<0, m>> \in AllRanges
              BY <5>4, <6>1 DEF AllRanges
            <7> QED BY <6>1, <7>1
          <6>6. H(ks, z) = H(hs, z)
            BY <6>1, <6>4, <6>5, SameHash
          <6> QED BY <6>2, <6>3, <6>5, <6>6
        <5> QED BY <5>3, <5>4
      <4> QED BY <4>1, <4>2
    <3> HIDE DEF old
    <3>6. VerifyConsistency(m, n, old.root, H(hs, <<0, n>>), TruePath(hs, m, n))
      BY <3>3, <3>5, ConsistencyVerifies
    <3>7. /\ jobs[k].checkpoint = Note(jobs[k].size, jobs[k].root)
          /\ VerifyConsistency(old.size, jobs[k].size, old.root, jobs[k].root, jobs[k].path)
      BY <3>3, <3>4, <3>5, <3>6 DEF JobIs
    <3> QED BY <3>7 DEF old
  <2> QED BY <2>2, <2>3 DEF ConsistentHistory
<1> QED BY <1>1, HistoryHolds, PTL

=============================================================================
