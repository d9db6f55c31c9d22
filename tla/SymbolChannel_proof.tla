---------------------------- MODULE SymbolChannel_proof ----------------------------
(* What AV1's symbol coder guarantees for every set of CDFs, every sequence of      *)
(* symbols and every tile: the assertions of encode_q15 never fire, however the     *)
(* contexts adapt, and the decoder stays inside its ranges and its tile.            *)
EXTENDS SymbolChannel, SequenceLemmas

----------------------------------------------------------------------------
(* More of the powers of two. *)

LEMMA PowLarge == \A n \in 16 .. 39 : Pow(n) >= 65536
  <1> DEFINE H(n) == Pow(n) >= 65536
  <1>1. H(16) /\ H(17) /\ H(18) /\ H(19) /\ H(20) /\ H(21) /\ H(22) /\ H(23) /\ H(24) /\ H(25) /\ H(26) /\ H(27)
    BY PowTable
  <1>2. H(28) /\ H(29) /\ H(30) /\ H(31) /\ H(32) /\ H(33) /\ H(34) /\ H(35) /\ H(36) /\ H(37) /\ H(38) /\ H(39)
    BY PowTable
  <1>3. \A n \in 16 .. 39 : H(n)
    <2> HIDE DEF H
    <2> QED
      BY <1>1, <1>2
  <1> QED
    BY <1>3

LEMMA PowAdd == \A a \in 0 .. 24, b \in 0 .. 15 : Pow(a + b) = Pow(a) * Pow(b)
  <1> DEFINE H == {b \in 0 .. 15 : \A a \in 0 .. 24 : Pow(a + b) = Pow(a) * Pow(b)}
  <1>1. 0 \in H
    <2>1. ASSUME NEW a \in 0 .. 24 PROVE Pow(a + 0) = Pow(a) * Pow(0)
      <3>1. a \in 0 .. 38 /\ a + 0 = a
        OBVIOUS
      <3>2. Pow(a) \in Nat
        BY <3>1, PowStep
      <3> QED
        BY <3>1, <3>2, PowTable
    <2> QED
      BY <2>1
  <1>2. ASSUME NEW k \in 1 .. 15, k - 1 \in H PROVE k \in H
    <2>1. ASSUME NEW a \in 0 .. 24 PROVE Pow(a + k) = Pow(a) * Pow(k)
      <3> DEFINE j == k - 1
      <3>1. a \in 0 .. 38 /\ a + j \in 0 .. 38 /\ a + k = a + j + 1 /\ j \in 0 .. 38 /\ k = j + 1
        OBVIOUS
      <3>2. Pow(a + j) = Pow(a) * Pow(j)
        BY <1>2
      <3>3. /\ Pow(a + k) = 2 * Pow(a + j) /\ Pow(k) = 2 * Pow(j)
            /\ Pow(a) \in Nat /\ Pow(j) \in Nat
        BY <3>1, PowStep
      <3> HIDE DEF j
      <3>4. \A x, y \in Nat : 2 * (x * y) = x * (2 * y)
        OBVIOUS
      <3> QED
        BY <3>2, <3>3, <3>4
    <2> QED
      BY <2>1
  <1>3. \A k \in 1 .. 15 : k - 1 \in H => k \in H
    BY <1>2
  <1>4. \A b \in 0 .. 15 : b \in H
    <2> HIDE DEF H
    <2> QED
      BY <1>1, <1>3, UpTo
  <1> QED
    BY <1>4

Small(x, n) == x \in Nat /\ x <= n

LEMMA PowSum ==
    ASSUME NEW a, NEW b, Small(a, 24), Small(b, 15)
    PROVE  /\ Pow(a) \in Nat /\ Pow(b) \in Nat /\ Pow(a) >= 1 /\ Pow(b) >= 1
           /\ Pow(a + b) = Pow(a) * Pow(b)
  <1>1. a \in 0 .. 24 /\ b \in 0 .. 15 /\ a \in 0 .. 38 /\ b \in 0 .. 38
    BY DEF Small
  <1> QED
    BY <1>1, PowStep, PowAdd

LEMMA PowTimes ==
    ASSUME NEW a, Small(a, 24)
    PROVE  /\ Pow(a) \in Nat /\ Pow(a) >= 1
           /\ Pow(a + 1) = Pow(a) * 2 /\ Pow(a + 8) = Pow(a) * 256 /\ Pow(a + 9) = Pow(a) * 512
  <1>1. Small(1, 15) /\ Small(8, 15) /\ Small(9, 15)
    BY DEF Small
  <1>2. Pow(a) \in Nat /\ Pow(a) >= 1 /\ Pow(a + 1) = Pow(a) * Pow(1)
    BY <1>1, PowSum
  <1>3. Pow(a + 8) = Pow(a) * Pow(8)
    BY <1>1, PowSum
  <1>4. Pow(a + 9) = Pow(a) * Pow(9)
    BY <1>1, PowSum
  <1>5. Pow(1) = 2 /\ Pow(8) = 256 /\ Pow(9) = 512
    BY PowTable
  <1> QED
    BY <1>2, <1>3, <1>4, <1>5

----------------------------------------------------------------------------
(* The arithmetic of the two directions. *)

LEMMA TopIs == Top \in Nat /\ 32768 <= Top /\ Top <= 32768
  BY DEF Top

\* A range that is not empty is brought back to 16 bits by at most 15 shifts.
LEMMA ShiftsFit ==
    ASSUME NEW r \in 1 .. 2 * Top - 1
    PROVE  Shifts(r) \in 0 .. 15 /\ r * 2 ^ Shifts(r) \in Top .. 2 * Top - 1
  <1> DEFINE f(d) == r * Pow(d)
             Fits(d) == 32768 <= f(d) /\ f(d) < 65536
  <1>1. f(0) = 1 * r /\ f(1) = 2 * r /\ f(2) = 4 * r /\ f(3) = 8 * r /\ f(4) = 16 * r /\ f(5) = 32 * r /\ f(6) = 64 * r /\ f(7) = 128 * r
    BY PowTable
  <1>2. f(8) = 256 * r /\ f(9) = 512 * r /\ f(10) = 1024 * r /\ f(11) = 2048 * r /\ f(12) = 4096 * r /\ f(13) = 8192 * r /\ f(14) = 16384 * r /\ f(15) = 32768 * r
    BY PowTable
  <1>3. r \in Nat /\ 1 <= r /\ r < 65536
    BY TopIs
  <1>4. \E d \in 0 .. 15 : Fits(d)
    <2> HIDE DEF f
    <2>1. 32768 <= r /\ r < 65536 => Fits(0)
      BY <1>1, <1>3
    <2>2. 16384 <= r /\ r < 32768 => Fits(1)
      BY <1>1, <1>3
    <2>3. 8192 <= r /\ r < 16384 => Fits(2)
      BY <1>1, <1>3
    <2>4. 4096 <= r /\ r < 8192 => Fits(3)
      BY <1>1, <1>3
    <2>5. 2048 <= r /\ r < 4096 => Fits(4)
      BY <1>1, <1>3
    <2>6. 1024 <= r /\ r < 2048 => Fits(5)
      BY <1>1, <1>3
    <2>7. 512 <= r /\ r < 1024 => Fits(6)
      BY <1>1, <1>3
    <2>8. 256 <= r /\ r < 512 => Fits(7)
      BY <1>1, <1>3
    <2>9. 128 <= r /\ r < 256 => Fits(8)
      BY <1>2, <1>3
    <2>10. 64 <= r /\ r < 128 => Fits(9)
      BY <1>2, <1>3
    <2>11. 32 <= r /\ r < 64 => Fits(10)
      BY <1>2, <1>3
    <2>12. 16 <= r /\ r < 32 => Fits(11)
      BY <1>2, <1>3
    <2>13. 8 <= r /\ r < 16 => Fits(12)
      BY <1>2, <1>3
    <2>14. 4 <= r /\ r < 8 => Fits(13)
      BY <1>2, <1>3
    <2>15. 2 <= r /\ r < 4 => Fits(14)
      BY <1>2, <1>3
    <2>16. 1 <= r /\ r < 2 => Fits(15)
      BY <1>2, <1>3
    <2> HIDE DEF Fits
    <2>17. CASE r >= 256
      BY <2>1, <2>2, <2>3, <2>4, <2>5, <2>6, <2>7, <2>8, <1>3, <2>17
    <2>18. CASE r < 256
      BY <2>9, <2>10, <2>11, <2>12, <2>13, <2>14, <2>15, <2>16, <1>3, <2>18
    <2> QED
      BY <1>3, <2>17, <2>18
  <1>5. PICK d \in 0 .. 15 : Fits(d)
    BY <1>4
  <1>6. f(d) \in Int
    <2>1. d \in 0 .. 38 /\ r \in Int
      BY <1>3
    <2>2. Pow(d) \in Nat
      BY <2>1, PowStep
    <2> QED
      BY <2>1, <2>2
  <1>7. f(d) \in Top .. 2 * Top - 1
    <2> HIDE DEF f
    <2> QED
      BY <1>5, <1>6, TopIs
  <1>8. r * 2 ^ d \in Top .. 2 * Top - 1
    BY <1>7 DEF Pow
  <1> QED
    BY <1>8 DEF Shifts

----------------------------------------------------------------------------
(* CDFs and the intervals they cut. *)

LEMMA CdfType ==
    ASSUME NEW f, IsCdf(f)
    PROVE  /\ Len(f) \in Nat /\ 2 <= Len(f) /\ Len(f) <= 16 /\ DOMAIN f = 1 .. Len(f)
           /\ \A i \in 1 .. Len(f) : f[i] \in Nat /\ 1 <= f[i] /\ f[i] <= 32768
           /\ f[Len(f)] = 32768
           /\ \A i \in 1 .. Len(f) - 1 : f[i] <= f[i + 1]
  <1>1. f \in Seq(1 .. Top) /\ Len(f) \in 2 .. 16
    BY DEF IsCdf
  <1>2. Len(f) \in Nat /\ DOMAIN f = 1 .. Len(f) /\ \A i \in 1 .. Len(f) : f[i] \in 1 .. Top
    BY <1>1, LenProperties, ElementOfSeq
  <1>3. f[Len(f)] = 32768
    BY DEF IsCdf, Top
  <1>4. \A i \in 1 .. Len(f) - 1 : f[i] <= f[i + 1]
    BY DEF IsCdf
  <1>5. \A i \in 1 .. Len(f) : f[i] \in Nat /\ 1 <= f[i] /\ f[i] <= 32768
    BY <1>2, TopIs
  <1>6. 2 <= Len(f) /\ Len(f) <= 16
    <2>1. \A k \in 2 .. 16 : 2 <= k /\ k <= 16
      OBVIOUS
    <2>2. Len(f) \in 2 .. 16
      BY <1>1
    <2> QED
      BY <2>1, <2>2, Zenon
  <1> QED
    BY <1>2, <1>3, <1>4, <1>5, <1>6

\* ec_partition cuts lower for a smaller probability, and below the range whenever the
\* probability is not the whole.
LEMMA PartitionLies ==
    ASSUME NEW r \in Nat, NEW p \in Nat, NEW q \in Nat, p <= q
    PROVE  /\ Partition(r, p) \in Nat
           /\ Partition(r, p) <= Partition(r, q)
           /\ 32768 <= r /\ q < 32768 => Partition(r, q) + 60 < r
  <1> DEFINE h == r \div 256
  <1>1. h \in Nat /\ 256 * h <= r
    OBVIOUS
  <1>2. p \div 64 \in Nat /\ q \div 64 \in Nat /\ p \div 64 <= q \div 64
    OBVIOUS
  <1>3. q < 32768 => q \div 64 <= 511
    OBVIOUS
  <1>4. 32768 <= r => h >= 128
    OBVIOUS
  <1> HIDE DEF h
  <1>5. \A x, y, z \in Nat : x <= y => x * z <= y * z /\ z * x <= z * y /\ x * z \in Nat /\ z * x \in Nat
    OBVIOUS
  <1>6. h * (p \div 64) \in Nat /\ h * (q \div 64) \in Nat /\ h * (p \div 64) <= h * (q \div 64)
    BY <1>1, <1>2, <1>5
  <1>7. \A x, y \in Nat : x <= y => x \div 2 \in Nat /\ x \div 2 <= y \div 2
    OBVIOUS
  <1>8. q < 32768 => h * (q \div 64) <= h * 511
    BY <1>1, <1>2, <1>3, <1>5
  <1>9. \A x, y \in Nat : x <= y * 511 /\ y >= 128 => x \div 2 + 60 < 256 * y
    OBVIOUS
  <1>10. Partition(r, p) = (h * (p \div 64)) \div 2 /\ Partition(r, q) = (h * (q \div 64)) \div 2
    BY DEF Partition, h
  <1>11. Partition(r, p) \in Nat /\ Partition(r, p) <= Partition(r, q)
    BY <1>6, <1>7, <1>10
  <1>12. 32768 <= r /\ q < 32768 => Partition(r, q) + 60 < r
    <2>1. SUFFICES ASSUME 32768 <= r, q < 32768 PROVE Partition(r, q) + 60 < r
      OBVIOUS
    <2> DEFINE x == h * (q \div 64)
    <2>2. x \in Nat /\ x <= h * 511 /\ h >= 128
      BY <1>4, <1>6, <1>8, <2>1
    <2> HIDE DEF x
    <2>3. x \div 2 + 60 < 256 * h
      BY <1>1, <1>9, <2>2
    <2>4. Partition(r, q) = x \div 2 /\ x \div 2 \in Nat
      BY <1>10, <2>2 DEF x
    <2> QED
      BY <1>1, <2>3, <2>4
  <1> QED
    BY <1>11, <1>12

Cuttable(r, p) == r \in Nat /\ p \in Nat

LEMMA PartitionIsNat ==
    ASSUME NEW r, NEW p, Cuttable(r, p)
    PROVE  Partition(r, p) \in Nat
  <1>1. r \in Nat /\ p \in Nat /\ p <= p
    BY DEF Cuttable
  <1> QED
    BY <1>1, PartitionLies

\* Dividing by one of the adaptation's rates shortens a number, and a larger one more.
Gentle(T) ==
    \A v, w \in Nat : v <= w =>
        /\ T[v] \in Nat /\ T[w] \in Nat /\ T[w] <= w /\ T[w] - T[v] <= w - v
        /\ w >= 1 => T[w] < w

LEMMA StepIsGentle ==
    ASSUME NEW n \in Nat, NEW m \in Nat
    PROVE  Gentle([v \in Nat |-> v \div 2 ^ Rate(n, m)])
  <1> DEFINE D(k) == \A v, w \in Nat : v <= w =>
                         /\ v \div k \in Nat /\ w \div k \in Nat /\ w \div k <= w
                         /\ (w \div k) - (v \div k) <= w - v
                         /\ w >= 1 => w \div k < w
             R == 2 ^ Rate(n, m)
  <1>1. D(8) /\ D(16)
    OBVIOUS
  <1>2. D(32) /\ D(64)
    OBVIOUS
  <1>3. D(128)
    OBVIOUS
  <1>4. R = 8 \/ R = 16 \/ R = 32 \/ R = 64 \/ R = 128
    <2>1. Rate(n, m) \in 3 .. 7
      BY DEF Rate, Halvings
    <2>2. Pow(3) = 8 /\ Pow(4) = 16 /\ Pow(5) = 32 /\ Pow(6) = 64 /\ Pow(7) = 128
      BY PowTable
    <2>3. LET q == Pow(Rate(n, m)) IN q = 8 \/ q = 16 \/ q = 32 \/ q = 64 \/ q = 128
      BY <2>1, <2>2
    <2> QED
      BY <2>3 DEF Pow
  <1>5. D(R)
    <2> HIDE DEF D, R
    <2> QED
      BY <1>1, <1>2, <1>3, <1>4
  <1> DEFINE T == [v \in Nat |-> v \div R]
  <1>6. \A v \in Nat : T[v] = v \div R
    OBVIOUS
  <1>7. Gentle(T)
    <2> HIDE DEF R
    <2> SUFFICES ASSUME NEW v \in Nat, NEW w \in Nat, v <= w
                 PROVE  /\ T[v] \in Nat /\ T[w] \in Nat /\ T[w] <= w /\ T[w] - T[v] <= w - v
                        /\ w >= 1 => T[w] < w
      BY DEF Gentle
    <2>1. /\ v \div R \in Nat /\ w \div R \in Nat /\ w \div R <= w
          /\ (w \div R) - (v \div R) <= w - v
          /\ w >= 1 => w \div R < w
      BY <1>5
    <2>2. T[v] = v \div R /\ T[w] = w \div R
      BY <1>6
    <2> HIDE DEF T
    <2> QED
      BY <2>1, <2>2
  <1> QED
    BY <1>7

\* One entry below the coded symbol, or from it on, before and after.
LEMMA EntriesMove ==
    ASSUME NEW T, Gentle(T), NEW a \in Nat, NEW b \in Nat, 1 <= a, a <= b, b <= 32768
    PROVE  /\ a - T[a] \in Nat /\ 1 <= a - T[a] /\ a - T[a] <= a
           /\ b + T[32768 - b] \in Nat /\ b <= b + T[32768 - b] /\ b + T[32768 - b] <= 32768
           /\ a - T[a] <= b - T[b]
           /\ a + T[32768 - a] <= b + T[32768 - b]
  <1>1. /\ T[a] \in Nat /\ T[b] \in Nat /\ T[b] - T[a] <= b - a
    BY DEF Gentle
  <1>2. T[a] < a
    BY DEF Gentle
  <1> DEFINE x == 32768 - b
             y == 32768 - a
  <1>3. x \in Nat /\ y \in Nat /\ x <= y
    OBVIOUS
  <1>4. T[x] \in Nat /\ T[y] \in Nat /\ T[y] - T[x] <= y - x
    <2> HIDE DEF x, y
    <2> QED
      BY <1>3 DEF Gentle
  <1>5. T[x] <= x
    <2> HIDE DEF x, y
    <2> QED
      BY <1>3 DEF Gentle
  <1> QED
    BY <1>1, <1>2, <1>4, <1>5

LEMMA CountsAreNat == \A k \in 0 .. 32 : k \in Nat /\ k <= 32
  OBVIOUS

\* Adaptation moves no entry of a CDF out of order, to zero or above the last.
LEMMA AdaptedIsCdf ==
    ASSUME NEW c, c \in [cdf : Seq(1 .. Top), count : 0 .. 32], IsCdf(c.cdf),
           NEW s \in 1 .. Len(c.cdf)
    PROVE  /\ Adapted(c, s) \in [cdf : Seq(1 .. Top), count : 0 .. 32]
           /\ IsCdf(Adapted(c, s).cdf) /\ Len(Adapted(c, s).cdf) = Len(c.cdf)
  <1> DEFINE f == c.cdf
             n == Len(c.cdf)
             T == [v \in Nat |-> v \div 2 ^ Rate(n, c.count)]
             g == [i \in 1 .. n |-> IF i = n THEN f[i]
                                    ELSE IF i < s THEN f[i] - T[f[i]] ELSE f[i] + T[32768 - f[i]]]
             m == IF c.count < 32 THEN c.count + 1 ELSE c.count
  <1>1. /\ n \in Nat /\ 2 <= n /\ n <= 16
        /\ \A i \in 1 .. n : f[i] \in Nat /\ 1 <= f[i] /\ f[i] <= 32768
        /\ f[n] = 32768 /\ \A i \in 1 .. n - 1 : f[i] <= f[i + 1]
    BY CdfType
  <1>2. c.count \in Nat /\ c.count <= 32
    <2>1. c.count \in 0 .. 32
      BY Zenon
    <2> QED
      BY <2>1, CountsAreNat, Zenon
  <1>3. m \in 0 .. 32
    <2>1. m \in Nat /\ m <= 32
      BY <1>2
    <2> HIDE DEF m
    <2> QED
      BY <2>1
  <1>4. Gentle(T)
    <2>1. n \in Nat /\ c.count \in Nat
      BY <1>1, <1>2
    <2> HIDE DEF n
    <2> QED
      BY <2>1, StepIsGentle
  <1>5. Adapted(c, s) = [cdf |-> g, count |-> m]
    <2>1. ASSUME NEW i \in 1 .. n
          PROVE  f[i] \div 2 ^ Rate(n, c.count) = T[f[i]]
                 /\ (Top - f[i]) \div 2 ^ Rate(n, c.count) = T[32768 - f[i]]
      <3>1. f[i] \in Nat /\ 32768 - f[i] \in Nat /\ Top - f[i] = 32768 - f[i]
        BY <1>1, TopIs
      <3> QED
        BY <3>1
    <2> DEFINE e == [i \in 1 .. n |->
                        IF i = n THEN f[i]
                        ELSE IF i < s THEN f[i] - (f[i] \div 2 ^ Rate(n, c.count))
                        ELSE f[i] + ((Top - f[i]) \div 2 ^ Rate(n, c.count))]
    <2>2. \A i \in 1 .. n : e[i] = g[i]
      BY <2>1
    <2>3. e = g
      <3>1. e = [i \in 1 .. n |-> e[i]] /\ g = [i \in 1 .. n |-> g[i]]
        OBVIOUS
      <3> HIDE DEF e, g
      <3> QED
        BY <2>2, <3>1
    <2>4. Adapted(c, s) = [cdf |-> e, count |-> m]
      BY Zenon DEF Adapted
    <2> HIDE DEF e, g, m
    <2> QED
      BY <2>3, <2>4
  <1> HIDE DEF T
  <1>6. ASSUME NEW i \in 1 .. n PROVE g[i] \in Nat /\ 1 <= g[i] /\ g[i] <= 32768
    <2>1. f[i] \in Nat /\ 1 <= f[i] /\ f[i] <= 32768
      BY <1>1
    <2>2. g[i] = IF i = n THEN f[i]
                 ELSE IF i < s THEN f[i] - T[f[i]] ELSE f[i] + T[32768 - f[i]]
      OBVIOUS
    <2> DEFINE a == f[i]
    <2> HIDE DEF a, g
    <2>3. /\ a - T[a] \in Nat /\ 1 <= a - T[a] /\ a - T[a] <= a
          /\ a + T[32768 - a] \in Nat /\ a <= a + T[32768 - a] /\ a + T[32768 - a] <= 32768
      BY <1>4, <2>1, EntriesMove DEF a
    <2>4. g[i] = a \/ g[i] = a - T[a] \/ g[i] = a + T[32768 - a]
      BY <2>2 DEF a
    <2>5. a \in Nat /\ 1 <= a /\ a <= 32768
      BY <2>1 DEF a
    <2> QED
      BY <2>3, <2>4, <2>5
  <1>7. ASSUME NEW i \in 1 .. n - 1 PROVE g[i] <= g[i + 1]
    <2> DEFINE j == i + 1
               a == f[i]
               b == f[j]
    <2>1. i \in 1 .. n /\ j \in 1 .. n /\ i # n /\ i \in Nat
      BY <1>1
    <2>2. /\ a \in Nat /\ b \in Nat /\ 1 <= a /\ 1 <= b /\ a <= b /\ b <= 32768
          /\ j = n => b = 32768
      BY <1>1, <2>1
    <2>3. /\ g[i] = IF i < s THEN a - T[a] ELSE a + T[32768 - a]
          /\ g[j] = IF j = n THEN b ELSE IF j < s THEN b - T[b] ELSE b + T[32768 - b]
      BY <2>1
    <2> HIDE DEF a, b, g
    <2>4. /\ a - T[a] \in Nat /\ 1 <= a - T[a] /\ a - T[a] <= a
          /\ b + T[32768 - b] \in Nat /\ b <= b + T[32768 - b] /\ b + T[32768 - b] <= 32768
          /\ a - T[a] <= b - T[b]
          /\ a + T[32768 - a] <= b + T[32768 - b]
      BY <1>4, <2>2, EntriesMove
    <2>5. a + T[32768 - a] \in Nat /\ a + T[32768 - a] <= 32768
      BY <1>4, <2>2, EntriesMove
    <2>6. b - T[b] \in Nat
      BY <1>4, <2>2, EntriesMove
    <2>7. g[i] <= g[j]
      <3>1. CASE i < s
        BY <2>2, <2>3, <2>4, <2>6, <3>1
      <3>2. CASE ~(i < s)
        <4>1. ~(j < s)
          BY <2>1, <3>2
        <4> QED
          BY <2>2, <2>3, <2>4, <2>5, <3>2, <4>1
      <3> QED
        BY <3>1, <3>2
    <2> QED
      BY <2>7
  <1>8. g \in Seq(1 .. Top) /\ Len(g) = n /\ g[n] = Top
    <2>1. g[n] = 32768 /\ DOMAIN g = 1 .. n /\ g = [i \in 1 .. n |-> g[i]]
      BY <1>1
    <2> HIDE DEF g
    <2>2. \A i \in 1 .. n : g[i] \in 1 .. Top
      BY <1>6, TopIs
    <2> HIDE DEF n
    <2>3. g \in [1 .. n -> 1 .. Top]
      BY <2>1, <2>2
    <2>4. n \in Nat
      BY <1>1
    <2>5. g \in Seq(1 .. Top)
      BY <2>3, <2>4, SeqDef
    <2>6. Len(g) = n
      BY <2>1, <2>4, <2>5, LenProperties
    <2>7. g[n] = Top
      BY <2>1 DEF Top
    <2> QED
      BY <2>5, <2>6, <2>7
  <1>9. IsCdf(g)
    <2> HIDE DEF g
    <2>1. \A i \in 1 .. n - 1 : g[i] <= g[i + 1]
      BY <1>7
    <2>2. Len(g) \in 2 .. 16
      <3>1. n \in Nat /\ 2 <= n /\ n <= 16
        BY <1>1
      <3> HIDE DEF n
      <3>2. n \in 2 .. 16
        BY <3>1
      <3> QED
        BY <1>8, <3>2, Zenon
    <2> HIDE DEF n
    <2> QED
      BY <1>8, <2>1, <2>2 DEF IsCdf
  <1> HIDE DEF g, m
  <1> QED
    BY <1>3, <1>5, <1>8, <1>9

\* Symbol s of n, in a range of 16 bits, from probability p up to probability q.
Cut(r, n, s, p, q) ==
    /\ r \in Nat /\ 32768 <= r
    /\ n \in Nat /\ n <= 16 /\ s \in Nat /\ 1 <= s /\ s <= n
    /\ p \in Nat /\ q \in Nat /\ p <= q /\ q < 32768

LEMMA CutsLie ==
    ASSUME NEW r, NEW n, NEW s, NEW p, NEW q, Cut(r, n, s, p, q)
    PROVE  /\ Partition(r, p) + 4 * (n - s) \in Nat /\ Partition(r, q) + 4 * (n - s + 1) \in Nat
           /\ Partition(r, p) + 4 * (n - s) < Partition(r, q) + 4 * (n - s + 1)
           /\ Partition(r, p) + 4 * (n - s) < r
           /\ 1 < s => Partition(r, q) + 4 * (n - s + 1) <= r
  <1> USE DEF Cut
  <1>1. q <= q
    OBVIOUS
  <1>2. Partition(r, p) \in Nat /\ Partition(r, p) <= Partition(r, q)
    BY PartitionLies
  <1>3. Partition(r, q) \in Nat /\ Partition(r, q) + 60 < r
    BY <1>1, PartitionLies
  <1>4. 4 * (n - s) \in Nat /\ 4 * (n - s) <= 60 /\ 4 * (n - s + 1) = 4 * (n - s) + 4
    OBVIOUS
  <1>5. 1 < s => 4 * (n - s) + 4 <= 60
    OBVIOUS
  <1> QED
    BY <1>2, <1>3, <1>4, <1>5

\* The assertions of encode_q15 hold for every symbol of a CDF in every range of 16
\* bits: its interval is not empty and lies inside the range.
LEMMA IntervalsLie ==
    ASSUME NEW f, IsCdf(f), NEW s, s \in 1 .. Len(f), rng \in Nat, 32768 <= rng
    PROVE  /\ Lower(f, s) \in Nat /\ Upper(f, s) \in Nat
           /\ Lower(f, s) < Upper(f, s) /\ Upper(f, s) <= rng
  <1> DEFINE n == Len(f)
             p == Top - f[s]
             q == Top - f[s - 1]
  <1>1. /\ n \in Nat /\ n <= 16
        /\ \A i \in 1 .. n : f[i] \in Nat /\ 1 <= f[i] /\ f[i] <= 32768
        /\ \A i \in 1 .. n - 1 : f[i] <= f[i + 1]
    BY CdfType
  <1>2. s \in Nat /\ 1 <= s /\ s <= n
    BY <1>1
  <1>3. p \in Nat /\ p < 32768
    BY <1>1, TopIs
  <1>4. Lower(f, s) = Partition(rng, p) + 4 * (n - s)
    BY DEF Lower, MinProb
  <1>5. CASE s = 1
    <2>1. Upper(f, s) = rng
      BY <1>5 DEF Upper
    <2> HIDE DEF p, n
    <2>2. Cut(rng, n, s, p, p)
      BY <1>1, <1>2, <1>3 DEF Cut
    <2>3. Partition(rng, p) + 4 * (n - s) \in Nat /\ Partition(rng, p) + 4 * (n - s) < rng
      BY <2>2, CutsLie
    <2> QED
      BY <1>4, <2>1, <2>3
  <1>6. CASE s # 1
    <2> DEFINE j == s - 1
    <2>1. j \in 1 .. n - 1 /\ j \in 1 .. n /\ j + 1 = s
      BY <1>1, <1>2, <1>6
    <2>2. f[j] \in Nat /\ 1 <= f[j] /\ f[j] <= f[s]
      BY <1>1, <2>1
    <2>3. q \in Nat /\ q < 32768 /\ p <= q /\ q = Top - f[j]
      <3>1. f[s] \in Nat /\ f[s] <= 32768
        BY <1>1
      <3>2. q = Top - f[j]
        OBVIOUS
      <3> HIDE DEF j, q
      <3> QED
        BY <2>2, <3>1, <3>2, TopIs
    <2>4. Upper(f, s) = Partition(rng, q) + 4 * (n - s + 1)
      <3>1. ~(q >= Top)
        BY <2>3, TopIs
      <3> QED
        BY <1>6, <3>1 DEF Upper, MinProb
    <2>5. 1 < s
      BY <1>2, <1>6
    <2> HIDE DEF p, q, n
    <2>6. Cut(rng, n, s, p, q)
      BY <1>1, <1>2, <1>3, <2>3 DEF Cut
    <2>7. /\ Partition(rng, p) + 4 * (n - s) \in Nat /\ Partition(rng, q) + 4 * (n - s + 1) \in Nat
          /\ Partition(rng, p) + 4 * (n - s) < Partition(rng, q) + 4 * (n - s + 1)
          /\ Partition(rng, q) + 4 * (n - s + 1) <= rng
      BY <2>5, <2>6, CutsLie
    <2> QED
      BY <1>4, <2>4, <2>7
  <1> QED
    BY <1>5, <1>6

----------------------------------------------------------------------------
(* The encoder. *)

\* An interval at x, r wide, inside b: moved up by a factor m it is inside b moved up.
Inside(x, r, b, m) == x \in Nat /\ r \in Nat /\ b \in Nat /\ m \in Nat /\ x + r <= b

LEMMA MovedUp ==
    ASSUME NEW x, NEW r, NEW b, NEW m, Inside(x, r, b, m)
    PROVE  x * m \in Nat /\ r * m \in Nat /\ b * m \in Nat /\ x * m + r * m <= b * m
  <1> USE DEF Inside
  <1>1. x * m \in Nat /\ r * m \in Nat /\ b * m \in Nat /\ (x + r) * m = x * m + r * m
    OBVIOUS
  <1>2. PICK k \in Nat : b = x + r + k
    <2>1. b - (x + r) \in Nat /\ b = x + r + (b - (x + r))
      OBVIOUS
    <2> QED
      BY <2>1
  <1>3. b * m = (x + r) * m + k * m /\ k * m \in Nat
    BY <1>2
  <1> QED
    BY <1>1, <1>3

\* A range that fits its 16 bits only when moved up by d fits below 2^e when e and d make
\* 16 or more.
Fills(r, d, e) == r \in Nat /\ Small(d, 15) /\ Small(e, 24) /\ r * Pow(d) < 65536 /\ 16 <= e + d

LEMMA FitsBelow ==
    ASSUME NEW r, NEW d, NEW e, Fills(r, d, e)
    PROVE  r < Pow(e)
  <1>1. Small(d, 15) /\ Small(e, 24) /\ r \in Nat /\ r * Pow(d) < 65536
    BY DEF Fills
  <1>2. Pow(e) \in Nat /\ Pow(d) \in Nat /\ Pow(d) >= 1 /\ Pow(e + d) = Pow(e) * Pow(d)
    BY <1>1, PowSum
  <1>3. e + d \in 16 .. 39
    BY DEF Fills, Small
  <1>4. Pow(e + d) >= 65536
    BY <1>3, PowLarge
  <1>5. SUFFICES ASSUME r >= Pow(e) PROVE FALSE
    BY <1>1, <1>2
  <1>6. Inside(Pow(e), 0, r, Pow(d))
    BY <1>1, <1>2, <1>5 DEF Inside
  <1> DEFINE u == Pow(e) * Pow(d)
             v == r * Pow(d)
             w == 0 * Pow(d)
  <1>7. u \in Nat /\ v \in Nat /\ w \in Nat /\ u + w <= v
    BY <1>2, <1>6, MovedUp
  <1>8. u = Pow(e + d) /\ v < 65536
    BY <1>1, <1>2
  <1> HIDE DEF u, v, w
  <1> QED
    BY <1>4, <1>7, <1>8

\* Two numbers of bytes leave a register one after the other.
Window(l, a, b, k) ==
    /\ l \in Nat /\ a \in Nat /\ b \in Nat /\ k \in Nat
    /\ a >= 1 /\ b >= 1 /\ a <= 256 * b /\ l < k * a

LEMMA BytesFit ==
    ASSUME NEW l, NEW a, NEW b, NEW k, Window(l, a, b, k)
    PROVE  /\ l \div a \in Nat /\ l \div a < k
           /\ l % a \in Nat /\ l % a < a
           /\ (l % a) \div b \in Nat /\ (l % a) \div b < 256
  <1> USE DEF Window
  <1>1. l \div a \in Nat /\ l \div a < k /\ l % a \in 0 .. a - 1
    BY Quotient
  <1> DEFINE x == l % a
  <1>2. x \in Nat /\ x < a
    BY <1>1
  <1> HIDE DEF x
  <1>3. x \div b \in Nat /\ x \div b < 256
    <2>1. x < 256 * b /\ 256 \in Nat
      BY <1>2
    <2> QED
      BY <1>2, <2>1, Quotient
  <1> QED
    BY <1>1, <1>2, <1>3 DEF x

\* normalize, for an interval inside the bits cnt stands for: after it the interval is
\* inside the bits the new cnt stands for.
LEMMA NormalizeKeeps ==
    ASSUME NEW l \in Nat, NEW r \in Nat, 1 <= r, r < 65536,
           cnt \in -9 .. -1, l + r <= 2 ^ (cnt + 25), precarry \in Seq(0 .. 511),
           Normalize(l, r)
    PROVE  EncoderInv'
  <1> DEFINE d == Shifts(r)
             D == Pow(d)
             sent == Emitted(l, cnt, d)
  <1>1. /\ d \in Nat /\ d <= 15
        /\ r * D \in Nat /\ 32768 <= r * D /\ r * D < 65536 /\ r * D \in Top .. 2 * Top - 1
    <2>1. r \in 1 .. 2 * Top - 1
      BY TopIs
    <2>2. Shifts(r) \in 0 .. 15 /\ r * Pow(Shifts(r)) \in Top .. 2 * Top - 1
      BY <2>1, ShiftsFit DEF Pow
    <2>3. d \in Nat /\ d <= 15
      <3>1. d \in 0 .. 15
        BY <2>2
      <3> HIDE DEF d
      <3> QED
        BY <3>1
    <2> DEFINE m == r * D
    <2>4. m \in Top .. 2 * Top - 1
      BY <2>2
    <2>5. m \in Nat /\ 32768 <= m /\ m < 65536
      <3> HIDE DEF m
      <3> QED
        BY <2>4, TopIs
    <2> QED
      BY <2>3, <2>4, <2>5
  <1>2. cnt \in Int /\ -9 <= cnt /\ cnt <= -1
    OBVIOUS
  <1>3. D \in Nat /\ Small(d, 15)
    <2> HIDE DEF d
    <2>1. Small(d, 15) /\ Small(0, 24)
      BY <1>1 DEF Small
    <2> QED
      BY <2>1, PowSum
  <1>4. l + r <= Pow(cnt + 25)
    BY DEF Pow
  <1>5. /\ precarry' = precarry \o sent /\ rng' = r * D /\ cnt' = cnt + d - 8 * Len(sent)
        /\ low' = (IF sent = <<>> THEN l ELSE l % Pow(cnt + 24 - 8 * Len(sent))) * D
    BY DEF Normalize, Pow
  <1>6. sent = IF cnt + d < 0 THEN <<>>
                ELSE IF cnt + d < 8 THEN << l \div Pow(cnt + 16) >>
                ELSE << l \div Pow(cnt + 16), (l % Pow(cnt + 16)) \div Pow(cnt + 8) >>
    BY DEF Emitted, Pow
  <1> DEFINE Kept(x, e) == Inside(x, r, Pow(e), D) /\ Small(e, 24)
                           /\ cnt' + 25 = e + d /\ low' = x * D /\ cnt' \in -9 .. -1
  <1>7. ASSUME NEW x, NEW e, Kept(x, e), sent \in Seq(0 .. 511)
        PROVE  EncoderInv'
    <2>1. /\ x * D \in Nat /\ r * D \in Nat /\ Pow(e) * D \in Nat
          /\ x * D + r * D <= Pow(e) * D
      <3> HIDE DEF D
      <3>1. Inside(x, r, Pow(e), D)
        BY <1>7
      <3> QED
        BY <3>1, MovedUp
    <2>2. Pow(e + d) = Pow(e) * D
      <3>1. Small(e, 24)
        BY <1>7
      <3> HIDE DEF d
      <3> QED
        BY <1>3, <3>1, PowSum
    <2>3. low' + rng' <= Pow(cnt' + 25) /\ low' \in Nat
      <3>1. low' = x * D /\ rng' = r * D /\ Pow(cnt' + 25) = Pow(e) * D
        BY <1>5, <1>7, <2>2
      <3> QED
        BY <2>1, <3>1
    <2>4. precarry' \in Seq(0 .. 511)
      <3> HIDE DEF sent
      <3> QED
        BY <1>5, <1>7, ConcatProperties
    <2>5. rng' \in Top .. 2 * Top - 1 /\ cnt' \in -9 .. -1
      BY <1>1, <1>5, <1>7
    <2>6. low' + rng' <= 2 ^ (cnt' + 25)
      BY <2>3 DEF Pow
    <2> QED
      BY <2>3, <2>4, <2>5, <2>6 DEF EncoderInv
  <1> DEFINE c == cnt
  <1>8. CASE c + d < 0
    <2>1. sent = <<>> /\ Len(sent) = 0 /\ sent \in Seq(0 .. 511)
      BY <1>6, <1>8
    <2>2. low' = l * D /\ cnt' = c + d
      <3> HIDE DEF D, d, sent
      <3> QED
        BY <1>1, <1>2, <1>5, <2>1
    <2> HIDE DEF d, c
    <2>3. Small(c + 25, 24) /\ cnt' + 25 = (c + 25) + d /\ cnt' \in -9 .. -1
      BY <1>1, <1>2, <1>8, <2>2 DEF Small, c
    <2>4. Inside(l, r, Pow(c + 25), D)
      BY <1>3, <1>4, <2>3, PowSum DEF Inside, c
    <2>5. Kept(l, c + 25)
      BY <2>2, <2>3, <2>4
    <2> HIDE DEF Kept
    <2> QED
      BY <1>7, <2>1, <2>5
  <1>9. CASE c + d >= 0 /\ c + d < 8
    <2> DEFINE a == Pow(c + 16)
               x == l % a
    <2> HIDE DEF d
    <2>1. /\ Small(c + 16, 24) /\ Small(c + 25, 24) /\ Small(c + 17, 24)
          /\ c + 25 = (c + 16) + 9 /\ c + 17 = (c + 16) + 1 /\ 16 <= (c + 16) + d
      BY <1>1, <1>2, <1>9 DEF Small
    <2>2. a \in Nat /\ a >= 1 /\ Pow(c + 25) = a * 512 /\ Pow(c + 17) = a * 2
      <3>1. /\ Pow(c + 16) \in Nat /\ Pow(c + 16) >= 1
            /\ Pow((c + 16) + 9) = Pow(c + 16) * 512 /\ Pow((c + 16) + 1) = Pow(c + 16) * 2
        BY <2>1, PowTimes
      <3>2. Pow((c + 16) + 9) = Pow(c + 25) /\ Pow((c + 16) + 1) = Pow(c + 17)
        BY <2>1
      <3> QED
        BY <3>1, <3>2
    <2>3. r < a
      <3>1. Fills(r, d, c + 16)
        BY <1>1, <1>3, <2>1 DEF Fills
      <3> QED
        BY <3>1, FitsBelow
    <2>4. Window(l, a, a, 512)
      <3>1. l + r <= a * 512
        BY <1>4, <2>2
      <3> HIDE DEF a
      <3> QED
        BY <2>2, <3>1 DEF Window
    <2>5. l \div a \in Nat /\ l \div a < 512 /\ x \in Nat /\ x < a
      <3> HIDE DEF a
      <3> QED
        BY <2>4, BytesFit
    <2>6. sent = << l \div a >>
      <3> HIDE DEF sent
      <3> QED
        BY <1>2, <1>6, <1>9, <1>1
    <2>7. Len(sent) = 1 /\ sent \in Seq(0 .. 511) /\ sent # <<>>
      <3> DEFINE y == l \div a
      <3>1. y \in 0 .. 511
        <4> HIDE DEF y, a
        <4>1. y \in Nat /\ y < 512
          BY <2>5 DEF y
        <4> QED
          BY <4>1
      <3> HIDE DEF y
      <3> QED
        BY <2>6, <3>1 DEF y
    <2>8. cnt' = c + d - 8 /\ low' = x * D
      <3>1. cnt + 24 - 8 * Len(sent) = c + 16 /\ 8 * Len(sent) = 8
        BY <1>2, <2>7
      <3> HIDE DEF sent, D
      <3> QED
        BY <1>5, <2>7, <3>1
    <2> HIDE DEF a, x, sent
    <2>9. Inside(x, r, Pow(c + 17), D)
      BY <1>3, <2>2, <2>3, <2>5 DEF Inside
    <2>10. cnt' + 25 = (c + 17) + d /\ cnt' \in -9 .. -1
      BY <1>1, <1>2, <1>9, <2>8
    <2>11. Kept(x, c + 17)
      BY <2>1, <2>8, <2>9, <2>10
    <2> HIDE DEF Kept
    <2> QED
      BY <1>7, <2>7, <2>11
  <1>10. CASE c + d >= 8
    <2> DEFINE a == Pow(c + 16)
               b == Pow(c + 8)
               x == l % b
    <2> HIDE DEF d
    <2>1. /\ Small(c + 16, 24) /\ Small(c + 25, 24) /\ Small(c + 9, 24) /\ Small(c + 8, 24)
          /\ c + 25 = (c + 16) + 9 /\ c + 16 = (c + 8) + 8 /\ c + 9 = (c + 8) + 1
          /\ 16 <= (c + 8) + d
      BY <1>1, <1>2, <1>10 DEF Small
    <2>2. /\ a \in Nat /\ a >= 1 /\ b \in Nat /\ b >= 1
          /\ Pow(c + 25) = a * 512 /\ a = b * 256 /\ Pow(c + 9) = b * 2
      <3>1. /\ Pow(c + 16) \in Nat /\ Pow(c + 16) >= 1
            /\ Pow((c + 16) + 9) = Pow(c + 16) * 512
        BY <2>1, PowTimes
      <3>2. /\ Pow(c + 8) \in Nat /\ Pow(c + 8) >= 1
            /\ Pow((c + 8) + 8) = Pow(c + 8) * 256 /\ Pow((c + 8) + 1) = Pow(c + 8) * 2
        BY <2>1, PowTimes
      <3>3. /\ Pow((c + 16) + 9) = Pow(c + 25) /\ Pow((c + 8) + 8) = Pow(c + 16)
            /\ Pow((c + 8) + 1) = Pow(c + 9)
        BY <2>1
      <3> QED
        BY <3>1, <3>2, <3>3
    <2>3. r < b
      <3>1. Fills(r, d, c + 8)
        BY <1>1, <1>3, <2>1 DEF Fills
      <3> QED
        BY <3>1, FitsBelow
    <2>4. Window(l, a, b, 512)
      <3>1. l + r <= a * 512
        BY <1>4, <2>2
      <3> HIDE DEF a, b
      <3> QED
        BY <2>2, <3>1 DEF Window
    <2>5. /\ l \div a \in Nat /\ l \div a < 512
          /\ (l % a) \div b \in Nat /\ (l % a) \div b < 256
      <3> HIDE DEF a, b
      <3> QED
        BY <2>4, BytesFit
    <2>6. x \in Nat /\ x < b
      <3> HIDE DEF b
      <3>1. x \in 0 .. b - 1
        BY <2>2
      <3> HIDE DEF x
      <3> QED
        BY <2>2, <3>1
    <2>7. sent = << l \div a, (l % a) \div b >>
      <3>1. ~(c + d < 0) /\ ~(c + d < 8)
        BY <1>1, <1>2, <1>10
      <3> HIDE DEF sent
      <3> QED
        BY <1>6, <3>1
    <2>8. Len(sent) = 2 /\ sent \in Seq(0 .. 511) /\ sent # <<>>
      <3> DEFINE y == l \div a
                 z == (l % a) \div b
      <3>1. y \in 0 .. 511 /\ z \in 0 .. 511
        <4> HIDE DEF y, z, a, b
        <4>1. y \in Nat /\ y < 512 /\ z \in Nat /\ z < 256
          BY <2>5 DEF y, z
        <4> QED
          BY <4>1
      <3> HIDE DEF y, z
      <3> QED
        BY <2>7, <3>1 DEF y, z
    <2>9. cnt' = c + d - 16 /\ low' = x * D
      <3>1. cnt + 24 - 8 * Len(sent) = c + 8 /\ 8 * Len(sent) = 16
        BY <1>2, <2>8
      <3> HIDE DEF sent, D
      <3> QED
        BY <1>5, <2>8, <3>1
    <2> HIDE DEF a, b, x, sent
    <2>10. Inside(x, r, Pow(c + 9), D)
      BY <1>3, <2>2, <2>3, <2>6 DEF Inside
    <2>11. cnt' + 25 = (c + 9) + d /\ cnt' \in -9 .. -1
      BY <1>1, <1>2, <1>10, <2>9
    <2>12. Kept(x, c + 9)
      BY <2>1, <2>9, <2>10, <2>11
    <2> HIDE DEF Kept
    <2> QED
      BY <1>7, <2>8, <2>12
  <1>11. d \in Int
    BY <1>1
  <1> HIDE DEF d
  <1> QED
    BY <1>2, <1>8, <1>9, <1>10, <1>11

LEMMA EncoderParts ==
    ASSUME EncoderInv
    PROVE  /\ rng \in Nat /\ 32768 <= rng /\ rng < 65536
           /\ cnt \in -9 .. -1 /\ low \in Nat /\ low + rng <= 2 ^ (cnt + 25)
           /\ precarry \in Seq(0 .. 511)
  <1>1. rng \in Top .. 2 * Top - 1
    BY DEF EncoderInv
  <1>2. rng \in Nat /\ 32768 <= rng /\ rng < 65536
    BY <1>1, TopIs
  <1> QED
    BY <1>2 DEF EncoderInv

\* encode_symbol, for every CDF and symbol of it, keeps the registers in their widths.
LEMMA EncodeKeeps ==
    ASSUME EncoderInv, NEW f, IsCdf(f), NEW s, s \in 1 .. Len(f), EncodeSymbol(f, s)
    PROVE  EncoderInv'
  <1> DEFINE u == Upper(f, s)
             v == Lower(f, s)
             l == low + (rng - u)
             r == u - v
  <1>1. /\ rng \in Nat /\ 32768 <= rng /\ rng < 65536
        /\ cnt \in -9 .. -1 /\ low \in Nat /\ low + rng <= 2 ^ (cnt + 25)
        /\ precarry \in Seq(0 .. 511)
    BY EncoderParts
  <1>2. v \in Nat /\ u \in Nat /\ v < u /\ u <= rng
    BY <1>1, IntervalsLie
  <1>3. Normalize(l, r)
    BY DEF EncodeSymbol
  <1>4. /\ l \in Nat /\ r \in Nat /\ 1 <= r /\ r < 65536
        /\ l + r = low + rng - v
    <2> HIDE DEF u, v
    <2> QED
      BY <1>1, <1>2
  <1>5. l + r <= 2 ^ (cnt + 25)
    <2> DEFINE b == 2 ^ (cnt + 25)
    <2>1. b \in Nat
      <3>1. Small(cnt + 25, 24)
        BY <1>1 DEF Small
      <3> QED
        BY <3>1, PowTimes DEF Pow
    <2>2. low + rng <= b
      BY <1>1
    <2> HIDE DEF b, l, r, v
    <2>3. l + r <= b
      BY <1>1, <1>2, <1>4, <2>1, <2>2
    <2> QED
      BY <2>3 DEF b
  <1> HIDE DEF l, r
  <1> QED
    BY <1>1, <1>3, <1>4, <1>5, NormalizeKeeps

\* finish produces bytes, whatever the registers.
LEMMA FinishedIsBytes ==
    ASSUME EncoderInv
    PROVE  Finished \in Seq(0 .. 255)
  <1> DEFINE n == Len(Flushed)
             e == EndValue(low)
             k == (cnt + 17) \div 8
             last == [i \in 1 .. k |->
                        (IF i = 1 THEN e ELSE e % 2 ^ (cnt + 32 - 8 * i)) \div 2 ^ (cnt + 24 - 8 * i)]
  <1>1. cnt \in -9 .. -1 /\ low \in Nat /\ precarry \in Seq(0 .. 511)
    BY EncoderParts
  <1>2. e \in Nat
    <2> DEFINE x == (low + 16383) \div 16384
    <2>1. x \in Nat
      BY <1>1
    <2> HIDE DEF x
    <2>2. 16384 * (IF x % 2 = 0 THEN x + 1 ELSE x) \in Nat
      BY <2>1
    <2> QED
      BY <2>2 DEF EndValue, x
  <1>3. Flushed \in Seq(Nat)
    <2>1. k \in Nat /\ k <= 2 /\ (k = 2 => cnt = -1)
      BY <1>1
    <2> HIDE DEF k, e
    <2>2. ASSUME NEW i \in 1 .. k PROVE last[i] \in Nat
      <3>1. i = 1 \/ (i = 2 /\ cnt = -1)
        BY <2>1
      <3> DEFINE x == IF i = 1 THEN e ELSE e % 2 ^ (cnt + 32 - 8 * i)
                 m == 2 ^ (cnt + 24 - 8 * i)
      <3>2. x \in Nat
        <4>1. CASE i = 1
          BY <1>2, <4>1
        <4>2. CASE i = 2 /\ cnt = -1
          <5>1. Pow(15) = 32768 /\ Pow(cnt + 32 - 8 * i) = Pow(15)
            BY <4>2, PowTable
          <5>2. e % 32768 \in Nat
            BY <1>2
          <5>3. x = e % 32768
            BY <4>2, <5>1 DEF Pow
          <5> QED
            BY <5>2, <5>3
        <4> QED
          BY <3>1, <4>1, <4>2
      <3>3. m \in Nat /\ m >= 1
        <4>1. Small(cnt + 24 - 8 * i, 24)
          BY <1>1, <3>1 DEF Small
        <4> QED
          BY <4>1, PowTimes DEF Pow
      <3>4. last[i] = x \div m
        OBVIOUS
      <3> HIDE DEF x, m, last
      <3>5. x \div m \in Nat
        BY <3>2, <3>3, Quotient
      <3> QED
        BY <3>4, <3>5
    <2>3. last \in Seq(Nat)
      <3>1. last = [i \in 1 .. k |-> last[i]]
        OBVIOUS
      <3> HIDE DEF last
      <3>2. last \in [1 .. k -> Nat]
        BY <2>2, <3>1
      <3> QED
        BY <2>1, <3>2, SeqDef
    <2>4. precarry \in Seq(Nat)
      <3> DEFINE Held == 0 .. 511
      <3>1. Held \subseteq Nat
        OBVIOUS
      <3>2. precarry \in Seq(Held)
        BY <1>1
      <3> HIDE DEF Held
      <3> QED
        BY <3>1, <3>2, Widened
    <2>5. Flushed = precarry \o last
      BY DEF Flushed, k, e
    <2> HIDE DEF last
    <2> QED
      BY <2>3, <2>4, <2>5, ConcatProperties
  <1>4. n \in Nat /\ \A j \in 1 .. n : Flushed[j] \in Nat
    BY <1>3, LenProperties, ElementOfSeq
  <1> DEFINE step == [j \in 1 .. n |-> [v \in Nat |-> (Flushed[n + 1 - j] + v) \div 256]]
             Eq(f) == f = [j \in 0 .. n |-> IF j = 0 THEN 0 ELSE (Flushed[n + 1 - j] + f[j - 1]) \div 256]
             C == CHOOSE f : Eq(f)
  <1>5. step \in [1 .. n -> [Nat -> Nat]]
    <2>1. ASSUME NEW j \in 1 .. n, NEW v \in Nat PROVE (Flushed[n + 1 - j] + v) \div 256 \in Nat
      <3>1. n + 1 - j \in 1 .. n
        BY <1>4
      <3>2. Flushed[n + 1 - j] \in Nat
        BY <1>4, <3>1
      <3> QED
        BY <3>2
    <2> QED
      BY <2>1
  <1>6. PICK f : Recursive(f, n, Nat, 0, step)
    <2> HIDE DEF step, n
    <2> QED
      BY <1>4, <1>5, Recursion
  <1>7. Eq(f)
    <2> DEFINE g == [j \in 0 .. n |-> IF j = 0 THEN 0 ELSE (Flushed[n + 1 - j] + f[j - 1]) \div 256]
    <2>1. f \in [0 .. n -> Nat] /\ f[0] = 0
      BY <1>6 DEF Recursive
    <2>2. ASSUME NEW j \in 1 .. n PROVE f[j] = (Flushed[n + 1 - j] + f[j - 1]) \div 256
      <3>1. f[j] = step[j][f[j - 1]]
        <4> HIDE DEF step
        <4> QED
          BY <1>6 DEF Recursive
      <3>2. f[j - 1] \in Nat
        <4> HIDE DEF step
        <4>1. j - 1 \in 0 .. n
          BY <1>4
        <4> QED
          BY <2>1, <4>1
      <3> QED
        BY <3>1, <3>2
    <2>3. \A j \in 0 .. n : f[j] = g[j]
      BY <1>4, <2>1, <2>2
    <2>4. f = [j \in 0 .. n |-> f[j]] /\ g = [j \in 0 .. n |-> g[j]]
      BY <2>1
    <2>5. f = g
      <3> HIDE DEF g
      <3> QED
        BY <2>3, <2>4
    <2> QED
      BY <2>5
  <1>8. Eq(C)
    <2> HIDE DEF Eq
    <2> QED
      BY <1>7
  <1>9. Carry = C
    BY DEF Carry
  <1>10. \A j \in 0 .. n : Carry[j] \in Nat
    <2>1. Carry = [j \in 0 .. n |-> IF j = 0 THEN 0 ELSE (Flushed[n + 1 - j] + Carry[j - 1]) \div 256]
      BY <1>8, <1>9
    <2>2. Carry[0] \in Nat
      <3>1. 0 \in 0 .. n
        BY <1>4
      <3> QED
        BY <2>1, <3>1
    <2>3. ASSUME NEW j \in 1 .. n, Carry[j - 1] \in Nat PROVE Carry[j] \in Nat
      <3>1. n + 1 - j \in 1 .. n /\ j \in 0 .. n /\ j # 0
        BY <1>4
      <3>2. Carry[j] = (Flushed[n + 1 - j] + Carry[j - 1]) \div 256
        BY <2>1, <3>1
      <3>3. Flushed[n + 1 - j] \in Nat
        BY <1>4, <3>1
      <3> QED
        BY <2>3, <3>2, <3>3
    <2> HIDE DEF n
    <2> QED
      BY <1>4, <2>2, <2>3, StaysIn
  <1> DEFINE byte(i) == (Flushed[i] + Carry[n - i]) % 256
  <1>11. Finished = [i \in 1 .. n |-> byte(i)]
    BY DEF Finished
  <1>12. \A i \in 1 .. n : byte(i) \in 0 .. 255
    <2> TAKE i \in 1 .. n
    <2>1. n - i \in 0 .. n
      BY <1>4
    <2>2. Flushed[i] \in Nat /\ Carry[n - i] \in Nat
      BY <1>4, <1>10, <2>1
    <2>3. \A x, y \in Nat : (x + y) % 256 \in 0 .. 255
      OBVIOUS
    <2> QED
      BY <2>2, <2>3
  <1> HIDE DEF byte, n
  <1> QED
    BY <1>4, <1>11, <1>12, SeqDef

----------------------------------------------------------------------------
(* The decoder. *)

\* read_f: n bits make a number below 2^n, also past the end of the bytes.
LEMMA BitsLie ==
    ASSUME NEW data \in Seq(0 .. 255), NEW p \in Nat, NEW n, Small(n, 15)
    PROVE  ReadBits(data, p, n) \in Nat /\ ReadBits(data, p, n) < Pow(n)
  <1> DEFINE bit(i) == BitAt(data, p + i - 1)
             step == [i \in 1 .. n |-> [v \in Nat |-> 2 * v + bit(i)]]
             Eq(f) == f = [i \in 0 .. n |-> IF i = 0 THEN 0 ELSE 2 * f[i - 1] + bit(i)]
             C == CHOOSE f : Eq(f)
  <1>1. n \in Nat /\ n <= 15
    BY DEF Small
  <1>2. ASSUME NEW i \in 1 .. n PROVE bit(i) \in Nat /\ bit(i) <= 1
    <2> DEFINE q == p + i - 1
               x == data[q \div 8 + 1]
               m == 2 ^ (7 - (q % 8))
    <2>1. q \in Nat /\ Len(data) \in Nat
      BY <1>1, LenProperties
    <2>2. CASE q >= 8 * Len(data)
      BY <2>2 DEF BitAt
    <2>3. CASE ~(q >= 8 * Len(data))
      <3> HIDE DEF q
      <3>1. q \div 8 + 1 \in 1 .. Len(data)
        BY <2>1, <2>3
      <3>2. x \in 0 .. 255
        BY <3>1, ElementOfSeq
      <3>3. x \in Nat
        <4> HIDE DEF x
        <4> QED
          BY <3>2
      <3>4. m \in Nat /\ m >= 1
        <4>1. Small(7 - (q % 8), 24)
          BY <2>1 DEF Small
        <4> QED
          BY <4>1, PowTimes DEF Pow
      <3>5. bit(i) = (x \div m) % 2
        BY <2>3 DEF BitAt, q
      <3> HIDE DEF x, m
      <3>6. x \div m \in Nat
        BY <3>3, <3>4, Quotient
      <3>7. \A y \in Nat : y % 2 \in Nat /\ y % 2 <= 1
        OBVIOUS
      <3> QED
        BY <3>5, <3>6, <3>7
    <2> QED
      BY <2>2, <2>3
  <1> HIDE DEF bit
  <1>3. step \in [1 .. n -> [Nat -> Nat]]
    BY <1>2
  <1>4. PICK f : Recursive(f, n, Nat, 0, step)
    <2> HIDE DEF step
    <2> QED
      BY <1>1, <1>3, Recursion
  <1>5. Eq(f)
    <2> DEFINE g == [i \in 0 .. n |-> IF i = 0 THEN 0 ELSE 2 * f[i - 1] + bit(i)]
    <2>1. f \in [0 .. n -> Nat] /\ f[0] = 0
      BY <1>4 DEF Recursive
    <2>2. ASSUME NEW i \in 1 .. n PROVE f[i] = 2 * f[i - 1] + bit(i)
      <3>1. f[i] = step[i][f[i - 1]]
        <4> HIDE DEF step
        <4> QED
          BY <1>4 DEF Recursive
      <3>2. f[i - 1] \in Nat
        <4> HIDE DEF step
        <4>1. i - 1 \in 0 .. n
          BY <1>1
        <4> QED
          BY <2>1, <4>1
      <3> QED
        BY <3>1, <3>2
    <2>3. \A i \in 0 .. n : f[i] = g[i]
      BY <1>1, <2>1, <2>2
    <2>4. f = [i \in 0 .. n |-> f[i]] /\ g = [i \in 0 .. n |-> g[i]]
      BY <2>1
    <2>5. f = g
      <3> HIDE DEF g
      <3> QED
        BY <2>3, <2>4
    <2> QED
      BY <2>5
  <1>6. Eq(C)
    <2> HIDE DEF Eq
    <2> QED
      BY <1>5
  <1>7. ReadBits(data, p, n) = C[n]
    BY DEF ReadBits, bit
  <1> HIDE DEF C
  <1> DEFINE H == {i \in 0 .. n : C[i] \in Nat /\ C[i] < Pow(i)}
  <1>8. \A i \in 0 .. n : i \in H
    <2>1. 0 \in H
      <3>1. C[0] = 0 /\ 0 \in 0 .. n
        BY <1>1, <1>6
      <3>2. Pow(0) = 1
        BY PowTable
      <3> QED
        BY <3>1, <3>2
    <2>2. ASSUME NEW i \in 1 .. n, i - 1 \in H PROVE i \in H
      <3> DEFINE j == i - 1
      <3>1. j \in Nat /\ j + 1 = i /\ Small(j, 24) /\ i \in 0 .. n /\ i # 0
        BY <1>1 DEF Small
      <3>2. C[j] \in Nat /\ C[j] < Pow(j)
        BY <2>2
      <3>3. C[i] = 2 * C[j] + bit(i)
        BY <1>6, <3>1
      <3>4. Pow(j) \in Nat /\ Pow(j + 1) = Pow(j) * 2
        BY <3>1, PowTimes
      <3>5. bit(i) \in Nat /\ bit(i) <= 1
        BY <1>2
      <3>6. Pow(i) = Pow(j) * 2
        BY <3>1, <3>4
      <3> HIDE DEF j
      <3> QED
        BY <3>1, <3>2, <3>3, <3>4, <3>5, <3>6
    <2>3. \A i \in 1 .. n : i - 1 \in H => i \in H
      BY <2>2
    <2> HIDE DEF H
    <2> QED
      BY <1>1, <2>1, <2>3, UpTo
  <1> QED
    BY <1>1, <1>7, <1>8

\* The parts of the decoder's state.
LEMMA DecoderParts ==
    ASSUME DecoderInv
    PROVE  /\ range \in Nat /\ 32768 <= range /\ range < 65536
           /\ value \in Nat /\ value < range
           /\ bytes \in Seq(0 .. 255) /\ Len(bytes) \in Nat
           /\ maxBits \in Int /\ bitPos \in Nat /\ bitPos = 8 * Len(bytes) - Most(maxBits, 0)
  <1>1. range \in Top .. 2 * Top - 1
    BY DEF DecoderInv, DecoderTypeOK
  <1>2. range \in Nat /\ 32768 <= range /\ range < 65536
    BY <1>1, TopIs
  <1>3. value \in 0 .. range - 1 /\ bitPos \in 0 .. 8 * Len(bytes)
    BY DEF DecoderInv, DecoderTypeOK
  <1>4. Len(bytes) \in Nat /\ bytes \in Seq(0 .. 255)
    BY LenProperties DEF DecoderInv
  <1> QED
    BY <1>2, <1>3, <1>4 DEF DecoderInv, DecoderTypeOK

\* renormalize keeps the decoder in its ranges, for a value below the range it is left with.
LEMMA RenormalizeKeeps ==
    ASSUME DecoderInv, NEW v \in Nat, NEW r \in Nat, v < r, r < 65536,
           Renormalize(v, r), open' = open
    PROVE  DecoderInv'
  <1> DEFINE d == Shifts(r)
             left == Most(maxBits, 0)
             n == Least(d, left)
             D == Pow(d)
             K == Pow(d - n)
             bits == ReadBits(bytes, bitPos, n)
  <1>1. /\ range \in Nat /\ 32768 <= range /\ range < 65536
        /\ value \in Nat /\ value < range
        /\ bytes \in Seq(0 .. 255) /\ Len(bytes) \in Nat
        /\ maxBits \in Int /\ bitPos \in Nat /\ bitPos = 8 * Len(bytes) - left
    BY DecoderParts
  <1>2. Small(d, 15) /\ r * D \in Top .. 2 * Top - 1
    <2>1. r \in 1 .. 2 * Top - 1
      BY TopIs
    <2>2. Shifts(r) \in 0 .. 15 /\ r * Pow(Shifts(r)) \in Top .. 2 * Top - 1
      BY <2>1, ShiftsFit DEF Pow
    <2> HIDE DEF d
    <2>3. Small(d, 15)
      BY <2>2 DEF Small, d
    <2> QED
      BY <2>2, <2>3 DEF d
  <1>3. /\ range' = r * D /\ bitPos' = bitPos + n /\ maxBits' = maxBits - d /\ bytes' = bytes
        /\ value' = (v + 1) * D - 1 - bits * K
    BY DEF Renormalize, Pow
  <1> HIDE DEF d
  <1>4. left \in Nat /\ d \in Nat /\ d <= 15 /\ n \in Nat /\ n <= d /\ n <= left
        /\ (d <= left => n = d) /\ (left <= d => n = left)
        /\ (maxBits >= 0 => left = maxBits) /\ (maxBits <= 0 => left = 0)
    BY <1>1, <1>2 DEF Small, Least, Most
  <1> HIDE DEF left, n
  <1>5. D \in Nat /\ K \in Nat /\ K >= 1 /\ Pow(n) \in Nat /\ D = Pow(n) * K /\ Small(n, 15)
    <2>1. Small(n, 24) /\ Small(d - n, 15) /\ Small(n, 15) /\ n + (d - n) = d
      BY <1>4 DEF Small
    <2>2. Pow(n) \in Nat /\ K \in Nat /\ K >= 1 /\ Pow(n + (d - n)) = Pow(n) * K
      BY <2>1, PowSum
    <2>3. Small(d, 24)
      BY <1>4 DEF Small
    <2>4. D \in Nat
      BY <2>3, PowTimes
    <2> QED
      BY <2>1, <2>2, <2>4
  <1>6. bits \in Nat /\ bits < Pow(n)
    BY <1>1, <1>5, BitsLie
  <1> HIDE DEF bits, D, K
  <1>7. bits * K \in Nat /\ bits * K + K <= D
    <2>1. Inside(bits, 1, Pow(n), K)
      BY <1>5, <1>6 DEF Inside
    <2>2. bits * K \in Nat /\ bits * K + 1 * K <= Pow(n) * K
      BY <2>1, MovedUp
    <2> QED
      BY <1>5, <2>2
  <1>8. v * D \in Nat /\ (v + 1) * D = v * D + D /\ v * D + D <= r * D /\ r * D \in Nat
    <2>1. Inside(v, 1, r, D)
      BY <1>5 DEF Inside
    <2>2. v * D \in Nat /\ r * D \in Nat /\ v * D + 1 * D <= r * D
      BY <2>1, MovedUp
    <2>3. (v + 1) * D = v * D + D
      BY <1>5
    <2> QED
      BY <1>5, <2>2, <2>3
  <1>9. value' \in 0 .. range' - 1 /\ range' \in Top .. 2 * Top - 1
    <2> DEFINE x == bits * K
               y == v * D
               z == r * D
               w == (v + 1) * D
    <2>1. /\ x \in Nat /\ x + K <= D /\ y \in Nat /\ w = y + D /\ y + D <= z /\ z \in Nat
          /\ value' = w - 1 - x /\ range' = z
      BY <1>3, <1>7, <1>8
    <2> HIDE DEF x, y, z, w
    <2>2. value' \in 0 .. range' - 1
      BY <1>5, <2>1
    <2> QED
      BY <1>2, <1>3, <2>2
  <1>10. maxBits' \in Int /\ bitPos' = 8 * Len(bytes) - Most(maxBits', 0) /\ bitPos' \in 0 .. 8 * Len(bytes)
    <2>1. maxBits' \in Int
      BY <1>1, <1>3, <1>4
    <2>2. CASE maxBits' >= 0
      <3>1. n = d /\ left = maxBits
        BY <1>1, <1>3, <1>4, <2>1, <2>2
      <3> QED
        BY <1>1, <1>3, <1>4, <2>1, <2>2, <3>1 DEF Most
    <2>3. CASE ~(maxBits' >= 0)
      <3>1. n = left
        BY <1>1, <1>3, <1>4, <2>1, <2>3
      <3> QED
        BY <1>1, <1>3, <1>4, <2>1, <2>3, <3>1 DEF Most
    <2> QED
      BY <2>2, <2>3
  <1>11. open' /\ maxBits' >= -14 => bitPos' >= Least(15, maxBits' + 15)
    <2> SUFFICES ASSUME open, maxBits' >= -14 PROVE bitPos' >= Least(15, maxBits' + 15)
      OBVIOUS
    <2>1. maxBits >= maxBits' /\ maxBits' \in Int
      BY <1>1, <1>3, <1>4
    <2>2. bitPos >= Least(15, maxBits + 15)
      BY <1>1, <2>1 DEF DecoderInv
    <2> QED
      BY <1>1, <1>3, <1>4, <2>1, <2>2 DEF Least
  <1>12. DecoderTypeOK'
    BY <1>3, <1>9, <1>10 DEF DecoderTypeOK
  <1> QED
    BY <1>1, <1>3, <1>10, <1>11, <1>12 DEF DecoderInv

\* SymbolDecoder::new over any bytes.
LEMMA OpenTileLies ==
    ASSUME NEW data, data \in Seq(0 .. 255), OpenTile(data)
    PROVE  DecoderInv'
  <1> DEFINE n == Least(8 * Len(data), 15)
             bits == ReadBits(data, 0, n)
             K == Pow(15 - n)
  <1>1. Len(data) \in Nat
    BY LenProperties
  <1>2. n \in Nat /\ n <= 15 /\ n <= 8 * Len(data)
    BY <1>1 DEF Least
  <1>3. /\ bytes' = data /\ bitPos' = n /\ value' = Top - 1 - bits * K
        /\ range' = Top /\ maxBits' = 8 * Len(data) - 15
    BY DEF OpenTile, Pow
  <1>4. bitPos' = 8 * Len(data) - Most(maxBits', 0)
    <2>1. \A L \in Nat : Least(8 * L, 15) = 8 * L - Most(8 * L - 15, 0)
      BY DEF Most, Least
    <2>2. bitPos' = Least(8 * Len(data), 15) /\ maxBits' = 8 * Len(data) - 15
      BY <1>3
    <2> HIDE DEF n
    <2> QED
      BY <1>1, <2>1, <2>2
  <1>5. maxBits' >= -14 => bitPos' >= Least(15, maxBits' + 15)
    BY <1>1, <1>3 DEF Least
  <1> HIDE DEF n
  <1>6. Small(n, 15) /\ Small(n, 24) /\ Small(15 - n, 15)
    BY <1>2 DEF Small
  <1>7. bits \in Nat /\ bits < Pow(n)
    BY <1>6, BitsLie
  <1>8. Pow(n) \in Nat /\ K \in Nat /\ K >= 1 /\ Pow(n) * K = 32768
    <2>1. n + (15 - n) = 15
      BY <1>2
    <2>2. Pow(n) \in Nat /\ K \in Nat /\ K >= 1 /\ Pow(n + (15 - n)) = Pow(n) * K
      BY <1>6, PowSum
    <2>3. Pow(15) = 32768
      BY PowTable
    <2> QED
      BY <2>1, <2>2, <2>3
  <1> HIDE DEF bits, K
  <1>9. bits * K \in Nat /\ bits * K < 32768
    <2>1. Inside(bits, 1, Pow(n), K)
      BY <1>7, <1>8 DEF Inside
    <2>2. bits * K \in Nat /\ bits * K + 1 * K <= Pow(n) * K
      BY <2>1, MovedUp
    <2> QED
      BY <1>8, <2>2
  <1>10. value' \in 0 .. range' - 1 /\ range' \in Top .. 2 * Top - 1
    <2> DEFINE x == bits * K
    <2>1. x \in Nat /\ x < 32768 /\ value' = Top - 1 - x /\ range' = Top
      BY <1>3, <1>9
    <2> HIDE DEF x
    <2> QED
      BY <2>1, TopIs
  <1>11. DecoderTypeOK'
    BY <1>1, <1>2, <1>3, <1>10 DEF DecoderTypeOK
  <1> QED
    BY <1>3, <1>4, <1>5, <1>11 DEF DecoderInv

\* read_symbol, for any slice of up to 16 probabilities: the symbol it returns has an
\* interval that holds the value, so what it renormalizes is a value inside a range.
LEMMA ReadSymbolKeeps ==
    ASSUME DecoderInv, NEW f, f \in Seq(Nat), NEW s, Len(f) >= 1,
           ReadSymbol(f, s), open' = open
    PROVE  DecoderInv' /\ s \in 1 .. Len(f)
  <1> DEFINE n == Len(f)
             B(i) == Bracket(f, i)
             cuts(i) == {range} \cup {Partition(range, Most(Top - f[j], 0)) + MinProb * (n - j)
                                         : j \in 1 .. i}
             S == {n} \cup {i \in 1 .. n - 1 : value >= B(i)}
             above == IF s = 1 THEN range ELSE B(s - 1)
             below == IF s = n THEN 0 ELSE B(s)
  <1>1. /\ range \in Nat /\ 32768 <= range /\ range < 65536
        /\ value \in Nat /\ value < range
    BY DecoderParts
  <1>2. n \in Nat /\ n >= 1 /\ \A j \in 1 .. n : f[j] \in Nat
    BY LenProperties, ElementOfSeq
  <1>3. ASSUME NEW i \in 1 .. n PROVE B(i) \in Nat /\ B(i) <= range
    <2>1. ASSUME NEW j \in 1 .. i
          PROVE  Partition(range, Most(Top - f[j], 0)) + MinProb * (n - j) \in Nat
      <3>1. j \in 1 .. n /\ f[j] \in Nat
        BY <1>2
      <3>2. MinProb * (n - j) \in Nat
        BY <1>2, <3>1 DEF MinProb
      <3> DEFINE q == Most(Top - f[j], 0)
      <3>3. q \in Nat /\ q <= q
        <4>1. Top - f[j] \in Int
          BY <3>1, TopIs
        <4> QED
          BY <4>1 DEF Most
      <3> HIDE DEF q
      <3>4. Partition(range, q) \in Nat
        <4>1. Cuttable(range, q)
          BY <1>1, <3>3 DEF Cuttable
        <4> QED
          BY <4>1, PartitionIsNat
      <3> QED
        BY <3>2, <3>4 DEF q
    <2>2. cuts(i) \in SUBSET Nat /\ cuts(i) # {} /\ range \in cuts(i)
      BY <1>1, <2>1
    <2>3. B(i) = Min(cuts(i))
      BY DEF Bracket
    <2> HIDE DEF cuts
    <2>4. Min(cuts(i)) \in cuts(i) /\ \A x \in cuts(i) : Min(cuts(i)) <= x
      BY <2>2, LeastOf
    <2> QED
      BY <2>2, <2>3, <2>4
  <1> HIDE DEF B
  <1>4. s = Min(S) /\ Renormalize(value - below, above - below)
    BY DEF ReadSymbol, Symbol, B
  <1>5. s \in S /\ \A x \in S : s <= x
    <2>1. S \in SUBSET Nat /\ S # {}
      BY <1>2
    <2> HIDE DEF S
    <2> QED
      BY <1>4, <2>1, LeastOf
  <1>6. s \in 1 .. n
    BY <1>2, <1>5
  <1>7. below \in Nat /\ below <= value
    <2>1. CASE s = n
      BY <1>1, <2>1
    <2>2. CASE s # n
      BY <1>3, <1>5, <1>6, <2>2
    <2> QED
      BY <2>1, <2>2
  <1>8. above \in Nat /\ value < above /\ above <= range
    <2>1. CASE s = 1
      BY <1>1, <2>1
    <2>2. CASE s # 1
      <3> DEFINE t == s - 1
      <3>1. t \in 1 .. n - 1 /\ t \in 1 .. n /\ t < s /\ s \in Nat
        BY <1>2, <1>6, <2>2
      <3>2. ~(s <= t)
        BY <3>1
      <3>3. t \notin S
        BY <1>5, <3>2
      <3>4. ~(value >= B(t))
        BY <3>1, <3>3
      <3>5. B(t) \in Nat /\ B(t) <= range
        BY <1>3, <3>1
      <3> HIDE DEF t
      <3>6. value < B(t)
        BY <1>1, <3>4, <3>5
      <3>7. above = B(t)
        BY <2>2 DEF t
      <3> QED
        BY <3>5, <3>6, <3>7
    <2> QED
      BY <2>1, <2>2
  <1> DEFINE v == value - below
             r == above - below
  <1>9. v \in Nat /\ r \in Nat /\ v < r /\ r < 65536
    <2> HIDE DEF below, above
    <2> QED
      BY <1>1, <1>7, <1>8
  <1>10. Renormalize(v, r)
    BY <1>4
  <1> HIDE DEF v, r
  <1>11. DecoderInv'
    BY <1>9, <1>10, RenormalizeKeeps
  <1> QED
    BY <1>6, <1>11

----------------------------------------------------------------------------
(* The tile. *)

\* Adapting one context leaves every context a CDF of as many symbols as it began with.
LEMMA AfterIsAdapting ==
    ASSUME NEW contexts, Adapting(contexts), NEW c \in Contexts, NEW s \in 1 .. Len(contexts[c].cdf)
    PROVE  Adapting(After(contexts, c, s))
  <1> DEFINE a == Adapted(contexts[c], s)
             after == [contexts EXCEPT ![c] = a]
             R == [cdf : Seq(1 .. Top), count : 0 .. 32]
  <1>1. /\ contexts \in [Contexts -> R]
        /\ \A k \in Contexts : IsCdf(contexts[k].cdf) /\ Len(contexts[k].cdf) = Len(Cdfs[k])
    BY DEF Adapting
  <1> HIDE DEF R
  <1>2. contexts[c] \in R /\ IsCdf(contexts[c].cdf) /\ Len(contexts[c].cdf) = Len(Cdfs[c])
    BY <1>1
  <1>3. a \in R /\ IsCdf(a.cdf) /\ Len(a.cdf) = Len(Cdfs[c])
    BY <1>2, AdaptedIsCdf DEF R
  <1> HIDE DEF a
  <1>4. after \in [Contexts -> R]
    BY <1>1, <1>3
  <1>5. \A k \in Contexts : IsCdf(after[k].cdf) /\ Len(after[k].cdf) = Len(Cdfs[k])
    BY <1>1, <1>3
  <1>6. Adapting(after)
    <2> HIDE DEF after
    <2> QED
      BY <1>4, <1>5 DEF Adapting, R
  <1>7. After(contexts, c, s) = contexts \/ After(contexts, c, s) = after
    BY DEF After, a
  <1> HIDE DEF after
  <1> QED
    BY <1>6, <1>7

LEMMA EncoderKept == ASSUME EncoderInv, UNCHANGED encoder PROVE EncoderInv'
  BY DEF EncoderInv, encoder

LEMMA DecoderKept == ASSUME DecoderInv, UNCHANGED <<decoder, open>> PROVE DecoderInv'
  BY DEF DecoderInv, DecoderTypeOK, decoder

LEMMA ChannelKept == ASSUME ChannelInv, UNCHANGED channel PROVE ChannelInv'
  BY DEF ChannelInv, channel

LEMMA InitIsInvariant == SymbolInit => IInv
  <1> SUFFICES ASSUME SymbolInit PROVE IInv
    OBVIOUS
  <1>1. EncoderInv
    <2>1. rng = Top /\ cnt = -9 /\ low = 0 /\ precarry = <<>>
      BY DEF SymbolInit, InitEncoder
    <2>2. cnt + 25 = 16 /\ Pow(16) = 65536
      BY <2>1, PowTable
    <2>3. low + rng <= 2 ^ (cnt + 25)
      <3>1. low + rng <= Pow(cnt + 25)
        BY <2>1, <2>2, TopIs
      <3> QED
        BY <3>1 DEF Pow
    <2>4. rng \in Top .. 2 * Top - 1
      BY <2>1, TopIs
    <2>5. precarry \in Seq(0 .. 511)
      BY <2>1
    <2> QED
      BY <2>1, <2>3, <2>4, <2>5 DEF EncoderInv
  <1>2. DecoderInv
    <2>1. range = Top /\ value = 0 /\ bytes = <<>> /\ bitPos = 0 /\ maxBits = 0 /\ open = FALSE
      BY DEF SymbolInit, TileInit
    <2>2. range \in Top .. 2 * Top - 1 /\ value \in 0 .. range - 1
      BY <2>1, TopIs
    <2>3. bytes \in Seq(0 .. 255) /\ Len(bytes) = 0
      BY <2>1
    <2>4. Most(maxBits, 0) = 0
      BY <2>1 DEF Most
    <2> QED
      BY <2>1, <2>2, <2>3, <2>4 DEF DecoderInv, DecoderTypeOK
  <1>3. ChannelInv
    <2>1. ASSUME NEW c \in Contexts
          PROVE  /\ Context(Cdfs[c]) \in [cdf : Seq(1 .. Top), count : 0 .. 32]
                 /\ IsCdf(Context(Cdfs[c]).cdf) /\ Len(Context(Cdfs[c]).cdf) = Len(Cdfs[c])
      <3>1. IsCdf(Cdfs[c]) /\ Cdfs[c] \in Seq(1 .. Top)
        BY CdfsAssumption DEF IsCdf
      <3> QED
        BY <3>1 DEF Context
    <2>2. Adapting(written)
      BY <2>1 DEF SymbolInit, Adapting
    <2> QED
      BY <2>2 DEF SymbolInit, ChannelInv
  <1> QED
    BY <1>1, <1>2, <1>3 DEF IInv

LEMMA StepKeepsInvariant == IInv /\ [SymbolNext]_symbolvars => IInv'
  <1> SUFFICES ASSUME IInv, [SymbolNext]_symbolvars PROVE IInv'
    OBVIOUS
  <1>0. /\ EncoderInv /\ DecoderInv /\ ChannelInv
        /\ Adapting(written) /\ Adapting(read)
        /\ trace \in Seq([context : Contexts, symbol : 1 .. 16, range : Nat])
        /\ decoded \in Seq(1 .. 16)
    BY DEF IInv, ChannelInv
  <1>1. CASE OpenForeign
    <2>1. PICK data \in Tiles : Open(data)
      BY <1>1 DEF OpenForeign, OpenAny
    <2>2. data \in Seq(0 .. 255) /\ OpenTile(data)
      BY <2>1, TilesAssumption DEF Open
    <2>3. DecoderInv'
      BY <2>2, OpenTileLies
    <2>4. UNCHANGED <<encoder, channel>>
      BY <1>1 DEF OpenForeign
    <2> QED
      BY <1>0, <2>3, <2>4, EncoderKept, ChannelKept DEF IInv
  <1>2. CASE ReadForeign
    <2>1. PICK f \in AnyCdfs : \E s \in 1 .. Len(f) : Read(f, s)
      BY <1>2 DEF ReadForeign, ReadAny
    <2>2. PICK s \in 1 .. Len(f) : Read(f, s)
      BY <2>1
    <2>3. ReadSymbol(f, s) /\ open' = open
      BY <2>2 DEF Read
    <2>4. f \in Seq(Nat) /\ Len(f) >= 1
      <3>1. f \in Seq(U16) /\ Len(f) >= 1
        BY AnyCdfAssumption, Zenon
      <3>2. U16 \subseteq Nat
        BY DEF U16
      <3> QED
        BY <3>1, <3>2, Widened
    <2>5. DecoderInv'
      BY <1>0, <2>3, <2>4, ReadSymbolKeeps
    <2>6. UNCHANGED <<encoder, channel>>
      BY <1>2 DEF ReadForeign
    <2> QED
      BY <1>0, <2>5, <2>6, EncoderKept, ChannelKept DEF IInv
  <1>3. ASSUME NEW c \in Contexts, NEW s \in 1 .. Len(Cdfs[c]), Encode(c, s) PROVE IInv'
    <2>1. /\ EncodeSymbol(written[c].cdf, s) /\ written' = After(written, c, s)
          /\ trace' = Append(trace, [context |-> c, symbol |-> s, range |-> rng'])
          /\ UNCHANGED <<tile, phase, read, decoded>>
      BY <1>3 DEF Encode
    <2>2. IsCdf(written[c].cdf) /\ Len(written[c].cdf) = Len(Cdfs[c])
      BY <1>0 DEF Adapting
    <2>3. s \in 1 .. Len(written[c].cdf)
      BY <2>2
    <2>4. EncoderInv'
      BY <1>0, <2>1, <2>2, <2>3, EncodeKeeps
    <2>5. Adapting(written')
      BY <1>0, <2>1, <2>3, AfterIsAdapting
    <2>6. UNCHANGED <<decoder, open>> /\ read' = read /\ decoded' = decoded
      BY <2>1 DEF tile
    <2>7. trace' \in Seq([context : Contexts, symbol : 1 .. 16, range : Nat])
      <3>1. rng' \in Nat
        <4>1. rng' \in Top .. 2 * Top - 1
          BY <2>4 DEF EncoderInv
        <4> QED
          BY <4>1, TopIs
      <3>2. s \in 1 .. 16
        <4>1. s \in Nat /\ 1 <= s /\ s <= 16
          BY <2>2, CdfType
        <4> QED
          BY <4>1
      <3>3. [context |-> c, symbol |-> s, range |-> rng']
                \in [context : Contexts, symbol : 1 .. 16, range : Nat]
        BY <3>1, <3>2
      <3> QED
        BY <1>0, <2>1, <3>3, AppendProperties
    <2>8. ChannelInv'
      BY <1>0, <2>5, <2>6, <2>7 DEF ChannelInv, Adapting
    <2> QED
      BY <1>0, <2>4, <2>6, <2>8, DecoderKept DEF IInv
  <1>4. ASSUME NEW tail \in Tails, Close(tail) PROVE IInv'
    <2>1. OpenTile(Finished \o tail) /\ UNCHANGED <<encoder, channel>>
      BY <1>4 DEF Close
    <2>2. Finished \o tail \in Seq(0 .. 255)
      <3>1. Finished \in Seq(0 .. 255) /\ tail \in Seq(0 .. 255)
        BY <1>0, FinishedIsBytes, SymbolsAssumption
      <3> QED
        BY <3>1, ConcatProperties
    <2>3. DecoderInv'
      BY <2>1, <2>2, OpenTileLies
    <2> QED
      BY <1>0, <2>1, <2>3, EncoderKept, ChannelKept DEF IInv
  <1>5. ASSUME NEW s \in 1 .. 16, Decode(s) PROVE IInv'
    <2> DEFINE c == trace[Len(decoded) + 1].context
    <2>1. /\ Len(decoded) < Len(trace)
          /\ ReadSymbol(read[c].cdf, s) /\ read' = After(read, c, s)
          /\ decoded' = Append(decoded, s)
          /\ UNCHANGED <<encoder, phase, written, trace, open, reads>>
      BY <1>5 DEF Decode
    <2>2. c \in Contexts
      <3>1. Len(decoded) \in Nat /\ Len(trace) \in Nat
        BY <1>0, LenProperties
      <3>2. Len(decoded) + 1 \in 1 .. Len(trace)
        BY <2>1, <3>1
      <3>3. trace[Len(decoded) + 1] \in [context : Contexts, symbol : 1 .. 16, range : Nat]
        BY <1>0, <3>2, ElementOfSeq
      <3> QED
        BY <3>3
    <2> HIDE DEF c
    <2>3. IsCdf(read[c].cdf)
      BY <1>0, <2>2 DEF Adapting
    <2>4. read[c].cdf \in Seq(Nat) /\ Len(read[c].cdf) >= 1
      <3> DEFINE f == read[c].cdf
      <3> HIDE DEF f
      <3>1. Len(f) \in Nat /\ 2 <= Len(f) /\ DOMAIN f = 1 .. Len(f)
            /\ \A i \in 1 .. Len(f) : f[i] \in Nat
        BY <2>3, CdfType DEF f
      <3>2. f = [i \in 1 .. Len(f) |-> f[i]]
        <4>1. f \in Seq(1 .. Top)
          BY <2>3 DEF f, IsCdf
        <4> QED
          BY <4>1, LenProperties
      <3>3. f \in Seq(Nat)
        BY <3>1, <3>2, SeqDef
      <3> QED
        BY <3>1, <3>3 DEF f
    <2>5. DecoderInv' /\ s \in 1 .. Len(read[c].cdf)
      BY <1>0, <2>1, <2>4, ReadSymbolKeeps
    <2>6. Adapting(read')
      BY <1>0, <2>1, <2>2, <2>5, AfterIsAdapting
    <2>7. decoded' \in Seq(1 .. 16)
      BY <1>0, <2>1, AppendProperties
    <2>8. ChannelInv'
      BY <1>0, <2>1, <2>6, <2>7 DEF ChannelInv, Adapting
    <2> QED
      BY <1>0, <2>1, <2>5, <2>8, EncoderKept DEF IInv
  <1>6. CASE UNCHANGED symbolvars
    <2>1. UNCHANGED <<encoder, channel, decoder, open>>
      BY <1>6 DEF symbolvars, tile
    <2> QED
      BY <1>0, <2>1, EncoderKept, DecoderKept, ChannelKept DEF IInv
  <1> QED
    BY <1>1, <1>2, <1>3, <1>4, <1>5, <1>6 DEF SymbolNext

\* For every set of CDFs that follow the convention, every sequence of symbols and every
\* tile: the registers of both ends stay in their widths and every context stays a CDF.
THEOREM InvariantHolds == SymbolSpec => []IInv
  <1>1. SymbolInit => IInv
    BY InitIsInvariant
  <1>2. IInv /\ [SymbolNext]_symbolvars => IInv'
    BY StepKeepsInvariant
  <1> QED
    BY <1>1, <1>2, PTL DEF SymbolSpec

\* encode_q15's assertions (`u <= r`, `v < u`) hold for every symbol of every context,
\* whatever it has adapted to and wherever the range stands, and normalize never finds
\* more in `low` than the bits cnt stands for.
THEOREM SymbolsStayCodable == SymbolSpec => []EverySymbolIsCodable
  <1>1. IInv => EverySymbolIsCodable
    <2> SUFFICES ASSUME IInv PROVE EverySymbolIsCodable
      OBVIOUS
    <2>1. EncoderInv /\ Adapting(written)
      BY DEF IInv, ChannelInv
    <2>2. /\ rng \in Nat /\ 32768 <= rng /\ rng < 65536
          /\ cnt \in -9 .. -1 /\ low \in Nat /\ low + rng <= 2 ^ (cnt + 25)
          /\ precarry \in Seq(0 .. 511)
      BY <2>1, EncoderParts
    <2>3. EncoderTypeOK
      <3> DEFINE b == 2 ^ (cnt + 25)
      <3>1. b \in Nat
        <4>1. Small(cnt + 25, 24)
          BY <2>2 DEF Small
        <4> QED
          BY <4>1, PowTimes DEF Pow
      <3>2. low + rng <= b
        BY <2>2
      <3> HIDE DEF b
      <3>3. low \in 0 .. b - 1
        BY <2>2, <3>1, <3>2
      <3> QED
        BY <2>1, <2>2, <3>3 DEF EncoderTypeOK, EncoderInv, b
    <2>4. ASSUME NEW c \in Contexts PROVE IntervalsAreProper(written[c].cdf)
      <3>1. IsCdf(written[c].cdf)
        BY <2>1 DEF Adapting
      <3>2. ASSUME NEW s \in 1 .. Len(written[c].cdf)
            PROVE  /\ Lower(written[c].cdf, s) < Upper(written[c].cdf, s)
                   /\ Upper(written[c].cdf, s) <= rng
        BY <2>2, <3>1, IntervalsLie
      <3> QED
        BY <3>2 DEF IntervalsAreProper
    <2> QED
      BY <2>3, <2>4 DEF EverySymbolIsCodable
  <1> QED
    BY <1>1, InvariantHolds, PTL

\* read_symbol is total, for every tile and every slice of up to 16 probabilities, in or
\* out of order: the value stays inside a range of 16 bits, the position inside the tile,
\* and the trailing position exit_symbol computes is never in front of it.
THEOREM ReadingIsTotal == SymbolSpec => []DecoderIsTotal
  <1>1. IInv => DecoderIsTotal
    BY DEF IInv, DecoderInv, DecoderIsTotal
  <1> QED
    BY <1>1, InvariantHolds, PTL
====================================================================================
