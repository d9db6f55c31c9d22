------------------------------- MODULE TiffLzw_proof -------------------------------
(* TIFF LZW for every strip, every declared size and every table size: what encode   *)
(* wrote comes back from decode, whose code width no one transmits; and no stream    *)
(* makes the decoder's table outgrow what the directory declares.                    *)
EXTENDS TiffLzw, SequenceLemmas

----------------------------------------------------------------------------
(* Numbers and bits. *)

LEMMA Sizes ==
    /\ ByteBits \in 2 .. 29 /\ MinWidth \in 3 .. 30 /\ MaxWidth \in 4 .. 31 /\ MinWidth < MaxWidth
    /\ CLEAR \in Nat /\ CLEAR >= 4 /\ CLEAR = Pow(ByteBits)
    /\ EOI = CLEAR + 1 /\ FIRST = CLEAR + 2 /\ Pow(MinWidth) = 2 * CLEAR
    /\ ResetAt \in Nat /\ FIRST + 1 <= ResetAt /\ ResetAt < Pow(MaxWidth)
  <1>1. ByteBits \in 2 .. 29 /\ MinWidth \in 3 .. 30 /\ MaxWidth \in 4 .. 31 /\ MinWidth < MaxWidth
    BY WidthAssumption DEF MinWidth
  <1>2. CLEAR = Pow(ByteBits) /\ EOI = CLEAR + 1 /\ FIRST = CLEAR + 2
    BY DEF CLEAR, EOI, FIRST, Pow
  <1>3. Pow(ByteBits) \in Nat /\ Pow(MinWidth) = 2 * Pow(ByteBits)
    BY <1>1, PowStep DEF MinWidth
  <1>4. Pow(ByteBits) >= 4
    <2> DEFINE H == {n \in 0 .. 29 : n >= 2 => Pow(n) >= 4}
    <2>1. 0 \in H
      OBVIOUS
    <2>2. ASSUME NEW n \in 1 .. 29, n - 1 \in H PROVE n \in H
      <3>1. n - 1 \in 0 .. 38 /\ (n - 1) + 1 = n
        OBVIOUS
      <3>2. Pow(n - 1) \in Nat /\ Pow(n) = 2 * Pow(n - 1) /\ Pow(2) = 4
        BY <3>1, PowStep, PowTable
      <3>3. n >= 3 => Pow(n - 1) >= 4
        BY <2>2
      <3>4. n = 2 => Pow(n) = 4
        BY <3>2
      <3>5. n >= 2 => Pow(n) >= 4
        BY <3>2, <3>3, <3>4
      <3> QED
        BY <3>5
    <2>3. \A n \in 0 .. 29 : n \in H
      <3>1. \A n \in 1 .. 29 : n - 1 \in H => n \in H
        BY <2>2
      <3> HIDE DEF H
      <3> QED
        BY <2>1, <3>1, UpTo
    <2> QED
      BY <1>1, <2>3
  <1>5. ResetAt \in FIRST + 1 .. Pow(MaxWidth) - 1 /\ Pow(MaxWidth) \in Nat
    <2>1. ResetAt \in FIRST + 1 .. Pow(MaxWidth) - 1
      BY WidthAssumption DEF Pow
    <2>2. Pow(MaxWidth) \in Nat
      BY <1>1, PowStep
    <2> QED
      BY <2>1, <2>2
  <1>6. ResetAt \in Nat /\ FIRST + 1 <= ResetAt /\ ResetAt < Pow(MaxWidth)
    BY <1>2, <1>3, <1>5
  <1> QED
    BY <1>1, <1>2, <1>3, <1>4, <1>6

LEMMA WidthsFit == \A w \in MinWidth .. MaxWidth : w \in 1 .. 31 /\ Pow(w) \in Nat
  <1>1. ASSUME NEW w \in MinWidth .. MaxWidth PROVE w \in 1 .. 31 /\ Pow(w) \in Nat
    <2>1. w \in 1 .. 31
      BY Sizes
    <2>2. w \in 0 .. 38
      BY <2>1
    <2> QED
      BY <2>1, <2>2, PowStep
  <1> QED
    BY <1>1

LEMMA Division ==
    ASSUME NEW a \in Nat, NEW b \in Nat, b >= 1
    PROVE  /\ a \div b \in Nat /\ a % b \in Nat /\ a % b < b
           /\ a = b * (a \div b) + (a % b)
  <1>1. a = b * (a \div b) + (a % b)
    OBVIOUS
  <1>2. a \div b \in Nat /\ a % b \in 0 .. b - 1
    BY Quotient
  <1> QED
    BY <1>1, <1>2

\* Halving the divisor doubles the quotient and brings in its last bit.
LEMMA HalfStep ==
    ASSUME NEW v \in Nat, NEW m \in Nat, m >= 1
    PROVE  v \div m = 2 * (v \div (2 * m)) + ((v \div m) % 2)
  <1> DEFINE q == v \div m
             h == q \div 2
             d == 2 * m
             p == v \div d
             r == v % m
             s == v % d
  <1>1. q \in Nat /\ v = m * q + r /\ r \in Nat /\ r < m
    BY Division
  <1>2. q = 2 * h + (q % 2) /\ h \in Nat /\ q % 2 \in 0 .. 1
    <2> HIDE DEF q
    <2> QED
      BY <1>1
  <1>3. p \in Nat /\ v = d * p + s /\ s \in Nat /\ s < d /\ d \in Nat /\ d >= 1
    <2>1. d \in Nat /\ d >= 1
      OBVIOUS
    <2> HIDE DEF d
    <2> QED
      BY <2>1, Division
  <1> DEFINE e == q % 2
  <1>4. e \in Nat /\ e <= 1 /\ q = 2 * h + e /\ h \in Nat
    BY <1>2
  <1>5. v = d * h + (m * e + r)
    <2> HIDE DEF q, h, r, e
    <2>1. m * (2 * h + e) = d * h + m * e
      BY <1>4
    <2> QED
      BY <1>1, <1>4, <2>1
  <1>6. m * e + r \in Nat /\ m * e + r < d
    <2> HIDE DEF q, h, r, e
    <2>1. e = 0 \/ e = 1
      BY <1>4
    <2> QED
      BY <1>1, <2>1
  <1>7. p = h
    <2> DEFINE t == m * e + r
    <2>1. t \in Nat /\ t < d /\ v = d * h + t
      BY <1>5, <1>6
    <2> HIDE DEF q, h, p, r, s, e, d, t
    <2>2. ~(p < h)
      <3>1. SUFFICES ASSUME p + 1 <= h PROVE FALSE
        BY <1>3, <1>4
      <3>2. d * (p + 1) <= d * h
        BY <1>3, <1>4, <3>1
      <3>3. d * (p + 1) = d * p + d
        BY <1>3
      <3> QED
        BY <1>3, <1>4, <2>1, <3>2, <3>3
    <2>3. ~(h < p)
      <3>1. SUFFICES ASSUME h + 1 <= p PROVE FALSE
        BY <1>3, <1>4
      <3>2. d * (h + 1) <= d * p
        BY <1>3, <1>4, <3>1
      <3>3. d * (h + 1) = d * h + d
        BY <1>3, <1>4
      <3> QED
        BY <1>3, <1>4, <2>1, <3>2, <3>3
    <2> QED
      BY <1>3, <1>4, <2>2, <2>3
  <1> QED
    BY <1>2, <1>7

----------------------------------------------------------------------------
(* Totals. *)

LEMMA TotalLies ==
    ASSUME NEW n \in Nat, NEW c, \A j \in 1 .. n : c[j] \in Nat
    PROVE  \E t \in [0 .. n -> Nat] :
              t[0] = 0 /\ (\A k \in 1 .. n : t[k] = t[k - 1] + c[k]) /\ Total(c, n) = t[n]
  <1> DEFINE step == [i \in 1 .. n |-> [v \in Nat |-> v + c[i]]]
             Eq(f) == f = [i \in 0 .. n |-> IF i = 0 THEN 0 ELSE f[i - 1] + c[i]]
             C == CHOOSE f : Eq(f)
  <1>1. step \in [1 .. n -> [Nat -> Nat]]
    OBVIOUS
  <1>2. PICK f : Recursive(f, n, Nat, 0, step)
    <2> HIDE DEF step
    <2> QED
      BY <1>1, Recursion
  <1>3. Eq(f)
    <2> DEFINE g == [i \in 0 .. n |-> IF i = 0 THEN 0 ELSE f[i - 1] + c[i]]
    <2>1. f \in [0 .. n -> Nat] /\ f[0] = 0
      BY <1>2 DEF Recursive
    <2>2. ASSUME NEW i \in 1 .. n PROVE f[i] = f[i - 1] + c[i]
      <3>1. f[i] = step[i][f[i - 1]]
        <4> HIDE DEF step
        <4> QED
          BY <1>2 DEF Recursive
      <3>2. i - 1 \in 0 .. n
        OBVIOUS
      <3>3. f[i - 1] \in Nat
        <4> HIDE DEF step
        <4> QED
          BY <2>1, <3>2
      <3> QED
        BY <3>1, <3>3
    <2>3. \A i \in 0 .. n : f[i] = g[i]
      BY <2>1, <2>2
    <2>4. f = [i \in 0 .. n |-> f[i]] /\ g = [i \in 0 .. n |-> g[i]]
      BY <2>1
    <2>5. f = g
      <3> HIDE DEF g
      <3> QED
        BY <2>3, <2>4
    <2> QED
      BY <2>5
  <1>4. Eq(C)
    <2> HIDE DEF Eq
    <2> QED
      BY <1>3
  <1>5. C[0] = 0 /\ \A k \in 1 .. n : C[k] = C[k - 1] + c[k]
    <2> HIDE DEF C
    <2> QED
      BY <1>4
  <1>6. C = [i \in 0 .. n |-> C[i]]
    <2> HIDE DEF C
    <2> QED
      BY <1>4
  <1>7. \A k \in 0 .. n : C[k] \in Nat
    <2> HIDE DEF C
    <2>1. ASSUME NEW k \in 1 .. n, C[k - 1] \in Nat PROVE C[k] \in Nat
      BY <1>5, <2>1
    <2>2. C[0] \in Nat
      BY <1>5
    <2> QED
      BY <2>1, <2>2, StaysIn
  <1>8. Total(c, n) = C[n]
    BY DEF Total
  <1> HIDE DEF C
  <1>9. C \in [0 .. n -> Nat]
    BY <1>6, <1>7
  <1> QED
    BY <1>5, <1>8, <1>9

LEMMA TotalNone == \A c : Total(c, 0) = 0
  <1>1. ASSUME NEW c PROVE Total(c, 0) = 0
    <2>1. 0 \in Nat /\ \A j \in 1 .. 0 : c[j] \in Nat
      OBVIOUS
    <2>2. \E t \in [0 .. 0 -> Nat] : t[0] = 0 /\ Total(c, 0) = t[0]
      BY <2>1, TotalLies
    <2> QED
      BY <2>2
  <1> QED
    BY <1>1

LEMMA TotalMore ==
    ASSUME NEW n \in Nat, NEW c, NEW d, \A j \in 1 .. n : c[j] \in Nat /\ d[j] = c[j],
           d[n + 1] \in Nat
    PROVE  Total(c, n) \in Nat /\ Total(d, n + 1) = Total(c, n) + d[n + 1]
  <1> DEFINE m == n + 1
  <1>1. m \in Nat /\ m - 1 = n /\ m \in 1 .. m /\ \A j \in 1 .. m : d[j] \in Nat
    OBVIOUS
  <1>2. PICK t \in [0 .. m -> Nat] :
          t[0] = 0 /\ (\A k \in 1 .. m : t[k] = t[k - 1] + d[k]) /\ Total(d, m) = t[m]
    <2> HIDE DEF m
    <2> QED
      BY <1>1, TotalLies
  <1>3. PICK u \in [0 .. n -> Nat] :
          u[0] = 0 /\ (\A k \in 1 .. n : u[k] = u[k - 1] + c[k]) /\ Total(c, n) = u[n]
    BY TotalLies
  <1> DEFINE H == {k \in 0 .. n : u[k] = t[k]}
  <1>4. 0 \in H
    BY <1>2, <1>3
  <1>5. \A k \in 1 .. n : k - 1 \in H => k \in H
    BY <1>2, <1>3
  <1>6. \A k \in 0 .. n : k \in H
    <2> HIDE DEF H
    <2> QED
      BY <1>4, <1>5, UpTo
  <1>7. u[n] = t[n] /\ u[n] \in Nat
    BY <1>3, <1>6
  <1>8. t[m] = t[m - 1] + d[m]
    BY <1>1, <1>2
  <1> QED
    BY <1>1, <1>2, <1>3, <1>7, <1>8

----------------------------------------------------------------------------
(* Coded numbers. *)

LEMMA NumberLies ==
    ASSUME NEW bits \in Seq({0, 1})
    PROVE  \E h \in [0 .. Len(bits) -> Nat] :
              /\ h[0] = 0 /\ \A k \in 1 .. Len(bits) : h[k] = 2 * h[k - 1] + bits[k]
              /\ Number(bits) = h[Len(bits)]
  <1> DEFINE n == Len(bits)
             step == [i \in 1 .. n |-> [v \in Nat |-> 2 * v + bits[i]]]
             Eq(f) == f = [i \in 0 .. n |-> IF i = 0 THEN 0 ELSE 2 * f[i - 1] + bits[i]]
             C == CHOOSE f : Eq(f)
  <1>0. n \in Nat /\ \A i \in 1 .. n : bits[i] \in Nat
    BY LenProperties
  <1>8. Number(bits) = C[n]
    BY DEF Number
  <1> HIDE DEF n
  <1>1. step \in [1 .. n -> [Nat -> Nat]]
    BY <1>0
  <1>2. PICK f : Recursive(f, n, Nat, 0, step)
    <2> HIDE DEF step
    <2> QED
      BY <1>0, <1>1, Recursion
  <1>3. Eq(f)
    <2> DEFINE g == [i \in 0 .. n |-> IF i = 0 THEN 0 ELSE 2 * f[i - 1] + bits[i]]
    <2>1. f \in [0 .. n -> Nat] /\ f[0] = 0
      BY <1>2 DEF Recursive
    <2>2. ASSUME NEW i \in 1 .. n PROVE f[i] = 2 * f[i - 1] + bits[i]
      <3>1. f[i] = step[i][f[i - 1]]
        <4> HIDE DEF step
        <4> QED
          BY <1>2 DEF Recursive
      <3>2. i - 1 \in 0 .. n
        BY <1>0
      <3>3. f[i - 1] \in Nat
        <4> HIDE DEF step
        <4> QED
          BY <2>1, <3>2
      <3> QED
        BY <3>1, <3>3
    <2>3. \A i \in 0 .. n : f[i] = g[i]
      BY <1>0, <2>1, <2>2
    <2>4. f = [i \in 0 .. n |-> f[i]] /\ g = [i \in 0 .. n |-> g[i]]
      BY <2>1
    <2>5. f = g
      <3> HIDE DEF g
      <3> QED
        BY <2>3, <2>4
    <2> QED
      BY <2>5
  <1>4. Eq(C)
    <2> HIDE DEF Eq
    <2> QED
      BY <1>3
  <1> HIDE DEF C
  <1>5. C[0] = 0 /\ \A k \in 1 .. n : C[k] = 2 * C[k - 1] + bits[k]
    BY <1>0, <1>4
  <1>6. C = [i \in 0 .. n |-> C[i]]
    BY <1>4
  <1>7. \A k \in 0 .. n : C[k] \in Nat
    <2>1. ASSUME NEW k \in 1 .. n, C[k - 1] \in Nat PROVE C[k] \in Nat
      <3> DEFINE x == C[k - 1]
                 y == bits[k]
      <3>1. C[k] = 2 * x + y /\ x \in Nat /\ y \in Nat
        BY <1>0, <1>5, <2>1
      <3> HIDE DEF x, y
      <3> QED
        BY <3>1
    <2>2. C[0] \in Nat
      BY <1>5
    <2> QED
      BY <1>0, <2>1, <2>2, StaysIn
  <1>9. C \in [0 .. n -> Nat]
    BY <1>6, <1>7
  <1> QED
    BY <1>5, <1>8, <1>9 DEF n

\* A number read back from the bits it was written in, when they hold it.
LEMMA NumberOfBits ==
    ASSUME NEW n \in 1 .. 31, NEW v \in Nat, v < Pow(n)
    PROVE  Bits(v, n) \in Seq({0, 1}) /\ Len(Bits(v, n)) = n /\ Number(Bits(v, n)) = v
  <1> DEFINE b == Bits(v, n)
             u(i) == v \div Pow(n - i)
  <1>1. ASSUME NEW i \in 0 .. n
        PROVE  n - i \in 0 .. 38 /\ Pow(n - i) \in Nat /\ Pow(n - i) >= 1 /\ u(i) \in Nat
    <2>1. n - i \in 0 .. 38
      OBVIOUS
    <2>2. Pow(n - i) \in Nat /\ Pow(n - i) >= 1
      BY <2>1, PowStep
    <2> QED
      BY <2>1, <2>2, Quotient
  <1>2. \A i \in 1 .. n : u(i) % 2 \in {0, 1}
    <2>1. ASSUME NEW i \in 1 .. n PROVE u(i) % 2 \in {0, 1}
      <3> DEFINE x == u(i)
      <3>1. x \in Nat
        BY <1>1
      <3> HIDE DEF x
      <3>2. x % 2 \in {0, 1}
        BY <3>1
      <3> QED
        BY <3>2 DEF x
    <2> QED
      BY <2>1
  <1>3. b = [i \in 1 .. n |-> u(i) % 2]
    BY DEF Bits, Pow
  <1> HIDE DEF u
  <1>4. b \in Seq({0, 1}) /\ Len(b) = n /\ \A i \in 1 .. n : b[i] = u(i) % 2
    <2>1. b \in [1 .. n -> {0, 1}]
      BY <1>2, <1>3
    <2>2. n \in Nat
      OBVIOUS
    <2>3. b \in Seq({0, 1}) /\ Len(b) = n
      <3> HIDE DEF b
      <3> QED
        BY <2>1, <2>2, SeqDef
    <2> QED
      BY <1>3, <2>3
  <1> HIDE DEF b
  <1>5. PICK h \in [0 .. n -> Nat] :
          h[0] = 0 /\ (\A k \in 1 .. n : h[k] = 2 * h[k - 1] + b[k]) /\ Number(b) = h[n]
    BY <1>4, NumberLies
  <1>6. \A i \in 1 .. n : u(i) = 2 * u(i - 1) + (u(i) % 2)
    <2>1. ASSUME NEW i \in 1 .. n PROVE u(i) = 2 * u(i - 1) + (u(i) % 2)
      <3> DEFINE m == Pow(n - i)
      <3>1. i \in 0 .. n /\ i - 1 \in 0 .. n /\ n - i \in 0 .. 38 /\ (n - i) + 1 = n - (i - 1)
        OBVIOUS
      <3>2. m \in Nat /\ m >= 1
        BY <1>1, <3>1
      <3>3. Pow(n - (i - 1)) = 2 * m
        BY <3>1, PowStep
      <3> HIDE DEF m
      <3>4. v \div m = 2 * (v \div (2 * m)) + ((v \div m) % 2)
        BY <3>2, HalfStep
      <3>5. u(i) = v \div m /\ u(i - 1) = v \div (2 * m)
        BY <3>3 DEF u, m
      <3> QED
        BY <3>4, <3>5
    <2> QED
      BY <2>1
  <1> DEFINE H == {k \in 0 .. n : h[k] = u(k)}
  <1>7. 0 \in H
    <2>1. Pow(n) \in Nat /\ Pow(n) >= 1 /\ v \div Pow(n) \in Nat
      <3>1. 0 \in 0 .. n /\ n - 0 = n
        OBVIOUS
      <3> QED
        BY <1>1, <3>1 DEF u
    <2>2. v \div Pow(n) < 1
      <3> DEFINE m == Pow(n)
      <3>1. m \in Nat /\ m >= 1 /\ v < 1 * m
        BY <2>1
      <3> HIDE DEF m
      <3>2. v \div m < 1
        BY <3>1, Quotient
      <3> QED
        BY <3>2 DEF m
    <2>3. u(0) = v \div Pow(n)
      <3>1. n - 0 = n
        OBVIOUS
      <3> QED
        BY <3>1 DEF u
    <2>4. u(0) = 0
      BY <2>1, <2>2, <2>3
    <2> QED
      BY <1>5, <2>4
  <1>8. \A k \in 1 .. n : k - 1 \in H => k \in H
    <2>1. ASSUME NEW k \in 1 .. n, k - 1 \in H PROVE k \in H
      <3>1. h[k] = 2 * h[k - 1] + b[k] /\ h[k - 1] = u(k - 1) /\ b[k] = u(k) % 2
        BY <1>4, <1>5, <2>1
      <3>2. u(k) = 2 * u(k - 1) + (u(k) % 2)
        BY <1>6
      <3> QED
        BY <3>1, <3>2
    <2> QED
      BY <2>1
  <1>9. n \in H
    <2>1. n \in Nat /\ n \in 0 .. n
      OBVIOUS
    <2> HIDE DEF H
    <2>2. \A k \in 0 .. n : k \in H
      BY <1>7, <1>8, <2>1, UpTo
    <2> QED
      BY <2>1, <2>2
  <1>10. u(n) = v
    <2>1. n - n = 0 /\ Pow(0) = 1 /\ v \div 1 = v
      BY PowTable
    <2> QED
      BY <2>1 DEF u
  <1> QED
    BY <1>4, <1>5, <1>9, <1>10 DEF b

----------------------------------------------------------------------------
(* Sequences joined one after another. *)

\* A segment of a join is where the join of the segments before it ends.
LEMMA Segment ==
    ASSUME NEW S, NEW segs \in Seq(Seq(S)), NEW F, Joins(F, S, segs),
           NEW i \in 1 .. Len(segs), NEW pad \in Seq(S)
    PROVE  LET o == Len(F[i - 1])
               all == F[Len(segs)] \o pad
           IN  /\ o \in Nat /\ Len(F[i]) = o + Len(segs[i])
               /\ o + Len(segs[i]) <= Len(all)
               /\ SubSeq(all, o + 1, o + Len(segs[i])) = segs[i]
  <1> DEFINE n == Len(segs)
             o == Len(F[i - 1])
             e == Len(F[i])
             all == F[n] \o pad
             s == segs[i]
  <1>1. /\ n \in Nat /\ i \in 1 .. n /\ i - 1 \in 0 .. n /\ i \in 0 .. n /\ n \in 0 .. n
        /\ s \in Seq(S) /\ \A k \in 1 .. n : segs[k] \in Seq(S)
    BY LenProperties, ElementOfSeq
  <1>2. /\ \A k \in 0 .. n : F[k] \in Seq(S)
        /\ \A k \in 1 .. n : F[k] = F[k - 1] \o segs[k]
    BY DEF Joins
  <1> HIDE DEF n
  <1>3. /\ o \in Nat /\ e \in Nat /\ Len(s) \in Nat /\ e = o + Len(s)
        /\ \A x \in 1 .. Len(s) : F[i][o + x] = s[x]
    <2>1. F[i - 1] \in Seq(S) /\ F[i] = F[i - 1] \o s
      BY <1>1, <1>2
    <2> DEFINE a == F[i - 1]
    <2> HIDE DEF s
    <2>2. /\ Len(a) \in Nat /\ Len(s) \in Nat /\ Len(a \o s) = Len(a) + Len(s)
          /\ \A x \in 1 .. Len(a) + Len(s) : (a \o s)[x] = IF x <= Len(a) THEN a[x] ELSE s[x - Len(a)]
      BY <1>1, <2>1, ConcatProperties, LenProperties
    <2> HIDE DEF a
    <2>3. \A x \in 1 .. Len(s) : (a \o s)[Len(a) + x] = s[x]
      BY <2>2
    <2>4. F[i] = a \o s /\ o = Len(a)
      BY <2>1 DEF a
    <2> QED
      BY <2>2, <2>3, <2>4
  <1> HIDE DEF s
  <1> DEFINE Keeps(j) == e <= Len(F[j]) /\ \A x \in 1 .. e : F[j][x] = F[i][x]
             H == {j \in 0 .. n : j >= i => Keeps(j)}
  <1>4. ASSUME NEW a \in Seq(S), NEW b \in Seq(S), e <= Len(a)
        PROVE  e <= Len(a \o b) /\ \A x \in 1 .. e : (a \o b)[x] = a[x]
    <2>1. /\ Len(a) \in Nat /\ Len(b) \in Nat /\ Len(a \o b) = Len(a) + Len(b)
          /\ \A x \in 1 .. Len(a) + Len(b) : (a \o b)[x] = IF x <= Len(a) THEN a[x] ELSE b[x - Len(a)]
      BY ConcatProperties, LenProperties
    <2> HIDE DEF e
    <2> QED
      BY <1>3, <1>4, <2>1
  <1>5. 0 \in H
    BY <1>1
  <1>6. \A k \in 1 .. n : k - 1 \in H => k \in H
    <2>1. ASSUME NEW k \in 1 .. n, k - 1 \in H, k >= i PROVE Keeps(k)
      <3>1. CASE k = i
        BY <1>3, <3>1
      <3>2. CASE k # i
        <4>1. k - 1 \in 0 .. n /\ k - 1 >= i
          BY <1>1, <2>1, <3>2
        <4>2. Keeps(k - 1)
          BY <2>1, <4>1
        <4>3. F[k] = F[k - 1] \o segs[k] /\ F[k - 1] \in Seq(S) /\ segs[k] \in Seq(S)
          BY <1>1, <1>2, <4>1
        <4> HIDE DEF e
        <4>4. e <= Len(F[k]) /\ \A x \in 1 .. e : F[k][x] = F[k - 1][x]
          <5>1. e <= Len(F[k - 1])
            BY <4>2
          <5>2. /\ e <= Len(F[k - 1] \o segs[k])
                /\ \A x \in 1 .. e : (F[k - 1] \o segs[k])[x] = F[k - 1][x]
            BY <1>4, <4>3, <5>1
          <5> QED
            BY <4>3, <5>2
        <4> QED
          BY <4>2, <4>4
      <3> QED
        BY <3>1, <3>2
    <2> HIDE DEF Keeps
    <2> QED
      BY <2>1
  <1>7. Keeps(n)
    <2> HIDE DEF Keeps
    <2>1. n >= i
      BY <1>1
    <2> DEFINE G == H
    <2>2. \A k \in 0 .. n : k \in G
      <3>1. 0 \in G /\ \A k \in 1 .. n : k - 1 \in G => k \in G
        BY <1>5, <1>6
      <3> HIDE DEF G
      <3> QED
        BY <1>1, <3>1, UpTo
    <2> QED
      BY <1>1, <2>1, <2>2
  <1>8. e <= Len(all) /\ \A x \in 1 .. e : all[x] = F[i][x]
    <2>1. F[n] \in Seq(S)
      BY <1>1, <1>2
    <2> DEFINE a == F[n]
    <2> HIDE DEF a
    <2>2. e <= Len(a \o pad) /\ \A x \in 1 .. e : (a \o pad)[x] = a[x]
      BY <1>4, <1>7, <2>1 DEF a
    <2> QED
      BY <1>7, <2>2 DEF a
  <1>9. all \in Seq(S)
    <2>1. F[n] \in Seq(S)
      BY <1>1, <1>2
    <2> QED
      BY <2>1, ConcatProperties
  <1> HIDE DEF all, o, e
  <1> DEFINE sub == SubSeq(all, o + 1, e)
  <1>10. sub \in Seq(S) /\ Len(sub) = Len(s) /\ \A x \in 1 .. Len(s) : sub[x] = all[o + 1 + x - 1]
    <2>1. Len(all) \in Nat /\ \A x \in 1 .. Len(all) : all[x] \in S
      BY <1>9, LenProperties, ElementOfSeq
    <2>2. \A x \in o + 1 .. e : all[x] \in S
      BY <1>3, <1>8, <2>1
    <2>3. o + 1 \in Int /\ e \in Int
      BY <1>3
    <2> DEFINE m == o + 1
    <2>4. /\ SubSeq(all, m, e) \in Seq(S)
          /\ Len(SubSeq(all, m, e)) = IF m <= e THEN e - m + 1 ELSE 0
          /\ \A x \in 1 .. e - m + 1 : SubSeq(all, m, e)[x] = all[m + x - 1]
      <3> HIDE DEF m
      <3>1. m \in Int /\ \A x \in m .. e : all[x] \in S
        BY <2>2, <2>3 DEF m
      <3> QED
        BY <2>3, <3>1, SubSeqProperties
    <2>5. e - m + 1 = Len(s) /\ (IF m <= e THEN e - m + 1 ELSE 0) = Len(s)
      BY <1>3
    <2> QED
      BY <2>4, <2>5
  <1> HIDE DEF sub
  <1>11. \A x \in 1 .. Len(s) : sub[x] = s[x]
    <2>1. ASSUME NEW x \in 1 .. Len(s) PROVE sub[x] = s[x]
      <3>1. o + 1 + x - 1 = o + x /\ o + x \in 1 .. e
        BY <1>3
      <3> QED
        BY <1>3, <1>8, <1>10, <3>1
    <2> QED
      BY <2>1
  <1>12. sub = s
    BY <1>1, <1>10, <1>11, SeqEqual
  <1> QED
    BY <1>3, <1>8, <1>12 DEF all, o, e, sub, s, n

\* Codes with widths that hold them.
Codes == [code : Nat, width : 1 .. 31]
Fitting(cs) == cs \in Seq(Codes) /\ \A i \in DOMAIN cs : cs[i].code < Pow(cs[i].width)

\* Where the code after the first i of cs starts.
At(cs, i) == Total([j \in 1 .. i |-> cs[j].width], i)

\* Packed codes are bits, each code in its place.
LEMMA PackedLies ==
    ASSUME NEW cs, Fitting(cs), cs # <<>>
    PROVE  /\ Packed(cs) \in Seq({0, 1})
           /\ \A i \in 0 .. Len(cs) - 1 :
                 LET o == At(cs, i) IN
                 /\ o \in Nat /\ At(cs, i + 1) = o + cs[i + 1].width
                 /\ o + cs[i + 1].width <= Len(Packed(cs))
                 /\ Number(SubSeq(Packed(cs), o + 1, o + cs[i + 1].width)) = cs[i + 1].code
  <1> DEFINE n == Len(cs)
             B == {0, 1}
             segs == [i \in DOMAIN cs |-> Bits(cs[i].code, cs[i].width)]
             bits == FlattenSeq(segs)
             pad == Padding(Len(bits))
  <1>1. n \in Nat /\ n >= 1 /\ DOMAIN cs = 1 .. n
    BY EmptySeq, LenProperties DEF Fitting
  <1>2. \A i \in 1 .. n : /\ cs[i].code \in Nat /\ cs[i].width \in 1 .. 31
                          /\ cs[i].code < Pow(cs[i].width)
    <2>1. ASSUME NEW i \in 1 .. n PROVE cs[i] \in Codes
      BY <1>1, ElementOfSeq DEF Fitting
    <2> QED
      BY <1>1, <2>1 DEF Fitting, Codes
  <1> HIDE DEF n
  <1>3. \A i \in 1 .. n : /\ segs[i] \in Seq(B) /\ Len(segs[i]) = cs[i].width
                          /\ Number(segs[i]) = cs[i].code
    <2>1. ASSUME NEW i \in 1 .. n
          PROVE  /\ segs[i] \in Seq(B) /\ Len(segs[i]) = cs[i].width
                 /\ Number(segs[i]) = cs[i].code
      <3>1. /\ cs[i].width \in 1 .. 31 /\ cs[i].code \in Nat
            /\ cs[i].code < Pow(cs[i].width)
        BY <1>2
      <3>2. segs[i] = Bits(cs[i].code, cs[i].width)
        BY <1>1
      <3> HIDE DEF segs
      <3> QED
        BY <3>1, <3>2, NumberOfBits
    <2> QED
      BY <2>1
  <1>4. segs = [i \in 1 .. n |-> segs[i]]
    BY <1>1
  <1>5. Packed(cs) = bits \o pad
    BY DEF Packed
  <1> HIDE DEF segs
  <1>6. segs \in Seq(Seq(B)) /\ Len(segs) = n
    <2>1. segs \in [1 .. n -> Seq(B)]
      BY <1>3, <1>4
    <2> QED
      BY <1>1, <2>1, SeqDef
  <1>7. PICK F : Joins(F, B, segs) /\ bits = F[n]
    <2> HIDE DEF B
    <2> QED
      BY <1>1, <1>6, Joined
  <1>8. bits \in Seq(B)
    BY <1>1, <1>6, <1>7 DEF Joins
  <1>9. pad \in Seq(B)
    <2> DEFINE l == Len(bits)
               m == (ByteBits - (l % ByteBits)) % ByteBits
    <2>1. l \in Nat /\ ByteBits \in Nat /\ ByteBits >= 1
      <3> HIDE DEF bits
      <3> QED
        BY <1>8, LenProperties, Sizes
    <2> HIDE DEF l
    <2>2. m \in Nat
      <3>1. l % ByteBits \in 0 .. ByteBits - 1
        BY <2>1, Quotient
      <3>2. ByteBits - (l % ByteBits) \in Nat
        BY <2>1, <3>1
      <3> QED
        BY <2>1, <3>2, Quotient
    <2>3. pad = [i \in 1 .. m |-> 0]
      BY DEF Padding, l
    <2> HIDE DEF m, pad
    <2>4. pad \in [1 .. m -> B]
      BY <2>3
    <2> QED
      BY <2>2, <2>4, SeqDef
  <1>10. Packed(cs) \in Seq(B)
    <2> HIDE DEF bits, pad
    <2> QED
      BY <1>5, <1>8, <1>9, ConcatProperties
  <1> DEFINE H == {k \in 0 .. n : At(cs, k) = Len(F[k])}
  <1>11. ASSUME NEW k \in 1 .. n
         PROVE  At(cs, k - 1) \in Nat /\ At(cs, k) = At(cs, k - 1) + cs[k].width
    <2> DEFINE j == k - 1
               c == [i \in 1 .. j |-> cs[i].width]
               d == [i \in 1 .. k |-> cs[i].width]
    <2>1. j \in Nat /\ k = j + 1 /\ k \in 1 .. k
      BY <1>1
    <2>2. \A i \in 1 .. n : cs[i].width \in Nat
      <3>1. \A w \in 1 .. 31 : w \in Nat
        OBVIOUS
      <3> QED
        BY <1>2, <3>1
    <2>3. \A i \in 1 .. j : c[i] \in Nat /\ d[i] = c[i]
      BY <1>1, <2>2
    <2>4. d[j + 1] = cs[k].width /\ d[j + 1] \in Nat
      BY <1>1, <2>2
    <2>5. Total(c, j) \in Nat /\ Total(d, j + 1) = Total(c, j) + d[j + 1]
      <3> HIDE DEF c, d, j
      <3> QED
        BY <2>1, <2>3, <2>4, TotalMore
    <2>6. At(cs, k - 1) = Total(c, j) /\ At(cs, k) = Total(d, k)
      BY DEF At
    <2> HIDE DEF c, d, j
    <2> QED
      BY <2>1, <2>4, <2>5, <2>6
  <1>12. ASSUME NEW k \in 1 .. n
         PROVE  /\ Len(F[k - 1]) \in Nat /\ Len(F[k]) = Len(F[k - 1]) + cs[k].width
                /\ Len(F[k - 1]) + cs[k].width <= Len(Packed(cs))
                /\ SubSeq(Packed(cs), Len(F[k - 1]) + 1, Len(F[k - 1]) + cs[k].width) = segs[k]
    <2>1. k \in 1 .. Len(segs) /\ Len(segs[k]) = cs[k].width
      BY <1>3, <1>6
    <2>2. Packed(cs) = F[Len(segs)] \o pad
      BY <1>5, <1>6, <1>7
    <2> HIDE DEF pad, B
    <2>3. LET o == Len(F[k - 1])
              all == F[Len(segs)] \o pad
          IN  /\ o \in Nat /\ Len(F[k]) = o + Len(segs[k])
              /\ o + Len(segs[k]) <= Len(all)
              /\ SubSeq(all, o + 1, o + Len(segs[k])) = segs[k]
      <3>1. segs \in Seq(Seq(B)) /\ Joins(F, B, segs) /\ pad \in Seq(B)
        BY <1>6, <1>7, <1>9
      <3>2. k \in 1 .. Len(segs)
        BY <2>1
      <3> QED
        BY <3>1, <3>2, Segment, ZenonT(60)
    <2> QED
      BY <2>1, <2>2, <2>3
  <1>13. 0 \in H
    <2>1. At(cs, 0) = 0
      BY TotalNone DEF At
    <2>2. F[0] = <<>> /\ Len(<<>>) = 0
      BY <1>7 DEF Joins
    <2> QED
      BY <1>1, <2>1, <2>2
  <1>14. \A k \in 1 .. n : k - 1 \in H => k \in H
    <2>1. ASSUME NEW k \in 1 .. n, k - 1 \in H PROVE k \in H
      <3>1. At(cs, k - 1) = Len(F[k - 1]) /\ k \in 0 .. n
        BY <2>1
      <3>2. At(cs, k) = At(cs, k - 1) + cs[k].width
        BY <1>11
      <3>3. Len(F[k]) = Len(F[k - 1]) + cs[k].width
        BY <1>12
      <3>4. At(cs, k) = Len(F[k])
        BY <3>1, <3>2, <3>3
      <3> QED
        BY <3>1, <3>4
    <2> QED
      BY <2>1
  <1>15. \A k \in 0 .. n : k \in H
    <2> HIDE DEF H
    <2> QED
      BY <1>1, <1>13, <1>14, UpTo
  <1>16. ASSUME NEW i \in 0 .. n - 1
         PROVE  LET o == At(cs, i) IN
                /\ o \in Nat /\ At(cs, i + 1) = o + cs[i + 1].width
                /\ o + cs[i + 1].width <= Len(Packed(cs))
                /\ Number(SubSeq(Packed(cs), o + 1, o + cs[i + 1].width)) = cs[i + 1].code
    <2> DEFINE k == i + 1
    <2>1. k \in 1 .. n /\ k - 1 = i /\ i \in 0 .. n
      BY <1>1
    <2>2. At(cs, i) = Len(F[i])
      BY <1>15, <2>1
    <2> HIDE DEF k
    <2>3. At(cs, i) \in Nat /\ At(cs, k) = At(cs, i) + cs[k].width
      BY <1>11, <2>1
    <2>4. /\ Len(F[i]) + cs[k].width <= Len(Packed(cs))
          /\ SubSeq(Packed(cs), Len(F[i]) + 1, Len(F[i]) + cs[k].width) = segs[k]
      BY <1>12, <2>1
    <2>5. Number(segs[k]) = cs[k].code
      BY <1>3, <2>1
    <2>6. /\ At(cs, i) + cs[k].width <= Len(Packed(cs))
          /\ SubSeq(Packed(cs), At(cs, i) + 1, At(cs, i) + cs[k].width) = segs[k]
      BY <2>2, <2>4
    <2> QED
      BY <2>3, <2>5, <2>6 DEF k
  <1> QED
    BY <1>10, <1>16 DEF n

----------------------------------------------------------------------------
(* The decoder as a record of what it knows between two codes, and what the next code *)
(* makes of it: the actions ReadClear and ReadString as functions.                    *)

Strings == Seq(Seq(Byte))
Reader == [strings : Strings, width : MinWidth .. MaxWidth, prev : Seq(Nat), out : Seq(Byte)]

Here == [strings |-> strings, width |-> codeWidth, prev |-> prev, out |-> out]
Fresh == [strings |-> InitTable, width |-> MinWidth, prev |-> <<>>, out |-> <<>>]

\* c names a string of the table.
Names(table, c) == c \in Nat /\ c < Len(table) /\ c # CLEAR /\ c # EOI

Sound(d) ==
    /\ d \in Reader
    /\ Len(d.strings) >= FIRST
    /\ \A k \in Byte : d.strings[k + 1] = <<k>>
    /\ \A c : Names(d.strings, c) => d.strings[c + 1] # <<>>
    /\ d.prev # <<>> => \E c : Names(d.strings, c) /\ d.prev = <<c>>
    /\ d.prev = <<>> => d.strings = InitTable /\ d.width = MinWidth

\* A string code the decoder accepts.
Readable(d, c) ==
    /\ c \in Nat /\ c # CLEAR /\ c # EOI
    /\ c < Len(d.strings) \/ (c = Len(d.strings) /\ d.prev # <<>>)

Latest(d) == d.strings[d.prev[1] + 1]
EntryOf(d, c) == IF c < Len(d.strings) THEN d.strings[c + 1] ELSE Append(Latest(d), Head(Latest(d)))
TableOf(d, c) ==
    IF d.prev = <<>> THEN d.strings ELSE Append(d.strings, Append(Latest(d), Head(EntryOf(d, c))))
Taken(d, c) ==
    [strings |-> TableOf(d, c),
     width |-> IF d.prev = <<>> THEN d.width ELSE LagWider(d.width, Len(TableOf(d, c))),
     prev |-> <<c>>,
     out |-> d.out \o EntryOf(d, c)]
Reset(d) == [Fresh EXCEPT !.out = d.out]

LEMMA CodesLie ==
    /\ CLEAR \in Nat /\ CLEAR >= 4 /\ EOI = CLEAR + 1 /\ FIRST = CLEAR + 2
    /\ \A k : k \in Byte <=> k \in Nat /\ k < CLEAR
  <1>1. CLEAR \in Nat /\ CLEAR >= 4 /\ EOI = CLEAR + 1 /\ FIRST = CLEAR + 2
    BY Sizes
  <1>2. \A k : k \in Byte <=> k \in Nat /\ k < CLEAR
    BY <1>1 DEF Byte
  <1> QED
    BY <1>1, <1>2

LEMMA InitTableLies ==
    /\ InitTable \in Strings /\ Len(InitTable) = FIRST
    /\ \A k \in Byte : InitTable[k + 1] = <<k>>
  <1> DEFINE a == [i \in 1 .. CLEAR |-> <<i - 1>>]
             b == << <<>>, <<>> >>
             S == Seq(Byte)
  <1>1. CLEAR \in Nat /\ FIRST = CLEAR + 2
    BY Sizes
  <1>2. a \in [1 .. CLEAR -> S]
    <2>1. ASSUME NEW i \in 1 .. CLEAR PROVE <<i - 1>> \in S
      <3>1. i - 1 \in Byte
        BY <1>1 DEF Byte
      <3> QED
        BY <3>1
    <2> QED
      BY <2>1
  <1>3. a \in Seq(S) /\ Len(a) = CLEAR
    <2> HIDE DEF a, S
    <2> QED
      BY <1>1, <1>2, SeqDef
  <1>4. b \in Seq(S) /\ Len(b) = 2
    <2>1. <<>> \in S
      BY EmptySeq
    <2> HIDE DEF S
    <2> QED
      BY <2>1
  <1>5. \A k \in Byte : a[k + 1] = <<k>> /\ k + 1 \in 1 .. CLEAR
    <2>1. ASSUME NEW k \in Byte PROVE a[k + 1] = <<k>> /\ k + 1 \in 1 .. CLEAR
      <3> DEFINE i == k + 1
      <3>1. i \in 1 .. CLEAR /\ i - 1 = k
        BY <1>1 DEF Byte
      <3> HIDE DEF i
      <3>2. a[i] = <<i - 1>>
        BY <3>1
      <3>3. a[i] = <<k>>
        BY <3>1, <3>2, Zenon
      <3> HIDE DEF a
      <3> QED
        BY <3>1, <3>3 DEF i
    <2> QED
      BY <2>1
  <1>6. InitTable = a \o b
    BY DEF InitTable
  <1> HIDE DEF a, b, S
  <1>7. /\ a \o b \in Seq(S) /\ Len(a \o b) = Len(a) + Len(b)
        /\ \A i \in 1 .. Len(a) + Len(b) : (a \o b)[i] = IF i <= Len(a) THEN a[i] ELSE b[i - Len(a)]
    BY <1>3, <1>4, ConcatProperties
  <1>8. \A i \in 1 .. CLEAR : (a \o b)[i] = a[i]
    BY <1>1, <1>3, <1>4, <1>7
  <1> QED
    BY <1>1, <1>3, <1>4, <1>5, <1>6, <1>7, <1>8 DEF Strings, S

LEMMA FreshIsSound == ASSUME NEW bytes \in Seq(Byte) PROVE Sound([Fresh EXCEPT !.out = bytes])
  <1> DEFINE d == [Fresh EXCEPT !.out = bytes]
  <1>1. d.strings = InitTable /\ d.width = MinWidth /\ d.prev = <<>> /\ d.out = bytes
    BY DEF Fresh
  <1>2. d \in Reader
    <2>1. MinWidth \in MinWidth .. MaxWidth
      BY Sizes
    <2>2. <<>> \in Seq(Nat)
      BY EmptySeq
    <2> QED
      BY <2>1, <2>2, InitTableLies DEF Fresh, Reader
  <1> HIDE DEF d
  <1>3. ASSUME NEW c, Names(InitTable, c) PROVE InitTable[c + 1] # <<>>
    <2>1. c \in Byte
      BY <1>3, CodesLie, InitTableLies DEF Names
    <2>2. InitTable[c + 1] = <<c>>
      BY <2>1, InitTableLies
    <2> QED
      BY <2>2
  <1>4. Len(InitTable) >= FIRST
    BY Sizes, InitTableLies
  <1>5. Sound(d)
    BY <1>1, <1>2, <1>3, <1>4, InitTableLies DEF Sound
  <1> QED
    BY <1>5 DEF d

LEMMA SoundParts ==
    ASSUME NEW d, Sound(d)
    PROVE  /\ d.strings \in Strings /\ d.width \in MinWidth .. MaxWidth /\ d.prev \in Seq(Nat)
           /\ d.out \in Seq(Byte) /\ Len(d.strings) \in Nat /\ Len(d.strings) >= FIRST
           /\ \A c : Names(d.strings, c) =>
                 d.strings[c + 1] \in Seq(Byte) /\ d.strings[c + 1] # <<>>
           /\ d.prev # <<>> => /\ Names(d.strings, d.prev[1])
                               /\ Latest(d) \in Seq(Byte) /\ Latest(d) # <<>>
  <1>1. /\ d.strings \in Strings /\ d.width \in MinWidth .. MaxWidth /\ d.prev \in Seq(Nat)
        /\ d.out \in Seq(Byte)
    BY DEF Sound, Reader
  <1>2. Len(d.strings) \in Nat /\ Len(d.strings) >= FIRST
    BY <1>1, LenProperties DEF Strings, Sound
  <1>3. ASSUME NEW c, Names(d.strings, c)
        PROVE  d.strings[c + 1] \in Seq(Byte) /\ d.strings[c + 1] # <<>>
    <2>1. c + 1 \in 1 .. Len(d.strings)
      BY <1>2, <1>3 DEF Names
    <2>2. d.strings[c + 1] \in Seq(Byte)
      BY <1>1, <2>1, ElementOfSeq DEF Strings
    <2> QED
      BY <1>3, <2>2 DEF Sound
  <1>4. ASSUME d.prev # <<>> PROVE Names(d.strings, d.prev[1])
    <2>1. PICK c : Names(d.strings, c) /\ d.prev = <<c>>
      BY <1>4 DEF Sound
    <2> QED
      BY <2>1
  <1> QED
    BY <1>1, <1>2, <1>3, <1>4 DEF Latest

\* The entry a code stands for, and the table with the entry it defines.
LEMMA EntryLies ==
    ASSUME NEW d, Sound(d), NEW c, Readable(d, c)
    PROVE  LET e == EntryOf(d, c)
               t == TableOf(d, c)
           IN  /\ e \in Seq(Byte) /\ e # <<>> /\ Head(e) \in Byte
               /\ t \in Strings /\ Names(t, c) /\ t[c + 1] = e
               /\ \A x \in 1 .. Len(d.strings) : t[x] = d.strings[x]
               /\ Len(t) = IF d.prev = <<>> THEN Len(d.strings) ELSE Len(d.strings) + 1
               /\ d.prev # <<>> => t[Len(d.strings) + 1] = Append(Latest(d), Head(e))
  <1> DEFINE e == EntryOf(d, c)
             t == TableOf(d, c)
             n == Len(d.strings)
             P == Latest(d)
             Goal == /\ e \in Seq(Byte) /\ e # <<>> /\ Head(e) \in Byte
                     /\ t \in Strings /\ Names(t, c) /\ t[c + 1] = e
                     /\ \A x \in 1 .. n : t[x] = d.strings[x]
                     /\ Len(t) = IF d.prev = <<>> THEN n ELSE n + 1
                     /\ d.prev # <<>> => t[n + 1] = Append(P, Head(e))
  <1>1. /\ d.strings \in Strings /\ n \in Nat /\ n >= FIRST
        /\ \A x : Names(d.strings, x) => d.strings[x + 1] \in Seq(Byte) /\ d.strings[x + 1] # <<>>
        /\ d.prev # <<>> => P \in Seq(Byte) /\ P # <<>>
    BY SoundParts
  <1>2. /\ c \in Nat /\ c # CLEAR /\ c # EOI
        /\ c < n \/ (c = n /\ d.prev # <<>>)
    BY DEF Readable
  <1>3. ASSUME c < n PROVE Goal
    <2>1. e = d.strings[c + 1] /\ Names(d.strings, c)
      BY <1>2, <1>3 DEF EntryOf, Names
    <2>2. e \in Seq(Byte) /\ e # <<>>
      BY <1>1, <2>1
    <2>3. Head(e) \in Byte
      <3> HIDE DEF e
      <3> QED
        BY <2>2, HeadTailProperties
    <2>4. ASSUME d.prev = <<>> PROVE Goal
      <3>1. t = d.strings
        BY <2>4 DEF TableOf
      <3> HIDE DEF t, e
      <3> QED
        BY <1>1, <2>1, <2>2, <2>3, <2>4, <3>1
    <2>5. ASSUME d.prev # <<>> PROVE Goal
      <3> DEFINE f == Append(P, Head(e))
      <3>1. t = Append(d.strings, f)
        BY <2>5 DEF TableOf
      <3>2. f \in Seq(Byte)
        <4> HIDE DEF P, e
        <4> QED
          BY <1>1, <2>3, <2>5, AppendProperties
      <3> HIDE DEF t, e, P, f
      <3>3. /\ t \in Strings /\ Len(t) = n + 1 /\ t[n + 1] = f
            /\ \A x \in 1 .. n : t[x] = d.strings[x]
        BY <1>1, <3>1, <3>2, AppendProperties DEF Strings
      <3>4. c + 1 \in 1 .. n
        BY <1>1, <1>2, <1>3
      <3>5. Names(t, c)
        BY <1>1, <1>2, <1>3, <3>3 DEF Names
      <3>6. t[c + 1] = e
        BY <2>1, <3>3, <3>4
      <3> QED
        BY <2>2, <2>3, <2>5, <3>3, <3>5, <3>6 DEF f
    <2> HIDE DEF Goal
    <2> QED
      BY <2>4, <2>5
  <1>4. ASSUME ~(c < n) PROVE Goal
    <2>1. c = n /\ d.prev # <<>>
      BY <1>2, <1>4
    <2>2. P \in Seq(Byte) /\ P # <<>>
      BY <1>1, <2>1
    <2>3. e = Append(P, Head(P))
      BY <1>4 DEF EntryOf
    <2> DEFINE f == Append(P, Head(e))
    <2>4. t = Append(d.strings, f)
      BY <2>1 DEF TableOf
    <2> HIDE DEF P, e, t
    <2>5. Head(P) \in Byte
      BY <2>2, HeadTailProperties
    <2>6. e \in Seq(Byte) /\ e # <<>>
      BY <2>2, <2>3, <2>5, AppendProperties
    <2>7. Head(e) = Head(P)
      BY <2>2, <2>3, HeadTailAppend
    <2>8. f = e
      BY <2>3, <2>7
    <2> HIDE DEF f
    <2>9. /\ t \in Strings /\ Len(t) = n + 1 /\ t[n + 1] = f
          /\ \A x \in 1 .. n : t[x] = d.strings[x]
      BY <1>1, <2>4, <2>6, <2>8, AppendProperties DEF Strings
    <2>10. Names(t, c)
      BY <1>1, <1>2, <2>1, <2>9 DEF Names
    <2> QED
      BY <2>1, <2>5, <2>6, <2>7, <2>8, <2>9, <2>10 DEF f
  <1>5. Goal
    <2> HIDE DEF Goal
    <2> QED
      BY <1>3, <1>4
  <1> QED
    BY <1>5

LEMMA TakenIsSound ==
    ASSUME NEW d, Sound(d), NEW c, Readable(d, c)
    PROVE  Sound(Taken(d, c))
  <1> DEFINE e == EntryOf(d, c)
             t == TableOf(d, c)
             w == IF d.prev = <<>> THEN d.width ELSE LagWider(d.width, Len(t))
             r == Taken(d, c)
             n == Len(d.strings)
  <1>1. /\ d.strings \in Strings /\ d.width \in MinWidth .. MaxWidth
        /\ d.out \in Seq(Byte) /\ n \in Nat /\ n >= FIRST
        /\ d.prev # <<>> => Latest(d) \in Seq(Byte) /\ Latest(d) # <<>>
    BY SoundParts
  <1>2. /\ e \in Seq(Byte) /\ e # <<>> /\ Head(e) \in Byte
        /\ t \in Strings /\ Names(t, c) /\ t[c + 1] = e
        /\ \A x \in 1 .. n : t[x] = d.strings[x]
        /\ Len(t) = IF d.prev = <<>> THEN n ELSE n + 1
        /\ d.prev # <<>> => t[n + 1] = Append(Latest(d), Head(e))
    BY EntryLies
  <1>3. r.strings = t /\ r.width = w /\ r.prev = <<c>> /\ r.out = d.out \o e
    BY DEF Taken
  <1>4. w \in MinWidth .. MaxWidth
    <2>1. MinWidth \in Nat /\ MaxWidth \in Nat
      BY Sizes
    <2> HIDE DEF t
    <2> QED
      BY <1>1, <2>1 DEF LagWider
  <1>5. r \in Reader
    <2>1. d.out \o e \in Seq(Byte)
      <3> HIDE DEF e
      <3> QED
        BY <1>1, <1>2, ConcatProperties
    <2>2. <<c>> \in Seq(Nat)
      BY DEF Readable
    <2>3. r = [strings |-> t, width |-> w, prev |-> <<c>>, out |-> d.out \o e]
      BY DEF Taken
    <2> HIDE DEF t, w, e, r
    <2> QED
      BY <1>2, <1>4, <2>1, <2>2, <2>3 DEF Reader
  <1> HIDE DEF e, t, w, r
  <1>6. Len(t) >= FIRST /\ Len(t) \in Nat
    BY <1>1, <1>2, Sizes
  <1>7. \A k \in Byte : t[k + 1] = <<k>>
    <2>1. ASSUME NEW k \in Byte PROVE t[k + 1] = <<k>>
      <3>1. k + 1 \in 1 .. n
        BY <1>1, CodesLie
      <3>2. d.strings[k + 1] = <<k>>
        BY DEF Sound
      <3> QED
        BY <1>2, <3>1, <3>2
    <2> QED
      BY <2>1
  <1>8. ASSUME NEW x, Names(t, x) PROVE t[x + 1] # <<>>
    <2>1. CASE x < n
      <3>1. Names(d.strings, x) /\ x + 1 \in 1 .. n
        BY <1>1, <1>8, <2>1 DEF Names
      <3>2. d.strings[x + 1] # <<>>
        BY <3>1 DEF Sound
      <3> QED
        BY <1>2, <3>1, <3>2
    <2>2. CASE ~(x < n)
      <3>1. d.prev # <<>> /\ x = n
        BY <1>1, <1>2, <1>8, <2>2 DEF Names
      <3>2. t[x + 1] = Append(Latest(d), Head(e)) /\ Latest(d) \in Seq(Byte)
        BY <1>1, <1>2, <3>1
      <3> QED
        BY <1>2, <3>2, AppendProperties
    <2> QED
      BY <2>1, <2>2
  <1>9. r.prev # <<>> /\ \E x : Names(r.strings, x) /\ r.prev = <<x>>
    BY <1>2, <1>3
  <1>10. Sound(r)
    BY <1>3, <1>5, <1>6, <1>7, <1>8, <1>9 DEF Sound
  <1> QED
    BY <1>10 DEF r

----------------------------------------------------------------------------
(* The size of the table: each entry is one byte longer than a string already put out. *)

HeldBy(table) == Total([i \in 1 .. Len(table) - FIRST |-> Len(table[FIRST + i])], Len(table) - FIRST)

\* No more entries than bytes put out, holding (with the previous string, which the next
\* entry extends) at most that many bytes besides one more each.
Frugal(d) ==
    /\ Len(d.strings) - FIRST <= Len(d.out)
    /\ HeldBy(d.strings) - (Len(d.strings) - FIRST) + (IF d.prev = <<>> THEN 0 ELSE Len(Latest(d)))
          <= Len(d.out)

LEMMA HeldMore ==
    ASSUME NEW table \in Strings, Len(table) >= FIRST, NEW s \in Seq(Byte)
    PROVE  HeldBy(table) \in Nat /\ HeldBy(Append(table, s)) = HeldBy(table) + Len(s)
  <1> DEFINE n == Len(table) - FIRST
             longer == Append(table, s)
             c == [i \in 1 .. n |-> Len(table[FIRST + i])]
             e == [i \in 1 .. n + 1 |-> Len(longer[FIRST + i])]
  <1>1. Len(table) \in Nat /\ FIRST \in Nat /\ Len(s) \in Nat
    BY LenProperties, CodesLie DEF Strings
  <1>2. n \in Nat /\ Len(table) = FIRST + n
    BY <1>1
  <1>3. /\ Len(longer) = FIRST + n + 1 /\ longer[FIRST + n + 1] = s
        /\ \A i \in 1 .. FIRST + n : longer[i] = table[i]
    <2> HIDE DEF n
    <2>1. /\ Len(longer) = Len(table) + 1 /\ longer[Len(table) + 1] = s
          /\ \A i \in 1 .. Len(table) : longer[i] = table[i]
      BY AppendProperties DEF Strings
    <2> QED
      BY <1>2, <2>1
  <1>4. HeldBy(table) = Total(c, n)
    BY DEF HeldBy
  <1>5. HeldBy(longer) = Total(e, n + 1)
    <2>1. Len(longer) - FIRST = n + 1
      <3> HIDE DEF n, longer
      <3> QED
        BY <1>1, <1>2, <1>3
    <2> HIDE DEF n, longer
    <2> QED
      BY <2>1 DEF HeldBy
  <1> HIDE DEF n, longer
  <1>6. \A i \in 1 .. n : Len(table[FIRST + i]) \in Nat /\ Len(longer[FIRST + i]) = Len(table[FIRST + i])
    <2>1. ASSUME NEW i \in 1 .. n
          PROVE  Len(table[FIRST + i]) \in Nat /\ Len(longer[FIRST + i]) = Len(table[FIRST + i])
      <3>1. FIRST + i \in 1 .. Len(table) /\ FIRST + i \in 1 .. FIRST + n
        BY <1>1, <1>2
      <3>2. table[FIRST + i] \in Seq(Byte)
        BY <3>1, ElementOfSeq DEF Strings
      <3>3. Len(table[FIRST + i]) \in Nat
        BY <3>2, LenProperties
      <3> QED
        BY <1>3, <3>1, <3>3
    <2> QED
      BY <2>1
  <1>7. \A i \in 1 .. n : c[i] \in Nat /\ e[i] = c[i]
    BY <1>2, <1>6
  <1>8. e[n + 1] = Len(s) /\ e[n + 1] \in Nat
    <2>1. n + 1 \in 1 .. n + 1 /\ FIRST + (n + 1) = FIRST + n + 1
      BY <1>1, <1>2
    <2> QED
      BY <1>1, <1>3, <2>1
  <1>9. Total(c, n) \in Nat /\ Total(e, n + 1) = Total(c, n) + e[n + 1]
    <2> HIDE DEF c, e
    <2> QED
      BY <1>2, <1>7, <1>8, TotalMore
  <1> HIDE DEF c, e
  <1> QED
    BY <1>4, <1>5, <1>8, <1>9 DEF longer

LEMMA HeldIsNat ==
    ASSUME NEW table \in Strings, Len(table) >= FIRST
    PROVE  HeldBy(table) \in Nat
  <1>1. <<>> \in Seq(Byte)
    BY EmptySeq
  <1> QED
    BY <1>1, HeldMore

LEMMA InitTableIsFrugal == HeldBy(InitTable) = 0 /\ Len(InitTable) - FIRST = 0
  <1>1. Len(InitTable) - FIRST = 0
    BY CodesLie, InitTableLies
  <1> QED
    BY <1>1, TotalNone DEF HeldBy

LEMMA FreshIsFrugal == ASSUME NEW bytes \in Seq(Byte) PROVE Frugal([Fresh EXCEPT !.out = bytes])
  <1> DEFINE d == [Fresh EXCEPT !.out = bytes]
  <1>1. d.strings = InitTable /\ d.prev = <<>> /\ d.out = bytes
    BY DEF Fresh
  <1>2. Len(bytes) \in Nat
    BY LenProperties
  <1> HIDE DEF d
  <1>3. Frugal(d)
    BY <1>1, <1>2, InitTableIsFrugal DEF Frugal
  <1> QED
    BY <1>3 DEF d

LEMMA TakenIsFrugal ==
    ASSUME NEW d, Sound(d), Frugal(d), NEW c, Readable(d, c)
    PROVE  Frugal(Taken(d, c))
  <1> DEFINE e == EntryOf(d, c)
             t == TableOf(d, c)
             r == Taken(d, c)
             n == Len(d.strings)
             P == Latest(d)
             h == HeldBy(d.strings)
             f == Append(P, Head(e))
  <1>1. /\ d.strings \in Strings /\ n \in Nat /\ n >= FIRST /\ d.out \in Seq(Byte)
        /\ d.prev # <<>> => P \in Seq(Byte) /\ P # <<>>
    BY SoundParts
  <1>2. /\ e \in Seq(Byte) /\ e # <<>> /\ Head(e) \in Byte /\ t[c + 1] = e
        /\ Len(t) = IF d.prev = <<>> THEN n ELSE n + 1
    BY EntryLies
  <1>3. r.strings = t /\ r.prev = <<c>> /\ r.out = d.out \o e
    BY DEF Taken
  <1>4. t = IF d.prev = <<>> THEN d.strings ELSE Append(d.strings, f)
    BY DEF TableOf
  <1>5. h \in Nat /\ Len(d.out) \in Nat /\ Len(e) \in Nat /\ Len(e) >= 1 /\ FIRST \in Nat
    <2>1. Len(e) \in Nat /\ Len(e) >= 1
      <3> HIDE DEF e
      <3> QED
        BY <1>2, LenProperties, EmptySeq
    <2> QED
      BY <1>1, <2>1, HeldIsNat, LenProperties, CodesLie
  <1>6. Len(r.out) = Len(d.out) + Len(e)
    <2> HIDE DEF e, r
    <2> QED
      BY <1>1, <1>2, <1>3, ConcatProperties
  <1>7. Latest(r) = e
    <2>1. <<c>>[1] = c
      OBVIOUS
    <2> HIDE DEF t, e, r
    <2> QED
      BY <1>2, <1>3, <2>1 DEF Latest
  <1>8. /\ n - FIRST <= Len(d.out)
        /\ h - (n - FIRST) + (IF d.prev = <<>> THEN 0 ELSE Len(P)) <= Len(d.out)
    BY DEF Frugal
  <1>9. ASSUME d.prev = <<>> PROVE Frugal(r)
    <2>1. HeldBy(r.strings) = h /\ Len(r.strings) = n /\ r.prev # <<>>
      BY <1>2, <1>3, <1>4, <1>9
    <2> HIDE DEF r, e, h, n, t
    <2> QED
      BY <1>1, <1>5, <1>6, <1>7, <1>8, <1>9, <2>1 DEF Frugal
  <1>10. ASSUME d.prev # <<>> PROVE Frugal(r)
    <2>1. f \in Seq(Byte) /\ Len(f) = Len(P) + 1 /\ Len(P) \in Nat
      <3> HIDE DEF P, e
      <3> QED
        BY <1>1, <1>2, <1>10, AppendProperties, LenProperties
    <2>2. t = Append(d.strings, f)
      BY <1>4, <1>10
    <2> HIDE DEF f, t
    <2>3. HeldBy(t) = h + Len(f)
      BY <1>1, <2>1, <2>2, HeldMore
    <2>4. HeldBy(r.strings) = h + Len(P) + 1 /\ Len(r.strings) = n + 1 /\ r.prev # <<>>
      <3> HIDE DEF h, n, r, P
      <3> QED
        BY <1>2, <1>3, <1>5, <1>10, <2>1, <2>3
    <2> HIDE DEF r, e, h, n, P
    <2>5. n + 1 - FIRST <= Len(d.out) + Len(e)
      BY <1>1, <1>5, <1>8
    <2>6. (h + Len(P) + 1) - (n + 1 - FIRST) + Len(e) <= Len(d.out) + Len(e)
      BY <1>1, <1>5, <1>8, <1>10, <2>1
    <2>7. Len(r.strings) - FIRST <= Len(r.out)
      BY <1>1, <1>5, <1>6, <2>4, <2>5
    <2>8. HeldBy(r.strings) - (Len(r.strings) - FIRST) + Len(Latest(r)) <= Len(r.out)
      BY <1>1, <1>5, <1>6, <1>7, <2>1, <2>4, <2>6
    <2> QED
      BY <2>4, <2>7, <2>8 DEF Frugal
  <1>11. Frugal(r)
    <2> HIDE DEF r
    <2> QED
      BY <1>9, <1>10
  <1> QED
    BY <1>11

----------------------------------------------------------------------------
(* The encoder against the decoder that has read every code put so far. *)

\* The table that decoder has once it reads a code for the string m: one entry longer,
\* for its latest string and the first byte of m, unless it has just cleared.
Pending(d, m) ==
    IF d.prev = <<>> THEN d.strings ELSE Append(d.strings, Append(Latest(d), Head(m)))

\* The encoder's dictionary cd, whose next code is nx, is that table; the string matched
\* so far is m, of code om.
Matching(d, m, om, cd, nx) ==
    LET table == Pending(d, m) IN
    /\ m \in Seq(Byte) /\ m # <<>>
    /\ Len(table) = nx
    /\ Names(table, om) /\ table[om + 1] = m
    /\ \A a, k : <<a, k>> \in DOMAIN cd =>
          /\ k \in Byte /\ Names(table, a) /\ Names(table, cd[<<a, k>>])
          /\ table[cd[<<a, k>>] + 1] = Append(table[a + 1], k)

LEMMA PendingLies ==
    ASSUME NEW d, Sound(d), NEW m \in Seq(Byte), m # <<>>
    PROVE  LET t == Pending(d, m) IN
           /\ Head(m) \in Byte
           /\ t \in Strings /\ Len(t) \in Nat /\ Len(t) >= FIRST
           /\ Len(t) = IF d.prev = <<>> THEN Len(d.strings) ELSE Len(d.strings) + 1
           /\ \A x \in 1 .. Len(d.strings) : t[x] = d.strings[x]
           /\ d.prev # <<>> => t[Len(d.strings) + 1] = Append(Latest(d), Head(m))
  <1> DEFINE t == Pending(d, m)
             n == Len(d.strings)
             P == Latest(d)
             f == Append(P, Head(m))
             Goal == /\ Head(m) \in Byte
                     /\ t \in Strings /\ Len(t) \in Nat /\ Len(t) >= FIRST
                     /\ Len(t) = IF d.prev = <<>> THEN n ELSE n + 1
                     /\ \A x \in 1 .. n : t[x] = d.strings[x]
                     /\ d.prev # <<>> => t[n + 1] = f
  <1>1. /\ d.strings \in Strings /\ n \in Nat /\ n >= FIRST /\ FIRST \in Nat
        /\ d.prev # <<>> => P \in Seq(Byte) /\ P # <<>>
    BY SoundParts, CodesLie
  <1>2. Head(m) \in Byte
    BY HeadTailProperties
  <1>3. ASSUME d.prev = <<>> PROVE Goal
    <2>1. t = d.strings
      BY <1>3 DEF Pending
    <2> HIDE DEF t
    <2> QED
      BY <1>1, <1>2, <1>3, <2>1
  <1>4. ASSUME d.prev # <<>> PROVE Goal
    <2>1. t = Append(d.strings, f)
      BY <1>4 DEF Pending
    <2>2. f \in Seq(Byte)
      <3> HIDE DEF P
      <3> QED
        BY <1>1, <1>2, <1>4, AppendProperties
    <2> HIDE DEF t, P, f
    <2>3. /\ t \in Strings /\ Len(t) = n + 1 /\ t[n + 1] = f
          /\ \A x \in 1 .. n : t[x] = d.strings[x]
      BY <1>1, <2>1, <2>2, AppendProperties DEF Strings
    <2> QED
      BY <1>1, <1>2, <1>4, <2>3
  <1>5. Goal
    <2> HIDE DEF Goal
    <2> QED
      BY <1>3, <1>4
  <1> QED
    BY <1>5

\* The decoder takes the encoder's code for the string the encoder means by it.
LEMMA CodeIsRead ==
    ASSUME NEW d, Sound(d), NEW m, NEW om, NEW cd, NEW nx, Matching(d, m, om, cd, nx)
    PROVE  Readable(d, om) /\ EntryOf(d, om) = m /\ TableOf(d, om) = Pending(d, m)
  <1> DEFINE t == Pending(d, m)
             n == Len(d.strings)
             P == Latest(d)
  <1>1. /\ m \in Seq(Byte) /\ m # <<>> /\ Names(t, om) /\ t[om + 1] = m
    BY DEF Matching
  <1>2. /\ Head(m) \in Byte /\ t \in Strings /\ Len(t) \in Nat
        /\ Len(t) = IF d.prev = <<>> THEN n ELSE n + 1
        /\ \A x \in 1 .. n : t[x] = d.strings[x]
        /\ d.prev # <<>> => t[n + 1] = Append(P, Head(m))
    BY <1>1, PendingLies
  <1>3. n \in Nat /\ n >= FIRST /\ (d.prev # <<>> => P \in Seq(Byte) /\ P # <<>>)
    BY SoundParts
  <1>4. om \in Nat /\ om < Len(t) /\ om # CLEAR /\ om # EOI
    BY <1>1 DEF Names
  <1>5. Readable(d, om)
    <2> HIDE DEF t, n
    <2>1. om < n \/ (om = n /\ d.prev # <<>>)
      BY <1>2, <1>3, <1>4
    <2> QED
      BY <1>4, <2>1 DEF Readable, n
  <1>6. EntryOf(d, om) = m
    <2>1. CASE om < n
      <3>1. om + 1 \in 1 .. n
        BY <1>3, <1>4, <2>1
      <3>2. EntryOf(d, om) = d.strings[om + 1]
        BY <2>1 DEF EntryOf
      <3> HIDE DEF t
      <3> QED
        BY <1>1, <1>2, <3>1, <3>2
    <2>2. CASE ~(om < n)
      <3>1. om = n /\ d.prev # <<>>
        BY <1>5, <2>2 DEF Readable
      <3>2. EntryOf(d, om) = Append(P, Head(P))
        BY <2>2 DEF EntryOf
      <3> HIDE DEF P, t
      <3>3. m = Append(P, Head(m)) /\ P \in Seq(Byte) /\ P # <<>>
        BY <1>1, <1>2, <1>3, <3>1
      <3>4. Head(m) = Head(P)
        <4> DEFINE h == Head(m)
        <4>1. m = Append(P, h)
          BY <3>3
        <4> HIDE DEF h
        <4>2. Head(Append(P, h)) = Head(P)
          BY <3>3, HeadTailAppend
        <4> QED
          BY <4>1, <4>2
      <3> QED
        BY <3>2, <3>3, <3>4
    <2> QED
      BY <2>1, <2>2
  <1>7. TableOf(d, om) = t
    BY <1>6 DEF TableOf, Pending
  <1> QED
    BY <1>5, <1>6, <1>7

\* A longer match is of the same table.
LEMMA MatchKeeps ==
    ASSUME NEW d, Sound(d), NEW m, NEW om, NEW cd, NEW nx, Matching(d, m, om, cd, nx),
           NEW k, <<om, k>> \in DOMAIN cd
    PROVE  k \in Byte /\ Matching(d, Append(m, k), cd[<<om, k>>], cd, nx)
  <1> DEFINE t == Pending(d, m)
             u == Append(m, k)
  <1>1. /\ m \in Seq(Byte) /\ m # <<>> /\ Len(t) = nx /\ t[om + 1] = m
        /\ \A a, b : <<a, b>> \in DOMAIN cd =>
              /\ b \in Byte /\ Names(t, a) /\ Names(t, cd[<<a, b>>])
              /\ t[cd[<<a, b>>] + 1] = Append(t[a + 1], b)
    BY DEF Matching
  <1>2. k \in Byte /\ Names(t, cd[<<om, k>>]) /\ t[cd[<<om, k>>] + 1] = u
    <2> HIDE DEF t
    <2> QED
      BY <1>1
  <1>3. u \in Seq(Byte) /\ u # <<>> /\ Head(u) = Head(m)
    BY <1>1, <1>2, AppendProperties, HeadTailAppend
  <1>4. Pending(d, u) = t
    <2> HIDE DEF u
    <2> QED
      BY <1>3 DEF Pending
  <1> HIDE DEF t, u
  <1>5. Matching(d, u, cd[<<om, k>>], cd, nx)
    BY <1>1, <1>2, <1>3, <1>4 DEF Matching
  <1> QED
    BY <1>2, <1>5 DEF u

\* A single byte matches a table that has just been cleared.
LEMMA ClearedMatches ==
    ASSUME NEW d, d.strings = InitTable, d.prev = <<>>, NEW k \in Byte, NEW cd, DOMAIN cd = {}
    PROVE  Matching(d, <<k>>, k, cd, FIRST)
  <1>1. Pending(d, <<k>>) = InitTable
    BY DEF Pending
  <1>2. Names(InitTable, k)
    BY CodesLie, InitTableLies DEF Names
  <1>3. <<k>> \in Seq(Byte) /\ <<k>> # <<>>
    OBVIOUS
  <1> QED
    BY <1>1, <1>2, <1>3, InitTableLies DEF Matching

\* Once the match is written, the decoder's table is the encoder's, and the entry the
\* encoder adds is the one the decoder will have with the next code.
LEMMA WriteKeeps ==
    ASSUME NEW d, Sound(d), NEW m, NEW om, NEW cd, NEW nx, Matching(d, m, om, cd, nx),
           NEW k \in Byte
    PROVE  LET r == Taken(d, om)
               longer == [p \in DOMAIN cd \cup {<<om, k>>} |-> IF p = <<om, k>> THEN nx ELSE cd[p]]
           IN  Matching(r, <<k>>, k, longer, nx + 1)
  <1> DEFINE r == Taken(d, om)
             longer == [p \in DOMAIN cd \cup {<<om, k>>} |-> IF p = <<om, k>> THEN nx ELSE cd[p]]
             t == Pending(d, m)
             v == Pending(r, <<k>>)
             f == Append(m, k)
  <1>1. /\ m \in Seq(Byte) /\ m # <<>> /\ Len(t) = nx /\ t[om + 1] = m /\ Names(t, om)
        /\ \A a, b : <<a, b>> \in DOMAIN cd =>
              /\ b \in Byte /\ Names(t, a) /\ Names(t, cd[<<a, b>>])
              /\ t[cd[<<a, b>>] + 1] = Append(t[a + 1], b)
    BY DEF Matching
  <1>2. t \in Strings /\ Len(t) \in Nat /\ Len(t) >= FIRST
    BY <1>1, PendingLies
  <1>3. /\ Readable(d, om) /\ r.strings = t /\ r.prev = <<om>> /\ Sound(r)
    <2>1. Readable(d, om) /\ TableOf(d, om) = t
      BY CodeIsRead
    <2>2. r.strings = TableOf(d, om) /\ r.prev = <<om>>
      BY DEF Taken
    <2>3. Sound(r)
      BY <2>1, TakenIsSound
    <2> HIDE DEF r, t
    <2> QED
      BY <2>1, <2>2, <2>3
  <1> HIDE DEF r, t
  <1>4. Latest(r) = m
    <2>1. r.prev[1] = om
      BY <1>3
    <2> QED
      BY <1>1, <1>3, <2>1 DEF Latest
  <1>5. v = Append(t, f)
    <2>1. Head(<<k>>) = k /\ r.prev # <<>>
      BY <1>3
    <2> QED
      BY <1>3, <1>4, <2>1 DEF Pending
  <1>6. f \in Seq(Byte)
    BY <1>1, AppendProperties
  <1> HIDE DEF v, f
  <1>7. /\ Len(v) = nx + 1 /\ v[nx + 1] = f
        /\ \A x \in 1 .. nx : v[x] = t[x]
    BY <1>1, <1>2, <1>5, <1>6, AppendProperties DEF Strings
  <1>8. ASSUME NEW a, Names(t, a) PROVE Names(v, a) /\ v[a + 1] = t[a + 1]
    <2>1. a \in Nat /\ a < nx /\ a # CLEAR /\ a # EOI /\ nx \in Nat
      BY <1>1, <1>2, <1>8 DEF Names
    <2>2. a + 1 \in 1 .. nx
      BY <2>1
    <2> QED
      BY <1>7, <2>1, <2>2 DEF Names
  <1>9. Names(v, nx) /\ v[nx + 1] = Append(v[om + 1], k)
    <2>1. nx \in Nat /\ nx # CLEAR /\ nx # EOI /\ nx < nx + 1
      BY <1>1, <1>2, CodesLie
    <2>2. v[om + 1] = m
      BY <1>1, <1>8
    <2> QED
      BY <1>7, <2>1, <2>2 DEF Names, f
  <1>10. Names(v, k) /\ v[k + 1] = <<k>>
    <2>1. Names(t, k)
      BY <1>2, CodesLie DEF Names
    <2>2. t[k + 1] = <<k>>
      BY <1>3 DEF Sound
    <2> QED
      BY <1>8, <2>1, <2>2
  <1>11. ASSUME NEW a, NEW b, <<a, b>> \in DOMAIN longer
         PROVE  /\ b \in Byte /\ Names(v, a) /\ Names(v, longer[<<a, b>>])
                /\ v[longer[<<a, b>>] + 1] = Append(v[a + 1], b)
    <2>1. CASE <<a, b>> = <<om, k>>
      <3>1. a = om /\ b = k /\ longer[<<a, b>>] = nx
        BY <2>1, <1>11
      <3>2. Names(v, om)
        BY <1>1, <1>8
      <3> HIDE DEF longer
      <3> QED
        BY <1>9, <3>1, <3>2
    <2>2. CASE <<a, b>> # <<om, k>>
      <3>1. <<a, b>> \in DOMAIN cd /\ longer[<<a, b>>] = cd[<<a, b>>]
        BY <2>2, <1>11
      <3> HIDE DEF longer
      <3>2. /\ b \in Byte /\ Names(t, a) /\ Names(t, cd[<<a, b>>])
            /\ t[cd[<<a, b>>] + 1] = Append(t[a + 1], b)
        BY <1>1, <3>1
      <3> QED
        BY <1>8, <3>1, <3>2
    <2> QED
      BY <2>1, <2>2
  <1>12. <<k>> \in Seq(Byte) /\ <<k>> # <<>>
    OBVIOUS
  <1> HIDE DEF longer
  <1>13. Matching(r, <<k>>, k, longer, nx + 1)
    BY <1>7, <1>10, <1>11, <1>12 DEF Matching, v
  <1> QED
    BY <1>13 DEF r, longer

\* Both ends widen at the same code: the encoder as it defines an entry, the decoder as it
\* defines the one before.
LEMMA WidthsAgree ==
    ASSUME NEW d, Sound(d), NEW m, NEW om, NEW cd, NEW nx, Matching(d, m, om, cd, nx),
           nx < Pow(d.width), nx < ResetAt
    PROVE  LET w == Wider(d.width, nx + 1) IN
           /\ Taken(d, om).width = w
           /\ w \in MinWidth .. MaxWidth
           /\ nx + 1 < Pow(w)
  <1> DEFINE x == d.width
             w == Wider(x, nx + 1)
             t == Pending(d, m)
  <1>1. x \in MinWidth .. MaxWidth
    BY SoundParts
  <1>2. /\ MinWidth \in 3 .. 30 /\ MaxWidth \in 4 .. 31 /\ MinWidth < MaxWidth
        /\ CLEAR \in Nat /\ CLEAR >= 4 /\ FIRST = CLEAR + 2 /\ Pow(MinWidth) = 2 * CLEAR
        /\ ResetAt \in Nat /\ ResetAt < Pow(MaxWidth)
    BY Sizes
  <1>3. x \in 0 .. 38 /\ x \in Nat
    BY <1>1, <1>2
  <1>4. Pow(x) \in Nat /\ Pow(x) >= 1 /\ Pow(x + 1) = 2 * Pow(x)
    BY <1>3, PowStep
  <1>5. nx \in Nat /\ Len(t) = nx
    <2>1. m \in Seq(Byte) /\ m # <<>> /\ Len(t) = nx
      BY DEF Matching
    <2> QED
      BY <2>1, PendingLies
  <1>6. TableOf(d, om) = t
    BY CodeIsRead
  <1>7. Taken(d, om).width = IF d.prev = <<>> THEN x ELSE LagWider(x, nx)
    BY <1>5, <1>6 DEF Taken
  <1>8. w = IF nx + 1 = Pow(x) THEN x + 1 ELSE x
    BY DEF Wider, Pow
  <1>9. LagWider(x, nx) = IF nx = Pow(x) - 1 /\ x < MaxWidth THEN x + 1 ELSE x
    BY DEF LagWider, Pow
  <1>10. nx + 1 = Pow(x) => x < MaxWidth
    <2>1. nx + 1 = Pow(x) /\ x = MaxWidth => FALSE
      BY <1>2, <1>5
    <2> HIDE DEF x
    <2> QED
      BY <1>1, <1>2, <2>1
  <1>11. d.prev = <<>> => nx + 1 # Pow(x)
    <2>1. SUFFICES ASSUME d.prev = <<>> PROVE nx + 1 # Pow(x)
      OBVIOUS
    <2>2. d.strings = InitTable /\ x = MinWidth
      BY <2>1 DEF Sound
    <2>3. nx = FIRST
      BY <1>5, <2>1, <2>2, InitTableLies DEF Pending
    <2> HIDE DEF x
    <2> QED
      BY <1>2, <2>2, <2>3
  <1> HIDE DEF x, w, t
  <1>12. Taken(d, om).width = w
    BY <1>1, <1>2, <1>3, <1>4, <1>5, <1>7, <1>8, <1>9, <1>10, <1>11
  <1>13. w \in MinWidth .. MaxWidth
    BY <1>1, <1>2, <1>8, <1>10
  <1>14. nx + 1 < Pow(w)
    <2>1. nx < Pow(x)
      BY DEF x
    <2>2. CASE nx + 1 = Pow(x)
      BY <1>4, <1>5, <1>8, <2>2
    <2>3. CASE nx + 1 # Pow(x)
      BY <1>4, <1>5, <1>8, <2>1, <2>3
    <2> QED
      BY <2>2, <2>3
  <1> QED
    BY <1>12, <1>13, <1>14 DEF w, x

----------------------------------------------------------------------------
(* The decoder after each of the first n codes of cs, all it puts out so far being a *)
(* beginning of bytes.                                                             *)

Begins(s, t) == Len(s) <= Len(t) /\ \A x \in 1 .. Len(s) : s[x] = t[x]

Follows(d, c, r) == IF c = CLEAR THEN r = Reset(d) ELSE Readable(d, c) /\ r = Taken(d, c)

Chain(D, cs, n, bytes) ==
    /\ D[0] = Fresh
    /\ \A i \in 1 .. n : cs[i].width = D[i - 1].width /\ Follows(D[i - 1], cs[i].code, D[i])
    /\ \A i \in 0 .. n : Sound(D[i]) /\ Begins(D[i].out, bytes)

LEMMA BeginsLonger ==
    ASSUME NEW s \in Seq(Byte), NEW t \in Seq(Byte)
    PROVE  Begins(s, s \o t) /\ s \o t \in Seq(Byte)
  <1>1. /\ s \o t \in Seq(Byte) /\ Len(s) \in Nat /\ Len(t) \in Nat
        /\ Len(s \o t) = Len(s) + Len(t)
        /\ \A i \in 1 .. Len(s) + Len(t) : (s \o t)[i] = IF i <= Len(s) THEN s[i] ELSE t[i - Len(s)]
    BY ConcatProperties, LenProperties
  <1> QED
    BY <1>1 DEF Begins

LEMMA BeginsAll ==
    ASSUME NEW s \in Seq(Byte)
    PROVE  Begins(s, s) /\ Begins(<<>>, s)
  <1>1. Len(s) \in Nat /\ Len(<<>>) = 0
    BY LenProperties
  <1> QED
    BY <1>1 DEF Begins

LEMMA BeginsStill ==
    ASSUME NEW s \in Seq(Byte), NEW t \in Seq(Byte), NEW u \in Seq(Byte), Begins(s, t), Begins(t, u)
    PROVE  Begins(s, u)
  <1>1. Len(s) \in Nat /\ Len(t) \in Nat /\ Len(u) \in Nat
    BY LenProperties
  <1> QED
    BY <1>1 DEF Begins

LEMMA FollowsIsSound ==
    ASSUME NEW d, Sound(d), NEW c, NEW r, Follows(d, c, r)
    PROVE  Sound(r)
  <1>1. CASE c = CLEAR
    <2>1. r = [Fresh EXCEPT !.out = d.out] /\ d.out \in Seq(Byte)
      BY <1>1, SoundParts DEF Follows, Reset
    <2> QED
      BY <2>1, FreshIsSound
  <1>2. CASE c # CLEAR
    <2>1. Readable(d, c) /\ r = Taken(d, c)
      BY <1>2 DEF Follows
    <2> QED
      BY <2>1, TakenIsSound
  <1> QED
    BY <1>1, <1>2

LEMMA FreshLies == Sound(Fresh) /\ Frugal(Fresh) /\ Fresh.out = <<>> /\ Fresh.prev = <<>>
                   /\ Fresh.strings = InitTable /\ Fresh.width = MinWidth /\ Reset(Fresh) = Fresh
  <1>1. <<>> \in Seq(Byte)
    BY EmptySeq
  <1>2. [Fresh EXCEPT !.out = <<>>] = Fresh /\ Fresh.out = <<>>
    BY DEF Fresh
  <1>3. Sound(Fresh) /\ Frugal(Fresh)
    BY <1>1, <1>2, FreshIsSound, FreshIsFrugal
  <1>4. Fresh.prev = <<>> /\ Fresh.strings = InitTable /\ Fresh.width = MinWidth
    BY DEF Fresh
  <1> QED
    BY <1>2, <1>3, <1>4 DEF Reset

\* The same chain along a longer sequence of codes, of a longer strip.
LEMMA ChainWithin ==
    ASSUME NEW n \in Nat, NEW D, NEW cs, NEW ds, NEW bytes \in Seq(Byte), NEW more \in Seq(Byte),
           Chain(D, cs, n, bytes), \A i \in 1 .. n : ds[i] = cs[i], Begins(bytes, more)
    PROVE  Chain(D, ds, n, more)
  <1>1. ASSUME NEW i \in 0 .. n PROVE Sound(D[i]) /\ Begins(D[i].out, more)
    <2>1. Sound(D[i]) /\ Begins(D[i].out, bytes)
      BY DEF Chain
    <2>2. D[i].out \in Seq(Byte)
      BY <2>1, SoundParts
    <2> QED
      BY <2>1, <2>2, BeginsStill
  <1>2. \A i \in 1 .. n : ds[i].width = D[i - 1].width /\ Follows(D[i - 1], ds[i].code, D[i])
    BY DEF Chain
  <1>3. D[0] = Fresh
    BY DEF Chain
  <1> QED
    BY <1>1, <1>2, <1>3 DEF Chain

\* One code more.
LEMMA ChainMore ==
    ASSUME NEW n \in Nat, NEW D, NEW cs, NEW ds, NEW bytes, Chain(D, cs, n, bytes),
           \A i \in 1 .. n : ds[i] = cs[i],
           NEW d, D[n] = d, NEW c, ds[n + 1] = c, c.width = d.width,
           NEW r, Follows(d, c.code, r), Begins(r.out, bytes)
    PROVE  \E E : Chain(E, ds, n + 1, bytes) /\ E[n + 1] = r
  <1> DEFINE m == n + 1
             E == [i \in 0 .. m |-> IF i = m THEN r ELSE D[i]]
  <1>1. Sound(r)
    <2>1. Sound(D[n])
      <3>1. n \in 0 .. n
        OBVIOUS
      <3> QED
        BY <3>1 DEF Chain
    <2> QED
      BY <2>1, FollowsIsSound
  <1>2. E[m] = r /\ \A i \in 0 .. n : E[i] = D[i]
    OBVIOUS
  <1> HIDE DEF E
  <1>3. E[0] = Fresh
    <2>1. 0 \in 0 .. n
      OBVIOUS
    <2> QED
      BY <1>2, <2>1 DEF Chain
  <1>4. ASSUME NEW i \in 1 .. m
        PROVE  ds[i].width = E[i - 1].width /\ Follows(E[i - 1], ds[i].code, E[i])
    <2>1. CASE i = m
      <3>1. i - 1 = n /\ n \in 0 .. n
        BY <2>1
      <3>2. E[i - 1] = D[n] /\ E[i] = r /\ ds[i] = c
        BY <1>2, <2>1, <3>1
      <3> QED
        BY <3>2
    <2>2. CASE i # m
      <3>1. i \in 1 .. n /\ i \in 0 .. n /\ i - 1 \in 0 .. n
        BY <2>2
      <3>2. E[i - 1] = D[i - 1] /\ E[i] = D[i] /\ ds[i] = cs[i]
        BY <1>2, <3>1
      <3> QED
        BY <3>1, <3>2 DEF Chain
    <2> QED
      BY <2>1, <2>2
  <1>5. ASSUME NEW i \in 0 .. m PROVE Sound(E[i]) /\ Begins(E[i].out, bytes)
    <2>1. CASE i = m
      BY <1>1, <1>2, <2>1
    <2>2. CASE i # m
      <3>1. i \in 0 .. n
        BY <2>2
      <3> QED
        BY <1>2, <3>1 DEF Chain
    <2> QED
      BY <2>1, <2>2
  <1>6. Chain(E, ds, m, bytes)
    BY <1>3, <1>4, <1>5 DEF Chain
  <1> QED
    BY <1>2, <1>6

LEMMA FittingMore ==
    ASSUME NEW cs, Fitting(cs), NEW c \in Nat, NEW w \in MinWidth .. MaxWidth, c < Pow(w)
    PROVE  /\ Coded(c, w) \in Codes /\ Fitting(Append(cs, Coded(c, w)))
           /\ cs \in Seq(Codes) /\ Len(cs) \in Nat /\ Len(Append(cs, Coded(c, w))) = Len(cs) + 1
           /\ Append(cs, Coded(c, w))[Len(cs) + 1] = Coded(c, w)
           /\ \A i \in 1 .. Len(cs) : Append(cs, Coded(c, w))[i] = cs[i]
           /\ Append(cs, Coded(c, w)) = cs \o << Coded(c, w) >>
           /\ Append(cs, Coded(c, w)) # <<>>
  <1> DEFINE e == Coded(c, w)
             ds == Append(cs, e)
  <1>1. e.code = c /\ e.width = w /\ e \in Codes
    <2>1. w \in 1 .. 31
      BY Sizes
    <2> QED
      BY <2>1 DEF Coded, Codes
  <1>2. cs \in Seq(Codes) /\ DOMAIN cs = 1 .. Len(cs) /\ Len(cs) \in Nat
    BY LenProperties DEF Fitting
  <1> HIDE DEF e
  <1>3. /\ ds \in Seq(Codes) /\ ds # <<>> /\ Len(ds) = Len(cs) + 1 /\ ds[Len(cs) + 1] = e
        /\ \A i \in 1 .. Len(cs) : ds[i] = cs[i]
    BY <1>1, <1>2, AppendProperties
  <1>4. ds = cs \o << e >>
    BY <1>1, <1>2, AppendIsConcat
  <1> HIDE DEF ds
  <1>5. DOMAIN ds = 1 .. Len(ds)
    BY <1>3, LenProperties
  <1>6. \A i \in 1 .. Len(cs) : cs[i].code < Pow(cs[i].width)
    BY <1>2 DEF Fitting
  <1>7. \A i \in 1 .. Len(ds) : ds[i].code < Pow(ds[i].width)
    BY <1>1, <1>2, <1>3, <1>6
  <1>8. Fitting(ds)
    BY <1>3, <1>5, <1>7 DEF Fitting
  <1> QED
    BY <1>1, <1>2, <1>3, <1>4, <1>8 DEF ds, e

----------------------------------------------------------------------------
(* The invariant. *)

TypeInv ==
    /\ stage \in {"encode", "decode", "done", "short", "refused"}
    /\ data \in Seq(Byte) /\ Fitting(put)
    /\ stream \in Seq({0, 1}) /\ expected \in Nat /\ pos \in Nat
    /\ Sound(Here)

TableInv ==
    /\ stage = "decode" => Frugal(Here) /\ (Len(out) < expected \/ out = <<>>)
    /\ Len(strings) - FIRST <= expected /\ HeldBy(strings) <= 2 * expected

\* While the strip is encoded: D is the decoder along the codes put so far.
Encoding(D) ==
    /\ put # <<>>
    /\ Chain(D, put, Len(put), data)
    /\ D[Len(put)].width = width
    /\ data = <<>> => D[Len(put)] = Fresh /\ DOMAIN codes = {} /\ nextCode = FIRST
    /\ data # <<>> => \E m : /\ Matching(D[Len(put)], m, omega, codes, nextCode)
                             /\ D[Len(put)].out \o m = data
    /\ nextCode \in Nat /\ nextCode >= FIRST /\ nextCode < Pow(width) /\ nextCode < ResetAt

\* The decoder is where D says it is after some code, not yet the last one unless there is
\* nothing to decode; or it has the strip, and more was asked of it.
OnTrack(D, n) ==
    \/ \E i \in 0 .. n : /\ i = n => data = <<>>
                         /\ pos = At(put, i) /\ Here = D[i]
    \/ Len(out) >= Len(data) /\ expected > Len(data)

\* The strip as decode finds it: D is the decoder along its n codes, all but the last,
\* EndOfInformation.
Ended(D, n) ==
    /\ Len(put) = n + 1 /\ put[n + 1].code = EOI
    /\ Chain(D, put, n, data) /\ D[n].out = data
    /\ data = <<>> => put[n + 1].width = D[n].width
    /\ stream = Packed(put)

Decoding(D, n) ==
    /\ Ended(D, n)
    /\ stage = "decode" => OnTrack(D, n)
    /\ expected <= Len(data) => /\ stage = "done" => out = SubSeq(data, 1, expected)
                                /\ stage \notin {"short", "refused"}

IInv ==
    /\ TypeInv /\ TableInv
    /\ stage = "encode" => Here = Fresh /\ pos = 0 /\ \E D : Encoding(D)
    /\ put = <<>> => data = <<>>
    /\ stage # "encode" /\ put # <<>> => \E n \in Nat : \E D : Decoding(D, n)

----------------------------------------------------------------------------
(* encode. *)

LEMMA InitIsInvariant == LzwInit => IInv
  <1> SUFFICES ASSUME LzwInit PROVE IInv
    OBVIOUS
  <1>1. /\ data = <<>> /\ codes = <<>> /\ nextCode = FIRST /\ width = MinWidth
        /\ pos = 0 /\ strings = InitTable /\ codeWidth = MinWidth /\ prev = <<>> /\ out = <<>>
    BY DEF LzwInit, InitDecoder
  <1>2. Here = Fresh
    BY <1>1 DEF Here, Fresh
  <1>3. data \in Seq(Byte)
    BY <1>1
  <1>4. \/ stage = "encode" /\ stream = <<>> /\ expected = 0 /\ put = << Coded(CLEAR, MinWidth) >>
        \/ stage = "decode" /\ stream \in Streams /\ expected \in 0 .. MaxStream /\ put = <<>>
    BY DEF LzwInit
  <1>5. Fitting(<<>>)
    <2>1. <<>> \in Seq(Codes) /\ DOMAIN <<>> = {}
      OBVIOUS
    <2> QED
      BY <2>1 DEF Fitting
  <1>6. CLEAR \in Nat /\ MinWidth \in MinWidth .. MaxWidth /\ CLEAR < Pow(MinWidth)
    BY Sizes
  <1>7. /\ Append(<<>>, Coded(CLEAR, MinWidth)) = << Coded(CLEAR, MinWidth) >>
        /\ Fitting(<< Coded(CLEAR, MinWidth) >>)
    <2>1. Append(<<>>, Coded(CLEAR, MinWidth)) = << Coded(CLEAR, MinWidth) >>
      OBVIOUS
    <2> QED
      BY <1>5, <1>6, <2>1, FittingMore
  <1>8. stream \in Seq({0, 1}) /\ expected \in Nat
    <2>1. CASE stage = "encode"
      BY <1>4, <2>1
    <2>2. CASE stage = "decode"
      <3>1. stream \in Streams /\ expected \in 0 .. MaxStream
        BY <1>4, <2>2
      <3>2. MaxStream \in Nat /\ ByteBits \in Nat
        BY StripsAssumption, Sizes
      <3>3. PICK n \in 0 .. MaxStream : stream \in [1 .. n * ByteBits -> {0, 1}]
        BY <3>1 DEF Streams
      <3>4. n * ByteBits \in Nat
        BY <3>2
      <3>5. expected \in Nat
        BY <3>1, <3>2
      <3> QED
        BY <3>3, <3>4, <3>5, SeqDef
    <2> QED
      BY <1>4, <2>1, <2>2
  <1>9. TypeInv
    <2>1. Fitting(put)
      BY <1>4, <1>5, <1>7
    <2>2. Sound(Here)
      BY <1>2, FreshLies
    <2>3. pos \in Nat /\ stage \in {"encode", "decode", "done", "short", "refused"}
      BY <1>1, <1>4
    <2> QED
      BY <1>3, <1>8, <2>1, <2>2, <2>3 DEF TypeInv
  <1>10. TableInv
    <2>1. Frugal(Here) /\ out = <<>> /\ HeldBy(strings) = 0 /\ Len(strings) - FIRST = 0
      BY <1>1, <1>2, FreshLies, InitTableIsFrugal
    <2> QED
      BY <1>8, <2>1 DEF TableInv
  <1>11. ASSUME stage = "encode" PROVE \E D : Encoding(D)
    <2> DEFINE D == [i \in 0 .. 1 |-> Fresh]
               c == Coded(CLEAR, MinWidth)
    <2>1. put = << c >>
      BY <1>4, <1>11
    <2>2. c.code = CLEAR /\ c.width = MinWidth
      BY DEF Coded
    <2>3. D[0] = Fresh /\ D[1] = Fresh
      OBVIOUS
    <2> HIDE DEF D, c
    <2>4. Len(put) = 1 /\ put[1] = c /\ put # <<>>
      BY <2>1
    <2>5. Follows(Fresh, CLEAR, Fresh)
      BY FreshLies DEF Follows
    <2>6. Sound(Fresh) /\ Begins(Fresh.out, data)
      <3>1. Begins(<<>>, data)
        BY <1>3, BeginsAll
      <3> QED
        BY <3>1, FreshLies
    <2>7. Chain(D, put, 1, data)
      <3>1. ASSUME NEW i \in 1 .. 1
            PROVE  put[i].width = D[i - 1].width /\ Follows(D[i - 1], put[i].code, D[i])
        <4>1. i = 1 /\ i - 1 = 0
          OBVIOUS
        <4>2. put[1].width = D[0].width /\ Follows(D[0], put[1].code, D[1])
          BY <2>2, <2>3, <2>4, <2>5, FreshLies
        <4> QED
          BY <4>1, <4>2
      <3>2. ASSUME NEW i \in 0 .. 1 PROVE Sound(D[i]) /\ Begins(D[i].out, data)
        <4>1. i = 0 \/ i = 1
          OBVIOUS
        <4> QED
          BY <2>3, <2>6, <4>1
      <3> QED
        BY <2>3, <3>1, <3>2 DEF Chain
    <2>8. DOMAIN codes = {}
      BY <1>1
    <2>9. nextCode \in Nat /\ nextCode >= FIRST /\ nextCode < Pow(width) /\ nextCode < ResetAt
      BY <1>1, Sizes
    <2>10. D[1].width = width
      BY <1>1, <2>3, FreshLies
    <2>11. Encoding(D)
      BY <1>1, <2>3, <2>4, <2>7, <2>8, <2>9, <2>10 DEF Encoding
    <2> QED
      BY <2>11
  <1> QED
    BY <1>1, <1>2, <1>4, <1>9, <1>10, <1>11 DEF IInv

LEMMA EncoderTop ==
    ASSUME NEW D, Encoding(D), Fitting(put), data \in Seq(Byte)
    PROVE  /\ Len(put) \in Nat /\ Sound(D[Len(put)]) /\ put \in Seq(Codes)
           /\ width \in MinWidth .. MaxWidth
           /\ D[Len(put)].out \in Seq(Byte)
  <1>1. put \in Seq(Codes) /\ Len(put) \in Nat
    BY LenProperties DEF Fitting
  <1>2. Sound(D[Len(put)])
    <2>1. Len(put) \in 0 .. Len(put)
      BY <1>1
    <2> QED
      BY <2>1 DEF Encoding, Chain
  <1>3. D[Len(put)].width = width
    BY DEF Encoding
  <1> QED
    BY <1>1, <1>2, <1>3, SoundParts

LEMMA FirstKeeps == ASSUME IInv, NEW k \in Byte, First(k) PROVE IInv'
  <1>1. /\ stage = "encode" /\ data = <<>> /\ data' = <<k>> /\ omega' = k
        /\ UNCHANGED <<stage, codes, nextCode, width, put, stream, expected, pos, strings,
                       codeWidth, prev, out>>
    BY DEF First, lzwdecoder
  <1>2. PICK D : Encoding(D)
    BY <1>1 DEF IInv
  <1>3. TypeInv /\ TableInv /\ Here = Fresh /\ pos = 0
    BY <1>1 DEF IInv
  <1>4. data' \in Seq(Byte) /\ data' # <<>> /\ data \in Seq(Byte)
    BY <1>1
  <1>5. Here' = Here
    BY <1>1 DEF Here
  <1>6. TypeInv' /\ TableInv'
    BY <1>1, <1>3, <1>4, <1>5 DEF TypeInv, TableInv
  <1> DEFINE d == D[Len(put)]
  <1>7. d = Fresh /\ DOMAIN codes = {} /\ nextCode = FIRST
    BY <1>1, <1>2 DEF Encoding
  <1>8. Matching(d, <<k>>, k, codes, FIRST)
    BY <1>7, FreshLies, ClearedMatches
  <1>9. d.out \o <<k>> = data'
    <2>1. <<>> \o <<k>> = <<k>>
      OBVIOUS
    <2> QED
      BY <1>1, <1>7, <2>1, FreshLies
  <1>10. Chain(D, put, Len(put), data')
    <2>1. Begins(data, data')
      BY <1>1, <1>4, BeginsAll
    <2>2. Len(put) \in Nat
      BY <1>2, <1>3, EncoderTop DEF TypeInv
    <2>3. Chain(D, put, Len(put), data)
      BY <1>2 DEF Encoding
    <2> QED
      BY <1>4, <2>1, <2>2, <2>3, ChainWithin
  <1>11. Encoding(D)'
    BY <1>1, <1>2, <1>4, <1>7, <1>8, <1>9, <1>10 DEF Encoding
  <1>12. put' # <<>>
    BY <1>11 DEF Encoding
  <1> QED
    BY <1>1, <1>3, <1>5, <1>6, <1>11, <1>12 DEF IInv

LEMMA MatchStepKeeps == ASSUME IInv, NEW k \in Byte, Match(k) PROVE IInv'
  <1>1. /\ stage = "encode" /\ data # <<>> /\ <<omega, k>> \in DOMAIN codes
        /\ data' = Append(data, k) /\ omega' = codes[<<omega, k>>]
        /\ UNCHANGED <<stage, codes, nextCode, width, put, stream, expected, pos, strings,
                       codeWidth, prev, out>>
    BY DEF Match, Known, lzwdecoder
  <1>2. PICK D : Encoding(D)
    BY <1>1 DEF IInv
  <1>3. TypeInv /\ TableInv /\ Here = Fresh /\ pos = 0 /\ data \in Seq(Byte)
    BY <1>1 DEF IInv, TypeInv
  <1>4. data' \in Seq(Byte) /\ data' # <<>> /\ data' = data \o <<k>>
    BY <1>1, <1>3, AppendProperties, AppendIsConcat
  <1>5. Here' = Here
    BY <1>1 DEF Here
  <1>6. TypeInv' /\ TableInv'
    BY <1>1, <1>3, <1>4, <1>5 DEF TypeInv, TableInv
  <1> DEFINE d == D[Len(put)]
  <1>7. Len(put) \in Nat /\ Sound(d) /\ d.out \in Seq(Byte)
    BY <1>2, <1>3, EncoderTop DEF TypeInv
  <1>8. PICK m : Matching(d, m, omega, codes, nextCode) /\ d.out \o m = data
    BY <1>1, <1>2 DEF Encoding
  <1> DEFINE u == Append(m, k)
  <1>9. m \in Seq(Byte)
    BY <1>8 DEF Matching
  <1>10. Matching(d, u, codes[<<omega, k>>], codes, nextCode)
    BY <1>1, <1>7, <1>8, MatchKeeps
  <1>11. d.out \o u = data'
    <2> DEFINE o == d.out
    <2>1. u = m \o <<k>>
      BY <1>9, AppendIsConcat
    <2>2. o \in Seq(Byte) /\ <<k>> \in Seq(Byte)
      BY <1>7
    <2> HIDE DEF o, u, d
    <2>3. (o \o m) \o <<k>> = o \o (m \o <<k>>)
      BY <1>9, <2>2, ConcatAssociative
    <2> QED
      BY <1>4, <1>8, <2>1, <2>3 DEF o
  <1>12. Chain(D, put, Len(put), data')
    <2>1. Begins(data, data')
      <3>1. <<k>> \in Seq(Byte)
        OBVIOUS
      <3> QED
        BY <1>3, <1>4, <3>1, BeginsLonger
    <2>2. Chain(D, put, Len(put), data)
      BY <1>2 DEF Encoding
    <2> QED
      BY <1>3, <1>4, <1>7, <2>1, <2>2, ChainWithin
  <1> HIDE DEF u
  <1>13. Encoding(D)'
    BY <1>1, <1>2, <1>4, <1>10, <1>11, <1>12 DEF Encoding
  <1>14. put' # <<>>
    BY <1>13 DEF Encoding
  <1> QED
    BY <1>1, <1>3, <1>5, <1>6, <1>13, <1>14 DEF IInv

\* Writing the match, whether or not the table is then full.
LEMMA WriteStepKeeps == ASSUME IInv, NEW k \in Byte, Write(k) PROVE IInv'
  <1> DEFINE next == nextCode + 1
             w == Wider(width, next)
             full == next = ResetAt
             longer == [p \in DOMAIN codes \cup {<<omega, k>>} |->
                          IF p = <<omega, k>> THEN nextCode ELSE codes[p]]
             c == Coded(omega, width)
             cl == Coded(CLEAR, w)
             put1 == Append(put, c)
  <1>1. /\ stage = "encode" /\ data # <<>>
        /\ data' = Append(data, k) /\ omega' = k
        /\ codes' = IF full THEN <<>> ELSE longer
        /\ nextCode' = IF full THEN FIRST ELSE next
        /\ width' = IF full THEN MinWidth ELSE w
        /\ put' = put1 \o (IF full THEN << cl >> ELSE <<>>)
        /\ UNCHANGED <<stage, stream, expected, pos, strings, codeWidth, prev, out>>
    BY DEF Write, lzwdecoder, Cleared
  <1>2. PICK D : Encoding(D)
    BY <1>1 DEF IInv
  <1>3. TypeInv /\ TableInv /\ Here = Fresh /\ pos = 0 /\ data \in Seq(Byte) /\ Fitting(put)
    BY <1>1 DEF IInv, TypeInv
  <1>4. data' \in Seq(Byte) /\ data' # <<>> /\ data' = data \o <<k>>
    BY <1>1, <1>3, AppendProperties, AppendIsConcat
  <1>5. Here' = Here
    BY <1>1 DEF Here
  <1> DEFINE n == Len(put)
             d == D[n]
             r == Taken(d, omega)
  <1>6. /\ n \in Nat /\ Sound(d) /\ d.out \in Seq(Byte) /\ width \in MinWidth .. MaxWidth
        /\ put \in Seq(Codes) /\ d.width = width
        /\ nextCode \in Nat /\ nextCode >= FIRST /\ nextCode < Pow(width) /\ nextCode < ResetAt
    BY <1>2, <1>3, EncoderTop DEF Encoding
  <1>7. PICK m : Matching(d, m, omega, codes, nextCode) /\ d.out \o m = data
    BY <1>1, <1>2 DEF Encoding
  <1>8. m \in Seq(Byte) /\ m # <<>> /\ omega \in Nat /\ omega < nextCode /\ omega # CLEAR
    BY <1>7 DEF Matching, Names
  <1>9. Readable(d, omega) /\ EntryOf(d, omega) = m /\ TableOf(d, omega) = Pending(d, m)
    BY <1>6, <1>7, CodeIsRead
  <1>10. Sound(r) /\ r.out = data
    <2>1. Sound(r)
      BY <1>6, <1>9, TakenIsSound
    <2>2. r.out = d.out \o EntryOf(d, omega)
      BY DEF Taken
    <2> HIDE DEF r, d
    <2> QED
      BY <1>7, <1>9, <2>1, <2>2
  <1>11. Matching(r, <<k>>, k, longer, next)
    <2> HIDE DEF d
    <2> QED
      BY <1>6, <1>7, WriteKeeps
  <1>12. r.width = w /\ w \in MinWidth .. MaxWidth /\ next < Pow(w)
    <2> HIDE DEF d
    <2> QED
      BY <1>6, <1>7, WidthsAgree
  <1>13. Pow(width) \in Nat
    BY <1>6, WidthsFit
  <1>14. omega < Pow(width)
    BY <1>6, <1>8, <1>13
  <1>15. /\ c \in Codes /\ Fitting(put1) /\ put1 \in Seq(Codes) /\ Len(put1) = n + 1
         /\ put1 # <<>> /\ (\A i \in 1 .. n : put1[i] = put[i]) /\ put1[n + 1] = c
    <2>1. c \in Codes /\ Fitting(put1) /\ Len(put1) = n + 1 /\ put1 # <<>>
          /\ (\A i \in 1 .. n : put1[i] = put[i]) /\ put1[n + 1] = c
      BY <1>3, <1>6, <1>8, <1>14, FittingMore
    <2> QED
      BY <2>1 DEF Fitting
  <1>16. c.code = omega /\ c.width = width /\ cl.code = CLEAR /\ cl.width = w
    BY DEF Coded
  <1>17. Begins(data, data') /\ Begins(data', data')
    <2>1. <<k>> \in Seq(Byte)
      OBVIOUS
    <2> QED
      BY <1>3, <1>4, <2>1, BeginsLonger, BeginsAll
  <1>18. Follows(d, c.code, r)
    BY <1>8, <1>9, <1>16 DEF Follows
  <1> HIDE DEF r, c, cl, w, longer, next
  <1>19. PICK E : Chain(E, put1, n + 1, data') /\ E[n + 1] = r
    <2>1. Chain(D, put, n, data')
      <3>1. Chain(D, put, n, data)
        BY <1>2 DEF Encoding
      <3> QED
        BY <1>3, <1>4, <1>6, <1>17, <3>1, ChainWithin
    <2>2. Begins(r.out, data')
      BY <1>10, <1>17
    <2>3. c.width = d.width /\ D[n] = d
      BY <1>6, <1>16
    <2> HIDE DEF n, d, put1
    <2> QED
      BY <1>6, <1>15, <1>18, <2>1, <2>2, <2>3, ChainMore
  <1> HIDE DEF put1
  <1>20. ASSUME ~full PROVE Fitting(put)' /\ \E X : Encoding(X)'
    <2>1. put' = put1 /\ codes' = longer /\ nextCode' = next /\ width' = w
      BY <1>1, <1>15, <1>20, ConcatEmptySeq
    <2>2. Len(put') = n + 1 /\ put' # <<>> /\ Fitting(put')
      BY <1>15, <2>1
    <2>3. next \in Nat /\ next >= FIRST /\ next < ResetAt
      <3>1. ResetAt \in Nat /\ FIRST \in Nat
        BY Sizes
      <3>2. next = nextCode + 1
        BY DEF next
      <3> QED
        BY <1>6, <1>20, <3>1, <3>2
    <2>4. r.out \o <<k>> = data'
      BY <1>4, <1>10
    <2>5. Encoding(E)'
      BY <1>1, <1>4, <1>11, <1>12, <1>19, <2>1, <2>2, <2>3, <2>4 DEF Encoding
    <2> QED
      BY <2>2, <2>5
  <1>21. ASSUME full PROVE Fitting(put)' /\ \E X : Encoding(X)'
    <2> DEFINE q == Reset(r)
    <2>1. /\ put' = put1 \o << cl >> /\ codes' = <<>> /\ nextCode' = FIRST /\ width' = MinWidth
      BY <1>1, <1>21
    <2>2. q.strings = InitTable /\ q.prev = <<>> /\ q.width = MinWidth /\ q.out = data
      BY <1>10 DEF Reset, Fresh
    <2>3. CLEAR \in Nat /\ CLEAR < Pow(w)
      <3>1. CLEAR \in Nat /\ FIRST = CLEAR + 2
        BY CodesLie
      <3>2. Pow(w) \in Nat
        BY <1>12, WidthsFit
      <3>3. next = nextCode + 1
        BY DEF next
      <3> QED
        BY <1>6, <1>12, <3>1, <3>2, <3>3
    <2>4. /\ cl \in Codes /\ Fitting(Append(put1, cl))
          /\ Append(put1, cl) = put1 \o << cl >> /\ Len(Append(put1, cl)) = n + 2
          /\ Append(put1, cl) # <<>> /\ Append(put1, cl)[n + 2] = cl
          /\ \A i \in 1 .. n + 1 : Append(put1, cl)[i] = put1[i]
      <3>1. /\ cl \in Codes /\ Fitting(Append(put1, cl))
            /\ Append(put1, cl) = put1 \o << cl >> /\ Len(Append(put1, cl)) = Len(put1) + 1
            /\ Append(put1, cl) # <<>> /\ Append(put1, cl)[Len(put1) + 1] = cl
            /\ \A i \in 1 .. Len(put1) : Append(put1, cl)[i] = put1[i]
        BY <1>12, <1>15, <2>3, FittingMore DEF cl
      <3>2. Len(put1) = n + 1 /\ (n + 1) + 1 = n + 2
        BY <1>6, <1>15
      <3> QED
        BY <3>1, <3>2
    <2>5. Follows(r, cl.code, q)
      BY <1>16 DEF Follows
    <2> HIDE DEF q
    <2>6. PICK X : Chain(X, Append(put1, cl), n + 2, data') /\ X[n + 2] = q
      <3> DEFINE l == n + 1
                 ds == Append(put1, cl)
      <3>1. l \in Nat /\ l + 1 = n + 2
        BY <1>6
      <3>2. cl.width = r.width
        BY <1>12, <1>16
      <3>3. Begins(q.out, data')
        BY <1>17, <2>2
      <3>4. Chain(E, put1, l, data') /\ E[l] = r
        BY <1>19
      <3>5. ds[l + 1] = cl /\ \A i \in 1 .. l : ds[i] = put1[i]
        BY <2>4, <3>1
      <3> HIDE DEF l, ds, n
      <3>6. \E X : Chain(X, ds, l + 1, data') /\ X[l + 1] = q
        <4>1. l \in Nat /\ Chain(E, put1, l, data') /\ E[l] = r
          BY <3>1, <3>4
        <4>2. (\A i \in 1 .. l : ds[i] = put1[i]) /\ ds[l + 1] = cl
          BY <3>5
        <4>3. cl.width = r.width /\ Follows(r, cl.code, q) /\ Begins(q.out, data')
          BY <2>5, <3>2, <3>3
        <4> HIDE DEF cl
        <4> QED
          BY <4>1, <4>2, <4>3, ChainMore
      <3> QED
        BY <3>1, <3>6 DEF ds
    <2>7. put' = Append(put1, cl) /\ Len(put') = n + 2 /\ Fitting(put') /\ put' # <<>>
      BY <2>1, <2>4
    <2>8. DOMAIN codes' = {}
      BY <2>1
    <2>9. Matching(q, <<k>>, k, codes', FIRST)
      BY <2>2, <2>8, ClearedMatches
    <2>10. FIRST \in Nat /\ FIRST >= FIRST /\ FIRST < Pow(MinWidth) /\ FIRST < ResetAt
      BY Sizes
    <2>11. q.out \o <<k>> = data'
      BY <1>4, <2>2
    <2>12. Encoding(X)'
      BY <1>1, <1>4, <2>1, <2>2, <2>6, <2>7, <2>9, <2>10, <2>11 DEF Encoding
    <2> QED
      BY <2>7, <2>12
  <1>22. Fitting(put)' /\ \E X : Encoding(X)'
    <2> HIDE DEF full
    <2> QED
      BY <1>20, <1>21
  <1>23. TypeInv' /\ TableInv'
    BY <1>1, <1>3, <1>4, <1>5, <1>22 DEF TypeInv, TableInv
  <1>24. put' # <<>>
    BY <1>22 DEF Encoding
  <1> QED
    BY <1>1, <1>3, <1>5, <1>22, <1>23, <1>24 DEF IInv

\* The last match, EndOfInformation, and a reader that asks for size bytes.
LEMMA FinishKeeps == ASSUME IInv, NEW size \in Nat, Finish(size) PROVE IInv'
  <1> DEFINE last == IF data = <<>> THEN <<>> ELSE << Coded(omega, width) >>
             end == Coded(EOI, width)
             put1 == put \o last
  <1>1. /\ stage = "encode" /\ stage' = "decode" /\ expected' = size
        /\ put' = put1 \o << end >> /\ stream' = Packed(put')
        /\ UNCHANGED <<data, pos, strings, codeWidth, prev, out>>
    BY DEF Finish
  <1>2. PICK D : Encoding(D)
    BY <1>1 DEF IInv
  <1>3. TypeInv /\ TableInv /\ Here = Fresh /\ pos = 0 /\ data \in Seq(Byte) /\ Fitting(put)
    BY <1>1 DEF IInv, TypeInv
  <1> DEFINE n == Len(put)
             d == D[n]
  <1>4. /\ n \in Nat /\ Sound(d) /\ d.out \in Seq(Byte) /\ width \in MinWidth .. MaxWidth
        /\ put \in Seq(Codes) /\ d.width = width /\ put # <<>> /\ Chain(D, put, n, data)
        /\ nextCode \in Nat /\ nextCode >= FIRST /\ nextCode < Pow(width)
    BY <1>2, <1>3, EncoderTop DEF Encoding
  <1>5. Pow(width) \in Nat
    BY <1>4, WidthsFit
  <1>6. \E l \in Nat \ {0} : /\ Len(put1) = l /\ Fitting(put1)
                             /\ \E E : /\ Chain(E, put1, l, data) /\ E[l].out = data
                                       /\ data = <<>> => width = E[l].width
    <2>1. CASE data = <<>>
      <3>1. put1 = put
        BY <1>4, <2>1, ConcatEmptySeq
      <3>2. d.out = data
        BY <1>2, <2>1, FreshLies DEF Encoding
      <3>3. n \in Nat \ {0}
        BY <1>4, EmptySeq
      <3> QED
        BY <1>3, <1>4, <3>1, <3>2, <3>3
    <2>2. CASE data # <<>>
      <3> DEFINE c == Coded(omega, width)
                 r == Taken(d, omega)
      <3>1. PICK m : Matching(d, m, omega, codes, nextCode) /\ d.out \o m = data
        BY <1>2, <2>2 DEF Encoding
      <3>2. omega \in Nat /\ omega < nextCode /\ omega # CLEAR
        BY <3>1 DEF Matching, Names
      <3>3. Readable(d, omega) /\ EntryOf(d, omega) = m
        BY <1>4, <3>1, CodeIsRead
      <3>4. r.out = data
        <4>1. r.out = d.out \o EntryOf(d, omega)
          BY DEF Taken
        <4> HIDE DEF r, d
        <4> QED
          BY <3>1, <3>3, <4>1
      <3>5. omega < Pow(width)
        BY <1>4, <1>5, <3>2
      <3>6. c.code = omega /\ c.width = width
        BY DEF Coded
      <3>7. /\ c \in Codes /\ Fitting(Append(put, c)) /\ Len(Append(put, c)) = n + 1
            /\ Append(put, c) = put \o << c >> /\ Append(put, c)[n + 1] = c
            /\ \A i \in 1 .. n : Append(put, c)[i] = put[i]
        BY <1>3, <1>4, <3>2, <3>5, FittingMore
      <3>8. Follows(d, c.code, r)
        BY <3>2, <3>3, <3>6 DEF Follows
      <3>9. Begins(r.out, data)
        BY <1>3, <3>4, BeginsAll
      <3> HIDE DEF c, r
      <3>10. PICK E : Chain(E, Append(put, c), n + 1, data) /\ E[n + 1] = r
        <4> DEFINE ds == Append(put, c)
        <4>1. c.width = d.width /\ D[n] = d
          BY <1>4, <3>6
        <4>2. ds[n + 1] = c /\ \A i \in 1 .. n : ds[i] = put[i]
          BY <3>7
        <4> HIDE DEF n, d, ds
        <4>3. \E E : Chain(E, ds, n + 1, data) /\ E[n + 1] = r
          BY <1>4, <3>8, <3>9, <4>1, <4>2, ChainMore
        <4> QED
          BY <4>3 DEF ds
      <3>11. put1 = Append(put, c)
        BY <2>2, <3>7 DEF c
      <3> HIDE DEF put1
      <3>12. n + 1 \in Nat \ {0}
        BY <1>4
      <3> QED
        BY <2>2, <3>4, <3>7, <3>10, <3>11, <3>12
    <2> QED
      BY <2>1, <2>2
  <1> HIDE DEF put1
  <1>7. PICK l \in Nat \ {0} : /\ Len(put1) = l /\ Fitting(put1)
                               /\ \E E : /\ Chain(E, put1, l, data) /\ E[l].out = data
                                         /\ data = <<>> => width = E[l].width
    BY <1>6
  <1>8. PICK E : /\ Chain(E, put1, l, data) /\ E[l].out = data
                 /\ data = <<>> => width = E[l].width
    BY <1>7
  <1>9. EOI \in Nat /\ EOI < Pow(width)
    BY <1>4, <1>5, CodesLie
  <1>10. /\ put' # <<>> /\ Fitting(put') /\ Len(put') = l + 1 /\ put'[l + 1] = end
         /\ \A i \in 1 .. l : put'[i] = put1[i]
    <2>1. /\ Append(put1, end) # <<>> /\ Fitting(Append(put1, end))
          /\ Len(Append(put1, end)) = Len(put1) + 1 /\ Append(put1, end)[Len(put1) + 1] = end
          /\ \A i \in 1 .. Len(put1) : Append(put1, end)[i] = put1[i]
          /\ Append(put1, end) = put1 \o << end >>
      <3>1. Fitting(put1) /\ EOI \in Nat /\ EOI < Pow(width) /\ width \in MinWidth .. MaxWidth
        BY <1>4, <1>7, <1>9
      <3> QED
        BY <3>1, FittingMore
    <2> HIDE DEF end
    <2>2. put' = Append(put1, end)
      BY <1>1, <2>1
    <2> QED
      BY <1>7, <2>1, <2>2
  <1>11. stream' \in Seq({0, 1})
    BY <1>1, <1>10, PackedLies
  <1>12. Chain(E, put', l, data)
    <2>1. Begins(data, data)
      BY <1>3, BeginsAll
    <2> QED
      BY <1>3, <1>8, <1>10, <2>1, ChainWithin
  <1>13. Here' = Here /\ Here = Fresh
    BY <1>1, <1>3 DEF Here
  <1>14. TypeInv'
    BY <1>1, <1>3, <1>10, <1>11, <1>13 DEF TypeInv
  <1>15. strings = InitTable /\ out = <<>>
    BY <1>13 DEF Here, Fresh
  <1>16. TableInv'
    <2>1. Frugal(Here)
      BY <1>13, FreshLies
    <2>2. Len(strings) - FIRST <= size /\ HeldBy(strings) <= 2 * size
      BY <1>15, InitTableIsFrugal
    <2> QED
      BY <1>1, <1>13, <1>15, <2>1, <2>2 DEF TableInv
  <1>17. Ended(E, l)'
    <2>1. end.code = EOI /\ end.width = width
      BY DEF Coded
    <2> HIDE DEF end
    <2> QED
      BY <1>1, <1>8, <1>10, <1>12, <2>1 DEF Ended
  <1>18. OnTrack(E, l)'
    <2>1. At(put', 0) = 0
      BY TotalNone DEF At
    <2>2. E[0] = Fresh
      BY <1>8 DEF Chain
    <2>3. 0 \in 0 .. l /\ 0 # l
      OBVIOUS
    <2>4. pos' = At(put', 0) /\ Here' = E[0]
      BY <1>1, <1>3, <1>13, <2>1, <2>2
    <2> QED
      BY <2>3, <2>4 DEF OnTrack
  <1>19. Decoding(E, l)'
    BY <1>1, <1>17, <1>18 DEF Decoding
  <1> QED
    BY <1>1, <1>10, <1>14, <1>16, <1>19 DEF IInv

----------------------------------------------------------------------------
(* decode. *)

LEMMA HereIs ==
    /\ Here.strings = strings /\ Here.width = codeWidth /\ Here.prev = prev /\ Here.out = out
    /\ Here \in [strings : {strings}, width : {codeWidth}, prev : {prev}, out : {out}]
  BY DEF Here

LEMMA ReadsANumber ==
    ASSUME TypeInv, Available
    PROVE  Code \in Nat /\ pos + codeWidth \in Nat
  <1> DEFINE s == SubSeq(stream, pos + 1, pos + codeWidth)
             m == pos + 1
             e == pos + codeWidth
  <1>1. stream \in Seq({0, 1}) /\ pos \in Nat /\ codeWidth \in Nat /\ e <= Len(stream)
    <2>1. codeWidth \in MinWidth .. MaxWidth
      BY HereIs, SoundParts DEF TypeInv
    <2>2. codeWidth \in Nat
      BY <2>1, WidthsFit
    <2> QED
      BY <2>2 DEF TypeInv, Available
  <1>2. s \in Seq({0, 1})
    <2>1. m \in Int /\ e \in Int /\ \A i \in m .. e : stream[i] \in {0, 1}
      <3>1. Len(stream) \in Nat /\ \A i \in 1 .. Len(stream) : stream[i] \in {0, 1}
        BY <1>1, LenProperties, ElementOfSeq
      <3> QED
        BY <1>1, <3>1
    <2>2. s = SubSeq(stream, m, e)
      OBVIOUS
    <2> HIDE DEF m, e, s
    <2> QED
      BY <2>1, <2>2, SubSeqProperties
  <1>3. Code = Number(s)
    BY DEF Code
  <1> HIDE DEF s
  <1>4. Len(s) \in Nat
    BY <1>2, LenProperties
  <1>5. Number(s) \in Nat
    <2>1. PICK h \in [0 .. Len(s) -> Nat] : Number(s) = h[Len(s)]
      BY <1>2, NumberLies
    <2>2. Len(s) \in 0 .. Len(s)
      BY <1>4
    <2> QED
      BY <2>1, <2>2
  <1> QED
    BY <1>1, <1>3, <1>5

LEMMA CutsAgree ==
    ASSUME NEW s \in Seq(Byte), NEW t \in Seq(Byte), NEW n \in Nat, n <= Len(s), Begins(s, t)
    PROVE  SubSeq(s, 1, n) = SubSeq(t, 1, n) /\ SubSeq(s, 1, n) \in Seq(Byte)
  <1>1. /\ Len(s) \in Nat /\ Len(t) \in Nat /\ Len(s) <= Len(t)
        /\ \A i \in 1 .. Len(s) : s[i] \in Byte /\ s[i] = t[i]
        /\ \A i \in 1 .. Len(t) : t[i] \in Byte
    BY LenProperties, ElementOfSeq DEF Begins
  <1>2. \A i \in 1 .. n : s[i] \in Byte /\ t[i] \in Byte /\ s[i] = t[i]
    BY <1>1
  <1> DEFINE l == IF 1 <= n THEN n - 1 + 1 ELSE 0
  <1>3. /\ SubSeq(s, 1, n) \in Seq(Byte) /\ Len(SubSeq(s, 1, n)) = l
        /\ \A i \in 1 .. n - 1 + 1 : SubSeq(s, 1, n)[i] = s[1 + i - 1]
    BY <1>2, SubSeqProperties
  <1>4. /\ SubSeq(t, 1, n) \in Seq(Byte) /\ Len(SubSeq(t, 1, n)) = l
        /\ \A i \in 1 .. n - 1 + 1 : SubSeq(t, 1, n)[i] = t[1 + i - 1]
    BY <1>2, SubSeqProperties
  <1>5. l = n
    OBVIOUS
  <1> HIDE DEF l
  <1> DEFINE a == SubSeq(s, 1, n)
             b == SubSeq(t, 1, n)
  <1>6. /\ a \in Seq(Byte) /\ b \in Seq(Byte) /\ Len(a) = n /\ Len(b) = n
        /\ \A i \in 1 .. n : a[i] = s[i] /\ b[i] = t[i]
    BY <1>3, <1>4, <1>5
  <1> HIDE DEF a, b
  <1>7. a = b
    BY <1>2, <1>6, SeqEqual
  <1> QED
    BY <1>6, <1>7 DEF a, b

LEMMA SoundOut ==
    ASSUME NEW d, Sound(d), NEW bytes \in Seq(Byte)
    PROVE  Sound([d EXCEPT !.out = bytes])
  <1> DEFINE e == [d EXCEPT !.out = bytes]
  <1>1. e \in Reader /\ e.strings = d.strings /\ e.width = d.width /\ e.prev = d.prev
    BY DEF Sound, Reader
  <1> HIDE DEF e
  <1>2. Sound(e)
    BY <1>1 DEF Sound
  <1> QED
    BY <1>2 DEF e

\* The decoder on its track reads the code the encoder put there, at the width it put it.
LEMMA CodeIs ==
    ASSUME TypeInv, NEW n \in Nat, NEW D, Ended(D, n), NEW i \in 0 .. n, i = n => data = <<>>,
           pos = At(put, i), Here = D[i]
    PROVE  /\ Available /\ Code = put[i + 1].code /\ pos + codeWidth = At(put, i + 1)
           /\ i # n => Code # EOI /\ Follows(Here, Code, D[i + 1])
           /\ i = n => Code = EOI
  <1>1. /\ Len(put) = n + 1 /\ Fitting(put) /\ stream = Packed(put)
        /\ put[n + 1].code = EOI
    BY DEF TypeInv, Ended
  <1>2. put # <<>>
    <2>1. put = <<>> => Len(put) = 0
      OBVIOUS
    <2> QED
      BY <1>1, <2>1
  <1>3. put[i + 1].width = D[i].width
    <2>1. CASE i = n
      BY <2>1 DEF Ended
    <2>2. CASE i # n
      <3> DEFINE j == i + 1
      <3>1. j \in 1 .. n /\ j - 1 = i
        BY <2>2
      <3>2. \A x \in 1 .. n : put[x].width = D[x - 1].width
        BY DEF Ended, Chain
      <3> HIDE DEF j
      <3>3. put[j].width = D[i].width
        BY <3>1, <3>2
      <3> QED
        BY <3>3 DEF j
    <2> QED
      BY <2>1, <2>2
  <1>4. codeWidth = put[i + 1].width
    BY <1>3, HereIs
  <1>5. i \in 0 .. Len(put) - 1
    BY <1>1
  <1>6. LET o == At(put, i) IN
        /\ o \in Nat /\ At(put, i + 1) = o + put[i + 1].width
        /\ o + put[i + 1].width <= Len(Packed(put))
        /\ Number(SubSeq(Packed(put), o + 1, o + put[i + 1].width)) = put[i + 1].code
    BY <1>1, <1>2, <1>5, PackedLies
  <1>7. Available /\ Code = put[i + 1].code /\ pos + codeWidth = At(put, i + 1)
    BY <1>1, <1>4, <1>6 DEF Available, Code
  <1>8. ASSUME i # n PROVE Code # EOI /\ Follows(Here, Code, D[i + 1])
    <2> DEFINE j == i + 1
    <2>1. j \in 1 .. n /\ j - 1 = i
      BY <1>8
    <2>2. \A x \in 1 .. n : Follows(D[x - 1], put[x].code, D[x])
      BY DEF Ended, Chain
    <2>3. Code = put[j].code
      BY <1>7
    <2> HIDE DEF j
    <2>4. Follows(Here, Code, D[j])
      BY <2>1, <2>2, <2>3
    <2>5. Code # EOI
      BY <2>4, CodesLie DEF Follows, Readable
    <2> QED
      BY <2>4, <2>5 DEF j
  <1> QED
    BY <1>1, <1>7, <1>8

\* One code further the decoder is still on its track, or has the strip and is asked for more.
LEMMA TrackKept ==
    ASSUME NEW n \in Nat, NEW D, Ended(D, n), data \in Seq(Byte), NEW i \in 0 .. n, i # n,
           pos' = At(put, i + 1), Here' = D[i + 1], UNCHANGED <<data, put, expected>>,
           Len(out') < expected \/ out' = <<>>
    PROVE  OnTrack(D, n)'
  <1>1. i + 1 \in 0 .. n
    OBVIOUS
  <1>2. CASE i + 1 = n => data = <<>>
    BY <1>1, <1>2 DEF OnTrack
  <1>3. CASE i + 1 = n /\ data # <<>>
    <2>1. D[n].out = data
      BY DEF Ended
    <2>2. out' = data
      <3>1. Here'.out = out'
        BY DEF Here
      <3> QED
        BY <1>3, <2>1, <3>1
    <2>3. Len(data) \in Nat /\ Len(data) < expected
      BY <1>3, <2>2, LenProperties
    <2> QED
      BY <2>2, <2>3 DEF OnTrack
  <1> QED
    BY <1>2, <1>3

LEMMA EndedKept ==
    ASSUME NEW n, NEW D, Ended(D, n), UNCHANGED <<put, data, stream>>
    PROVE  Ended(D, n)'
  BY DEF Ended

LEMMA ReadClearKeeps == ASSUME IInv, ReadClear PROVE IInv'
  <1>1. /\ stage = "decode" /\ Available /\ Code = CLEAR /\ pos' = pos + codeWidth
        /\ strings' = InitTable /\ codeWidth' = MinWidth /\ prev' = <<>>
        /\ UNCHANGED <<stage, data, omega, codes, nextCode, width, put, stream, expected, out>>
    BY DEF ReadClear, Reading, lzwencoder
  <1>2. TypeInv /\ TableInv /\ data \in Seq(Byte) /\ expected \in Nat
    BY DEF IInv, TypeInv
  <1>3. Here' = Reset(Here)
    BY <1>1 DEF Here, Reset, Fresh
  <1>4. out \in Seq(Byte) /\ Here.out = out
    BY <1>2, HereIs, SoundParts DEF TypeInv
  <1>5. Sound(Here') /\ Frugal(Here')
    BY <1>3, <1>4, FreshIsSound, FreshIsFrugal DEF Reset
  <1>6. pos' \in Nat
    BY <1>1, <1>2, ReadsANumber
  <1>7. TypeInv'
    BY <1>1, <1>2, <1>5, <1>6 DEF TypeInv
  <1>8. TableInv'
    BY <1>1, <1>2, <1>5, InitTableIsFrugal DEF TableInv
  <1>9. ASSUME put # <<>> PROVE \E n \in Nat : \E D : Decoding(D, n)'
    <2>1. PICK n \in Nat : \E D : Decoding(D, n)
      BY <1>1, <1>9 DEF IInv
    <2>2. PICK D : Decoding(D, n)
      BY <2>1
    <2>3. Ended(D, n) /\ OnTrack(D, n)
      BY <1>1, <2>2 DEF Decoding
    <2>4. OnTrack(D, n)'
      <3>1. ASSUME NEW i \in 0 .. n, i = n => data = <<>>, pos = At(put, i), Here = D[i]
            PROVE  OnTrack(D, n)'
        <4>1. /\ pos' = At(put, i + 1)
              /\ i # n => Follows(Here, CLEAR, D[i + 1])
              /\ i = n => CLEAR = EOI
          BY <1>1, <1>2, <2>3, <3>1, CodeIs
        <4>2. i # n
          BY <4>1, CodesLie
        <4>3. D[i + 1] = Reset(Here)
          BY <4>1, <4>2 DEF Follows
        <4>4. Here' = D[i + 1]
          BY <1>3, <4>3
        <4>5. Len(out') < expected \/ out' = <<>>
          BY <1>1, <1>2 DEF TableInv
        <4>6. UNCHANGED <<data, put, expected>>
          BY <1>1
        <4> QED
          BY <1>2, <2>3, <4>1, <4>2, <4>4, <4>5, <4>6, TrackKept
      <3>2. ASSUME Len(out) >= Len(data) /\ expected > Len(data) PROVE OnTrack(D, n)'
        BY <1>1, <3>2 DEF OnTrack
      <3> QED
        BY <2>3, <3>1, <3>2 DEF OnTrack
    <2>5. Ended(D, n)'
      BY <1>1, <2>3, EndedKept
    <2>6. Decoding(D, n)'
      BY <1>1, <2>4, <2>5 DEF Decoding
    <2> QED
      BY <2>6
  <1> QED
    BY <1>1, <1>2, <1>7, <1>8, <1>9 DEF IInv

LEMMA ReadEndKeeps == ASSUME IInv, ReadEnd PROVE IInv'
  <1>1. /\ stage = "decode" /\ (Available => Code = EOI)
        /\ pos' = IF Available THEN pos + codeWidth ELSE Len(stream)
        /\ \/ Len(out) < expected /\ stage' = "short" /\ out' = out
           \/ ~(Len(out) < expected) /\ stage' = "done" /\ out' = SubSeq(out, 1, expected)
        /\ UNCHANGED <<data, omega, codes, nextCode, width, put, stream, expected, strings,
                       codeWidth, prev>>
    BY DEF ReadEnd, Conclude, lzwencoder
  <1>2. TypeInv /\ TableInv /\ data \in Seq(Byte) /\ expected \in Nat /\ stream \in Seq({0, 1})
    BY DEF IInv, TypeInv
  <1>3. out \in Seq(Byte) /\ Here.out = out /\ Len(out) \in Nat
    <2>1. out \in Seq(Byte) /\ Here.out = out
      BY <1>2, HereIs, SoundParts DEF TypeInv
    <2> QED
      BY <2>1, LenProperties
  <1>4. out' \in Seq(Byte)
    <2>1. CASE Len(out) < expected
      BY <1>1, <1>3, <2>1
    <2>2. CASE ~(Len(out) < expected)
      <3>1. expected <= Len(out) /\ Begins(out, out)
        BY <1>2, <1>3, <2>2, BeginsAll
      <3>2. SubSeq(out, 1, expected) \in Seq(Byte)
        BY <1>2, <1>3, <3>1, CutsAgree
      <3> QED
        BY <1>1, <2>2, <3>2
    <2> QED
      BY <2>1, <2>2
  <1>5. Sound(Here')
    <2>1. Here' = [Here EXCEPT !.out = out']
      BY <1>1 DEF Here
    <2> QED
      BY <1>2, <1>4, <2>1, SoundOut DEF TypeInv
  <1>6. pos' \in Nat
    <2>1. CASE Available
      BY <1>1, <1>2, <2>1, ReadsANumber
    <2>2. CASE ~Available
      BY <1>1, <1>2, <2>2, LenProperties
    <2> QED
      BY <2>1, <2>2
  <1>7. stage' \in {"done", "short"}
    BY <1>1
  <1>8. TypeInv'
    BY <1>1, <1>2, <1>4, <1>5, <1>6, <1>7 DEF TypeInv
  <1>9. TableInv'
    BY <1>1, <1>2, <1>7 DEF TableInv
  <1>10. ASSUME put # <<>> PROVE \E n \in Nat : \E D : Decoding(D, n)'
    <2>1. PICK n \in Nat : \E D : Decoding(D, n)
      BY <1>1, <1>10 DEF IInv
    <2>2. PICK D : Decoding(D, n)
      BY <2>1
    <2>3. Ended(D, n) /\ OnTrack(D, n)
      BY <1>1, <2>2 DEF Decoding
    <2>4. ASSUME expected <= Len(data)
          PROVE  stage' = "done" /\ out' = SubSeq(data, 1, expected)
      <3>1. Len(data) \in Nat
        BY <1>2, LenProperties
      <3>2. PICK i \in 0 .. n : (i = n => data = <<>>) /\ pos = At(put, i) /\ Here = D[i]
        BY <1>2, <2>3, <2>4, <3>1 DEF OnTrack
      <3>3. Available /\ (i # n => Code # EOI)
        BY <1>2, <2>3, <3>2, CodeIs
      <3>4. i = n /\ data = <<>>
        BY <1>1, <3>2, <3>3
      <3>5. out = data
        BY <1>3, <2>3, <3>2, <3>4 DEF Ended
      <3>6. ~(Len(out) < expected)
        BY <1>2, <1>3, <2>4, <3>1, <3>5
      <3> QED
        BY <1>1, <3>5, <3>6
    <2>5. Ended(D, n)'
      BY <1>1, <2>3, EndedKept
    <2>6. Decoding(D, n)'
      BY <1>1, <1>7, <2>4, <2>5 DEF Decoding
    <2> QED
      BY <2>6
  <1> QED
    BY <1>1, <1>2, <1>7, <1>8, <1>9, <1>10 DEF IInv

LEMMA ReadRefusedKeeps == ASSUME IInv, ReadRefused PROVE IInv'
  <1>1. /\ stage = "decode" /\ Available /\ Code # CLEAR /\ Code # EOI
        /\ Code > Len(strings) \/ (Code = Len(strings) /\ prev = <<>>)
        /\ stage' = "refused" /\ pos' = pos + codeWidth
        /\ UNCHANGED <<data, omega, codes, nextCode, width, put, stream, expected, strings,
                       codeWidth, prev, out>>
    BY DEF ReadRefused, Reading, Free, lzwencoder
  <1>2. TypeInv /\ TableInv /\ data \in Seq(Byte) /\ expected \in Nat
    BY DEF IInv, TypeInv
  <1>3. Here' = Here
    BY <1>1 DEF Here
  <1>4. pos' \in Nat /\ Code \in Nat
    BY <1>1, <1>2, ReadsANumber
  <1>5. TypeInv'
    BY <1>1, <1>2, <1>3, <1>4 DEF TypeInv
  <1>6. TableInv'
    BY <1>1, <1>2 DEF TableInv
  <1>7. ASSUME put # <<>> PROVE \E n \in Nat : \E D : Decoding(D, n)'
    <2>1. PICK n \in Nat : \E D : Decoding(D, n)
      BY <1>1, <1>7 DEF IInv
    <2>2. PICK D : Decoding(D, n)
      BY <2>1
    <2>3. Ended(D, n) /\ OnTrack(D, n)
      BY <1>1, <2>2 DEF Decoding
    <2>4. ~(expected <= Len(data))
      <3>1. SUFFICES ASSUME expected <= Len(data) PROVE FALSE
        OBVIOUS
      <3>2. Len(data) \in Nat
        BY <1>2, LenProperties
      <3>3. PICK i \in 0 .. n : (i = n => data = <<>>) /\ pos = At(put, i) /\ Here = D[i]
        BY <1>2, <2>3, <3>1, <3>2 DEF OnTrack
      <3>4. /\ i # n => Follows(Here, Code, D[i + 1])
            /\ i = n => Code = EOI
        BY <1>2, <2>3, <3>3, CodeIs
      <3>5. Readable(Here, Code)
        BY <1>1, <3>4 DEF Follows
      <3>6. Code < Len(strings) \/ (Code = Len(strings) /\ prev # <<>>)
        BY <3>5, HereIs DEF Readable
      <3>7. Len(strings) \in Nat
        BY <1>2, HereIs, SoundParts DEF TypeInv
      <3> QED
        BY <1>1, <1>4, <3>6, <3>7
    <2>5. Ended(D, n)'
      BY <1>1, <2>3, EndedKept
    <2>6. Decoding(D, n)'
      BY <1>1, <2>4, <2>5 DEF Decoding
    <2> QED
      BY <2>6
  <1> QED
    BY <1>1, <1>2, <1>5, <1>6, <1>7 DEF IInv

LEMMA ReadStringKeeps == ASSUME IInv, ReadString PROVE IInv'
  <1> DEFINE e == Entry(Code)
             bytes == out \o e
             r == Taken(Here, Code)
             table == IF prev = <<>> THEN strings
                      ELSE Append(strings, Append(String(prev[1]), Head(e)))
  <1>1. /\ stage = "decode" /\ Available /\ Code # CLEAR /\ Code # EOI
        /\ Code < Len(strings) \/ (Code = Len(strings) /\ prev # <<>>)
        /\ pos' = pos + codeWidth
        /\ UNCHANGED <<data, omega, codes, nextCode, width, put, stream, expected>>
    BY DEF ReadString, Reading, Free, lzwencoder
  <1>2. \/ /\ Len(bytes) >= expected /\ Conclude(bytes)
           /\ UNCHANGED <<strings, codeWidth, prev>>
        \/ /\ ~(Len(bytes) >= expected)
           /\ out' = bytes /\ strings' = table /\ prev' = <<Code>>
           /\ codeWidth' = IF prev = <<>> THEN codeWidth ELSE LagWider(codeWidth, Len(table))
           /\ UNCHANGED stage
    BY DEF ReadString, Satisfied
  <1>3. TypeInv /\ TableInv /\ data \in Seq(Byte) /\ expected \in Nat /\ Sound(Here)
    BY DEF IInv, TypeInv
  <1>4. /\ out \in Seq(Byte) /\ Here.out = out /\ Here.strings = strings /\ Here.prev = prev
        /\ Here.width = codeWidth /\ Len(strings) \in Nat
    BY <1>3, HereIs, SoundParts
  <1>5. pos' \in Nat /\ Code \in Nat
    BY <1>1, <1>3, ReadsANumber
  <1>6. Readable(Here, Code)
    BY <1>1, <1>4, <1>5 DEF Readable
  <1>7. EntryOf(Here, Code) = e /\ TableOf(Here, Code) = table
    BY <1>4 DEF EntryOf, TableOf, Latest, Entry, Free, String
  <1>8. e \in Seq(Byte) /\ e # <<>>
    BY <1>3, <1>6, <1>7, EntryLies
  <1>9. /\ r.out = bytes /\ r.strings = table /\ r.prev = <<Code>>
        /\ r.width = IF prev = <<>> THEN codeWidth ELSE LagWider(codeWidth, Len(table))
        /\ r = [strings |-> r.strings, width |-> r.width, prev |-> r.prev, out |-> r.out]
    BY <1>4, <1>7 DEF Taken
  <1>10. Sound(r)
    BY <1>3, <1>6, TakenIsSound
  <1>11. /\ bytes \in Seq(Byte) /\ Len(bytes) \in Nat /\ Len(out) \in Nat /\ Len(out) <= Len(bytes)
    <2> HIDE DEF e
    <2>1. bytes \in Seq(Byte) /\ Begins(out, bytes)
      BY <1>4, <1>8, BeginsLonger
    <2> HIDE DEF bytes
    <2> QED
      BY <1>4, <2>1, LenProperties DEF Begins
  <1> HIDE DEF e, bytes, r, table
  <1>12. ASSUME Len(bytes) >= expected PROVE IInv'
    <2>1. /\ stage' = "done" /\ out' = SubSeq(bytes, 1, expected)
          /\ UNCHANGED <<strings, codeWidth, prev>>
      BY <1>2, <1>3, <1>11, <1>12 DEF Conclude
    <2>2. SubSeq(bytes, 1, expected) \in Seq(Byte)
      BY <1>3, <1>11, <1>12, BeginsAll, CutsAgree
    <2>3. Sound(Here')
      <3> DEFINE o == out'
      <3>1. Here' = [Here EXCEPT !.out = o]
        <4>1. strings' = strings /\ codeWidth' = codeWidth /\ prev' = prev
          BY <2>1
        <4> QED
          BY <4>1 DEF Here
      <3> QED
        BY <1>3, <2>1, <2>2, <3>1, SoundOut
    <2>4. TypeInv'
      BY <1>1, <1>3, <1>5, <2>1, <2>3 DEF TypeInv
    <2>5. TableInv'
      BY <1>1, <1>3, <2>1 DEF TableInv
    <2>6. ASSUME put # <<>> PROVE \E n \in Nat : \E D : Decoding(D, n)'
      <3>1. PICK n \in Nat : \E D : Decoding(D, n)
        BY <1>1, <2>6 DEF IInv
      <3>2. PICK D : Decoding(D, n)
        BY <3>1
      <3>3. Ended(D, n) /\ OnTrack(D, n)
        BY <1>1, <3>2 DEF Decoding
      <3>4. ASSUME expected <= Len(data) PROVE out' = SubSeq(data, 1, expected)
        <4>1. Len(data) \in Nat
          BY <1>3, LenProperties
        <4>2. PICK i \in 0 .. n : (i = n => data = <<>>) /\ pos = At(put, i) /\ Here = D[i]
          BY <1>3, <3>3, <3>4, <4>1 DEF OnTrack
        <4>3. i # n /\ Follows(Here, Code, D[i + 1])
          BY <1>1, <1>3, <3>3, <4>2, CodeIs
        <4>4. D[i + 1] = r
          BY <1>1, <4>3 DEF Follows, r
        <4>5. Begins(bytes, data)
          <5>1. i + 1 \in 0 .. n
            BY <4>3
          <5>2. Begins(D[i + 1].out, data)
            BY <3>3, <5>1 DEF Ended, Chain
          <5> QED
            BY <1>9, <4>4, <5>2
        <4> QED
          BY <1>3, <1>11, <1>12, <2>1, <4>5, CutsAgree
      <3>5. Ended(D, n)'
        BY <1>1, <3>3, EndedKept
      <3>6. Decoding(D, n)'
        BY <1>1, <2>1, <3>4, <3>5 DEF Decoding
      <3> QED
        BY <3>6
    <2> QED
      BY <1>1, <2>1, <2>4, <2>5, <2>6, <1>3 DEF IInv
  <1>13. ASSUME ~(Len(bytes) >= expected) PROVE IInv'
    <2>1. /\ out' = bytes /\ strings' = table /\ prev' = <<Code>>
          /\ codeWidth' = IF prev = <<>> THEN codeWidth ELSE LagWider(codeWidth, Len(table))
          /\ UNCHANGED stage
      BY <1>2, <1>13
    <2>2. Here' = r
      BY <1>9, <2>1 DEF Here
    <2>3. Frugal(r)
      BY <1>1, <1>3, <1>6, TakenIsFrugal DEF TableInv, r
    <2>4. TypeInv'
      BY <1>1, <1>3, <1>5, <1>10, <2>1, <2>2 DEF TypeInv
    <2>5. Len(bytes) < expected
      BY <1>3, <1>11, <1>13
    <2>6. TableInv'
      <3> DEFINE a == Len(table) - FIRST
                 h == HeldBy(table)
                 l == Len(Latest(r))
      <3>1. /\ table \in Strings /\ Len(table) \in Nat /\ Len(table) >= FIRST /\ FIRST \in Nat
            /\ r.prev # <<>> /\ l \in Nat
        <4>1. r.prev # <<>>
          BY <1>9
        <4> QED
          BY <1>9, <1>10, <4>1, SoundParts, LenProperties, CodesLie
      <3>2. a \in Nat /\ h \in Nat
        BY <3>1, HeldIsNat
      <3>3. a <= Len(bytes) /\ h - a + l <= Len(bytes)
        BY <1>9, <2>3, <3>1 DEF Frugal
      <3> HIDE DEF a, h, l
      <3>4. a <= expected /\ h <= 2 * expected
        BY <1>3, <1>11, <2>5, <3>1, <3>2, <3>3
      <3> QED
        BY <1>1, <2>1, <2>2, <2>3, <2>5, <3>4 DEF TableInv, a, h
    <2>7. ASSUME put # <<>> PROVE \E n \in Nat : \E D : Decoding(D, n)'
      <3>1. PICK n \in Nat : \E D : Decoding(D, n)
        BY <1>1, <2>7 DEF IInv
      <3>2. PICK D : Decoding(D, n)
        BY <3>1
      <3>3. Ended(D, n) /\ OnTrack(D, n)
        BY <1>1, <3>2 DEF Decoding
      <3>4. OnTrack(D, n)'
        <4>1. ASSUME NEW i \in 0 .. n, i = n => data = <<>>, pos = At(put, i), Here = D[i]
              PROVE  OnTrack(D, n)'
          <5>1. pos' = At(put, i + 1) /\ i # n /\ Follows(Here, Code, D[i + 1])
            BY <1>1, <1>3, <3>3, <4>1, CodeIs
          <5>2. Here' = D[i + 1]
            BY <1>1, <2>2, <5>1 DEF Follows, r
          <5>3. Len(out') < expected
            BY <2>1, <2>5
          <5> QED
            BY <1>1, <1>3, <3>3, <5>1, <5>2, <5>3, TrackKept
        <4>2. ASSUME Len(out) >= Len(data) /\ expected > Len(data) PROVE OnTrack(D, n)'
          <5>1. Len(data) \in Nat
            BY <1>3, LenProperties
          <5>2. Len(out') >= Len(data)
            BY <1>11, <2>1, <4>2, <5>1
          <5> QED
            BY <1>1, <4>2, <5>2 DEF OnTrack
        <4> QED
          BY <3>3, <4>1, <4>2 DEF OnTrack
      <3>5. Ended(D, n)'
        BY <1>1, <3>3, EndedKept
      <3>6. Decoding(D, n)'
        BY <1>1, <2>1, <3>4, <3>5 DEF Decoding
      <3> QED
        BY <3>6
    <2> QED
      BY <1>1, <1>3, <2>1, <2>4, <2>6, <2>7 DEF IInv
  <1> QED
    BY <1>12, <1>13

----------------------------------------------------------------------------
(* The theorems. *)

LEMMA StepKeepsInvariant == IInv /\ [LzwNext]_lzwvars => IInv'
  <1> SUFFICES ASSUME IInv, [LzwNext]_lzwvars PROVE IInv'
    OBVIOUS
  <1>1. ASSUME NEW k \in DataBytes, First(k) PROVE IInv'
    <2>1. k \in Byte
      BY StripsAssumption
    <2> QED
      BY <1>1, <2>1, FirstKeeps
  <1>2. ASSUME NEW k \in DataBytes, Match(k) PROVE IInv'
    <2>1. k \in Byte
      BY StripsAssumption
    <2> QED
      BY <1>2, <2>1, MatchStepKeeps
  <1>3. ASSUME NEW k \in DataBytes, Write(k) PROVE IInv'
    <2>1. k \in Byte
      BY StripsAssumption
    <2> QED
      BY <1>3, <2>1, WriteStepKeeps
  <1>4. ASSUME NEW size \in 0 .. Len(data) + 1, Finish(size) PROVE IInv'
    <2>1. Len(data) \in Nat
      BY LenProperties DEF IInv, TypeInv
    <2>2. size \in Nat
      BY <2>1
    <2> QED
      BY <1>4, <2>2, FinishKeeps
  <1>5. CASE LzwDecode
    BY <1>5, ReadClearKeeps, ReadEndKeeps, ReadStringKeeps, ReadRefusedKeeps DEF LzwDecode
  <1>6. CASE UNCHANGED lzwvars
    <2>1. UNCHANGED <<stage, data, omega, codes, nextCode, width, put, stream, expected, pos,
                      strings, codeWidth, prev, out>>
      BY <1>6 DEF lzwvars, lzwencoder, lzwdecoder
    <2>2. Here' = Here /\ (TypeInv => TypeInv') /\ (TableInv => TableInv')
      BY <2>1 DEF TypeInv, TableInv, Here
    <2>3. \A D : Encoding(D) => Encoding(D)'
      BY <2>1 DEF Encoding
    <2>4. \A D, n : OnTrack(D, n) => OnTrack(D, n)'
      BY <2>1, <2>2 DEF OnTrack
    <2>5. \A D, n : Ended(D, n) => Ended(D, n)'
      BY <2>1 DEF Ended
    <2>6. \A D, n : Decoding(D, n) => Decoding(D, n)'
      BY <2>1, <2>4, <2>5 DEF Decoding
    <2> QED
      BY <2>1, <2>2, <2>3, <2>6 DEF IInv
  <1> QED
    BY <1>1, <1>2, <1>3, <1>4, <1>5, <1>6 DEF LzwNext, LzwEncode

\* For every strip, every stream and every table size: both ends keep the same table, the
\* decoder one entry behind, and the codes fit their widths.
THEOREM InvariantHolds == LzwSpec => []IInv
  <1>1. LzwInit => IInv
    BY InitIsInvariant
  <1>2. IInv /\ [LzwNext]_lzwvars => IInv'
    BY StepKeepsInvariant
  <1> QED
    BY <1>1, <1>2, PTL DEF LzwSpec

\* decode(encode(data), expected) is data's first bytes, for every strip and every expected
\* up to its length, whatever the width of a byte, the widest code and the size at which the
\* table is cleared: the two ends change the code width at the same code every time.
THEOREM StripsComeBack == LzwSpec => []StripComesBack
  <1>1. IInv => StripComesBack
    <2> SUFFICES ASSUME IInv PROVE StripComesBack
      OBVIOUS
    <2>1. TypeInv
      BY DEF IInv
    <2>2. ASSUME put # <<>>, expected <= Len(data)
          PROVE  /\ stage = "done" => out = SubSeq(data, 1, expected)
                 /\ stage \notin {"short", "refused"}
      <3>1. CASE stage = "encode"
        BY <3>1
      <3>2. CASE stage # "encode"
        BY <2>2, <3>2 DEF IInv, Decoding
      <3> QED
        BY <3>1, <3>2
    <2>3. ASSUME stage = "decode", Len(out) < Len(data)
          PROVE  \E i \in 0 .. Len(put) - 1 : Offset(i) = pos /\ put[i + 1].width = codeWidth
      <3>1. Len(out) \in Nat /\ Len(data) \in Nat
        BY <2>1, HereIs, SoundParts, LenProperties DEF TypeInv
      <3>2. data # <<>>
        <4>1. data = <<>> => Len(data) = 0
          OBVIOUS
        <4> QED
          BY <2>3, <3>1, <4>1
      <3>3. put # <<>>
        BY <3>2 DEF IInv
      <3>4. PICK n \in Nat : \E D : Decoding(D, n)
        BY <2>3, <3>3 DEF IInv
      <3>5. PICK D : Decoding(D, n)
        BY <3>4
      <3>6. Ended(D, n) /\ OnTrack(D, n)
        BY <2>3, <3>5 DEF Decoding
      <3>7. PICK i \in 0 .. n : (i = n => data = <<>>) /\ pos = At(put, i) /\ Here = D[i]
        BY <2>3, <3>1, <3>6 DEF OnTrack
      <3>8. i # n /\ i + 1 \in 1 .. n /\ (i + 1) - 1 = i
        BY <3>2, <3>7
      <3>9. put[i + 1].width = codeWidth
        <4> DEFINE j == i + 1
        <4>1. \A x \in 1 .. n : put[x].width = D[x - 1].width
          BY <3>6 DEF Ended, Chain
        <4>2. j \in 1 .. n /\ j - 1 = i
          BY <3>8
        <4> HIDE DEF j
        <4>3. put[j].width = D[i].width
          BY <4>1, <4>2
        <4> QED
          BY <3>7, <4>3, HereIs DEF j
      <3>10. Offset(i) = pos
        BY <3>7 DEF Offset, At
      <3>11. i \in 0 .. Len(put) - 1
        BY <3>6 DEF Ended
      <3> QED
        BY <3>9, <3>10, <3>11
    <2>4. \A i \in DOMAIN put : put[i].code < 2 ^ put[i].width
      BY <2>1 DEF TypeInv, Fitting, Pow
    <2> QED
      BY <2>2, <2>3, <2>4 DEF StripComesBack
  <1> QED
    BY <1>1, InvariantHolds, PTL

\* No stream makes the decoder's table outgrow what the directory declares, for every stream
\* and every declared size.
THEOREM TableStaysDeclared == LzwSpec => []TableWithinDeclared
  <1>1. IInv => TableWithinDeclared
    BY DEF IInv, TableInv, TableWithinDeclared, Entries, Held, HeldBy, Free
  <1> QED
    BY <1>1, InvariantHolds, PTL
====================================================================================
