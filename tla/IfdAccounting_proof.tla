------------------------------ MODULE IfdAccounting_proof --------------------------
(* The read ledger of gamut-ifd holds exactly the bytes read, for every file and every *)
(* order of overlapping, repeated and adjacent reads; the report made of it is exact,  *)
(* whatever was claimed and in whatever order; and the audit, which fills both ledgers *)
(* as it walks a file, gives a verdict that can be relied on, for every file.          *)
EXTENDS IfdLedger, IfdWalk, SequenceLemmas, FiniteSetTheorems

SpanSet == [start : Nat, len : Nat \ {0}]
ClaimSet == [start : Nat, len : Nat \ {0}, kind : SpanKinds, parsed : BOOLEAN]

\* The spans of a ledger as a function of their position: what the lemmas are about.
IsLedger(s) ==
    /\ s \in Seq(SpanSet)
    /\ \A i, k \in DOMAIN s : i < k => End(s[i]) < s[k].start

\* slice::partition_point finds where a condition stops to hold.
LEMMA LeadingIs ==
    ASSUME NEW s \in Seq(SpanSet), NEW holds, holds \subseteq DOMAIN s
    PROVE  /\ Leading(s, holds) \in 0 .. Len(s)
           /\ 1 .. Leading(s, holds) \subseteq holds /\ Leading(s, holds) + 1 \notin holds
  <1> DEFINE S == {k \in 0 .. Len(s) : k + 1 \notin holds}
  <1>1. Len(s) \in Nat /\ DOMAIN s = 1 .. Len(s)
    BY LenProperties
  <1>2. Len(s) \in S
    BY <1>1
  <1>3. S \in SUBSET Nat /\ S # {}
    BY <1>1, <1>2
  <1> DEFINE k == Min(S)
  <1>4. k \in S /\ \A x \in S : k <= x
    <2> HIDE DEF S
    <2> QED
      BY <1>3, LeastOf
  <1> HIDE DEF k
  <1>5. 1 .. k \subseteq holds
    <2> SUFFICES ASSUME NEW x \in 1 .. k, x \notin holds PROVE FALSE
      OBVIOUS
    <2>1. x - 1 \in S
      BY <1>1, <1>4
    <2>2. k <= x - 1
      BY <1>4, <2>1
    <2> QED
      BY <1>1, <1>4, <2>2
  <1>6. k \in 0 .. Len(s) /\ k + 1 \notin holds
    BY <1>4
  <1> QED
    BY <1>5, <1>6 DEF Leading

\* A ledger position by position.
LEMMA SpanParts ==
    ASSUME NEW s, IsLedger(s)
    PROVE  /\ Len(s) \in Nat /\ DOMAIN s = 1 .. Len(s)
           /\ \A k \in 1 .. Len(s) :
                 /\ s[k] \in SpanSet /\ s[k].start \in Nat /\ End(s[k]) \in Nat
                 /\ s[k].start < End(s[k]) /\ End(s[k]) = s[k].start + s[k].len
           /\ \A i, k \in 1 .. Len(s) : i < k => End(s[i]) < s[k].start
  <1>1. Len(s) \in Nat /\ DOMAIN s = 1 .. Len(s)
    BY LenProperties DEF IsLedger
  <1>2. ASSUME NEW k \in 1 .. Len(s)
        PROVE  /\ s[k] \in SpanSet /\ s[k].start \in Nat /\ End(s[k]) \in Nat
               /\ s[k].start < End(s[k]) /\ End(s[k]) = s[k].start + s[k].len
    <2>1. s[k] \in SpanSet
      BY ElementOfSeq DEF IsLedger
    <2> QED
      BY <2>1 DEF SpanSet, End
  <1> QED
    BY <1>1, <1>2 DEF IsLedger

\* A byte is in the ledger when one of its spans reaches around it.
LEMMA ByteOf ==
    ASSUME NEW s, IsLedger(s), NEW b
    PROVE  b \in BytesOf(ToSet(s)) <=>
              b \in Int /\ \E k \in 1 .. Len(s) : s[k].start <= b /\ b < End(s[k])
  <1>1. DOMAIN s = 1 .. Len(s) /\ \A k \in 1 .. Len(s) : s[k].start \in Nat /\ End(s[k]) \in Nat
    BY SpanParts
  <1>2. b \in BytesOf(ToSet(s)) <=> \E k \in 1 .. Len(s) : b \in Bytes(s[k])
    BY <1>1 DEF BytesOf, ToSet
  <1>3. ASSUME NEW k \in 1 .. Len(s)
        PROVE  b \in Bytes(s[k]) <=> b \in Int /\ s[k].start <= b /\ b < End(s[k])
    BY <1>1 DEF Bytes
  <1> QED
    BY <1>2, <1>3

\* contains answers for bytes.
LEMMA HoldsIsTheBytes ==
    ASSUME NEW s, IsLedger(s), NEW p \in Nat, NEW l \in Nat
    PROVE  Holds(s, Span(p, l)) <=> Bytes(Span(p, l)) \subseteq BytesOf(ToSet(s))
  <1> DEFINE r == Span(p, l)
             n == Len(s)
  <1>1. r.start = p /\ r.len = l /\ End(r) = p + l
    BY DEF Span, End
  <1>2. \A b : b \in Bytes(r) <=> b \in Int /\ p <= b /\ b < p + l
    BY <1>1 DEF Bytes
  <1>3. /\ n \in Nat /\ DOMAIN s = 1 .. n
        /\ \A k \in 1 .. n : s[k].start \in Nat /\ End(s[k]) \in Nat /\ s[k].start < End(s[k])
        /\ \A i, k \in 1 .. n : i < k => End(s[i]) < s[k].start
    BY SpanParts
  <1>4. \A b : b \in BytesOf(ToSet(s)) <=>
                  b \in Int /\ \E k \in 1 .. n : s[k].start <= b /\ b < End(s[k])
    BY ByteOf
  <1>5. Holds(s, r) <=>
            \/ l = 0
            \/ \E k \in 1 .. n : /\ s[k].start <= p
                                 /\ k < n => s[k + 1].start > p
                                 /\ End(s[k]) >= p + l
    BY <1>1, <1>3 DEF Holds
  <1> HIDE DEF r, n
  <1>6. ASSUME Holds(s, r) PROVE Bytes(r) \subseteq BytesOf(ToSet(s))
    BY <1>2, <1>3, <1>4, <1>5, <1>6
  <1>7. ASSUME Bytes(r) \subseteq BytesOf(ToSet(s)), l # 0 PROVE Holds(s, r)
    <2>1. p \in Bytes(r)
      BY <1>2, <1>7
    <2>2. PICK k \in 1 .. n : s[k].start <= p /\ p < End(s[k])
      BY <1>4, <1>7, <2>1
    <2>3. k < n => s[k + 1].start > p
      <3>1. SUFFICES ASSUME k < n PROVE s[k + 1].start > p
        OBVIOUS
      <3>2. k + 1 \in 1 .. n /\ k < k + 1
        BY <1>3, <3>1
      <3>3. End(s[k]) < s[k + 1].start
        BY <1>3, <3>2
      <3> QED
        BY <1>3, <2>2, <3>2, <3>3
    <2>4. End(s[k]) >= p + l
      <3>1. SUFFICES ASSUME End(s[k]) < p + l PROVE FALSE
        BY <1>3
      <3> DEFINE e == End(s[k])
      <3>2. e \in Nat /\ e \in Bytes(r)
        BY <1>2, <1>3, <2>2, <3>1
      <3>3. PICK m \in 1 .. n : s[m].start <= e /\ e < End(s[m])
        BY <1>4, <1>7, <3>2
      <3>4. CASE m = k
        BY <1>3, <3>3, <3>4
      <3>5. CASE k < m
        <4>1. e < s[m].start
          BY <1>3, <3>5
        <4> QED
          BY <1>3, <3>3, <4>1
      <3>6. CASE m < k
        <4>1. End(s[m]) < s[k].start
          BY <1>3, <3>6
        <4> QED
          BY <1>3, <3>3, <4>1
      <3> QED
        BY <3>4, <3>5, <3>6
    <2> QED
      BY <1>5, <2>2, <2>3, <2>4
  <1>8. l = 0 => Holds(s, r)
    BY <1>5
  <1> QED
    BY <1>6, <1>7, <1>8 DEF r

\* Vec::splice: the elements from i + 1 to j give way to one.
Splice(s, i, j, x) == SubSeq(s, 1, i) \o <<x>> \o SubSeq(s, j + 1, Len(s))

\* What a splice puts where.
LEMMA Spliced ==
    ASSUME NEW S, NEW s \in Seq(S), NEW i \in 0 .. Len(s), NEW j \in i .. Len(s), NEW x \in S
    PROVE  /\ Splice(s, i, j, x) \in Seq(S)
           /\ Len(Splice(s, i, j, x)) = i + 1 + (Len(s) - j)
           /\ \A k \in 1 .. i : Splice(s, i, j, x)[k] = s[k]
           /\ Splice(s, i, j, x)[i + 1] = x
           /\ \A k \in i + 2 .. Len(Splice(s, i, j, x)) : Splice(s, i, j, x)[k] = s[k - i - 1 + j]
  <1> DEFINE n == Len(s)
             a == SubSeq(s, 1, i)
             c == SubSeq(s, j + 1, n)
             b == a \o <<x>>
             t == b \o c
  <1>1. n \in Nat /\ i \in Nat /\ j \in Nat /\ i <= j /\ j <= n /\ \A k \in 1 .. n : s[k] \in S
    BY LenProperties, ElementOfSeq
  <1>2. a \in Seq(S) /\ Len(a) = i /\ \A k \in 1 .. i : a[k] = s[k]
    <2>1. \A k \in 1 .. i : s[k] \in S
      BY <1>1
    <2>2. /\ a \in Seq(S) /\ Len(a) = (IF 1 <= i THEN i - 1 + 1 ELSE 0)
          /\ \A k \in 1 .. i - 1 + 1 : a[k] = s[1 + k - 1]
      BY <1>1, <2>1, SubSeqProperties
    <2> QED
      BY <1>1, <2>2
  <1>3. c \in Seq(S) /\ Len(c) = n - j /\ \A k \in 1 .. n - j : c[k] = s[j + k]
    <2>1. \A k \in j + 1 .. n : s[k] \in S
      BY <1>1
    <2>2. /\ c \in Seq(S) /\ Len(c) = (IF j + 1 <= n THEN n - (j + 1) + 1 ELSE 0)
          /\ \A k \in 1 .. n - (j + 1) + 1 : c[k] = s[(j + 1) + k - 1]
      BY <1>1, <2>1, SubSeqProperties
    <2> QED
      BY <1>1, <2>2
  <1>4. <<x>> \in Seq(S) /\ Len(<<x>>) = 1 /\ <<x>>[1] = x
    OBVIOUS
  <1> HIDE DEF n, a, c
  <1>5. b \in Seq(S) /\ Len(b) = i + 1 /\ b[i + 1] = x /\ \A k \in 1 .. i : b[k] = s[k]
    <2>1. /\ b \in Seq(S) /\ Len(b) = Len(a) + Len(<<x>>)
          /\ \A k \in 1 .. Len(a) + Len(<<x>>) :
                b[k] = IF k <= Len(a) THEN a[k] ELSE <<x>>[k - Len(a)]
      BY <1>2, <1>4, ConcatProperties
    <2> QED
      BY <1>1, <1>2, <1>4, <2>1
  <1> HIDE DEF b
  <1>6. /\ t \in Seq(S) /\ Len(t) = Len(b) + Len(c)
        /\ \A k \in 1 .. Len(b) + Len(c) : t[k] = IF k <= Len(b) THEN b[k] ELSE c[k - Len(b)]
    BY <1>3, <1>5, ConcatProperties
  <1> HIDE DEF t
  <1>7. Len(t) = i + 1 + (n - j)
    BY <1>3, <1>5, <1>6
  <1>8. \A k \in 1 .. i : t[k] = s[k]
    BY <1>1, <1>3, <1>5, <1>6
  <1>9. t[i + 1] = x
    BY <1>1, <1>3, <1>5, <1>6
  <1>10. ASSUME NEW k \in i + 2 .. Len(t) PROVE t[k] = s[k - i - 1 + j]
    <2>1. k - i - 1 \in 1 .. n - j /\ k \in 1 .. Len(b) + Len(c) /\ ~(k <= Len(b))
      BY <1>1, <1>3, <1>5, <1>7
    <2>2. t[k] = c[k - i - 1]
      BY <1>1, <1>5, <1>6, <2>1
    <2>3. c[k - i - 1] = s[j + (k - i - 1)] /\ j + (k - i - 1) = k - i - 1 + j
      BY <1>1, <1>3, <2>1
    <2> QED
      BY <2>2, <2>3
  <1> QED
    BY <1>6, <1>7, <1>8, <1>9, <1>10 DEF Splice, t, b, a, c, n

\* The splice point of a read from p to e: the spans left of it, those it joins, the rest,
\* and the bounds of the one that takes their place.
Joining(s, p, e, i, j, lo, hi) ==
    /\ i \in 0 .. Len(s) /\ j \in i .. Len(s) /\ lo \in Nat /\ hi \in Nat
    /\ \A k \in 1 .. i : End(s[k]) < p
    /\ \A k \in i + 1 .. Len(s) : End(s[k]) >= p
    /\ \A k \in i + 1 .. j : s[k].start <= e
    /\ \A k \in j + 1 .. Len(s) : s[k].start > e
    /\ lo <= p /\ \A k \in i + 1 .. j : lo <= s[k].start
    /\ lo = p \/ (i < j /\ lo = s[i + 1].start)
    /\ hi >= e /\ \A k \in i + 1 .. j : End(s[k]) <= hi
    /\ hi = e \/ (i < j /\ hi = End(s[j]))

\* Merge splices: what record finds by partition_point are the spans the read touches.
LEMMA MergeJoins ==
    ASSUME NEW s, IsLedger(s), NEW p \in Nat, NEW l \in Nat \ {0}
    PROVE  \E i, j, lo, hi :
              /\ Joining(s, p, p + l, i, j, lo, hi)
              /\ Merge(s, Span(p, l), 1) = Splice(s, i, j, Span(lo, hi - lo))
  <1> DEFINE n == Len(s)
             r == Span(p, l)
             e == p + l
             before == {k \in DOMAIN s : End(s[k]) + 1 <= r.start}
             i == Leading(s, before)
             reached == {k \in DOMAIN s : k <= i \/ s[k].start < End(r) + 1}
             j == Leading(s, reached)
             lo == IF i < j /\ s[i + 1].start < r.start THEN s[i + 1].start ELSE r.start
             H == {End(r)} \cup {End(s[k]) : k \in i + 1 .. j}
             hi == Max(H)
  <1>1. r.start = p /\ End(r) = e /\ e \in Nat /\ p < e
    BY DEF Span, End
  <1>2. /\ s \in Seq(SpanSet) /\ n \in Nat /\ DOMAIN s = 1 .. n
        /\ \A k \in 1 .. n : s[k].start \in Nat /\ End(s[k]) \in Nat /\ s[k].start < End(s[k])
        /\ \A a, c \in 1 .. n : a < c => End(s[a]) < s[c].start
    BY SpanParts DEF IsLedger
  <1>3. i \in 0 .. n /\ 1 .. i \subseteq before /\ i + 1 \notin before
    <2>1. before \subseteq DOMAIN s
      OBVIOUS
    <2> HIDE DEF before
    <2> QED
      BY <1>2, <2>1, LeadingIs
  <1>4. j \in 0 .. n /\ 1 .. j \subseteq reached /\ j + 1 \notin reached
    <2>1. reached \subseteq DOMAIN s
      OBVIOUS
    <2> HIDE DEF reached
    <2> QED
      BY <1>2, <2>1, LeadingIs
  <1> HIDE DEF n, r, e, i, j
  <1>5. \A k \in 1 .. i : End(s[k]) < p
    BY <1>1, <1>2, <1>3
  <1>6. ASSUME NEW k \in i + 1 .. n PROVE End(s[k]) >= p
    <2>1. i + 1 \in 1 .. n
      BY <1>2, <1>3
    <2>2. End(s[i + 1]) >= p
      BY <1>1, <1>2, <1>3, <2>1
    <2>3. k = i + 1 \/ End(s[i + 1]) < s[k].start
      <3>1. k \in 1 .. n /\ (k = i + 1 \/ i + 1 < k)
        BY <1>2, <1>3
      <3> QED
        BY <1>2, <2>1, <3>1
    <2> QED
      BY <1>2, <1>3, <2>1, <2>2, <2>3
  <1>7. i <= j
    <2>1. SUFFICES ASSUME j < i PROVE FALSE
      BY <1>3, <1>4
    <2>2. j + 1 \in 1 .. n /\ j + 1 <= i
      BY <1>2, <1>3, <1>4, <2>1
    <2> QED
      BY <1>2, <1>4, <2>2
  <1>8. \A k \in i + 1 .. j : s[k].start <= e
    BY <1>1, <1>2, <1>3, <1>4
  <1>9. ASSUME NEW k \in j + 1 .. n PROVE s[k].start > e
    <2>1. j + 1 \in 1 .. n /\ ~(j + 1 <= i)
      BY <1>2, <1>3, <1>4, <1>7
    <2>2. s[j + 1].start > e
      BY <1>1, <1>2, <1>4, <2>1
    <2>3. k = j + 1 \/ End(s[j + 1]) < s[k].start
      BY <1>2, <1>4, <2>1
    <2> QED
      BY <1>1, <1>2, <1>4, <2>1, <2>2, <2>3
  <1> HIDE DEF before, reached
  <1>10. /\ lo \in Nat /\ lo <= p /\ \A k \in i + 1 .. j : lo <= s[k].start
         /\ lo = p \/ (i < j /\ lo = s[i + 1].start)
    <2>1. ASSUME NEW k \in i + 1 .. j PROVE s[i + 1].start <= s[k].start
      <3>1. i + 1 \in 1 .. n /\ k \in 1 .. n
        BY <1>2, <1>3, <1>4
      <3>2. k = i + 1 \/ End(s[i + 1]) < s[k].start
        BY <1>2, <1>3, <3>1
      <3> QED
        BY <1>2, <3>1, <3>2
    <2>2. i < j => i + 1 \in 1 .. n
      BY <1>2, <1>3, <1>4
    <2> QED
      BY <1>1, <1>2, <1>3, <1>4, <2>1, <2>2
  <1> HIDE DEF lo
  <1>11. \A k \in i + 1 .. j : k \in 1 .. n /\ End(s[k]) <= End(s[j]) /\ j \in 1 .. n
    <2> TAKE k \in i + 1 .. j
    <2>1. k \in 1 .. n /\ j \in 1 .. n
      BY <1>2, <1>3, <1>4
    <2>2. k = j \/ End(s[k]) < s[j].start
      BY <1>2, <1>4, <2>1
    <2> QED
      BY <1>2, <2>1, <2>2
  <1>12. PICK h : h \in H /\ (\A y \in H : h >= y) /\ (h = e \/ (i < j /\ h = End(s[j])))
    <2>1. CASE i < j /\ End(s[j]) >= e
      <3>1. End(s[j]) \in H
        BY <1>3, <1>4, <2>1
      <3>2. ASSUME NEW y \in H PROVE End(s[j]) >= y
        <4>1. y = e \/ \E k \in i + 1 .. j : y = End(s[k])
          BY <1>1
        <4>2. ASSUME NEW k \in i + 1 .. j, y = End(s[k]) PROVE End(s[j]) >= y
          BY <1>2, <1>11, <4>2
        <4> QED
          BY <2>1, <4>1, <4>2
      <3> HIDE DEF H
      <3> QED
        BY <2>1, <3>1, <3>2
    <2>2. CASE ~(i < j /\ End(s[j]) >= e)
      <3>1. e \in H
        BY <1>1
      <3>2. ASSUME NEW y \in H PROVE e >= y
        <4>1. y = e \/ \E k \in i + 1 .. j : y = End(s[k])
          BY <1>1
        <4>2. ASSUME NEW k \in i + 1 .. j, y = End(s[k]) PROVE e >= y
          BY <1>1, <1>2, <1>3, <1>4, <1>11, <2>2, <4>2
        <4> QED
          BY <1>1, <4>1, <4>2
      <3> HIDE DEF H
      <3> QED
        BY <3>1, <3>2
    <2> QED
      BY <2>1, <2>2
  <1>13. H \subseteq Nat
    BY <1>1, <1>2, <1>11
  <1>14. e \in H /\ \A k \in i + 1 .. j : End(s[k]) \in H
    BY <1>1
  <1> HIDE DEF H
  <1>15. hi = h
    <2>1. hi \in H /\ \A y \in H : hi >= y
      BY <1>12 DEF Max
    <2> HIDE DEF hi
    <2>2. hi \in Nat /\ h \in Nat
      BY <1>12, <1>13, <2>1
    <2>3. hi >= h /\ h >= hi
      BY <1>12, <2>1
    <2> QED
      BY <2>2, <2>3
  <1> HIDE DEF hi
  <1>16. Joining(s, p, e, i, j, lo, hi)
    <2>1. hi \in Nat /\ hi >= e /\ \A k \in i + 1 .. j : End(s[k]) <= hi
      BY <1>1, <1>12, <1>13, <1>14, <1>15
    <2>2. hi = e \/ (i < j /\ hi = End(s[j]))
      BY <1>12, <1>15
    <2>3. i \in 0 .. n /\ j \in i .. n
      BY <1>2, <1>3, <1>4, <1>7
    <2> QED
      BY <1>5, <1>6, <1>8, <1>9, <1>10, <2>1, <2>2, <2>3 DEF Joining, n
  <1>17. Merge(s, r, 1) = Splice(s, i, j, Span(lo, hi - lo))
    BY DEF Splice, Merge, n, i, j, lo, hi, H, before, reached
  <1> QED
    BY <1>16, <1>17 DEF e, r, n

\* A read coalesces: the ledger stays one and gains exactly the bytes of the read.
LEMMA RecordCoalesces ==
    ASSUME NEW s, IsLedger(s), NEW p \in Nat, NEW l \in Nat
    PROVE  /\ IsLedger(Record(s, p, l))
           /\ BytesOf(ToSet(Record(s, p, l))) = BytesOf(ToSet(s)) \cup Bytes(Span(p, l))
  <1>1. CASE l = 0
    <2>1. Record(s, p, l) = s /\ Bytes(Span(p, l)) = {}
      BY <1>1 DEF Record, Bytes, Span, End
    <2> QED
      BY <2>1
  <1>2. CASE l # 0
    <2> DEFINE n == Len(s)
               e == p + l
    <2>1. PICK i, j, lo, hi :
             /\ Joining(s, p, e, i, j, lo, hi)
             /\ Merge(s, Span(p, l), 1) = Splice(s, i, j, Span(lo, hi - lo))
      <3>1. l \in Nat \ {0}
        BY <1>2
      <3> QED
        BY <3>1, MergeJoins
    <2> DEFINE x == Span(lo, hi - lo)
               t == Splice(s, i, j, x)
    <2>2. Record(s, p, l) = t
      BY <1>2, <2>1 DEF Record
    <2>3. /\ s \in Seq(SpanSet) /\ n \in Nat
          /\ \A k \in 1 .. n : s[k].start \in Nat /\ End(s[k]) \in Nat /\ s[k].start < End(s[k])
          /\ \A a, c \in 1 .. n : a < c => End(s[a]) < s[c].start
      BY SpanParts DEF IsLedger
    <2>4. /\ i \in Nat /\ j \in Nat /\ i <= j /\ j <= n /\ e \in Nat /\ p < e
          /\ lo \in Nat /\ hi \in Nat /\ lo <= p /\ e <= hi
      BY <1>2, <2>1, <2>3 DEF Joining
    <2>5. x \in SpanSet /\ x.start = lo /\ End(x) = hi
      BY <2>4 DEF Span, SpanSet, End
    <2> HIDE DEF x
    <2>6. /\ t \in Seq(SpanSet) /\ Len(t) = i + 1 + (n - j)
          /\ \A k \in 1 .. i : t[k] = s[k]
          /\ t[i + 1] = x
          /\ \A k \in i + 2 .. Len(t) : t[k] = s[k - i - 1 + j]
      <3>1. i \in 0 .. Len(s) /\ j \in i .. Len(s) /\ s \in Seq(SpanSet) /\ x \in SpanSet
        BY <2>3, <2>4, <2>5
      <3> HIDE DEF n, e
      <3>2. t \in Seq(SpanSet) /\ Len(t) = i + 1 + (Len(s) - j)
        BY <3>1, Spliced
      <3>3. \A k \in 1 .. i : t[k] = s[k]
        BY <3>1, Spliced
      <3>4. t[i + 1] = x
        BY <3>1, Spliced
      <3>5. \A k \in i + 2 .. Len(t) : t[k] = s[k - i - 1 + j]
        BY <3>1, Spliced
      <3> QED
        BY <3>2, <3>3, <3>4, <3>5 DEF n
    <2> HIDE DEF n, e, t
    <2>7. \A k \in i + 2 .. Len(t) : k - i - 1 + j \in j + 1 .. n
      BY <2>3, <2>4, <2>6
    <2>8. ASSUME NEW a \in 1 .. i PROVE End(s[a]) < lo
      <3>1. a \in 1 .. n /\ End(s[a]) < p
        BY <2>1, <2>3, <2>4 DEF Joining, n
      <3>2. i < j => i + 1 \in 1 .. n /\ a < i + 1
        BY <2>3, <2>4
      <3>3. lo = p \/ (i < j /\ lo = s[i + 1].start)
        BY <2>1 DEF Joining
      <3> QED
        BY <2>3, <3>1, <3>2, <3>3
    <2>9. ASSUME NEW c \in j + 1 .. n PROVE hi < s[c].start
      <3>1. c \in 1 .. n /\ s[c].start > e
        BY <2>1, <2>3, <2>4 DEF Joining, n
      <3>2. i < j => j \in 1 .. n /\ j < c
        BY <2>3, <2>4
      <3>3. hi = e \/ (i < j /\ hi = End(s[j]))
        BY <2>1 DEF Joining
      <3> QED
        BY <2>3, <2>4, <3>1, <3>2, <3>3
    <2>10. ASSUME NEW a \in 1 .. Len(t), NEW c \in 1 .. Len(t), a < c
           PROVE  End(t[a]) < t[c].start
      <3>1. CASE c <= i
        <4>1. t[a] = s[a] /\ t[c] = s[c] /\ a \in 1 .. n /\ c \in 1 .. n
          BY <2>3, <2>4, <2>6, <2>10, <3>1
        <4> QED
          BY <2>3, <2>10, <4>1
      <3>2. CASE c = i + 1
        <4>1. a \in 1 .. i /\ t[a] = s[a] /\ t[c] = x
          BY <2>3, <2>4, <2>6, <2>10, <3>2
        <4> QED
          BY <2>5, <2>8, <4>1
      <3>3. CASE c > i + 1
        <4> DEFINE d == c - i - 1 + j
        <4>1. c \in i + 2 .. Len(t)
          BY <2>4, <2>6, <3>3
        <4>2. t[c] = s[d] /\ d \in j + 1 .. n
          BY <2>6, <2>7, <4>1
        <4>3. CASE a <= i
          <5>1. t[a] = s[a] /\ a \in 1 .. n /\ d \in 1 .. n /\ a < d
            BY <2>3, <2>4, <2>6, <4>2, <4>3
          <5> QED
            BY <2>3, <4>2, <5>1
        <4>4. CASE a = i + 1
          BY <2>5, <2>6, <2>9, <4>2, <4>4
        <4>5. CASE a > i + 1
          <5>1. a \in i + 2 .. Len(t)
            BY <2>4, <2>6, <4>5
          <5>2. t[a] = s[a - i - 1 + j] /\ a - i - 1 + j \in j + 1 .. n
            BY <2>6, <2>7, <5>1
          <5>3. a - i - 1 + j \in 1 .. n /\ d \in 1 .. n /\ a - i - 1 + j < d
            BY <2>3, <2>4, <2>6, <2>10, <4>2, <5>2
          <5> QED
            BY <2>3, <4>2, <5>2, <5>3
        <4> QED
          BY <2>4, <2>6, <4>3, <4>4, <4>5
      <3> QED
        BY <2>4, <2>6, <3>1, <3>2, <3>3
    <2>11. IsLedger(t)
      <3>1. DOMAIN t = 1 .. Len(t)
        BY <2>6, LenProperties
      <3> QED
        BY <2>6, <2>10, <3>1 DEF IsLedger
    <2> DEFINE Reaches(q, k, b) == q[k].start <= b /\ b < End(q[k])
    <2>12. ASSUME NEW b \in Int, NEW k \in 1 .. Len(t), Reaches(t, k, b)
           PROVE  (p <= b /\ b < e) \/ \E m \in 1 .. n : Reaches(s, m, b)
      <3>1. CASE k <= i
        <4>1. t[k] = s[k] /\ k \in 1 .. n
          BY <2>3, <2>4, <2>6, <3>1
        <4> QED
          BY <2>12, <4>1
      <3>2. CASE k = i + 1
        <4>1. lo <= b /\ b < hi
          BY <2>5, <2>6, <2>12, <3>2
        <4>2. CASE b < p
          <5>1. i < j /\ lo = s[i + 1].start
            BY <2>1, <2>4, <4>1, <4>2 DEF Joining
          <5>2. i + 1 \in 1 .. n /\ End(s[i + 1]) >= p
            <6>1. i + 1 \in 1 .. n /\ i + 1 \in i + 1 .. n
              BY <2>3, <2>4, <5>1
            <6>2. \A m \in i + 1 .. n : End(s[m]) >= p
              BY <2>1 DEF Joining, n
            <6> QED
              BY <6>1, <6>2
          <5>3. Reaches(s, i + 1, b)
            BY <2>3, <2>4, <4>1, <4>2, <5>1, <5>2
          <5> QED
            BY <5>2, <5>3
        <4>3. CASE e <= b
          <5>1. i < j /\ hi = End(s[j])
            BY <2>1, <2>4, <4>1, <4>3 DEF Joining
          <5>2. j \in 1 .. n /\ s[j].start <= e
            BY <2>1, <2>3, <2>4, <5>1 DEF Joining
          <5>3. Reaches(s, j, b)
            BY <2>3, <2>4, <4>1, <4>3, <5>1, <5>2
          <5> QED
            BY <5>2, <5>3
        <4> QED
          BY <2>4, <4>2, <4>3
      <3>3. CASE k > i + 1
        <4>1. k \in i + 2 .. Len(t)
          BY <2>4, <2>6, <3>3
        <4>2. t[k] = s[k - i - 1 + j] /\ k - i - 1 + j \in 1 .. n
          BY <2>3, <2>4, <2>6, <2>7, <4>1
        <4> QED
          BY <2>12, <4>2
      <3> QED
        BY <2>4, <2>6, <3>1, <3>2, <3>3
    <2>13. ASSUME NEW b \in Int, NEW m \in 1 .. n, Reaches(s, m, b)
           PROVE  \E k \in 1 .. Len(t) : Reaches(t, k, b)
      <3>1. CASE m <= i
        <4>1. t[m] = s[m] /\ m \in 1 .. Len(t)
          BY <2>3, <2>4, <2>6, <3>1
        <4> QED
          BY <2>13, <4>1
      <3>2. CASE i < m /\ m <= j
        <4>1. lo <= s[m].start /\ End(s[m]) <= hi
          BY <2>1, <2>3, <2>4, <3>2 DEF Joining
        <4>2. lo <= b /\ b < hi
          BY <2>3, <2>4, <2>13, <4>1
        <4>3. i + 1 \in 1 .. Len(t)
          BY <2>3, <2>4, <2>6
        <4> QED
          BY <2>5, <2>6, <4>2, <4>3
      <3>3. CASE j < m
        <4> DEFINE k == m - j + i + 1
        <4>1. k \in i + 2 .. Len(t) /\ k \in 1 .. Len(t) /\ k - i - 1 + j = m
          BY <2>3, <2>4, <2>6, <3>3
        <4>2. t[k] = s[m]
          BY <2>6, <4>1
        <4> QED
          BY <2>13, <4>1, <4>2
      <3> QED
        BY <2>3, <2>4, <3>1, <3>2, <3>3
    <2>14. ASSUME NEW b \in Int, p <= b, b < e PROVE \E k \in 1 .. Len(t) : Reaches(t, k, b)
      <3>1. lo <= b /\ b < hi /\ i + 1 \in 1 .. Len(t)
        BY <2>3, <2>4, <2>6, <2>14
      <3> QED
        BY <2>5, <2>6, <3>1
    <2>15. \A b : b \in Bytes(Span(p, l)) <=> b \in Int /\ p <= b /\ b < e
      BY DEF Bytes, Span, End, e
    <2>16. \A b : b \in BytesOf(ToSet(s)) <=> b \in Int /\ \E k \in 1 .. n : Reaches(s, k, b)
      BY ByteOf DEF n
    <2>17. \A b : b \in BytesOf(ToSet(t)) <=> b \in Int /\ \E k \in 1 .. Len(t) : Reaches(t, k, b)
      BY <2>11, ByteOf
    <2> HIDE DEF Reaches
    <2>18. BytesOf(ToSet(t)) = BytesOf(ToSet(s)) \cup Bytes(Span(p, l))
      BY <2>12, <2>13, <2>14, <2>15, <2>16, <2>17
    <2> QED
      BY <2>2, <2>11, <2>18
  <1> QED
    BY <1>1, <1>2

----------------------------------------------------------------------------
(* Runs of bytes: what has been ranked is in order, and a set is the bytes of its runs. *)

\* Every element of S, as v gives it, with the number of those before it.
Ranks(S, L, v) == {<<Cardinality({a \in S : <<a, b>> \in L}), v[b]>> : b \in S}

\* s lists what v gives of the elements of S, each once (f), in the order of L.
Lists(s, S, L, v, f) ==
    /\ Cardinality(S) \in Nat /\ DOMAIN s = 1 .. Cardinality(S)
    /\ f \in [1 .. Cardinality(S) -> S]
    /\ \A b \in S : \E k \in 1 .. Cardinality(S) : f[k] = b
    /\ \A k \in 1 .. Cardinality(S) : s[k] = v[f[k]]
    /\ \A j, k \in 1 .. Cardinality(S) : j < k => <<f[j], f[k]>> \in L

\* What is before each element of a finite, strictly ordered set gives it its rank: listed by
\* rank, the elements come in order, each of them once.
LEMMA Ranked ==
    ASSUME NEW S, IsFiniteSet(S), NEW L, NEW v,
           \A a \in S : <<a, a>> \notin L,
           \A a, b \in S : a = b \/ <<a, b>> \in L \/ <<b, a>> \in L,
           \A a, b, c \in S : <<a, b>> \in L /\ <<b, c>> \in L => <<a, c>> \in L
    PROVE  \E f : Lists(Arranged(Ranks(S, L, v)), S, L, v, f)
  <1> DEFINE n == Cardinality(S)
             Below(b) == {a \in S : <<a, b>> \in L}
             r == [b \in S |-> Cardinality(Below(b))]
             R == Ranks(S, L, v)
             Q == {<<r[b], v[b]>> : b \in S}
             T == 0 .. n - 1
  <1>1. n \in Nat
    BY FS_CardinalityType
  <1>2. ASSUME NEW b \in S PROVE r[b] \in T
    <2>1. Below(b) \in SUBSET S /\ Below(b) # S
      OBVIOUS
    <2> HIDE DEF Below
    <2>2. IsFiniteSet(Below(b)) /\ Cardinality(Below(b)) <= n /\ Cardinality(Below(b)) # n
      BY <2>1, FS_Subset
    <2>3. Cardinality(Below(b)) \in Nat
      BY <2>2, FS_CardinalityType
    <2> QED
      BY <1>1, <2>2, <2>3
  <1>3. ASSUME NEW a \in S, NEW b \in S, <<a, b>> \in L PROVE r[a] < r[b]
    <2>1. Below(a) \in SUBSET Below(b) /\ Below(a) # Below(b)
      <3>1. a \in Below(b) /\ a \notin Below(a)
        BY <1>3
      <3>2. \A c \in Below(a) : c \in Below(b)
        BY <1>3
      <3> HIDE DEF Below
      <3> QED
        BY <3>1, <3>2
    <2>2. IsFiniteSet(Below(b))
      <3>1. Below(b) \in SUBSET S
        OBVIOUS
      <3> HIDE DEF Below
      <3> QED
        BY <3>1, FS_Subset
    <2>3. Cardinality(Below(a)) <= Cardinality(Below(b)) /\ Cardinality(Below(a)) # Cardinality(Below(b))
      <3> HIDE DEF Below
      <3> QED
        BY <2>1, <2>2, FS_Subset
    <2>4. r[a] \in Nat /\ r[b] \in Nat
      <3> HIDE DEF r
      <3> QED
        BY <1>1, <1>2
    <2> HIDE DEF Below
    <2> QED
      BY <2>3, <2>4
  <1> HIDE DEF T
  <1>4. r \in [S -> T]
    BY <1>2
  <1> HIDE DEF r
  <1>5. \A x \in S : r[x] \in Nat
    BY <1>1, <1>2 DEF T
  <1>6. \A a, b \in S : r[a] = r[b] => a = b
    <2> SUFFICES ASSUME NEW a \in S, NEW b \in S, r[a] = r[b], a # b PROVE FALSE
      OBVIOUS
    <2>1. <<a, b>> \in L \/ <<b, a>> \in L
      OBVIOUS
    <2>2. r[a] < r[b] \/ r[b] < r[a]
      BY <1>3, <2>1
    <2> QED
      BY <1>5, <2>2
  <1>7. r \in Injection(S, T)
    BY <1>4, <1>6 DEF Injection, IsInjective
  <1>8. IsFiniteSet(T) /\ Cardinality(T) = n
    <2>1. n - 1 \in Int /\ (0 > n - 1 <=> n = 0) /\ (n - 1) - 0 + 1 = n
      BY <1>1
    <2>2. IsFiniteSet(T) /\ Cardinality(T) = IF 0 > n - 1 THEN 0 ELSE (n - 1) - 0 + 1
      <3> HIDE DEF n
      <3> QED
        BY <2>1, FS_Interval DEF T
    <2> QED
      BY <2>1, <2>2
  <1>9. r \in Surjection(S, T)
    BY <1>7, <1>8, FS_Injection
  <1>10. \A t \in T : \E b \in S : r[b] = t
    BY <1>9 DEF Surjection
  <1> DEFINE f == [k \in 1 .. n |-> CHOOSE b \in S : r[b] = k - 1]
  <1>11. ASSUME NEW k \in 1 .. n PROVE f[k] \in S /\ r[f[k]] = k - 1
    <2>1. k - 1 \in T
      BY <1>1 DEF T
    <2> QED
      BY <1>10, <2>1
  <1>12. f \in [1 .. n -> S]
    BY <1>11
  <1> HIDE DEF f
  <1>13. ASSUME NEW b \in S PROVE \E k \in 1 .. n : f[k] = b
    <2>1. r[b] \in 0 .. n - 1 /\ r[b] \in Nat
      BY <1>2, <1>5 DEF T
    <2>2. r[b] + 1 \in 1 .. n /\ (r[b] + 1) - 1 = r[b]
      BY <1>1, <2>1
    <2>3. f[r[b] + 1] \in S /\ r[f[r[b] + 1]] = r[b]
      BY <1>11, <2>2
    <2> QED
      BY <1>6, <2>2, <2>3
  <1>14. ASSUME NEW j \in 1 .. n, NEW k \in 1 .. n, j < k PROVE <<f[j], f[k]>> \in L
    <2>1. f[j] \in S /\ f[k] \in S /\ r[f[j]] = j - 1 /\ r[f[k]] = k - 1
      BY <1>11
    <2>2. f[j] # f[k]
      BY <1>14, <2>1
    <2>3. ~(<<f[k], f[j]>> \in L)
      <3>1. <<f[k], f[j]>> \in L => r[f[k]] < r[f[j]]
        BY <1>3, <2>1
      <3> QED
        BY <1>14, <2>1, <3>1
    <2> QED
      BY <2>1, <2>2, <2>3
  <1>15. Q = R
    BY DEF r, Ranks
  <1>16. Cardinality(Q) = n
    <2> DEFINE g == [b \in S |-> <<r[b], v[b]>>]
    <2>1. g \in [S -> Q]
      OBVIOUS
    <2>2. \A a, b \in S : g[a] = g[b] => a = b
      BY <1>6
    <2>3. \A q \in Q : \E b \in S : g[b] = q
      OBVIOUS
    <2> HIDE DEF g, Q
    <2>4. g \in Bijection(S, Q)
      BY <2>1, <2>2, <2>3 DEF Bijection, Injection, Surjection, IsInjective
    <2>5. ExistsBijection(S, Q)
      BY <2>4 DEF ExistsBijection
    <2> QED
      BY <2>5, FS_Bijection
  <1> DEFINE s == Arranged(Q)
  <1>17. DOMAIN s = 1 .. n
    BY <1>16 DEF Arranged
  <1>18. ASSUME NEW k \in 1 .. n PROVE s[k] = v[f[k]]
    <2> DEFINE p == CHOOSE p \in Q : p[1] = k - 1
    <2>1. s[k] = p[2]
      BY <1>16 DEF Arranged
    <2>2. f[k] \in S /\ r[f[k]] = k - 1
      BY <1>11
    <2>3. <<r[f[k]], v[f[k]]>> \in Q /\ <<r[f[k]], v[f[k]]>>[1] = k - 1
      BY <2>2
    <2>4. p \in Q /\ p[1] = k - 1
      <3> HIDE DEF Q
      <3> QED
        BY <2>3
    <2> HIDE DEF p
    <2>5. PICK b \in S : p = <<r[b], v[b]>>
      BY <2>4
    <2>6. r[b] = r[f[k]]
      BY <2>2, <2>4, <2>5
    <2>7. b = f[k]
      BY <1>6, <2>2, <2>6
    <2> QED
      BY <2>1, <2>5, <2>7
  <1> HIDE DEF s, R, Q
  <1>19. s = Arranged(R)
    BY <1>15 DEF s
  <1>20. Lists(s, S, L, v, f)
    BY <1>1, <1>12, <1>13, <1>14, <1>17, <1>18 DEF Lists
  <1> QED
    BY <1>19, <1>20 DEF R

\* The runs of a set of bytes are nonempty spans, in order and apart, whose bytes are those
\* of the set.
LEMMA RunsAre ==
    ASSUME NEW m \in Nat, NEW B \in SUBSET (0 .. m)
    PROVE  /\ Runs(B) \in Seq(SpanSet) /\ IsLedger(Runs(B))
           /\ Runs(B) = <<>> <=> B = {}
           /\ BytesOf(ToSet(Runs(B))) = B
  <1> DEFINE heads == {b \in B : b - 1 \notin B}
             n == Cardinality(heads)
             L == {q \in heads \X heads : q[1] < q[2]}
             v == [b \in heads |-> b]
             order == Arranged({<<Cardinality({a \in heads : a < b}), b>> : b \in heads})
             order2 == Arranged(Ranks(heads, L, v))
             E(b) == {e \in b + 1 .. Max(B) + 1 : e \notin B}
             Run(b) == Span(b, Min(E(b)) - b)
             runs == [k \in DOMAIN order |-> Run(order[k])]
  <1>1. Runs(B) = runs
    BY DEF Runs
  <1>2. IsFiniteSet(heads)
    <2>1. IsFiniteSet(0 .. m)
      BY FS_Interval
    <2>2. heads \in SUBSET (0 .. m)
      OBVIOUS
    <2> HIDE DEF heads
    <2> QED
      BY <2>1, <2>2, FS_Subset
  <1>3. order = order2
    <2>1. \A b \in heads : {a \in heads : a < b} = {a \in heads : <<a, b>> \in L} /\ v[b] = b
      OBVIOUS
    <2> HIDE DEF heads, L, v
    <2>2. \A b \in heads : <<Cardinality({a \in heads : a < b}), b>>
                             = <<Cardinality({a \in heads : <<a, b>> \in L}), v[b]>>
      BY <2>1
    <2>3. {<<Cardinality({a \in heads : a < b}), b>> : b \in heads}
            = {<<Cardinality({a \in heads : <<a, b>> \in L}), v[b]>> : b \in heads}
      BY <2>2
    <2> QED
      BY <2>3 DEF Ranks
  <1>4. PICK f \in [1 .. n -> heads] :
            /\ \A b \in heads : \E k \in 1 .. n : f[k] = b
            /\ \A k \in 1 .. n : order[k] = v[f[k]]
            /\ n \in Nat /\ DOMAIN order = 1 .. n
            /\ \A j, k \in 1 .. n : j < k => f[j] < f[k]
    <2>1. /\ \A a \in heads : <<a, a>> \notin L
          /\ \A a, b \in heads : a = b \/ <<a, b>> \in L \/ <<b, a>> \in L
          /\ \A a, b, c \in heads : <<a, b>> \in L /\ <<b, c>> \in L => <<a, c>> \in L
      OBVIOUS
    <2> HIDE DEF heads, L, v, order
    <2>2. \E f : Lists(order2, heads, L, v, f)
      BY <1>2, <2>1, Ranked DEF order2
    <2>3. \A a, b \in heads : <<a, b>> \in L => a < b
      BY DEF L
    <2> HIDE DEF order2
    <2> QED
      BY <1>3, <2>2, <2>3 DEF Lists
  <1>5. \A k \in 1 .. n : order[k] = f[k] /\ f[k] \in heads
    BY <1>4
  <1> HIDE DEF order, order2, n
  <1>6. ASSUME NEW b \in heads
        PROVE  /\ Run(b) \in SpanSet
               /\ \A x \in Bytes(Run(b)) : x \in B
               /\ \A x \in B : b .. x \subseteq B /\ b <= x => x \in Bytes(Run(b))
               /\ Run(b).start = b /\ \A h \in heads : b < h => End(Run(b)) < h
    <2> DEFINE e == Min(E(b))
    <2>1. B \in SUBSET Nat /\ B # {} /\ \A x \in B : x <= m
      OBVIOUS
    <2>2. Max(B) \in B /\ \A x \in B : x <= Max(B)
      BY <2>1, GreatestOf
    <2>3. Max(B) \in Nat /\ b \in Nat /\ b \in B
      <3>1. b \in B
        OBVIOUS
      <3> QED
        BY <2>1, <2>2, <3>1
    <2>4. E(b) \in SUBSET Nat /\ Max(B) + 1 \in E(b)
      BY <2>2, <2>3
    <2>5. e \in E(b) /\ \A x \in E(b) : e <= x
      <3> HIDE DEF E
      <3> QED
        BY <2>4, LeastOf
    <2> HIDE DEF e, heads
    <2>6. e \in Nat /\ b < e /\ e \notin B /\ e <= Max(B) + 1
      BY <2>3, <2>5
    <2>7. Run(b).start = b /\ Run(b).len = e - b /\ End(Run(b)) = e /\ Run(b) = [start |-> b, len |-> e - b]
      BY <2>3, <2>6 DEF Span, End, e
    <2>8. Run(b) \in SpanSet
      <3>1. e - b \in Nat \ {0}
        BY <2>3, <2>6
      <3> QED
        BY <2>3, <2>7, <3>1 DEF SpanSet
    <2>9. \A x : x \in Bytes(Run(b)) <=> x \in Int /\ b <= x /\ x < e
      BY <2>3, <2>6, <2>7 DEF Bytes
    <2> HIDE DEF Run
    <2>10. ASSUME NEW x \in Bytes(Run(b)) PROVE x \in B
      <3>1. CASE x = b
        BY <2>3, <3>1
      <3>2. CASE x # b
        <4>1. x \in b + 1 .. Max(B) + 1 /\ x < e /\ x \in Nat
          BY <2>3, <2>6, <2>9, <3>2
        <4>2. x \notin E(b)
          <5> HIDE DEF E
          <5> QED
            BY <2>5, <2>6, <4>1
        <4> QED
          BY <4>1, <4>2
      <3> QED
        BY <3>1, <3>2
    <2>11. ASSUME NEW x \in B, b .. x \subseteq B, b <= x PROVE x \in Bytes(Run(b))
      <3>1. x \in Nat
        OBVIOUS
      <3>2. x < e
        <4> SUFFICES ASSUME e <= x PROVE FALSE
          BY <2>6, <3>1
        <4>1. e \in b .. x
          BY <2>3, <2>6, <3>1
        <4> QED
          BY <2>6, <2>11, <4>1
      <3> QED
        BY <2>9, <2>11, <3>1, <3>2
    <2>12. ASSUME NEW h \in heads, b < h PROVE e < h
      <3>1. h \in B /\ h - 1 \notin B /\ h \in Nat
        BY DEF heads
      <3>2. CASE h < e
        <4>1. h - 1 \in Bytes(Run(b))
          BY <2>3, <2>6, <2>9, <2>12, <3>1, <3>2
        <4> QED
          BY <2>10, <3>1, <4>1
      <3> QED
        BY <2>6, <3>1, <3>2
    <2> QED
      BY <2>7, <2>8, <2>10, <2>11, <2>12
  <1>7. ASSUME NEW x \in B PROVE \E b \in heads : b .. x \subseteq B /\ b <= x
    <2> DEFINE Z == {y \in 0 .. x : y .. x \subseteq B}
               z == Min(Z)
    <2>1. x \in Nat /\ x \in Z /\ Z \in SUBSET Nat
      OBVIOUS
    <2>2. z \in Z /\ \A y \in Z : z <= y
      <3> HIDE DEF Z
      <3> QED
        BY <2>1, LeastOf
    <2> HIDE DEF z
    <2>3. z \in Nat /\ z <= x /\ z .. x \subseteq B
      BY <2>1, <2>2
    <2>4. z \in B
      BY <2>1, <2>3
    <2>5. z - 1 \notin B
      <3> SUFFICES ASSUME z - 1 \in B PROVE FALSE
        OBVIOUS
      <3>1. z - 1 \in 0 .. m
        OBVIOUS
      <3>2. \A y \in z - 1 .. x : y = z - 1 \/ y \in z .. x
        BY <2>1, <2>3
      <3>3. z - 1 \in Z
        BY <2>1, <2>3, <3>1, <3>2
      <3> QED
        BY <2>2, <2>3, <3>3
    <2> QED
      BY <2>3, <2>4, <2>5
  <1>8. runs \in Seq(SpanSet) /\ Len(runs) = n
    <2>1. \A k \in 1 .. n : Run(order[k]) \in SpanSet
      <3> HIDE DEF Run, heads
      <3> QED
        BY <1>5, <1>6
    <2> HIDE DEF Run
    <2>2. runs \in [1 .. n -> SpanSet]
      BY <1>4, <2>1
    <2> HIDE DEF runs
    <2> QED
      BY <1>4, <2>2, SeqDef, LenProperties
  <1>9. ToSet(runs) = {Run(b) : b \in heads}
    <2> HIDE DEF Run, heads
    <2> QED
      BY <1>4, <1>5 DEF ToSet
  <1>10. runs = <<>> <=> B = {}
    <2>1. runs = <<>> <=> n = 0
      <3> HIDE DEF runs
      <3> QED
        BY <1>8, EmptySeq
    <2>2. n = 0 <=> heads = {}
      <3> HIDE DEF heads
      <3> QED
        BY <1>4, <1>5
    <2>3. heads = {} <=> B = {}
      <3> HIDE DEF Run
      <3> QED
      BY <1>7
    <2> QED
      BY <2>1, <2>2, <2>3
  <1>11. BytesOf(ToSet(runs)) = B
    <2>1. \A x : x \in BytesOf(ToSet(runs)) <=> \E b \in heads : x \in Bytes(Run(b))
      <3> HIDE DEF Run, heads, runs
      <3> QED
        BY <1>9 DEF BytesOf
    <2>2. \A x \in B : \E b \in heads : x \in Bytes(Run(b))
      <3> HIDE DEF Run, heads, runs
      <3> QED
        BY <1>6, <1>7
    <2> HIDE DEF Run, heads, runs
    <2> QED
      BY <1>6, <2>1, <2>2
  <1>12. ASSUME NEW j \in DOMAIN runs, NEW k \in DOMAIN runs, j < k PROVE End(runs[j]) < runs[k].start
    <2>1. j \in 1 .. n /\ k \in 1 .. n /\ runs[j] = Run(f[j]) /\ runs[k] = Run(f[k])
      BY <1>4, <1>5
    <2>2. f[j] \in heads /\ f[k] \in heads /\ f[j] < f[k]
      BY <1>4, <1>12, <2>1
    <2> HIDE DEF runs, Run, heads
    <2>3. Run(f[k]).start = f[k] /\ End(Run(f[j])) < f[k]
      BY <1>6, <2>2
    <2> QED
      BY <2>1, <2>3
  <1>13. IsLedger(runs)
    <2> HIDE DEF runs
    <2> QED
      BY <1>8, <1>12 DEF IsLedger
  <1> QED
    BY <1>1, <1>8, <1>10, <1>11, <1>13

----------------------------------------------------------------------------
(* The claims in bounds, sorted, and the walk along them. *)

\* Claims in order of start, then end.
Ascending(s) ==
    /\ s \in Seq(ClaimSet)
    /\ \A i, j \in 1 .. Len(s) :
          i < j => s[i].start < s[j].start \/ (s[i].start = s[j].start /\ s[i].len <= s[j].len)

\* sort_by puts the claims in order and neither loses nor adds one.
LEMMA SortedAscends ==
    ASSUME NEW D \in SUBSET Nat, IsFiniteSet(D), NEW c \in [D -> ClaimSet]
    PROVE  /\ Ascending(Sorted(c))
           /\ \A k \in 1 .. Len(Sorted(c)) : \E i \in D : Sorted(c)[k] = c[i]
           /\ \A i \in D : \E k \in 1 .. Len(Sorted(c)) : Sorted(c)[k] = c[i]
  <1> DEFINE key == [k \in D |-> <<c[k].start, c[k].len, k>>]
             keys == {<<c[k].start, c[k].len, k>> : k \in DOMAIN c}
             Before(a, b) == \/ a[1] < b[1]
                             \/ a[1] = b[1] /\ a[2] < b[2]
                             \/ a[1] = b[1] /\ a[2] = b[2] /\ a[3] < b[3]
             L == {q \in keys \X keys : Before(q[1], q[2])}
             v == [b \in keys |-> b[3]]
             order == Arranged({<<Cardinality({a \in keys : Before(a, b)}), b[3]>> : b \in keys})
             listed == Arranged(Ranks(keys, L, v))
             n == Cardinality(keys)
             s == [k \in DOMAIN order |-> c[order[k]]]
  <1>1. Sorted(c) = s
    BY DEF Sorted
  <1>2. \A q \in keys : /\ q[3] \in D /\ q = <<c[q[3]].start, c[q[3]].len, q[3]>>
                        /\ q[1] = c[q[3]].start /\ q[2] = c[q[3]].len
                        /\ q[1] \in Nat /\ q[2] \in Nat /\ q[3] \in Nat
    <2>1. \A k \in D : c[k] \in ClaimSet /\ c[k].start \in Nat /\ c[k].len \in Nat
      BY DEF ClaimSet
    <2>2. ASSUME NEW q \in keys PROVE \E k \in D : q = <<c[k].start, c[k].len, k>>
      OBVIOUS
    <2> HIDE DEF keys
    <2> QED
      BY <2>1, <2>2
  <1>3. \A k \in D : key[k] \in keys /\ key[k][3] = k
    OBVIOUS
  <1>4. IsFiniteSet(keys)
    <2>1. key \in Surjection(D, keys)
      BY <1>3 DEF Surjection
    <2> HIDE DEF key, keys
    <2> QED
      BY <2>1, FS_Surjection
  <1> HIDE DEF key, keys
  <1>5. \A a, b \in keys : <<a, b>> \in L <=> Before(a, b)
    OBVIOUS
  <1>6. order = listed
    <2>1. ASSUME NEW b \in keys
          PROVE  {a \in keys : Before(a, b)} = {a \in keys : <<a, b>> \in L} /\ v[b] = b[3]
      <3> HIDE DEF L, Before
      <3> QED
        BY <1>5
    <2> HIDE DEF L, v, Before
    <2> DEFINE P(b) == <<Cardinality({a \in keys : Before(a, b)}), b[3]>>
               Q(b) == <<Cardinality({a \in keys : <<a, b>> \in L}), v[b]>>
    <2>2. ASSUME NEW b \in keys PROVE P(b) = Q(b)
      BY <2>1
    <2>3. {P(b) : b \in keys} = {Q(b) : b \in keys}
      <3> HIDE DEF P, Q
      <3> QED
        BY <2>2
    <2> QED
      BY <2>3 DEF Ranks
  <1>7. PICK f : Lists(listed, keys, L, v, f)
    <2>1. \A a \in keys : ~Before(a, a)
      BY <1>2
    <2>2. \A a, b \in keys : a = b \/ Before(a, b) \/ Before(b, a)
      <3> SUFFICES ASSUME NEW a \in keys, NEW b \in keys, ~Before(a, b), ~Before(b, a) PROVE a = b
        OBVIOUS
      <3>1. /\ a[1] \in Nat /\ a[2] \in Nat /\ a[3] \in Nat
            /\ b[1] \in Nat /\ b[2] \in Nat /\ b[3] \in Nat
        BY <1>2
      <3>2. a[3] = b[3]
        BY <3>1
      <3> HIDE DEF Before
      <3> QED
        BY <1>2, <3>2
    <2>3. \A a, b, d \in keys : Before(a, b) /\ Before(b, d) => Before(a, d)
      <3> SUFFICES ASSUME NEW a \in keys, NEW b \in keys, NEW d \in keys, Before(a, b), Before(b, d)
                   PROVE  Before(a, d)
        OBVIOUS
      <3>1. /\ a[1] \in Nat /\ a[2] \in Nat /\ a[3] \in Nat
            /\ b[1] \in Nat /\ b[2] \in Nat /\ b[3] \in Nat
            /\ d[1] \in Nat /\ d[2] \in Nat /\ d[3] \in Nat
        BY <1>2
      <3> QED
        BY <3>1
    <2> HIDE DEF L, v, Before
    <2>4. /\ \A a \in keys : <<a, a>> \notin L
          /\ \A a, b \in keys : a = b \/ <<a, b>> \in L \/ <<b, a>> \in L
          /\ \A a, b, d \in keys : <<a, b>> \in L /\ <<b, d>> \in L => <<a, d>> \in L
      BY <1>5, <2>1, <2>2, <2>3
    <2> QED
      BY <1>4, <2>4, Ranked
  <1> HIDE DEF listed, L, Before, order
  <1>8. /\ n \in Nat /\ DOMAIN order = 1 .. n
        /\ f \in [1 .. n -> keys]
        /\ \A b \in keys : \E k \in 1 .. n : f[k] = b
        /\ \A k \in 1 .. n : order[k] = v[f[k]]
        /\ \A j, k \in 1 .. n : j < k => <<f[j], f[k]>> \in L
    BY <1>6, <1>7 DEF Lists
  <1> HIDE DEF n
  <1>9. ASSUME NEW k \in 1 .. n
        PROVE  /\ f[k] \in keys /\ order[k] = f[k][3] /\ f[k][3] \in D
               /\ s[k] = c[f[k][3]] /\ s[k] \in ClaimSet
               /\ s[k].start = f[k][1] /\ s[k].len = f[k][2]
    <2>1. f[k] \in keys /\ order[k] = f[k][3]
      BY <1>8
    <2>2. f[k][3] \in D /\ c[f[k][3]].start = f[k][1] /\ c[f[k][3]].len = f[k][2]
      BY <1>2, <2>1
    <2>3. s[k] = c[f[k][3]]
      BY <1>8, <2>1
    <2>4. c[f[k][3]] \in ClaimSet
      BY <2>2
    <2> HIDE DEF s
    <2> QED
      BY <2>1, <2>2, <2>3, <2>4
  <1>10. s \in Seq(ClaimSet) /\ Len(s) = n
    <2>1. DOMAIN s = 1 .. n /\ s = [k \in 1 .. n |-> s[k]]
      BY <1>8
    <2> HIDE DEF s
    <2>2. s \in [1 .. n -> ClaimSet]
      BY <1>9, <2>1
    <2> QED
      BY <1>8, <2>2, SeqDef, LenProperties
  <1> HIDE DEF s
  <1>11. Ascending(s)
    <2>1. ASSUME NEW i \in 1 .. n, NEW j \in 1 .. n, i < j
          PROVE  s[i].start < s[j].start \/ (s[i].start = s[j].start /\ s[i].len <= s[j].len)
      <3>1. f[i] \in keys /\ f[j] \in keys /\ Before(f[i], f[j])
        BY <1>5, <1>8, <1>9, <2>1
      <3>2. f[i][2] \in Nat /\ f[j][2] \in Nat
        BY <1>2, <3>1
      <3> QED
        BY <1>9, <3>1, <3>2 DEF Before
    <2> QED
      BY <1>10, <2>1 DEF Ascending
  <1>12. \A k \in 1 .. n : \E i \in D : s[k] = c[i]
    BY <1>9
  <1>13. ASSUME NEW i \in D PROVE \E k \in 1 .. n : s[k] = c[i]
    <2>1. key[i] \in keys /\ key[i][3] = i
      BY <1>3
    <2>2. PICK k \in 1 .. n : f[k] = key[i]
      BY <1>8, <2>1
    <2> QED
      BY <1>9, <2>1, <2>2
  <1> QED
    BY <1>1, <1>10, <1>11, <1>12, <1>13

\* What the walk is given: every claim that starts in the file, cut to it.
LEMMA InBoundsAscends ==
    ASSUME NEW cs \in Seq(ClaimSet), NEW fileLen \in Nat
    PROVE  LET s == InBounds(cs, fileLen) IN
           /\ Ascending(s)
           /\ \A k \in 1 .. Len(s) : \E i \in DOMAIN cs : cs[i].start < fileLen /\ s[k] = Clamp(cs[i], fileLen)
           /\ \A i \in DOMAIN cs : cs[i].start < fileLen => \E k \in 1 .. Len(s) : s[k] = Clamp(cs[i], fileLen)
  <1> DEFINE D == {i \in DOMAIN cs : cs[i].start < fileLen}
             c == [k \in D |-> Clamp(cs[k], fileLen)]
             s == InBounds(cs, fileLen)
  <1>1. s = Sorted(c)
    BY DEF InBounds
  <1>2. Len(cs) \in Nat /\ DOMAIN cs = 1 .. Len(cs) /\ \A i \in 1 .. Len(cs) : cs[i] \in ClaimSet
    BY LenProperties, ElementOfSeq
  <1>3. D \in SUBSET Nat /\ IsFiniteSet(D)
    <2>1. IsFiniteSet(1 .. Len(cs))
      BY <1>2, FS_Interval
    <2>2. D \in SUBSET (1 .. Len(cs)) /\ D \in SUBSET Nat
      BY <1>2
    <2> HIDE DEF D
    <2> QED
      BY <1>2, <2>1, <2>2, FS_Subset
  <1>4. ASSUME NEW k \in D PROVE Clamp(cs[k], fileLen) \in ClaimSet
    <2> DEFINE x == cs[k]
               S == {x.len, fileLen - x.start}
    <2>1. x \in ClaimSet /\ x.start < fileLen
      BY <1>2
    <2> HIDE DEF x
    <2>2. x.len \in Nat \ {0} /\ x.start \in Nat /\ fileLen - x.start \in Nat \ {0}
      BY <2>1 DEF ClaimSet
    <2>3. Min(S) \in S
      <3>1. S \in SUBSET Nat /\ S # {}
        BY <2>2
      <3> HIDE DEF S
      <3> QED
        BY <3>1, LeastOf
    <2>4. Min(S) \in Nat \ {0}
      BY <2>2, <2>3
    <2>5. [x EXCEPT !.len = Min(S)] \in ClaimSet
      <3> HIDE DEF S
      <3> QED
        BY <2>1, <2>4 DEF ClaimSet
    <2> QED
      BY <2>5 DEF Clamp, x
  <1>5. c \in [D -> ClaimSet] /\ \A i \in D : c[i] = Clamp(cs[i], fileLen)
    BY <1>4
  <1> HIDE DEF c
  <1>6. /\ Ascending(s)
        /\ \A k \in 1 .. Len(s) : \E i \in D : s[k] = c[i]
        /\ \A i \in D : \E k \in 1 .. Len(s) : s[k] = c[i]
    <2> HIDE DEF D, s
    <2> QED
      BY <1>1, <1>3, <1>5, SortedAscends
  <1> HIDE DEF s
  <1> QED
    BY <1>5, <1>6 DEF s

\* The sorted walk, from nothing and one claim at a time.
Walks(w, s) ==
    /\ w[0] = Nothing
    /\ \A k \in 1 .. Len(s) : w[k] = PlaceClaim(w[k - 1], s[k])

\* What the report says of the claims s in bounds, which the walk has placed as p.
Resolves(report, cs, fileLen, reads, s, p) ==
    /\ report.conflicts = p.conflicts
    /\ report.unclassified = Unclassified(p.covered, fileLen)
    /\ report.out_of_bounds = {c \in ToSet(cs) : End(c) > fileLen}
    /\ report.unclaimed_reads = Subtract(reads, p.covered)
    /\ report.unread_claims = {c \in ToSet(s) : c.parsed /\ ~Holds(reads, c)}

\* Finish walks: its recursion has a solution.
LEMMA FinishWalks ==
    ASSUME NEW cs, NEW fileLen, NEW reads, Len(InBounds(cs, fileLen)) \in Nat
    PROVE  \E w : /\ Walks(w, InBounds(cs, fileLen))
                  /\ Resolves(Finish(cs, fileLen, reads), cs, fileLen, reads,
                              InBounds(cs, fileLen), w[Len(InBounds(cs, fileLen))])
  <1> DEFINE s == InBounds(cs, fileLen)
             n == Len(s)
             Eq(f, m) == f = [k \in 0 .. m |-> IF k = 0 THEN Nothing ELSE PlaceClaim(f[k - 1], s[k])]
             C == CHOOSE f : Eq(f, n)
             H == {m \in 0 .. n : \E f : Eq(f, m)}
  <1>1. n \in Nat
    OBVIOUS
  <1>2. Resolves(Finish(cs, fileLen, reads), cs, fileLen, reads, s, C[n])
    BY DEF Finish, Resolves
  <1> HIDE DEF s, n
  <1>3. 0 \in H
    <2> DEFINE g == [k \in 0 .. 0 |-> Nothing]
    <2>1. g = [k \in 0 .. 0 |-> IF k = 0 THEN Nothing ELSE PlaceClaim(g[k - 1], s[k])]
      OBVIOUS
    <2>2. Eq(g, 0)
      BY <2>1
    <2> HIDE DEF g, Eq
    <2> QED
      BY <1>1, <2>2
  <1>4. ASSUME NEW m \in 1 .. n, m - 1 \in H PROVE m \in H
    <2>1. PICK f : Eq(f, m - 1)
      BY <1>4
    <2> DEFINE g == [k \in 0 .. m |-> IF k < m THEN f[k] ELSE PlaceClaim(f[m - 1], s[m])]
               e == [k \in 0 .. m |-> IF k = 0 THEN Nothing ELSE PlaceClaim(g[k - 1], s[k])]
    <2>2. \A k \in 0 .. m - 1 : f[k] = IF k = 0 THEN Nothing ELSE PlaceClaim(f[k - 1], s[k])
      BY <2>1
    <2>3. ASSUME NEW k \in 0 .. m PROVE g[k] = e[k]
      <3>1. CASE k < m
        <4>1. k \in 0 .. m - 1 /\ (k # 0 => k - 1 \in 0 .. m /\ k - 1 < m)
          BY <3>1
        <4>2. g[k] = f[k] /\ (k # 0 => g[k - 1] = f[k - 1])
          BY <3>1, <4>1
        <4>3. e[k] = IF k = 0 THEN Nothing ELSE PlaceClaim(g[k - 1], s[k])
          OBVIOUS
        <4> HIDE DEF g, e
        <4> QED
          BY <2>2, <4>1, <4>2, <4>3
      <3>2. CASE ~(k < m)
        <4>1. k = m /\ k # 0 /\ k - 1 \in 0 .. m /\ k - 1 < m
          BY <3>2
        <4>2. g[k] = PlaceClaim(f[m - 1], s[m]) /\ g[k - 1] = f[k - 1]
          BY <4>1
        <4>3. e[k] = PlaceClaim(g[k - 1], s[k])
          BY <4>1
        <4> HIDE DEF g, e
        <4> QED
          BY <4>1, <4>2, <4>3
      <3> QED
        BY <3>1, <3>2
    <2>4. g = [k \in 0 .. m |-> g[k]] /\ e = [k \in 0 .. m |-> e[k]]
      OBVIOUS
    <2>5. g = e
      <3> HIDE DEF g, e
      <3> QED
        BY <2>3, <2>4
    <2>6. Eq(g, m)
      BY <2>5
    <2> HIDE DEF g, Eq
    <2> QED
      BY <2>6
  <1>5. n \in H
    <2>1. \A m \in 1 .. n : m - 1 \in H => m \in H
      BY <1>4
    <2> HIDE DEF H
    <2>2. \A m \in 0 .. n : m \in H
      BY <1>1, <1>3, <2>1, UpTo
    <2> QED
      BY <1>1, <2>2
  <1>6. Eq(C, n)
    <2>1. \E f : Eq(f, n)
      BY <1>5
    <2> HIDE DEF Eq
    <2> QED
      BY <2>1
  <1>7. Walks(C, s)
    <2> HIDE DEF C
    <2>1. \A k \in 0 .. n : C[k] = IF k = 0 THEN Nothing ELSE PlaceClaim(C[k - 1], s[k])
      BY <1>6
    <2>2. \A k \in 1 .. n : k \in 0 .. n /\ k # 0
      BY <1>1
    <2> QED
      BY <1>1, <2>1, <2>2 DEF Walks, n
  <1> HIDE DEF C
  <1> QED
    BY <1>2, <1>7 DEF s, n

\* A byte is in one of a sequence of ranges.
LEMMA BytesOfSeq ==
    ASSUME NEW A, NEW s \in Seq(A), NEW b
    PROVE  b \in BytesOf(ToSet(s)) <=> \E k \in 1 .. Len(s) : b \in Bytes(s[k])
  <1>1. DOMAIN s = 1 .. Len(s)
    BY LenProperties
  <1> QED
    BY <1>1 DEF BytesOf, ToSet

\* The union gains a run of its own.
LEMMA AppendBytes ==
    ASSUME NEW A, NEW s \in Seq(A), NEW r \in A
    PROVE  /\ Append(s, r) \in Seq(A) /\ Append(s, r) # <<>>
           /\ Len(Append(s, r)) = Len(s) + 1 /\ Append(s, r)[Len(s) + 1] = r
           /\ BytesOf(ToSet(Append(s, r))) = BytesOf(ToSet(s)) \cup Bytes(r)
  <1> DEFINE t == Append(s, r)
             n == Len(s)
  <1>1. /\ t \in Seq(A) /\ t # <<>> /\ Len(t) = n + 1 /\ t[n + 1] = r /\ n \in Nat
        /\ \A i \in 1 .. n : t[i] = s[i]
    BY AppendProperties, LenProperties
  <1>2. \A b : b \in BytesOf(ToSet(s)) <=> \E k \in 1 .. n : b \in Bytes(s[k])
    BY BytesOfSeq
  <1> HIDE DEF t
  <1>3. \A b : b \in BytesOf(ToSet(t)) <=> \E k \in 1 .. n + 1 : b \in Bytes(t[k])
    BY <1>1, BytesOfSeq
  <1> HIDE DEF n
  <1>4. \A b : (\E k \in 1 .. n + 1 : b \in Bytes(t[k]))
                  <=> (\E k \in 1 .. n : b \in Bytes(s[k])) \/ b \in Bytes(r)
    <2> TAKE b
    <2>1. \A k \in 1 .. n : k \in 1 .. n + 1 /\ t[k] = s[k]
      BY <1>1
    <2>2. n + 1 \in 1 .. n + 1 /\ \A k \in 1 .. n + 1 : k = n + 1 \/ k \in 1 .. n
      BY <1>1
    <2> QED
      BY <1>1, <2>1, <2>2
  <1>5. BytesOf(ToSet(t)) = BytesOf(ToSet(s)) \cup Bytes(r)
    BY <1>2, <1>3, <1>4
  <1> QED
    BY <1>1, <1>5 DEF t, n

\* The last run of the union gains what a range adds that starts within it or at its end.
LEMMA ExtendBytes ==
    ASSUME NEW s \in Seq(SpanSet), s # <<>>, NEW r \in SpanSet, NEW e \in Nat,
           s[Len(s)].start <= r.start, r.start <= End(s[Len(s)]),
           e >= End(s[Len(s)]), e >= End(r), e = End(s[Len(s)]) \/ e = End(r),
           NEW u, u = [s EXCEPT ![Len(s)].len = e - s[Len(s)].start]
    PROVE  /\ u \in Seq(SpanSet) /\ u # <<>> /\ Len(u) = Len(s)
           /\ u[Len(s)].start = s[Len(s)].start /\ End(u[Len(s)]) = e
           /\ BytesOf(ToSet(u)) = BytesOf(ToSet(s)) \cup Bytes(r)
  <1> DEFINE n == Len(s)
             last == s[n]
             x == [last EXCEPT !.len = e - last.start]
             t == [s EXCEPT ![n] = x]
  <1>1. n \in Nat /\ n >= 1 /\ last \in SpanSet /\ DOMAIN s = 1 .. n
    BY LenProperties, EmptySeq, ElementOfSeq
  <1>2. u = t
    OBVIOUS
  <1> HIDE DEF n, last
  <1>3. /\ last.start \in Nat /\ last.len \in Nat \ {0} /\ End(last) = last.start + last.len
        /\ r.start \in Nat /\ r.len \in Nat \ {0} /\ End(r) = r.start + r.len
    BY <1>1 DEF SpanSet, End
  <1>4. /\ last.start <= r.start /\ r.start <= End(last)
        /\ e >= End(last) /\ e >= End(r) /\ (e = End(last) \/ e = End(r))
    BY DEF last, n
  <1>5. e - last.start \in Nat \ {0}
    BY <1>3, <1>4
  <1>6. x \in SpanSet /\ x.start = last.start /\ End(x) = e
    <2>1. x \in SpanSet /\ x.start = last.start /\ x.len = e - last.start
      BY <1>1, <1>5 DEF SpanSet
    <2> HIDE DEF x
    <2> QED
      BY <1>3, <2>1 DEF End
  <1>7. \A b : b \in Bytes(x) <=> b \in Bytes(last) \/ b \in Bytes(r)
    <2>1. \A b : b \in Bytes(x) <=> b \in Int /\ last.start <= b /\ b < e
      BY <1>3, <1>6 DEF Bytes
    <2>2. \A b : b \in Bytes(last) <=> b \in Int /\ last.start <= b /\ b < End(last)
      BY <1>3 DEF Bytes
    <2>3. \A b : b \in Bytes(r) <=> b \in Int /\ r.start <= b /\ b < End(r)
      BY <1>3 DEF Bytes
    <2> HIDE DEF x
    <2> QED
      BY <1>3, <1>4, <2>1, <2>2, <2>3
  <1> HIDE DEF x
  <1>8. /\ t \in Seq(SpanSet) /\ Len(t) = n /\ t # <<>> /\ t[n] = x
        /\ \A k \in 1 .. n : t[k] = IF k = n THEN x ELSE s[k]
    <2>1. t \in Seq(SpanSet) /\ Len(t) = n /\ \A k \in 1 .. n : t[k] = IF k = n THEN x ELSE s[k]
      BY <1>1, <1>6, ExceptSeq, LenProperties DEF n
    <2> HIDE DEF t
    <2> QED
      BY <1>1, <2>1, EmptySeq
  <1> HIDE DEF t
  <1>9. \A b : b \in BytesOf(ToSet(s)) <=> \E k \in 1 .. n : b \in Bytes(s[k])
    BY BytesOfSeq DEF n
  <1>10. \A b : b \in BytesOf(ToSet(t)) <=> \E k \in 1 .. n : b \in Bytes(t[k])
    BY <1>8, BytesOfSeq
  <1>11. \A b : (\E k \in 1 .. n : b \in Bytes(t[k]))
                   <=> (\E k \in 1 .. n : b \in Bytes(s[k])) \/ b \in Bytes(r)
    <2> TAKE b
    <2>1. n \in 1 .. n /\ s[n] = last
      BY <1>1 DEF last
    <2> QED
      BY <1>7, <1>8, <2>1
  <1>12. BytesOf(ToSet(t)) = BytesOf(ToSet(s)) \cup Bytes(r)
    BY <1>9, <1>10, <1>11
  <1> QED
    BY <1>2, <1>6, <1>8, <1>12 DEF n, last

\* The segment blamed for a conflict is the last that reaches the claim.
LEMMA LastReachingIs ==
    ASSUME NEW acc, NEW A, acc.segments \in Seq(A), NEW c,
           NEW j \in 1 .. Len(acc.segments), End(acc.segments[j]) > c.start
    PROVE  /\ LastReaching(acc, c) \in 1 .. Len(acc.segments)
           /\ End(acc.segments[LastReaching(acc, c)]) > c.start
  <1> DEFINE s == acc.segments
             n == Len(s)
             S == {i \in 1 .. n : End(s[i]) > c.start}
  <1>1. n \in Nat
    BY LenProperties
  <1>2. S \in SUBSET Nat /\ S # {} /\ \A x \in S : x <= n
    BY <1>1
  <1>3. LastReaching(acc, c) = Max(S)
    <2>1. S # {}
      BY <1>2
    <2> QED
      BY <2>1 DEF LastReaching, SelectLastInSeq
  <1>4. Max(S) \in S
    <2> HIDE DEF S
    <2> QED
      BY <1>1, <1>2, GreatestOf
  <1> QED
    BY <1>3, <1>4

\* The union after the first k claims: its runs are in order and apart, its bytes are theirs, and
\* its last run, which ends where one of them ends and none of them ends later, starts no later
\* than the last of them.
Covers(covered, s, k) ==
    /\ IsLedger(covered)
    /\ k = 0 => covered = <<>>
    /\ \A b : b \in BytesOf(ToSet(covered)) <=> \E i \in 1 .. k : b \in Bytes(s[i])
    /\ k >= 1 => /\ covered # <<>>
                 /\ covered[Len(covered)].start <= s[k].start
                 /\ \A i \in 1 .. k : End(s[i]) <= End(covered[Len(covered)])
                 /\ \E i \in 1 .. k : End(s[i]) = End(covered[Len(covered)])

\* The segments have the extents of the first k claims.
Names(segments, s, k) ==
    /\ segments \in Seq(ClaimSet)
    /\ \A j \in 1 .. Len(segments) : \E i \in 1 .. k : Extent(segments[j]) = Extent(s[i])
    /\ \A i \in 1 .. k : \E j \in 1 .. Len(segments) : Extent(segments[j]) = Extent(s[i])

\* Conflicts name ranges that overlap, and there is one iff two of the first k claims do.
Blames(conflicts, s, k) ==
    /\ conflicts \in Seq(SpanSet \X SpanSet)
    /\ \A j \in 1 .. Len(conflicts) : Overlap(conflicts[j][1], conflicts[j][2])
    /\ conflicts # <<>> <=> \E h, i \in 1 .. k : Overlap(Extent(s[h]), Extent(s[i]))

Accs == [prev : [start : Nat, len : Nat], segments : Seq(ClaimSet), covered : Seq(SpanSet),
         conflicts : Seq(SpanSet \X SpanSet), shared : SUBSET SpanSet]

\* The walk after the first k claims.
Walked(acc, s, k) ==
    /\ acc \in Accs
    /\ acc.prev = IF k = 0 THEN Span(0, 0) ELSE Extent(s[k])
    /\ Covers(acc.covered, s, k) /\ Names(acc.segments, s, k) /\ Blames(acc.conflicts, s, k)

\* A claim and its extent have the same bytes.
LEMMA ClaimParts ==
    ASSUME NEW c \in ClaimSet
    PROVE  /\ c.start \in Nat /\ c.len \in Nat \ {0} /\ End(c) = c.start + c.len /\ End(c) \in Nat
           /\ c.start < End(c)
           /\ Extent(c) \in SpanSet /\ Extent(c).start = c.start /\ Extent(c).len = c.len
           /\ End(Extent(c)) = End(c) /\ Bytes(Extent(c)) = Bytes(c)
           /\ \A b : b \in Bytes(c) <=> b \in Int /\ c.start <= b /\ b < End(c)
  <1>1. c.start \in Nat /\ c.len \in Nat \ {0} /\ End(c) = c.start + c.len
    BY DEF ClaimSet, End
  <1>2. Extent(c) = [start |-> c.start, len |-> c.len]
    BY DEF Extent, Span
  <1>3. Extent(c) \in SpanSet /\ Extent(c).start = c.start /\ Extent(c).len = c.len
    BY <1>1, <1>2 DEF SpanSet
  <1>4. End(Extent(c)) = End(c) /\ Bytes(Extent(c)) = Bytes(c)
    BY <1>1, <1>3 DEF End, Bytes
  <1>5. \A b : b \in Bytes(c) <=> b \in Int /\ c.start <= b /\ b < End(c)
    BY <1>1 DEF Bytes
  <1> QED
    BY <1>1, <1>3, <1>4, <1>5

\* The greater of two numbers.
LEMMA GreaterOf == ASSUME NEW a \in Nat, NEW b \in Nat
                   PROVE  /\ Max({a, b}) \in {a, b} /\ Max({a, b}) \in Nat
                          /\ Max({a, b}) >= a /\ Max({a, b}) >= b
  <1> DEFINE S == {a, b}
  <1>1. S \in SUBSET Nat /\ S # {} /\ a + b \in Nat /\ \A x \in S : x <= a + b
    OBVIOUS
  <1>2. Max(S) \in S /\ \A x \in S : x <= Max(S)
    <2> HIDE DEF S
    <2> QED
      BY <1>1, GreatestOf
  <1>3. a \in S /\ b \in S
    OBVIOUS
  <1>4. Max(S) >= a /\ Max(S) >= b /\ Max(S) \in Nat
    <2> HIDE DEF S
    <2> QED
      BY <1>1, <1>2, <1>3
  <1> QED
    BY <1>2, <1>4

\* A claim with the extent of the one before changes nothing the walk counts.
LEMMA WalkedShared ==
    ASSUME NEW s, Ascending(s), NEW k \in 1 .. Len(s), NEW acc, Walked(acc, s, k - 1),
           Extent(s[k]) = acc.prev
    PROVE  Walked(PlaceClaim(acc, s[k]), s, k)
  <1> DEFINE r == Extent(s[k])
             new == PlaceClaim(acc, s[k])
  <1>1. Len(s) \in Nat /\ k \in Nat /\ \A i \in 1 .. Len(s) : s[i] \in ClaimSet
    BY LenProperties, ElementOfSeq DEF Ascending
  <1>2. r \in SpanSet /\ r.len # 0
    <2>1. s[k] \in ClaimSet
      BY <1>1
    <2> QED
      BY <2>1, ClaimParts
  <1>3. k >= 2 /\ acc.prev = Extent(s[k - 1])
    <2>1. Span(0, 0).len = 0
      BY DEF Span
    <2>2. acc.prev # Span(0, 0)
      BY <1>2, <2>1
    <2> QED
      BY <1>1, <2>2 DEF Walked
  <1>4. k - 1 \in 1 .. Len(s) /\ k - 1 \in 1 .. k - 1 /\ k - 1 >= 1 /\ k >= 1 /\ k # 0
    BY <1>1, <1>3
  <1>5. /\ Extent(s[k]) = Extent(s[k - 1]) /\ Bytes(s[k]) = Bytes(s[k - 1])
        /\ End(s[k]) = End(s[k - 1]) /\ s[k].start = s[k - 1].start
    <2>1. s[k] \in ClaimSet /\ s[k - 1] \in ClaimSet
      BY <1>1, <1>4
    <2>2. /\ Extent(s[k]).start = s[k].start /\ End(Extent(s[k])) = End(s[k])
          /\ Bytes(Extent(s[k])) = Bytes(s[k])
      BY <2>1, ClaimParts
    <2>3. /\ Extent(s[k - 1]).start = s[k - 1].start /\ End(Extent(s[k - 1])) = End(s[k - 1])
          /\ Bytes(Extent(s[k - 1])) = Bytes(s[k - 1])
      BY <2>1, ClaimParts
    <2> QED
      BY <1>3, <2>2, <2>3
  <1>6. \A i \in 1 .. k - 1 : i \in 1 .. k
    BY <1>1
  <1>7. \A i \in 1 .. k : i = k \/ i \in 1 .. k - 1
    BY <1>1
  <1>8. new = [acc EXCEPT !.shared = @ \cup {r}]
    BY DEF PlaceClaim, Place
  <1>9. /\ new \in Accs /\ new.prev = acc.prev /\ new.covered = acc.covered
        /\ new.segments = acc.segments /\ new.conflicts = acc.conflicts
    <2>1. acc \in Accs
      BY DEF Walked
    <2> HIDE DEF new, r
    <2> QED
      BY <1>2, <1>8, <2>1 DEF Accs
  <1> HIDE DEF new
  <1>10. Covers(acc.covered, s, k)
    <2>1. Covers(acc.covered, s, k - 1)
      BY DEF Walked
    <2> QED
      BY <1>4, <1>5, <1>6, <1>7, <2>1 DEF Covers
  <1>11. Names(acc.segments, s, k)
    <2>1. Names(acc.segments, s, k - 1)
      BY DEF Walked
    <2> QED
      BY <1>4, <1>5, <1>6, <1>7, <2>1 DEF Names
  <1>12. Blames(acc.conflicts, s, k)
    <2>1. Blames(acc.conflicts, s, k - 1)
      BY DEF Walked
    <2> QED
      BY <1>4, <1>5, <1>6, <1>7, <2>1 DEF Blames
  <1> QED
    BY <1>4, <1>9, <1>10, <1>11, <1>12 DEF Walked, new

\* One more claim, as a segment of its own.
LEMMA NamesMore ==
    ASSUME NEW s, Ascending(s), NEW k \in 1 .. Len(s), NEW g, Names(g, s, k - 1)
    PROVE  Names(Append(g, s[k]), s, k)
  <1> DEFINE t == Append(g, s[k])
             n == Len(g)
  <1>1. Len(s) \in Nat /\ k \in Nat /\ s[k] \in ClaimSet
    BY LenProperties, ElementOfSeq DEF Ascending
  <1>2. /\ t \in Seq(ClaimSet) /\ Len(t) = n + 1 /\ t[n + 1] = s[k] /\ n \in Nat
        /\ \A j \in 1 .. n : t[j] = g[j]
    BY <1>1, AppendProperties, LenProperties DEF Names
  <1> HIDE DEF t
  <1>3. ASSUME NEW j \in 1 .. Len(t) PROVE \E i \in 1 .. k : Extent(t[j]) = Extent(s[i])
    <2>1. CASE j = n + 1
      BY <1>1, <1>2, <2>1
    <2>2. CASE j # n + 1
      <3>1. j \in 1 .. n /\ t[j] = g[j]
        BY <1>2, <2>2
      <3>2. PICK i \in 1 .. k - 1 : Extent(g[j]) = Extent(s[i])
        BY <3>1 DEF Names
      <3>3. i \in 1 .. k
        BY <1>1
      <3> QED
        BY <3>1, <3>2, <3>3
    <2> QED
      BY <2>1, <2>2
  <1>4. ASSUME NEW i \in 1 .. k PROVE \E j \in 1 .. Len(t) : Extent(t[j]) = Extent(s[i])
    <2>1. CASE i = k
      <3>1. n + 1 \in 1 .. Len(t)
        BY <1>2
      <3> QED
        BY <1>2, <2>1, <3>1
    <2>2. CASE i # k
      <3>1. i \in 1 .. k - 1
        BY <1>1, <2>2
      <3>2. PICK j \in 1 .. n : Extent(g[j]) = Extent(s[i])
        BY <3>1 DEF Names
      <3>3. j \in 1 .. Len(t) /\ t[j] = g[j]
        BY <1>2
      <3> QED
        BY <3>2, <3>3
    <2> QED
      BY <2>1, <2>2
  <1> QED
    BY <1>2, <1>3, <1>4 DEF Names, t

\* Claims come in order of their starts, so the union's last run, which starts no later than
\* the last claim, starts no later than the next one.
LEMMA InOrder ==
    ASSUME NEW s, Ascending(s), NEW k \in 1 .. Len(s)
    PROVE  /\ Len(s) \in Nat /\ k \in Nat /\ \A i \in 1 .. k : i \in 1 .. Len(s) /\ s[i] \in ClaimSet
           /\ \A i \in 1 .. k : s[i].start <= s[k].start
           /\ \A i \in 1 .. k : i = k \/ i \in 1 .. k - 1
           /\ \A i \in 1 .. k - 1 : i \in 1 .. k /\ i \in 1 .. Len(s)
  <1>1. Len(s) \in Nat /\ k \in Nat /\ \A i \in 1 .. Len(s) : s[i] \in ClaimSet /\ s[i].start \in Nat
    <2>1. Len(s) \in Nat /\ \A i \in 1 .. Len(s) : s[i] \in ClaimSet
      BY LenProperties, ElementOfSeq DEF Ascending
    <2> QED
      BY <2>1, ClaimParts
  <1>2. ASSUME NEW i \in 1 .. k PROVE s[i].start <= s[k].start
    <2>1. i \in 1 .. Len(s) /\ (i = k \/ i < k)
      BY <1>1
    <2>2. i < k => s[i].start < s[k].start \/ s[i].start = s[k].start
      BY <2>1 DEF Ascending
    <2> QED
      BY <1>1, <2>1, <2>2
  <1> QED
    BY <1>1, <1>2

\* A ledger gains a span past its end.
LEMMA LedgerGrows ==
    ASSUME NEW g, IsLedger(g), NEW r \in SpanSet, g = <<>> \/ r.start > End(g[Len(g)])
    PROVE  IsLedger(Append(g, r))
  <1> DEFINE t == Append(g, r)
             n == Len(g)
  <1>1. /\ n \in Nat
        /\ \A k \in 1 .. n : g[k].start \in Nat /\ End(g[k]) \in Nat /\ g[k].start < End(g[k])
        /\ \A i, k \in 1 .. n : i < k => End(g[i]) < g[k].start
    BY SpanParts
  <1>2. /\ t \in Seq(SpanSet) /\ Len(t) = n + 1 /\ t[n + 1] = r /\ \A i \in 1 .. n : t[i] = g[i]
    BY AppendProperties, LenProperties DEF IsLedger
  <1>3. r.start \in Nat
    BY DEF SpanSet
  <1>4. n # 0 => r.start > End(g[n])
    OBVIOUS
  <1> HIDE DEF t, n
  <1>5. DOMAIN t = 1 .. n + 1
    BY <1>2, LenProperties
  <1>6. ASSUME NEW i \in 1 .. n + 1, NEW k \in 1 .. n + 1, i < k PROVE End(t[i]) < t[k].start
    <2>1. i \in 1 .. n /\ t[i] = g[i]
      BY <1>1, <1>2, <1>6
    <2>2. CASE k \in 1 .. n
      BY <1>1, <1>2, <1>6, <2>1, <2>2
    <2>3. CASE k = n + 1
      <3>1. n \in 1 .. n /\ (i = n \/ i < n)
        BY <1>1, <2>1
      <3>2. End(g[i]) <= End(g[n])
        <4>1. /\ End(g[i]) \in Nat /\ g[n].start \in Nat /\ End(g[n]) \in Nat
              /\ g[n].start < End(g[n])
          BY <1>1, <2>1, <3>1
        <4>2. i < n => End(g[i]) < g[n].start
          BY <1>1, <2>1, <3>1
        <4> QED
          BY <3>1, <4>1, <4>2
      <3>3. End(g[n]) \in Nat /\ End(g[i]) \in Nat
        BY <1>1, <2>1, <3>1
      <3>4. t[k] = r
        BY <1>2, <2>3
      <3>5. n # 0 /\ r.start > End(g[n])
        BY <1>1, <1>4, <3>1
      <3> QED
        BY <1>3, <2>1, <3>2, <3>3, <3>4, <3>5
    <2> QED
      BY <1>1, <2>2, <2>3
  <1>7. IsLedger(t)
    BY <1>2, <1>5, <1>6 DEF IsLedger
  <1> QED
    BY <1>7 DEF t

\* The last span of a ledger may reach further.
LEMMA LedgerExtends ==
    ASSUME NEW g, IsLedger(g), NEW u \in Seq(SpanSet), Len(u) = Len(g), u[Len(g)].start = g[Len(g)].start,
           \A k \in 1 .. Len(g) : k # Len(g) => u[k] = g[k]
    PROVE  IsLedger(u)
  <1> DEFINE n == Len(g)
  <1>1. n \in Nat /\ \A i, k \in 1 .. n : i < k => End(g[i]) < g[k].start
    BY SpanParts
  <1>2. DOMAIN u = 1 .. n
    BY LenProperties
  <1>3. u[n].start = g[n].start /\ \A k \in 1 .. n : k # n => u[k] = g[k]
    OBVIOUS
  <1> HIDE DEF n
  <1>4. ASSUME NEW i \in 1 .. n, NEW k \in 1 .. n, i < k PROVE End(u[i]) < u[k].start
    <2>1. u[i] = g[i] /\ u[k].start = g[k].start
      BY <1>1, <1>3, <1>4
    <2> QED
      BY <1>1, <1>4, <2>1
  <1> QED
    BY <1>2, <1>4 DEF IsLedger

\* A claim past the end of the union starts a run of its own.
LEMMA CoversApart ==
    ASSUME NEW s, Ascending(s), NEW k \in 1 .. Len(s), NEW g, Covers(g, s, k - 1),
           g = <<>> \/ s[k].start > End(g[Len(g)])
    PROVE  Covers(Append(g, Extent(s[k])), s, k)
  <1> DEFINE r == Extent(s[k])
             t == Append(g, r)
  <1>1. /\ k \in Nat /\ k \in 1 .. k /\ s[k] \in ClaimSet
        /\ \A i \in 1 .. k : i = k \/ i \in 1 .. k - 1
        /\ \A i \in 1 .. k - 1 : i \in 1 .. k
    BY InOrder
  <1>2. r \in SpanSet /\ r.start = s[k].start /\ End(r) = End(s[k]) /\ Bytes(r) = Bytes(s[k])
    BY <1>1, ClaimParts
  <1> HIDE DEF r
  <1>3. /\ t \in Seq(SpanSet) /\ t # <<>> /\ Len(t) = Len(g) + 1 /\ t[Len(g) + 1] = r
        /\ BytesOf(ToSet(t)) = BytesOf(ToSet(g)) \cup Bytes(r)
    BY <1>2, AppendBytes DEF Covers, IsLedger
  <1>3a. IsLedger(t)
    BY <1>2, LedgerGrows DEF Covers
  <1> HIDE DEF t
  <1>4. t[Len(t)] = r
    BY <1>3
  <1>5. \A b : b \in BytesOf(ToSet(t)) <=> \E i \in 1 .. k : b \in Bytes(s[i])
    <2>1. \A b : b \in BytesOf(ToSet(g)) <=> \E i \in 1 .. k - 1 : b \in Bytes(s[i])
      BY DEF Covers
    <2> QED
      BY <1>1, <1>2, <1>3, <2>1
  <1>6. ASSUME NEW i \in 1 .. k PROVE End(s[i]) <= End(r)
    <2>1. End(s[k]) \in Nat /\ s[k].start \in Nat /\ s[k].start < End(s[k])
      BY <1>1, ClaimParts
    <2>2. CASE i = k
      BY <1>2, <2>1, <2>2
    <2>3. CASE i \in 1 .. k - 1
      <3>1. g # <<>> /\ End(s[i]) <= End(g[Len(g)]) /\ g \in Seq(SpanSet)
        <4>1. k - 1 # 0 /\ k - 1 >= 1
          BY <1>1, <2>3
        <4> QED
          BY <2>3, <4>1 DEF Covers, IsLedger
      <3>2. g[Len(g)] \in SpanSet
        <4>1. Len(g) \in 1 .. Len(g)
          BY <3>1, LenProperties, EmptySeq
        <4> QED
          BY <3>1, <4>1, ElementOfSeq
      <3>3. End(g[Len(g)]) \in Nat
        BY <3>2 DEF SpanSet, End
      <3>4. s[i] \in ClaimSet
        BY <2>3, InOrder
      <3>5. End(s[i]) \in Nat
        BY <3>4, ClaimParts
      <3> QED
        BY <1>2, <2>1, <3>1, <3>3, <3>5
    <2> QED
      BY <1>1, <2>2, <2>3
  <1>7. t[Len(t)].start <= s[k].start
    <2>1. s[k].start \in Nat
      BY <1>1, ClaimParts
    <2> QED
      BY <1>2, <1>4, <2>1
  <1>8. \E i \in 1 .. k : End(s[i]) = End(t[Len(t)])
    BY <1>1, <1>2, <1>4
  <1>9. k # 0
    OBVIOUS
  <1>10. Covers(t, s, k)
    BY <1>3, <1>4, <1>5, <1>6, <1>7, <1>8, <1>9, <1>3a DEF Covers
  <1> QED
    BY <1>10 DEF t, r

\* What the last run of the union is when there is one.
LEMMA LastRun ==
    ASSUME NEW s, Ascending(s), NEW k \in 1 .. Len(s), NEW g, Covers(g, s, k - 1), g # <<>>
    PROVE  /\ k - 1 \in 1 .. k - 1 /\ k - 1 \in 1 .. Len(s)
           /\ g[Len(g)] \in SpanSet /\ g[Len(g)].start \in Nat /\ End(g[Len(g)]) \in Nat
           /\ g[Len(g)].start <= s[k].start
           /\ \A i \in 1 .. k - 1 : End(s[i]) <= End(g[Len(g)])
           /\ \E i \in 1 .. k - 1 : End(s[i]) = End(g[Len(g)])
  <1>1. k - 1 \in 1 .. k - 1 /\ k - 1 \in 1 .. Len(s) /\ k - 1 >= 1
    <2>1. k - 1 # 0
      BY DEF Covers
    <2> QED
      BY <2>1, InOrder
  <1>2. g[Len(g)] \in SpanSet
    <2>1. g \in Seq(SpanSet)
      BY DEF Covers, IsLedger
    <2>2. Len(g) \in 1 .. Len(g)
      BY <2>1, LenProperties, EmptySeq
    <2> QED
      BY <2>1, <2>2, ElementOfSeq
  <1>3. g[Len(g)].start \in Nat /\ End(g[Len(g)]) \in Nat
    BY <1>2 DEF SpanSet, End
  <1>4. g[Len(g)].start <= s[k - 1].start
    BY <1>1 DEF Covers
  <1>5. s[k - 1].start <= s[k].start /\ s[k - 1].start \in Nat /\ s[k].start \in Nat
    <2>1. k - 1 \in 1 .. k /\ k \in 1 .. k
      BY <1>1, InOrder
    <2>2. s[k - 1] \in ClaimSet /\ s[k] \in ClaimSet /\ s[k - 1].start <= s[k].start
      BY <2>1, InOrder
    <2> QED
      BY <2>2, ClaimParts
  <1>6. g[Len(g)].start <= s[k].start
    BY <1>3, <1>4, <1>5
  <1> QED
    BY <1>1, <1>2, <1>3, <1>6 DEF Covers

\* A claim that starts in the union's last run, or at its end, extends it.
LEMMA CoversTouching ==
    ASSUME NEW s, Ascending(s), NEW k \in 1 .. Len(s), NEW g, Covers(g, s, k - 1),
           g # <<>>, s[k].start <= End(g[Len(g)])
    PROVE  Covers([g EXCEPT ![Len(g)].len = Max({End(g[Len(g)]), End(s[k])}) - g[Len(g)].start], s, k)
  <1> DEFINE r == Extent(s[k])
             last == g[Len(g)]
             e == Max({End(last), End(s[k])})
             t == [g EXCEPT ![Len(g)].len = e - last.start]
  <1>1. /\ k \in Nat /\ k # 0 /\ k \in 1 .. k /\ s[k] \in ClaimSet
        /\ \A i \in 1 .. k : i = k \/ i \in 1 .. k - 1
        /\ \A i \in 1 .. k - 1 : i \in 1 .. k
    BY InOrder
  <1>2. /\ r \in SpanSet /\ r.start = s[k].start /\ End(r) = End(s[k]) /\ Bytes(r) = Bytes(s[k])
        /\ s[k].start \in Nat /\ End(s[k]) \in Nat
    BY <1>1, ClaimParts
  <1>3. /\ last \in SpanSet /\ last.start \in Nat /\ End(last) \in Nat /\ last.start <= s[k].start
        /\ \A i \in 1 .. k - 1 : End(s[i]) <= End(last)
        /\ \E i \in 1 .. k - 1 : End(s[i]) = End(last)
    BY LastRun
  <1>4. e \in Nat /\ e >= End(last) /\ e >= End(s[k]) /\ (e = End(last) \/ e = End(s[k]))
    BY <1>2, <1>3, GreaterOf
  <1> HIDE DEF r, e
  <1>5. /\ t \in Seq(SpanSet) /\ t # <<>> /\ Len(t) = Len(g)
        /\ t[Len(g)].start = last.start /\ End(t[Len(g)]) = e
        /\ BytesOf(ToSet(t)) = BytesOf(ToSet(g)) \cup Bytes(r)
    <2>1. g \in Seq(SpanSet) /\ g # <<>>
      BY DEF Covers, IsLedger
    <2>2. /\ last.start <= r.start /\ r.start <= End(last)
          /\ e >= End(last) /\ e >= End(r) /\ (e = End(last) \/ e = End(r))
      BY <1>2, <1>3, <1>4
    <2>3. /\ g[Len(g)].start <= r.start /\ r.start <= End(g[Len(g)])
          /\ e >= End(g[Len(g)]) /\ (e = End(g[Len(g)]) \/ e = End(r))
      BY <2>2
    <2>4. \A u : u = [g EXCEPT ![Len(g)].len = e - g[Len(g)].start] =>
                   /\ u \in Seq(SpanSet) /\ u # <<>> /\ Len(u) = Len(g)
                   /\ u[Len(g)].start = g[Len(g)].start /\ End(u[Len(g)]) = e
                   /\ BytesOf(ToSet(u)) = BytesOf(ToSet(g)) \cup Bytes(r)
      <3> HIDE DEF t, last
      <3> QED
        BY <1>2, <1>4, <2>1, <2>2, <2>3, ExtendBytes
    <2> QED
      BY <2>4
  <1>5a. IsLedger(t)
    <2>1. IsLedger(g) /\ g \in Seq(SpanSet)
      BY DEF Covers, IsLedger
    <2>2. \A j \in 1 .. Len(g) : j # Len(g) => t[j] = g[j]
      BY <2>1, LenProperties
    <2>3. /\ t \in Seq(SpanSet) /\ Len(t) = Len(g) /\ t[Len(g)].start = g[Len(g)].start
      BY <1>5
    <2> HIDE DEF t, last
    <2> QED
      BY <2>1, <2>2, <2>3, LedgerExtends
  <1> HIDE DEF t, last
  <1>6. \A b : b \in BytesOf(ToSet(t)) <=> \E i \in 1 .. k : b \in Bytes(s[i])
    <2>1. \A b : b \in BytesOf(ToSet(g)) <=> \E i \in 1 .. k - 1 : b \in Bytes(s[i])
      BY DEF Covers
    <2> QED
      BY <1>1, <1>2, <1>5, <2>1
  <1>7. ASSUME NEW i \in 1 .. k PROVE End(s[i]) <= e
    <2>1. CASE i = k
      BY <1>2, <1>4, <2>1
    <2>2. CASE i \in 1 .. k - 1
      <3>1. s[i] \in ClaimSet
        BY <2>2, InOrder
      <3>2. End(s[i]) \in Nat
        BY <3>1, ClaimParts
      <3> QED
        BY <1>3, <1>4, <2>2, <3>2
    <2> QED
      BY <1>1, <2>1, <2>2
  <1>8. \E i \in 1 .. k : End(s[i]) = e
    BY <1>1, <1>3, <1>4
  <1>9. Covers(t, s, k)
    BY <1>1, <1>3, <1>5, <1>6, <1>7, <1>8, <1>5a DEF Covers
  <1> QED
    BY <1>9 DEF t, e, last

\* Two ranges overlap iff each starts before the other ends.
LEMMA OverlapIs ==
    ASSUME NEW a \in ClaimSet, NEW b \in ClaimSet
    PROVE  Overlap(Extent(a), Extent(b)) <=>
              Extent(a) # Extent(b) /\ a.start < End(b) /\ b.start < End(a)
  <1>1. /\ Bytes(Extent(a)) = Bytes(a) /\ Bytes(Extent(b)) = Bytes(b)
        /\ a.start \in Nat /\ End(a) \in Nat /\ b.start \in Nat /\ End(b) \in Nat
        /\ a.start < End(a) /\ b.start < End(b)
        /\ \A x : x \in Bytes(a) <=> x \in Int /\ a.start <= x /\ x < End(a)
        /\ \A x : x \in Bytes(b) <=> x \in Int /\ b.start <= x /\ x < End(b)
    BY ClaimParts
  <1>2. ASSUME a.start < End(b), b.start < End(a) PROVE \E x : x \in Bytes(a) /\ x \in Bytes(b)
    <2>1. CASE a.start <= b.start
      <3>1. b.start \in Bytes(a) /\ b.start \in Bytes(b)
        BY <1>1, <1>2, <2>1
      <3> QED
        BY <3>1
    <2>2. CASE b.start <= a.start
      <3>1. a.start \in Bytes(a) /\ a.start \in Bytes(b)
        BY <1>1, <1>2, <2>2
      <3> QED
        BY <3>1
    <2> QED
      BY <1>1, <2>1, <2>2
  <1>3. ASSUME NEW x, x \in Bytes(a), x \in Bytes(b) PROVE a.start < End(b) /\ b.start < End(a)
    BY <1>1, <1>3
  <1> QED
    BY <1>1, <1>2, <1>3 DEF Overlap

\* A claim that starts at the end of the union or later meets none of the claims before it.
LEMMA BlamesNone ==
    ASSUME NEW s, Ascending(s), NEW k \in 1 .. Len(s), NEW g, Covers(g, s, k - 1),
           g = <<>> \/ s[k].start >= End(g[Len(g)]),
           NEW f, Blames(f, s, k - 1)
    PROVE  Blames(f, s, k)
  <1>1. /\ k \in 1 .. k /\ s[k] \in ClaimSet
        /\ \A i \in 1 .. k : i = k \/ i \in 1 .. k - 1
        /\ \A i \in 1 .. k - 1 : i \in 1 .. k
    BY InOrder
  <1>2. ASSUME NEW i \in 1 .. k - 1 PROVE End(s[i]) <= s[k].start
    <2>1. k - 1 \in Nat /\ k - 1 >= 1 /\ k - 1 # 0
      BY InOrder
    <2>2. g # <<>>
      BY <2>1 DEF Covers
    <2>3. End(s[i]) <= End(g[Len(g)]) /\ End(g[Len(g)]) \in Nat
      BY <2>2, LastRun
    <2>4. s[i] \in ClaimSet
      BY InOrder
    <2>5. End(s[i]) \in Nat /\ s[k].start \in Nat
      BY <1>1, <2>4, ClaimParts
    <2> QED
      BY <2>2, <2>3, <2>5
  <1>3. ASSUME NEW i \in 1 .. k - 1
        PROVE  ~Overlap(Extent(s[i]), Extent(s[k])) /\ ~Overlap(Extent(s[k]), Extent(s[i]))
    <2>1. s[i] \in ClaimSet
      BY InOrder
    <2>2. End(s[i]) \in Nat /\ s[k].start \in Nat
      BY <1>1, <2>1, ClaimParts
    <2>3. ~(s[k].start < End(s[i]))
      BY <1>2, <2>2
    <2> QED
      BY <1>1, <2>1, <2>3, OverlapIs
  <1>4. ~Overlap(Extent(s[k]), Extent(s[k]))
    BY DEF Overlap
  <1>5. (\E h, i \in 1 .. k : Overlap(Extent(s[h]), Extent(s[i])))
           <=> (\E h, i \in 1 .. k - 1 : Overlap(Extent(s[h]), Extent(s[i])))
    BY <1>1, <1>3, <1>4
  <1> QED
    BY <1>5 DEF Blames

\* A claim that starts inside the union overlaps the segment it is blamed on: one that came
\* before it, reaches past its start, and is not the same range, which would have come right
\* before it.
LEMMA BlamesOne ==
    ASSUME NEW s, Ascending(s), NEW k \in 2 .. Len(s), Extent(s[k]) # Extent(s[k - 1]),
           NEW g, Names(g, s, k - 1), NEW q \in 1 .. Len(g), End(g[q]) > s[k].start,
           NEW f, Blames(f, s, k - 1)
    PROVE  Blames(Append(f, <<Extent(g[q]), Extent(s[k])>>), s, k)
  <1> DEFINE p == <<Extent(g[q]), Extent(s[k])>>
             t == Append(f, p)
             n == Len(f)
  <1>1. k \in 1 .. Len(s) /\ k - 1 \in 1 .. k - 1 /\ Len(s) \in Nat
    BY LenProperties DEF Ascending
  <1>2. /\ k \in 1 .. k /\ s[k] \in ClaimSet /\ s[k - 1] \in ClaimSet
        /\ \A i \in 1 .. k - 1 : i \in 1 .. k /\ i \in 1 .. Len(s) /\ s[i] \in ClaimSet
    BY <1>1, InOrder
  <1>3. g[q] \in ClaimSet
    BY ElementOfSeq DEF Names
  <1>4. PICK i \in 1 .. k - 1 : Extent(g[q]) = Extent(s[i])
    BY DEF Names
  <1>5. s[i] \in ClaimSet /\ End(s[i]) = End(g[q])
    <2>1. s[i] \in ClaimSet
      BY <1>2
    <2> QED
      BY <1>3, <1>4, <2>1, ClaimParts
  <1>6. Extent(s[i]) # Extent(s[k])
    <2> SUFFICES ASSUME Extent(s[i]) = Extent(s[k]) PROVE FALSE
      OBVIOUS
    <2>1. i < k - 1
      <3>1. i # k - 1
        OBVIOUS
      <3> QED
        BY <1>1, <3>1
    <2> DEFINE m == k - 1
    <2>2. /\ s[i].start < s[m].start \/ (s[i].start = s[m].start /\ s[i].len <= s[m].len)
          /\ s[m].start < s[k].start \/ (s[m].start = s[k].start /\ s[m].len <= s[k].len)
      <3>1. i \in 1 .. Len(s) /\ m \in 1 .. Len(s) /\ k \in 1 .. Len(s) /\ i < m /\ m < k
        BY <1>1, <2>1
      <3> QED
        BY <3>1 DEF Ascending
    <2>3. /\ s[i].start \in Nat /\ s[m].start \in Nat /\ s[k].start \in Nat
          /\ s[i].len \in Nat /\ s[m].len \in Nat /\ s[k].len \in Nat
      BY <1>2, <1>5, ClaimParts
    <2>4. s[i].start = s[k].start /\ s[i].len = s[k].len
      <3>1. Extent(s[i]).start = Extent(s[k]).start /\ Extent(s[i]).len = Extent(s[k]).len
        OBVIOUS
      <3> QED
        BY <1>2, <1>5, <3>1, ClaimParts
    <2>5. s[m].start = s[k].start /\ s[m].len = s[k].len
      BY <2>2, <2>3, <2>4
    <2>6. Extent(s[m]) = Extent(s[k])
      BY <2>5 DEF Extent
    <2> QED
      BY <2>6
  <1>7. Overlap(Extent(s[i]), Extent(s[k]))
    <2>1. s[i].start <= s[k].start
      BY <1>1, <1>2, InOrder
    <2>2. /\ s[k].start < End(s[k]) /\ s[i].start \in Nat /\ s[k].start \in Nat
          /\ End(s[k]) \in Nat /\ End(s[i]) \in Nat
      BY <1>2, <1>5, ClaimParts
    <2>3. s[i].start < End(s[k]) /\ s[k].start < End(s[i])
      BY <1>5, <2>1, <2>2
    <2> QED
      BY <1>2, <1>5, <1>6, <2>3, OverlapIs
  <1>8. p \in SpanSet \X SpanSet /\ p[1] = Extent(g[q]) /\ p[2] = Extent(s[k])
    <2>1. Extent(g[q]) \in SpanSet /\ Extent(s[k]) \in SpanSet
      BY <1>2, <1>3, ClaimParts
    <2> QED
      BY <2>1
  <1> HIDE DEF p
  <1>9. /\ t \in Seq(SpanSet \X SpanSet) /\ t # <<>> /\ Len(t) = n + 1 /\ t[n + 1] = p /\ n \in Nat
        /\ \A j \in 1 .. n : t[j] = f[j]
    BY <1>8, AppendProperties, LenProperties DEF Blames
  <1> HIDE DEF t
  <1>10. ASSUME NEW j \in 1 .. Len(t) PROVE Overlap(t[j][1], t[j][2])
    <2>1. CASE j = n + 1
      BY <1>4, <1>7, <1>8, <1>9, <2>1
    <2>2. CASE j # n + 1
      <3>1. j \in 1 .. n /\ t[j] = f[j]
        BY <1>9, <2>2
      <3> QED
        BY <3>1 DEF Blames
    <2> QED
      BY <2>1, <2>2
  <1>11. \E h, j \in 1 .. k : Overlap(Extent(s[h]), Extent(s[j]))
    BY <1>2, <1>7
  <1> QED
    BY <1>9, <1>10, <1>11 DEF Blames, t, p

\* Each branch of the walk keeps what is true of it.
LEMMA WalkedStep ==
    ASSUME NEW s, Ascending(s), NEW k \in 1 .. Len(s), NEW acc, Walked(acc, s, k - 1)
    PROVE  Walked(PlaceClaim(acc, s[k]), s, k)
  <1> DEFINE c == s[k]
             r == Extent(c)
             g == acc.covered
             last == g[Len(g)]
             q == LastReaching(acc, c)
             end == Max({End(last), End(c)})
             extended == [g EXCEPT ![Len(g)].len = end - last.start]
             placed == [acc EXCEPT !.prev = r, !.segments = Append(@, c)]
             pair == <<Extent(acc.segments[q]), r>>
             new == PlaceClaim(acc, c)
  <1>1. /\ k \in Nat /\ k # 0 /\ k \in 1 .. k /\ c \in ClaimSet /\ acc \in Accs
        /\ Covers(g, s, k - 1) /\ Names(acc.segments, s, k - 1) /\ Blames(acc.conflicts, s, k - 1)
    BY InOrder DEF Walked
  <1>2. /\ acc.prev \in [start : Nat, len : Nat] /\ acc.segments \in Seq(ClaimSet) /\ g \in Seq(SpanSet)
        /\ acc.conflicts \in Seq(SpanSet \X SpanSet) /\ acc.shared \in SUBSET SpanSet
        /\ acc = [prev |-> acc.prev, segments |-> acc.segments, covered |-> g,
                  conflicts |-> acc.conflicts, shared |-> acc.shared]
    BY <1>1 DEF Accs
  <1>3. /\ r \in SpanSet /\ r \in [start : Nat, len : Nat] /\ r.start = c.start
        /\ c.start \in Nat /\ End(c) \in Nat
    <2>1. r \in SpanSet /\ r.start = c.start /\ c.start \in Nat /\ End(c) \in Nat
      BY <1>1, ClaimParts
    <2> HIDE DEF r
    <2>2. r \in [start : Nat, len : Nat]
      BY <2>1 DEF SpanSet
    <2> QED
      BY <2>1, <2>2
  <1>4. Append(acc.segments, c) \in Seq(ClaimSet) /\ Names(Append(acc.segments, c), s, k)
    <2>1. Names(Append(acc.segments, c), s, k)
      BY <1>1, NamesMore
    <2> QED
      BY <2>1 DEF Names
  <1>5. CASE r = acc.prev
    BY <1>5, WalkedShared
  <1>6. CASE r # acc.prev /\ (g = <<>> \/ r.start > End(last))
    <2>1. new = [placed EXCEPT !.covered = Append(@, r)]
      BY <1>6 DEF PlaceClaim, Place
    <2>2. Covers(Append(g, r), s, k)
      BY <1>1, <1>3, <1>6, CoversApart
    <2>3. Blames(acc.conflicts, s, k)
      <3>1. g = <<>> \/ c.start >= End(g[Len(g)])
        <4>1. g # <<>> => End(g[Len(g)]) \in Nat
          BY <1>1, LastRun
        <4> QED
          BY <1>3, <1>6, <4>1
      <3> QED
        BY <1>1, <3>1, BlamesNone
    <2>4. Append(g, r) \in Seq(SpanSet)
      BY <2>2 DEF Covers, IsLedger
    <2> HIDE DEF r, c, g, last, q
    <2>5. new = [prev |-> r, segments |-> Append(acc.segments, c), covered |-> Append(g, r),
                 conflicts |-> acc.conflicts, shared |-> acc.shared]
      BY <1>2, <2>1 DEF g
    <2> HIDE DEF new
    <2>6. new \in Accs
      BY <1>2, <1>3, <1>4, <2>4, <2>5 DEF Accs
    <2>7. Walked(new, s, k)
      BY <1>1, <1>4, <2>2, <2>3, <2>5, <2>6 DEF Walked, r, c
    <2> QED
      BY <2>7 DEF new, c
  <1>7. CASE r # acc.prev /\ g # <<>> /\ ~(r.start > End(last))
    <2>1. /\ k - 1 \in 1 .. k - 1 /\ End(last) \in Nat
          /\ \E i \in 1 .. k - 1 : End(s[i]) = End(last)
      BY <1>1, <1>7, LastRun
    <2>2. r.start <= End(last)
      BY <1>3, <1>7, <2>1
    <2>3. Covers(extended, s, k)
      BY <1>1, <1>3, <1>7, <2>2, CoversTouching
    <2>4. extended \in Seq(SpanSet)
      BY <2>3 DEF Covers, IsLedger
    <2>5. CASE r.start = End(last)
      <3>1. new = [placed EXCEPT !.covered = extended]
        BY <1>7, <2>5 DEF PlaceClaim, Place
      <3>2. Blames(acc.conflicts, s, k)
        <4>1. c.start >= End(g[Len(g)])
          BY <1>3, <2>1, <2>5
        <4> QED
          BY <1>1, <4>1, BlamesNone
      <3> HIDE DEF r, c, g, last, extended, q
      <3>3. new = [prev |-> r, segments |-> Append(acc.segments, c), covered |-> extended,
                   conflicts |-> acc.conflicts, shared |-> acc.shared]
        BY <1>2, <3>1 DEF g
      <3> HIDE DEF new
      <3>4. new \in Accs
        BY <1>2, <1>3, <1>4, <2>4, <3>3 DEF Accs
      <3>5. Walked(new, s, k)
        BY <1>1, <1>4, <2>3, <3>2, <3>3, <3>4 DEF Walked, r, c
      <3> QED
        BY <3>5 DEF new, c
    <2>6. CASE r.start # End(last)
      <3>1. new = [placed EXCEPT !.covered = extended, !.conflicts = Append(@, pair)]
        BY <1>7, <2>6 DEF PlaceClaim, Place
      <3>2. q \in 1 .. Len(acc.segments) /\ End(acc.segments[q]) > c.start
        <4>1. PICK i \in 1 .. k - 1 : End(s[i]) = End(last)
          BY <2>1
        <4>2. PICK j \in 1 .. Len(acc.segments) : Extent(acc.segments[j]) = Extent(s[i])
          BY <1>1 DEF Names
        <4>3. acc.segments[j] \in ClaimSet /\ s[i] \in ClaimSet
          <5>1. acc.segments[j] \in ClaimSet
            BY <1>2, ElementOfSeq
          <5>2. s[i] \in ClaimSet
            BY InOrder
          <5> QED
            BY <5>1, <5>2
        <4>4. End(acc.segments[j]) = End(last)
          BY <4>1, <4>2, <4>3, ClaimParts
        <4>5. End(acc.segments[j]) > c.start
          BY <1>3, <2>1, <2>2, <2>6, <4>4
        <4> QED
          BY <1>2, <4>5, LastReachingIs
      <3>3. Blames(Append(acc.conflicts, pair), s, k)
        <4>1. k \in 2 .. Len(s) /\ acc.prev = Extent(s[k - 1])
          <5>1. k \in 2 .. Len(s)
            BY <2>1, InOrder
          <5>2. k - 1 # 0
            BY <2>1
          <5> QED
            BY <5>1, <5>2 DEF Walked
        <4> HIDE DEF q
        <4> QED
          BY <1>1, <1>7, <3>2, <4>1, BlamesOne
      <3>4. Append(acc.conflicts, pair) \in Seq(SpanSet \X SpanSet)
        BY <3>3 DEF Blames
      <3> HIDE DEF r, c, g, last, extended, pair, q
      <3>5. new = [prev |-> r, segments |-> Append(acc.segments, c), covered |-> extended,
                   conflicts |-> Append(acc.conflicts, pair), shared |-> acc.shared]
        BY <1>2, <3>1 DEF g
      <3> HIDE DEF new
      <3>6. new \in Accs
        BY <1>2, <1>3, <1>4, <2>4, <3>4, <3>5 DEF Accs
      <3>7. Walked(new, s, k)
        BY <1>1, <1>4, <2>3, <3>3, <3>5, <3>6 DEF Walked, r, c
      <3> QED
        BY <3>7 DEF new, c
    <2> QED
      BY <2>5, <2>6
  <1> QED
    BY <1>5, <1>6, <1>7

\* So it is true of the whole walk.
LEMMA WalkedThrough ==
    ASSUME NEW s, Ascending(s), NEW w, Walks(w, s)
    PROVE  Walked(w[Len(s)], s, Len(s))
  <1> DEFINE n == Len(s)
             H == {k \in 0 .. n : Walked(w[k], s, k)}
  <1>1. n \in Nat
    BY LenProperties DEF Ascending
  <1>2. 0 \in H
    <2>1. w[0] = Nothing
      BY DEF Walks
    <2>2. Nothing \in Accs /\ Nothing.prev = Span(0, 0)
      <3>1. Span(0, 0) \in [start : Nat, len : Nat]
        BY DEF Span
      <3>2. <<>> \in Seq(ClaimSet) /\ <<>> \in Seq(SpanSet) /\ <<>> \in Seq(SpanSet \X SpanSet)
        BY EmptySeq
      <3> QED
        BY <3>1, <3>2 DEF Nothing, Accs
    <2>3. Nothing.covered = <<>> /\ Nothing.segments = <<>> /\ Nothing.conflicts = <<>>
      BY DEF Nothing
    <2>4. 1 .. 0 = {} /\ Len(<<>>) = 0 /\ ~(0 >= 1)
      OBVIOUS
    <2>5. Covers(<<>>, s, 0)
      <3>1. BytesOf(ToSet(<<>>)) = {}
        BY DEF BytesOf, ToSet
      <3>2. IsLedger(<<>>)
        BY EmptySeq DEF IsLedger
      <3> QED
        BY <2>4, <3>1, <3>2 DEF Covers
    <2>6. Names(<<>>, s, 0)
      BY <2>4, EmptySeq DEF Names
    <2>7. Blames(<<>>, s, 0)
      BY <2>4, EmptySeq DEF Blames
    <2>8. Walked(w[0], s, 0)
      BY <2>1, <2>2, <2>3, <2>5, <2>6, <2>7 DEF Walked
    <2> QED
      BY <1>1, <2>8
  <1>3. ASSUME NEW k \in 1 .. n, k - 1 \in H PROVE k \in H
    <2>1. w[k] = PlaceClaim(w[k - 1], s[k])
      BY DEF Walks
    <2>2. Walked(w[k - 1], s, k - 1)
      BY <1>3
    <2>3. Walked(w[k], s, k)
      BY <2>1, <2>2, WalkedStep
    <2> QED
      BY <1>1, <2>3
  <1>4. n \in H
    <2>1. \A k \in 1 .. n : k - 1 \in H => k \in H
      BY <1>3
    <2> HIDE DEF H
    <2>2. \A k \in 0 .. n : k \in H
      BY <1>1, <1>2, <2>1, UpTo
    <2> QED
      BY <1>1, <2>2
  <1> QED
    BY <1>4

----------------------------------------------------------------------------
(* What the read ledger's subtraction and the gap cursor list. *)

\* The turns of a subtraction, from nothing.
TurnsOf(f, s, c, n) ==
    /\ f[0] = [k |-> 1, pos |-> 0, c |-> 1, out |-> <<>>]
    /\ \A t \in 1 .. n : f[t] = SubtractTurn(f[t - 1], s, c)

\* How many turns a subtraction may take.
TurnCount(s, c) == Len(s) + Len(c) + IF s = <<>> THEN 0 ELSE End(s[Len(s)])

\* A subtraction takes turns: its recursion has a solution.
LEMMA SubtractTurns ==
    ASSUME NEW s, NEW c, TurnCount(s, c) \in Nat
    PROVE  \E f : TurnsOf(f, s, c, TurnCount(s, c)) /\ Subtract(s, c) = f[TurnCount(s, c)].out
  <1> DEFINE n == TurnCount(s, c)
             first == [k |-> 1, pos |-> 0, c |-> 1, out |-> <<>>]
             Eq(f, m) == f = [t \in 0 .. m |-> IF t = 0 THEN first ELSE SubtractTurn(f[t - 1], s, c)]
             C == CHOOSE f : Eq(f, n)
             H == {m \in 0 .. n : \E f : Eq(f, m)}
  <1>1. n \in Nat
    OBVIOUS
  <1>2. Subtract(s, c) = C[n].out
    BY DEF Subtract, TurnCount
  <1> HIDE DEF n, first
  <1>3. 0 \in H
    <2> DEFINE g == [t \in 0 .. 0 |-> first]
    <2>1. g = [t \in 0 .. 0 |-> IF t = 0 THEN first ELSE SubtractTurn(g[t - 1], s, c)]
      OBVIOUS
    <2>2. Eq(g, 0)
      BY <2>1
    <2> HIDE DEF g, Eq
    <2> QED
      BY <1>1, <2>2
  <1>4. ASSUME NEW m \in 1 .. n, m - 1 \in H PROVE m \in H
    <2>1. PICK f : Eq(f, m - 1)
      BY <1>4
    <2> DEFINE g == [t \in 0 .. m |-> IF t < m THEN f[t] ELSE SubtractTurn(f[m - 1], s, c)]
               e == [t \in 0 .. m |-> IF t = 0 THEN first ELSE SubtractTurn(g[t - 1], s, c)]
    <2>2. \A t \in 0 .. m - 1 : f[t] = IF t = 0 THEN first ELSE SubtractTurn(f[t - 1], s, c)
      BY <2>1
    <2>3. ASSUME NEW t \in 0 .. m PROVE g[t] = e[t]
      <3>1. CASE t < m
        <4>1. t \in 0 .. m - 1 /\ (t # 0 => t - 1 \in 0 .. m /\ t - 1 < m)
          BY <3>1
        <4>2. g[t] = f[t] /\ (t # 0 => g[t - 1] = f[t - 1])
          BY <3>1, <4>1
        <4>3. e[t] = IF t = 0 THEN first ELSE SubtractTurn(g[t - 1], s, c)
          OBVIOUS
        <4> HIDE DEF g, e
        <4> QED
          BY <2>2, <4>1, <4>2, <4>3
      <3>2. CASE ~(t < m)
        <4>1. t = m /\ t # 0 /\ t - 1 \in 0 .. m /\ t - 1 < m
          BY <3>2
        <4>2. g[t] = SubtractTurn(f[m - 1], s, c) /\ g[t - 1] = f[t - 1]
          BY <4>1
        <4>3. e[t] = SubtractTurn(g[t - 1], s, c)
          BY <4>1
        <4> HIDE DEF g, e
        <4> QED
          BY <4>1, <4>2, <4>3
      <3> QED
        BY <3>1, <3>2
    <2>4. g = [t \in 0 .. m |-> g[t]] /\ e = [t \in 0 .. m |-> e[t]]
      OBVIOUS
    <2>5. g = e
      <3> HIDE DEF g, e
      <3> QED
        BY <2>3, <2>4
    <2>6. Eq(g, m)
      BY <2>5
    <2> HIDE DEF g, Eq
    <2> QED
      BY <2>6
  <1>5. n \in H
    <2>1. \A m \in 1 .. n : m - 1 \in H => m \in H
      BY <1>4
    <2> HIDE DEF H
    <2>2. \A m \in 0 .. n : m \in H
      BY <1>1, <1>3, <2>1, UpTo
    <2> QED
      BY <1>1, <2>2
  <1>6. Eq(C, n)
    <2>1. \E f : Eq(f, n)
      BY <1>5
    <2> HIDE DEF Eq
    <2> QED
      BY <2>1
  <1>7. TurnsOf(C, s, c, n)
    <2> HIDE DEF C
    <2>1. \A t \in 0 .. n : C[t] = IF t = 0 THEN first ELSE SubtractTurn(C[t - 1], s, c)
      BY <1>6
    <2>2. \A t \in 1 .. n : t \in 0 .. n /\ t # 0
      BY <1>1
    <2> QED
      BY <1>1, <2>1, <2>2 DEF TurnsOf, first
  <1> HIDE DEF C
  <1> QED
    BY <1>2, <1>7 DEF n

\* The bytes of the spans that no claim covers.
Bare(s, c, b) == b \in BytesOf(ToSet(s)) /\ b \notin BytesOf(ToSet(c))

\* A subtraction after t turns: the spans and claims behind it end by the position, what is
\* out are the bare bytes before the position, and each turn has moved something.
Subtracting(st, s, c, t) ==
    /\ st \in [k : 1 .. Len(s) + 1, pos : Nat, c : 1 .. Len(c) + 1, out : Seq(SpanSet)]
    /\ \A j \in 1 .. Len(s) : j < st.k => End(s[j]) <= st.pos
    /\ st.k <= Len(s) => st.pos <= End(s[st.k])
    /\ \A j \in 1 .. Len(c) : j < st.c => End(c[j]) <= st.pos
    /\ \A b : b \in BytesOf(ToSet(st.out)) <=> Bare(s, c, b) /\ b < st.pos
    /\ st.k > Len(s) \/ st.k + st.c + st.pos >= t + 2

\* Nothing is out when the position moves within its span over bytes that are not bare.
LEMMA Advances ==
    ASSUME NEW s, IsLedger(s), NEW c, IsLedger(c), NEW t \in Nat, NEW st, Subtracting(st, s, c, t),
           st.k <= Len(s), NEW p \in Nat, st.pos < p, p <= End(s[st.k]),
           \A b \in Int : st.pos <= b /\ b < p => ~Bare(s, c, b)
    PROVE  Subtracting([st EXCEPT !.pos = p], s, c, t + 1)
  <1> DEFINE new == [st EXCEPT !.pos = p]
  <1>1. /\ Len(s) \in Nat /\ Len(c) \in Nat
        /\ \A j \in 1 .. Len(s) : End(s[j]) \in Nat
        /\ \A j \in 1 .. Len(c) : End(c[j]) \in Nat
    BY SpanParts
  <1>2. st.k \in 1 .. Len(s) + 1 /\ st.pos \in Nat /\ st.c \in 1 .. Len(c) + 1
    BY DEF Subtracting
  <1>3. /\ new \in [k : 1 .. Len(s) + 1, pos : Nat, c : 1 .. Len(c) + 1, out : Seq(SpanSet)]
        /\ new.k = st.k /\ new.pos = p /\ new.c = st.c /\ new.out = st.out
    BY DEF Subtracting
  <1> HIDE DEF new
  <1>4. \A j \in 1 .. Len(s) : j < st.k => End(s[j]) <= p
    BY <1>1, <1>2 DEF Subtracting
  <1>5. \A j \in 1 .. Len(c) : j < st.c => End(c[j]) <= p
    BY <1>1, <1>2 DEF Subtracting
  <1>6. ASSUME NEW b PROVE b \in BytesOf(ToSet(st.out)) <=> Bare(s, c, b) /\ b < p
    <2>1. b \in BytesOf(ToSet(st.out)) <=> Bare(s, c, b) /\ b < st.pos
      BY DEF Subtracting
    <2>2. Bare(s, c, b) => b \in Int
      BY ByteOf DEF Bare
    <2> QED
      BY <1>2, <2>1, <2>2
  <1>7. st.k + st.c + p >= (t + 1) + 2
    <2>1. st.k + st.c + st.pos >= t + 2
      BY <1>1, <1>2 DEF Subtracting
    <2> QED
      BY <1>1, <1>2, <2>1
  <1>8. Subtracting(new, s, c, t + 1)
    BY <1>3, <1>4, <1>5, <1>6, <1>7 DEF Subtracting
  <1> QED
    BY <1>8 DEF new

\* The lesser of two numbers.
LEMMA LesserOf == ASSUME NEW a \in Nat, NEW b \in Nat
                  PROVE  /\ Min({a, b}) \in {a, b} /\ Min({a, b}) \in Nat
                         /\ Min({a, b}) <= a /\ Min({a, b}) <= b
  <1> DEFINE S == {a, b}
  <1>1. S \in SUBSET Nat /\ S # {} /\ a \in S /\ b \in S
    OBVIOUS
  <1>2. Min(S) \in S /\ \A x \in S : Min(S) <= x
    <2> HIDE DEF S
    <2> QED
      BY <1>1, LeastOf
  <1> QED
    BY <1>1, <1>2

\* Every turn keeps what is true of a subtraction.
LEMMA SubtractStep ==
    ASSUME NEW s, IsLedger(s), NEW c, IsLedger(c), NEW t \in Nat, NEW st, Subtracting(st, s, c, t)
    PROVE  Subtracting(SubtractTurn(st, s, c), s, c, t + 1)
  <1> DEFINE span == s[st.k]
             claim == c[st.c]
             claimed == st.c <= Len(c)
             stop == IF claimed THEN Min({claim.start, End(span)}) ELSE End(span)
             new == SubtractTurn(st, s, c)
  <1>1. /\ Len(s) \in Nat /\ Len(c) \in Nat
        /\ \A j \in 1 .. Len(s) : s[j].start \in Nat /\ End(s[j]) \in Nat /\ s[j].start < End(s[j])
        /\ \A j \in 1 .. Len(c) : c[j].start \in Nat /\ End(c[j]) \in Nat /\ c[j].start < End(c[j])
        /\ \A i, j \in 1 .. Len(s) : i < j => End(s[i]) < s[j].start
        /\ \A i, j \in 1 .. Len(c) : i < j => End(c[i]) < c[j].start
    BY SpanParts
  <1>2. /\ st.k \in 1 .. Len(s) + 1 /\ st.pos \in Nat /\ st.c \in 1 .. Len(c) + 1 /\ st.out \in Seq(SpanSet)
        /\ st.k \in Nat /\ st.c \in Nat
        /\ st = [k |-> st.k, pos |-> st.pos, c |-> st.c, out |-> st.out]
    BY <1>1 DEF Subtracting
  <1>3. CASE st.k > Len(s)
    <2>1. new = st
      BY <1>3 DEF SubtractTurn
    <2> HIDE DEF new
    <2> QED
      BY <1>3, <2>1 DEF Subtracting, new
  <1>4. ASSUME st.k <= Len(s)
        PROVE  /\ st.k \in 1 .. Len(s) /\ span.start \in Nat /\ End(span) \in Nat /\ span.start < End(span)
               /\ st.pos <= End(span) /\ ~(st.k > Len(s))
    BY <1>1, <1>2, <1>4 DEF Subtracting
  <1>5. ASSUME claimed
        PROVE  st.c \in 1 .. Len(c) /\ claim.start \in Nat /\ End(claim) \in Nat /\ claim.start < End(claim)
    BY <1>1, <1>2, <1>5
  <1>6. ASSUME NEW b, st.k <= Len(s), st.pos <= b, b < End(span)
        PROVE  b \in BytesOf(ToSet(s)) <=> b \in Int /\ span.start <= b
    <2>1. b \in BytesOf(ToSet(s)) <=> b \in Int /\ \E j \in 1 .. Len(s) : s[j].start <= b /\ b < End(s[j])
      BY ByteOf
    <2>2. ASSUME b \in Int, NEW j \in 1 .. Len(s), s[j].start <= b, b < End(s[j]) PROVE j = st.k
      <3>1. ~(j < st.k)
        BY <1>1, <1>2, <1>6, <2>2 DEF Subtracting
      <3>2. ~(st.k < j)
        <4>1. st.k < j => End(span) < s[j].start
          BY <1>1, <1>4, <1>6
        <4> QED
          BY <1>1, <1>4, <1>6, <2>2, <4>1
      <3> QED
        BY <1>2, <3>1, <3>2
    <2> QED
      BY <1>4, <1>6, <2>1, <2>2
  <1>7. ASSUME st.k <= Len(s), st.pos < span.start PROVE Subtracting(new, s, c, t + 1)
    <2>1. new = [st EXCEPT !.pos = span.start]
      BY <1>4, <1>7 DEF SubtractTurn
    <2>2. ASSUME NEW b \in Int, st.pos <= b, b < span.start PROVE ~Bare(s, c, b)
      <3>1. b < End(span)
        BY <1>4, <1>7, <2>2
      <3>2. ~(span.start <= b)
        BY <1>4, <1>7, <2>2
      <3> QED
        BY <1>6, <1>7, <2>2, <3>1, <3>2 DEF Bare
    <2>3. span.start \in Nat /\ span.start <= End(s[st.k])
      BY <1>4, <1>7
    <2> HIDE DEF span, new
    <2>4. Subtracting([st EXCEPT !.pos = span.start], s, c, t + 1)
      BY <1>7, <2>2, <2>3, Advances
    <2> QED
      BY <2>1, <2>4
  <1>8. ASSUME st.k <= Len(s), ~(st.pos < span.start), st.pos >= End(span) PROVE Subtracting(new, s, c, t + 1)
    <2>1. new = [st EXCEPT !.k = @ + 1]
      BY <1>4, <1>8 DEF SubtractTurn
    <2>2. new = [k |-> st.k + 1, pos |-> st.pos, c |-> st.c, out |-> st.out]
      BY <1>2, <2>1
    <2> HIDE DEF new
    <2>3. new \in [k : 1 .. Len(s) + 1, pos : Nat, c : 1 .. Len(c) + 1, out : Seq(SpanSet)]
      BY <1>1, <1>2, <1>8, <2>2
    <2>4. ASSUME NEW j \in 1 .. Len(s), j < st.k + 1 PROVE End(s[j]) <= st.pos
      <3>1. CASE j = st.k
        BY <1>4, <1>8, <3>1
      <3>2. CASE j < st.k
        BY <3>2 DEF Subtracting
      <3> QED
        BY <1>2, <2>4, <3>1, <3>2
    <2>5. st.k + 1 <= Len(s) => st.pos <= End(s[st.k + 1])
      <3> SUFFICES ASSUME st.k + 1 <= Len(s) PROVE st.pos <= End(s[st.k + 1])
        OBVIOUS
      <3>1. st.k + 1 \in 1 .. Len(s) /\ st.k \in 1 .. Len(s) /\ st.k < st.k + 1
        BY <1>1, <1>2
      <3>2. End(s[st.k]) < s[st.k + 1].start /\ s[st.k + 1].start < End(s[st.k + 1])
        BY <1>1, <3>1
      <3>3. s[st.k + 1].start \in Nat /\ End(s[st.k + 1]) \in Nat
        BY <1>1, <3>1
      <3> QED
        BY <1>2, <1>4, <1>8, <3>2, <3>3
    <2>6. st.k + 1 + st.c + st.pos >= (t + 1) + 2
      <3>1. st.k + st.c + st.pos >= t + 2
        BY <1>1, <1>2, <1>8 DEF Subtracting
      <3> QED
        BY <1>2, <3>1
    <2> QED
      BY <2>2, <2>3, <2>4, <2>5, <2>6 DEF Subtracting
  <1>9. ASSUME st.k <= Len(s), ~(st.pos < span.start), ~(st.pos >= End(span)), claimed, End(claim) <= st.pos
        PROVE  Subtracting(new, s, c, t + 1)
    <2>1. new = [st EXCEPT !.c = @ + 1]
      BY <1>4, <1>9 DEF SubtractTurn
    <2>2. new = [k |-> st.k, pos |-> st.pos, c |-> st.c + 1, out |-> st.out]
      BY <1>2, <2>1
    <2> HIDE DEF new
    <2>3. new \in [k : 1 .. Len(s) + 1, pos : Nat, c : 1 .. Len(c) + 1, out : Seq(SpanSet)]
      BY <1>1, <1>2, <1>9, <2>2
    <2>4. ASSUME NEW j \in 1 .. Len(c), j < st.c + 1 PROVE End(c[j]) <= st.pos
      <3>1. CASE j = st.c
        BY <1>9, <3>1
      <3>2. CASE j < st.c
        BY <3>2 DEF Subtracting
      <3> QED
        BY <1>2, <2>4, <3>1, <3>2
    <2>5. st.k + (st.c + 1) + st.pos >= (t + 1) + 2
      <3>1. st.k + st.c + st.pos >= t + 2
        BY <1>1, <1>2, <1>9 DEF Subtracting
      <3> QED
        BY <1>2, <3>1
    <2> QED
      BY <2>2, <2>3, <2>4, <2>5 DEF Subtracting
  <1>10. ASSUME st.k <= Len(s), ~(st.pos < span.start), ~(st.pos >= End(span)), claimed, ~(End(claim) <= st.pos),
                claim.start <= st.pos
         PROVE  Subtracting(new, s, c, t + 1)
    <2> DEFINE p == Min({End(claim), End(span)})
    <2>1. new = [st EXCEPT !.pos = p]
      BY <1>4, <1>10 DEF SubtractTurn
    <2>2. p \in {End(claim), End(span)} /\ p \in Nat /\ p <= End(claim) /\ p <= End(span)
      BY <1>4, <1>5, <1>10, LesserOf
    <2> HIDE DEF p
    <2>3. st.pos < p
      BY <1>2, <1>4, <1>5, <1>10, <2>2
    <2>4. ASSUME NEW b \in Int, st.pos <= b, b < p PROVE ~Bare(s, c, b)
      <3>1. st.c \in 1 .. Len(c) /\ claim.start <= b /\ b < End(claim)
        BY <1>2, <1>5, <1>10, <2>2, <2>4
      <3>2. b \in BytesOf(ToSet(c))
        BY <3>1, ByteOf
      <3> QED
        BY <3>2 DEF Bare
    <2> HIDE DEF new
    <2>5. Subtracting([st EXCEPT !.pos = p], s, c, t + 1)
      BY <1>10, <2>2, <2>3, <2>4, Advances
    <2> QED
      BY <2>1, <2>5
  <1>11. ASSUME st.k <= Len(s), ~(st.pos < span.start), ~(st.pos >= End(span)),
                ~(claimed /\ End(claim) <= st.pos), ~(claimed /\ claim.start <= st.pos)
         PROVE  Subtracting(new, s, c, t + 1)
    <2> DEFINE r == Span(st.pos, stop - st.pos)
    <2>1. new = [st EXCEPT !.pos = stop, !.out = Append(@, r)]
      BY <1>4, <1>11 DEF SubtractTurn
    <2>2. /\ stop \in Nat /\ stop <= End(span) /\ st.pos < stop
          /\ claimed => stop <= claim.start
      <3>1. CASE claimed
        <4>1. stop = Min({claim.start, End(span)})
          BY <3>1
        <4>2. stop \in {claim.start, End(span)} /\ stop \in Nat /\ stop <= claim.start /\ stop <= End(span)
          BY <1>4, <1>5, <1>11, <3>1, <4>1, LesserOf
        <4> HIDE DEF stop
        <4> QED
          BY <1>2, <1>4, <1>5, <1>11, <3>1, <4>2
      <3>2. CASE ~claimed
        BY <1>2, <1>4, <1>11, <3>2
      <3> QED
        BY <3>1, <3>2
    <2> HIDE DEF stop
    <2>3. /\ r \in SpanSet
          /\ \A b : b \in Bytes(r) <=> b \in Int /\ st.pos <= b /\ b < stop
      <3>1. r = [start |-> st.pos, len |-> stop - st.pos] /\ stop - st.pos \in Nat \ {0}
        BY <1>2, <2>2 DEF Span
      <3>2. r \in SpanSet /\ r.start = st.pos /\ End(r) = stop
        BY <1>2, <2>2, <3>1 DEF SpanSet, End
      <3> HIDE DEF r
      <3> QED
        BY <1>2, <2>2, <3>2 DEF Bytes
    <2> HIDE DEF r
    <2>4. /\ Append(st.out, r) \in Seq(SpanSet)
          /\ BytesOf(ToSet(Append(st.out, r))) = BytesOf(ToSet(st.out)) \cup Bytes(r)
      BY <1>2, <2>3, AppendBytes
    <2>5. new = [k |-> st.k, pos |-> stop, c |-> st.c, out |-> Append(st.out, r)]
      BY <1>2, <2>1
    <2> HIDE DEF new
    <2>6. new \in [k : 1 .. Len(s) + 1, pos : Nat, c : 1 .. Len(c) + 1, out : Seq(SpanSet)]
      BY <1>2, <2>2, <2>4, <2>5
    <2>7. ASSUME NEW b \in Int, st.pos <= b, b < stop PROVE Bare(s, c, b)
      <3>1. b < End(span) /\ span.start <= b
        BY <1>2, <1>4, <1>11, <2>2, <2>7
      <3>2. b \in BytesOf(ToSet(s))
        BY <1>6, <1>11, <2>7, <3>1
      <3>3. ASSUME NEW j \in 1 .. Len(c), c[j].start <= b, b < End(c[j]) PROVE FALSE
        <4>1. ~(j < st.c)
          BY <1>1, <1>2, <2>7, <3>3 DEF Subtracting
        <4>2. claimed /\ (j = st.c \/ st.c < j)
          BY <1>1, <1>2, <4>1
        <4>3. claim.start <= c[j].start
          BY <1>1, <1>5, <4>2
        <4>4. claim.start \in Nat /\ c[j].start \in Nat /\ stop <= claim.start /\ stop \in Nat
          BY <1>1, <1>5, <2>2, <3>3, <4>2
        <4> QED
          BY <2>7, <3>3, <4>3, <4>4
      <3>4. b \notin BytesOf(ToSet(c))
        BY <3>3, ByteOf
      <3> QED
        BY <3>2, <3>4 DEF Bare
    <2>8. ASSUME NEW b PROVE b \in BytesOf(ToSet(new.out)) <=> Bare(s, c, b) /\ b < stop
      <3>1. b \in BytesOf(ToSet(st.out)) <=> Bare(s, c, b) /\ b < st.pos
        BY DEF Subtracting
      <3>2. Bare(s, c, b) => b \in Int
        BY ByteOf DEF Bare
      <3>3. b \in BytesOf(ToSet(new.out)) <=> b \in BytesOf(ToSet(st.out)) \/ b \in Bytes(r)
        BY <2>4, <2>5
      <3> QED
        BY <1>2, <2>2, <2>3, <2>7, <3>1, <3>2, <3>3
    <2>9. \A j \in 1 .. Len(s) : j < st.k => End(s[j]) <= stop
      BY <1>1, <1>2, <2>2 DEF Subtracting
    <2>10. \A j \in 1 .. Len(c) : j < st.c => End(c[j]) <= stop
      BY <1>1, <1>2, <2>2 DEF Subtracting
    <2>11. st.k + st.c + stop >= (t + 1) + 2
      <3>1. st.k + st.c + st.pos >= t + 2
        BY <1>1, <1>2, <1>11 DEF Subtracting
      <3> QED
        BY <1>2, <2>2, <3>1
    <2> QED
      BY <2>2, <2>5, <2>6, <2>8, <2>9, <2>10, <2>11 DEF Subtracting
  <1>12. st.k > Len(s) \/ st.k <= Len(s)
    BY <1>1, <1>2
  <1> HIDE DEF span, claim, claimed, stop, new
  <1>13. Subtracting(new, s, c, t + 1)
    BY <1>3, <1>7, <1>8, <1>9, <1>10, <1>11, <1>12 DEF new
  <1> QED
    BY <1>13 DEF new

\* What a subtraction leaves are the bytes of the spans that no claim covers.
LEMMA SubtractsAll ==
    ASSUME NEW s, IsLedger(s), NEW c, IsLedger(c)
    PROVE  /\ Subtract(s, c) \in Seq(SpanSet)
           /\ BytesOf(ToSet(Subtract(s, c))) = BytesOf(ToSet(s)) \ BytesOf(ToSet(c))
  <1> DEFINE n == TurnCount(s, c)
  <1>1. /\ Len(s) \in Nat /\ Len(c) \in Nat
        /\ \A j \in 1 .. Len(s) : s[j].start \in Nat /\ End(s[j]) \in Nat /\ s[j].start < End(s[j])
        /\ \A i, j \in 1 .. Len(s) : i < j => End(s[i]) < s[j].start
        /\ s # <<>> => Len(s) \in 1 .. Len(s)
        /\ s = <<>> => Len(s) = 0
    <2>1. s # <<>> => Len(s) # 0
      BY EmptySeq DEF IsLedger
    <2> QED
      BY <2>1, SpanParts
  <1>2. n \in Nat
    BY <1>1 DEF TurnCount
  <1>3. PICK f : TurnsOf(f, s, c, n) /\ Subtract(s, c) = f[n].out
    BY <1>2, SubtractTurns
  <1> HIDE DEF n
  <1> DEFINE H == {t \in 0 .. n : Subtracting(f[t], s, c, t)}
  <1>4. 0 \in H
    <2> DEFINE st == [k |-> 1, pos |-> 0, c |-> 1, out |-> <<>>]
    <2>1. f[0] = st
      BY <1>3 DEF TurnsOf
    <2>2. st \in [k : 1 .. Len(s) + 1, pos : Nat, c : 1 .. Len(c) + 1, out : Seq(SpanSet)]
      BY <1>1, SpanParts, EmptySeq
    <2>3. BytesOf(ToSet(<<>>)) = {}
      BY DEF BytesOf, ToSet
    <2>4. ASSUME NEW b PROVE ~(Bare(s, c, b) /\ b < 0)
      <3>1. b \in BytesOf(ToSet(s)) => b \in Int /\ \E k \in 1 .. Len(s) : s[k].start <= b
        BY ByteOf
      <3> QED
        BY <1>1, <3>1 DEF Bare
    <2>5. st.k = 1 /\ st.pos = 0 /\ st.c = 1 /\ st.out = <<>>
      OBVIOUS
    <2>6. 1 <= Len(s) => 0 <= End(s[1])
      BY <1>1
    <2> HIDE DEF st
    <2>7. Subtracting(st, s, c, 0)
      BY <1>1, <2>2, <2>3, <2>4, <2>5, <2>6 DEF Subtracting
    <2> QED
      BY <1>2, <2>1, <2>7
  <1>5. ASSUME NEW t \in 1 .. n, t - 1 \in H PROVE t \in H
    <2>1. f[t] = SubtractTurn(f[t - 1], s, c)
      BY <1>3 DEF TurnsOf
    <2>2. t - 1 \in Nat /\ (t - 1) + 1 = t /\ Subtracting(f[t - 1], s, c, t - 1)
      BY <1>2, <1>5
    <2>3. Subtracting(f[t], s, c, (t - 1) + 1)
      BY <2>1, <2>2, SubtractStep
    <2> QED
      BY <1>2, <2>2, <2>3
  <1>6. Subtracting(f[n], s, c, n)
    <2>1. \A t \in 1 .. n : t - 1 \in H => t \in H
      BY <1>5
    <2> HIDE DEF H
    <2>2. \A t \in 0 .. n : t \in H
      BY <1>2, <1>4, <2>1, UpTo
    <2>3. n \in H
      BY <1>2, <2>2
    <2> QED
      BY <2>3 DEF H
  <1> DEFINE st == f[n]
  <1>7. st.k \in 1 .. Len(s) + 1 /\ st.pos \in Nat /\ st.c \in 1 .. Len(c) + 1 /\ st.out \in Seq(SpanSet)
    BY <1>6 DEF Subtracting
  <1>8. st.k > Len(s)
    <2> SUFFICES ASSUME st.k <= Len(s) PROVE FALSE
      BY <1>1, <1>7
    <2>1. st.k \in 1 .. Len(s) /\ Len(s) \in 1 .. Len(s) /\ s # <<>>
      BY <1>1, <1>7
    <2>2. st.pos <= End(s[st.k])
      BY <1>6 DEF Subtracting
    <2>3. End(s[st.k]) <= End(s[Len(s)])
      <3>1. CASE st.k = Len(s)
        BY <1>1, <2>1, <3>1
      <3>2. CASE st.k < Len(s)
        BY <1>1, <2>1, <3>2
      <3> QED
        BY <2>1, <3>1, <3>2
    <2>4. st.k + st.c + st.pos >= n + 2
      BY <1>1, <1>6, <1>7 DEF Subtracting
    <2>5. n = Len(s) + Len(c) + End(s[Len(s)])
      BY <2>1 DEF n, TurnCount
    <2> HIDE DEF st
    <2>6. End(s[st.k]) \in Nat /\ End(s[Len(s)]) \in Nat /\ Len(c) \in Nat
      BY <1>1, <2>1, SpanParts
    <2>7. st.pos <= End(s[Len(s)])
      BY <1>7, <2>2, <2>3, <2>6
    <2>8. st.k \in Nat /\ st.c \in Nat /\ st.k <= Len(s) /\ st.c <= Len(c) + 1
      BY <1>7, <2>1, <2>6
    <2>9. \A i, j, q, x, y, z \in Nat :
             i <= x /\ j <= y + 1 /\ q <= z => ~(i + j + q >= (x + y + z) + 2)
      OBVIOUS
    <2>10. Len(s) \in Nat
      BY <1>1
    <2> QED
      BY <1>7, <2>4, <2>5, <2>6, <2>7, <2>8, <2>9, <2>10
  <1>9. ASSUME NEW b PROVE b \in BytesOf(ToSet(st.out)) <=> b \in BytesOf(ToSet(s)) /\ b \notin BytesOf(ToSet(c))
    <2>1. b \in BytesOf(ToSet(st.out)) <=> Bare(s, c, b) /\ b < st.pos
      BY <1>6 DEF Subtracting
    <2>2. ASSUME b \in BytesOf(ToSet(s)) PROVE b < st.pos
      <3>1. PICK j \in 1 .. Len(s) : b \in Int /\ b < End(s[j])
        BY <2>2, ByteOf
      <3>2. End(s[j]) <= st.pos
        <4>1. j < st.k
          BY <1>1, <1>7, <1>8
        <4> QED
          BY <1>6, <4>1 DEF Subtracting
      <3> HIDE DEF st
      <3> QED
        BY <1>1, <1>7, <3>1, <3>2
    <2> QED
      BY <2>1, <2>2 DEF Bare
  <1> HIDE DEF st
  <1> QED
    BY <1>3, <1>7, <1>9 DEF st

\* The gap cursor along the union, from the start of the file.
CursorOf(f, g, n) ==
    /\ f[0] = [cursor |-> 0, out |-> <<>>]
    /\ \A k \in 1 .. n : f[k] = GapTurn(f[k - 1], g[k])

\* The gap cursor goes along the union: its recursion has a solution.
LEMMA CursorRuns ==
    ASSUME NEW g, Len(g) \in Nat, NEW fileLen
    PROVE  \E f : CursorOf(f, g, Len(g)) /\ Unclassified(g, fileLen) = GapTurn(f[Len(g)], Span(fileLen, 0)).out
  <1> DEFINE n == Len(g)
             first == [cursor |-> 0, out |-> <<>>]
             Eq(f, m) == f = [k \in 0 .. m |-> IF k = 0 THEN first ELSE GapTurn(f[k - 1], g[k])]
             C == CHOOSE f : Eq(f, n)
             H == {m \in 0 .. n : \E f : Eq(f, m)}
  <1>1. n \in Nat
    OBVIOUS
  <1>2. Unclassified(g, fileLen) = GapTurn(C[n], Span(fileLen, 0)).out
    BY DEF Unclassified
  <1> HIDE DEF n, first
  <1>3. 0 \in H
    <2> DEFINE h == [k \in 0 .. 0 |-> first]
    <2>1. h = [k \in 0 .. 0 |-> IF k = 0 THEN first ELSE GapTurn(h[k - 1], g[k])]
      OBVIOUS
    <2>2. Eq(h, 0)
      BY <2>1
    <2> HIDE DEF h, Eq
    <2> QED
      BY <1>1, <2>2
  <1>4. ASSUME NEW m \in 1 .. n, m - 1 \in H PROVE m \in H
    <2>1. PICK f : Eq(f, m - 1)
      BY <1>4
    <2> DEFINE h == [k \in 0 .. m |-> IF k < m THEN f[k] ELSE GapTurn(f[m - 1], g[m])]
               e == [k \in 0 .. m |-> IF k = 0 THEN first ELSE GapTurn(h[k - 1], g[k])]
    <2>2. \A k \in 0 .. m - 1 : f[k] = IF k = 0 THEN first ELSE GapTurn(f[k - 1], g[k])
      BY <2>1
    <2>3. ASSUME NEW k \in 0 .. m PROVE h[k] = e[k]
      <3>1. CASE k < m
        <4>1. k \in 0 .. m - 1 /\ (k # 0 => k - 1 \in 0 .. m /\ k - 1 < m)
          BY <3>1
        <4>2. h[k] = f[k] /\ (k # 0 => h[k - 1] = f[k - 1])
          BY <3>1, <4>1
        <4>3. e[k] = IF k = 0 THEN first ELSE GapTurn(h[k - 1], g[k])
          OBVIOUS
        <4> HIDE DEF h, e
        <4> QED
          BY <2>2, <4>1, <4>2, <4>3
      <3>2. CASE ~(k < m)
        <4>1. k = m /\ k # 0 /\ k - 1 \in 0 .. m /\ k - 1 < m
          BY <3>2
        <4>2. h[k] = GapTurn(f[m - 1], g[m]) /\ h[k - 1] = f[k - 1]
          BY <4>1
        <4>3. e[k] = GapTurn(h[k - 1], g[k])
          BY <4>1
        <4> HIDE DEF h, e
        <4> QED
          BY <4>1, <4>2, <4>3
      <3> QED
        BY <3>1, <3>2
    <2>4. h = [k \in 0 .. m |-> h[k]] /\ e = [k \in 0 .. m |-> e[k]]
      OBVIOUS
    <2>5. h = e
      <3> HIDE DEF h, e
      <3> QED
        BY <2>3, <2>4
    <2>6. Eq(h, m)
      BY <2>5
    <2> HIDE DEF h, Eq
    <2> QED
      BY <2>6
  <1>5. n \in H
    <2>1. \A m \in 1 .. n : m - 1 \in H => m \in H
      BY <1>4
    <2> HIDE DEF H
    <2>2. \A m \in 0 .. n : m \in H
      BY <1>1, <1>3, <2>1, UpTo
    <2> QED
      BY <1>1, <2>2
  <1>6. Eq(C, n)
    <2>1. \E f : Eq(f, n)
      BY <1>5
    <2> HIDE DEF Eq
    <2> QED
      BY <2>1
  <1>7. CursorOf(C, g, n)
    <2> HIDE DEF C
    <2>1. \A k \in 0 .. n : C[k] = IF k = 0 THEN first ELSE GapTurn(C[k - 1], g[k])
      BY <1>6
    <2>2. \A k \in 1 .. n : k \in 0 .. n /\ k # 0
      BY <1>1
    <2> QED
      BY <1>1, <2>1, <2>2 DEF CursorOf, first
  <1> HIDE DEF C
  <1> QED
    BY <1>2, <1>7 DEF n

\* What the cursor has listed: the bytes before it that are not in the union.
Scanned(st, g) ==
    /\ st \in [cursor : Nat, out : Seq(SpanSet)]
    /\ \A b : b \in BytesOf(ToSet(st.out)) <=>
                 b \in Int /\ 0 <= b /\ b < st.cursor /\ b \notin BytesOf(ToSet(g))

\* The cursor moves to the end of a range that the union holds, and holds nothing between.
LEMMA CursorStep ==
    ASSUME NEW g, NEW st, Scanned(st, g), NEW r, r.start \in Nat, End(r) \in Nat,
           st.cursor <= r.start, r.start <= End(r),
           \A b \in Int : st.cursor <= b /\ b < r.start => b \notin BytesOf(ToSet(g)),
           \A b \in Int : r.start <= b /\ b < End(r) => b \in BytesOf(ToSet(g))
    PROVE  Scanned(GapTurn(st, r), g) /\ GapTurn(st, r).cursor = End(r)
  <1> DEFINE gap == Span(st.cursor, r.start - st.cursor)
             out == IF r.start > st.cursor THEN Append(st.out, gap) ELSE st.out
             new == GapTurn(st, r)
  <1>1. st.cursor \in Nat /\ st.out \in Seq(SpanSet)
    BY DEF Scanned
  <1>2. new = [cursor |-> End(r), out |-> out]
    BY DEF GapTurn
  <1> HIDE DEF new
  <1>3. /\ out \in Seq(SpanSet)
        /\ \A b : b \in BytesOf(ToSet(out)) <=>
                     b \in BytesOf(ToSet(st.out)) \/ (b \in Int /\ st.cursor <= b /\ b < r.start)
    <2>1. CASE r.start > st.cursor
      <3>1. /\ gap \in SpanSet
            /\ \A b : b \in Bytes(gap) <=> b \in Int /\ st.cursor <= b /\ b < r.start
        <4>1. gap = [start |-> st.cursor, len |-> r.start - st.cursor] /\ r.start - st.cursor \in Nat \ {0}
          BY <1>1, <2>1 DEF Span
        <4>2. gap \in SpanSet /\ gap.start = st.cursor /\ End(gap) = r.start
          BY <1>1, <4>1 DEF SpanSet, End
        <4> HIDE DEF gap
        <4> QED
          BY <1>1, <4>2 DEF Bytes
      <3> HIDE DEF gap
      <3>2. /\ Append(st.out, gap) \in Seq(SpanSet)
            /\ BytesOf(ToSet(Append(st.out, gap))) = BytesOf(ToSet(st.out)) \cup Bytes(gap)
        BY <1>1, <3>1, AppendBytes
      <3>3. out = Append(st.out, gap)
        BY <2>1
      <3> HIDE DEF out
      <3> QED
        BY <3>1, <3>2, <3>3
    <2>2. CASE ~(r.start > st.cursor)
      <3>1. out = st.out /\ r.start = st.cursor
        BY <1>1, <2>2
      <3> HIDE DEF out
      <3> QED
        BY <1>1, <3>1
    <2> QED
      BY <2>1, <2>2
  <1> HIDE DEF out
  <1>4. ASSUME NEW b
        PROVE  b \in BytesOf(ToSet(out)) <=>
                  b \in Int /\ 0 <= b /\ b < End(r) /\ b \notin BytesOf(ToSet(g))
    <2>1. b \in BytesOf(ToSet(st.out)) <=>
             b \in Int /\ 0 <= b /\ b < st.cursor /\ b \notin BytesOf(ToSet(g))
      BY DEF Scanned
    <2> QED
      BY <1>1, <1>3, <2>1
  <1>5. Scanned(new, g) /\ new.cursor = End(r)
    BY <1>2, <1>3, <1>4 DEF Scanned
  <1> QED
    BY <1>5 DEF new

\* What is unclassified are the bytes of the file that the union does not cover.
LEMMA GapsAre ==
    ASSUME NEW g, IsLedger(g), NEW fileLen \in Nat, BytesOf(ToSet(g)) \subseteq 0 .. fileLen - 1
    PROVE  /\ Unclassified(g, fileLen) \in Seq(SpanSet)
           /\ BytesOf(ToSet(Unclassified(g, fileLen))) = (0 .. fileLen - 1) \ BytesOf(ToSet(g))
  <1> DEFINE n == Len(g)
  <1>1. /\ n \in Nat
        /\ \A k \in 1 .. n : g[k].start \in Nat /\ End(g[k]) \in Nat /\ g[k].start < End(g[k])
        /\ \A i, k \in 1 .. n : i < k => End(g[i]) < g[k].start
    BY SpanParts
  <1>2. PICK f : CursorOf(f, g, n) /\ Unclassified(g, fileLen) = GapTurn(f[n], Span(fileLen, 0)).out
    BY <1>1, CursorRuns
  <1>3. \A b : b \in BytesOf(ToSet(g)) <=> b \in Int /\ \E k \in 1 .. n : g[k].start <= b /\ b < End(g[k])
    BY ByteOf
  <1> HIDE DEF n
  <1> DEFINE Past(k) == IF k = 0 THEN 0 ELSE End(g[k])
             H == {k \in 0 .. n : Scanned(f[k], g) /\ f[k].cursor = Past(k)}
  <1>4. 0 \in H
    <2>1. f[0].cursor = 0 /\ f[0].out = <<>> /\ f[0] \in [cursor : Nat, out : Seq(SpanSet)]
      BY <1>2, EmptySeq DEF CursorOf
    <2>2. BytesOf(ToSet(<<>>)) = {}
      BY DEF BytesOf, ToSet
    <2>3. Scanned(f[0], g)
      BY <2>1, <2>2 DEF Scanned
    <2> QED
      BY <1>1, <2>1, <2>3
  <1>5. ASSUME NEW k \in 1 .. n, k - 1 \in H PROVE k \in H
    <2> DEFINE r == g[k]
    <2>1. f[k] = GapTurn(f[k - 1], r)
      BY <1>2 DEF CursorOf
    <2>2. Scanned(f[k - 1], g) /\ f[k - 1].cursor = Past(k - 1)
      BY <1>5
    <2>3. r.start \in Nat /\ End(r) \in Nat /\ r.start < End(r) /\ Past(k - 1) \in Nat /\ Past(k - 1) <= r.start
      BY <1>1
    <2>4. ASSUME NEW b \in Int, Past(k - 1) <= b, b < r.start PROVE b \notin BytesOf(ToSet(g))
      <3> SUFFICES ASSUME NEW j \in 1 .. n, g[j].start <= b, b < End(g[j]) PROVE FALSE
        BY <1>3
      <3>1. CASE j < k - 1
        <4>1. End(g[j]) < g[k - 1].start /\ g[k - 1].start < End(g[k - 1]) /\ Past(k - 1) = End(g[k - 1])
          BY <1>1, <3>1
        <4> QED
          BY <1>1, <2>3, <2>4, <3>1, <4>1
      <3>2. CASE j = k - 1
        BY <1>1, <2>4, <3>2
      <3>3. CASE j = k
        BY <1>1, <2>4, <3>3
      <3>4. CASE k < j
        <4>1. End(r) < g[j].start
          BY <1>1, <3>4
        <4> QED
          BY <1>1, <2>3, <2>4, <4>1
      <3> QED
        BY <1>1, <3>1, <3>2, <3>3, <3>4
    <2>5. \A b \in Int : r.start <= b /\ b < End(r) => b \in BytesOf(ToSet(g))
      BY <1>3
    <2> HIDE DEF r, Past
    <2>6. Scanned(GapTurn(f[k - 1], r), g) /\ GapTurn(f[k - 1], r).cursor = End(r)
      BY <2>2, <2>3, <2>4, <2>5, CursorStep
    <2>7. End(r) = Past(k)
      BY <1>1 DEF Past, r
    <2> QED
      BY <1>1, <2>1, <2>6, <2>7
  <1>6. Scanned(f[n], g) /\ f[n].cursor = Past(n)
    <2>1. \A k \in 1 .. n : k - 1 \in H => k \in H
      BY <1>5
    <2> HIDE DEF H
    <2>2. \A k \in 0 .. n : k \in H
      BY <1>1, <1>4, <2>1, UpTo
    <2>3. n \in H
      BY <1>1, <2>2
    <2> QED
      BY <2>3 DEF H
  <1> DEFINE r == Span(fileLen, 0)
             new == GapTurn(f[n], r)
  <1>7. r.start = fileLen /\ End(r) = fileLen
    BY DEF Span, End
  <1>8. Past(n) \in Nat /\ Past(n) <= fileLen
    <2>1. CASE n = 0
      BY <2>1
    <2>2. CASE n # 0
      <3> DEFINE b == End(g[n]) - 1
      <3>1. n \in 1 .. n /\ g[n].start <= b /\ b < End(g[n]) /\ b \in Int /\ Past(n) = b + 1 /\ Past(n) \in Nat
        BY <1>1, <2>2
      <3>2. b \in BytesOf(ToSet(g))
        BY <1>3, <3>1
      <3>3. b \in 0 .. fileLen - 1
        BY <3>2
      <3> HIDE DEF b, Past
      <3> QED
        BY <3>1, <3>3
    <2> QED
      BY <2>1, <2>2
  <1>9. ASSUME NEW b \in Int, Past(n) <= b, b < fileLen PROVE b \notin BytesOf(ToSet(g))
    <2> SUFFICES ASSUME NEW j \in 1 .. n, g[j].start <= b, b < End(g[j]) PROVE FALSE
      BY <1>3
    <2>1. Past(n) = End(g[n]) /\ n \in 1 .. n /\ (j = n \/ j < n)
      BY <1>1
    <2>2. End(g[j]) <= End(g[n])
      BY <1>1, <2>1
    <2> QED
      BY <1>1, <1>9, <2>1, <2>2
  <1> HIDE DEF r, Past
  <1>10. Scanned(new, g) /\ new.cursor = fileLen
    <2>1. \A b \in Int : r.start <= b /\ b < End(r) => b \in BytesOf(ToSet(g))
      BY <1>7
    <2>2. r.start \in Nat /\ End(r) \in Nat /\ f[n].cursor <= r.start /\ r.start <= End(r)
      BY <1>6, <1>7, <1>8
    <2>3. \A b \in Int : f[n].cursor <= b /\ b < r.start => b \notin BytesOf(ToSet(g))
      BY <1>6, <1>7, <1>9
    <2>4. Scanned(GapTurn(f[n], r), g) /\ GapTurn(f[n], r).cursor = End(r)
      BY <1>6, <2>1, <2>2, <2>3, CursorStep
    <2> QED
      BY <1>7, <2>4
  <1>11. Unclassified(g, fileLen) = new.out
    BY <1>2 DEF r
  <1> HIDE DEF new
  <1>12. new.out \in Seq(SpanSet)
    BY <1>10 DEF Scanned
  <1>13. ASSUME NEW b
         PROVE  b \in BytesOf(ToSet(new.out)) <=> b \in 0 .. fileLen - 1 /\ b \notin BytesOf(ToSet(g))
    <2>1. b \in BytesOf(ToSet(new.out)) <=> b \in Int /\ 0 <= b /\ b < fileLen /\ b \notin BytesOf(ToSet(g))
      BY <1>10 DEF Scanned
    <2> QED
      BY <2>1
  <1> QED
    BY <1>11, <1>12, <1>13

\* A sequence of spans is empty iff it has no bytes.
LEMMA NoSpans ==
    ASSUME NEW s \in Seq(SpanSet)
    PROVE  s = <<>> <=> BytesOf(ToSet(s)) = {}
  <1>1. CASE s = <<>>
    BY <1>1 DEF BytesOf, ToSet
  <1>2. CASE s # <<>>
    <2>1. Len(s) \in Nat /\ 1 \in 1 .. Len(s)
      BY <1>2, EmptySeq, LenProperties
    <2>2. s[1] \in SpanSet
      BY <2>1, ElementOfSeq
    <2>3. s[1].start \in Bytes(s[1])
      BY <2>2 DEF SpanSet, Bytes, End
    <2>4. s[1].start \in BytesOf(ToSet(s))
      BY <2>1, <2>3, BytesOfSeq
    <2> QED
      BY <1>2, <2>4
  <1> QED
    BY <1>1, <1>2

----------------------------------------------------------------------------
(* The report. *)

\* A claim cut to the file keeps its start and ends in the file; one that fits is left as it is.
LEMMA ClampParts ==
    ASSUME NEW c \in ClaimSet, NEW fileLen \in Nat, c.start < fileLen
    PROVE  /\ Clamp(c, fileLen).start = c.start /\ Clamp(c, fileLen).parsed = c.parsed
           /\ End(Clamp(c, fileLen)) <= fileLen
           /\ End(c) <= fileLen => Clamp(c, fileLen) = c
           /\ fileLen < End(c) => End(Clamp(c, fileLen)) = fileLen
  <1> DEFINE S == {c.len, fileLen - c.start}
             x == [c EXCEPT !.len = Min(S)]
  <1>1. c.start \in Nat /\ c.len \in Nat \ {0} /\ End(c) = c.start + c.len
    BY ClaimParts
  <1>2. Min(S) \in S /\ \A y \in S : Min(S) <= y
    <2>1. S \in SUBSET Nat /\ S # {}
      BY <1>1
    <2> HIDE DEF S
    <2> QED
      BY <2>1, LeastOf
  <1>3. Min(S) \in Nat /\ Min(S) <= fileLen - c.start /\ (c.len <= fileLen - c.start => Min(S) = c.len)
    BY <1>1, <1>2
  <1> HIDE DEF S
  <1>4. x.start = c.start /\ x.parsed = c.parsed /\ x.len = Min(S) /\ (Min(S) = c.len => x = c)
    BY DEF ClaimSet
  <1>5. Clamp(c, fileLen) = x
    BY DEF Clamp, S
  <1> HIDE DEF x
  <1>6. End(x) <= fileLen
    BY <1>1, <1>3, <1>4 DEF End
  <1>7. End(c) <= fileLen => x = c
    BY <1>1, <1>3, <1>4
  <1>8. ASSUME fileLen < End(c) PROVE End(x) = fileLen
    <2>1. Min(S) = fileLen - c.start
      BY <1>1, <1>2, <1>8 DEF S
    <2> QED
      BY <1>1, <1>4, <2>1 DEF End
  <1> QED
    BY <1>4, <1>5, <1>6, <1>7, <1>8

\* What a report says of claims and reads, byte by byte.
Tells(report, cs, fileLen, reads) ==
    /\ report.unclassified = <<>> <=> 0 .. fileLen - 1 \subseteq BytesOf(ToSet(cs))
    /\ report.unclaimed_reads = <<>> <=> BytesOf(ToSet(reads)) \subseteq BytesOf(ToSet(cs))
    /\ report.unread_claims = {} <=>
          \A k \in 1 .. Len(cs) : cs[k].parsed /\ cs[k].start < fileLen =>
              Bytes(Clamp(cs[k], fileLen)) \subseteq BytesOf(ToSet(reads))

\* The report tells of the bytes of a file the claims and the reads that there are.
LEMMA ReportTells ==
    ASSUME NEW fileLen \in Nat, NEW cs \in Seq(ClaimSet), NEW reads, IsLedger(reads),
           BytesOf(ToSet(reads)) \subseteq 0 .. fileLen - 1
    PROVE  Tells(Finish(cs, fileLen, reads), cs, fileLen, reads)
  <1> DEFINE s == InBounds(cs, fileLen)
             n == Len(s)
             report == Finish(cs, fileLen, reads)
  <1>1. DOMAIN cs = 1 .. Len(cs) /\ Len(cs) \in Nat /\ \A i \in 1 .. Len(cs) : cs[i] \in ClaimSet
    BY LenProperties, ElementOfSeq
  <1>2. /\ Ascending(s)
        /\ \A k \in 1 .. n : \E i \in 1 .. Len(cs) : cs[i].start < fileLen /\ s[k] = Clamp(cs[i], fileLen)
        /\ \A i \in 1 .. Len(cs) : cs[i].start < fileLen => \E k \in 1 .. n : s[k] = Clamp(cs[i], fileLen)
    <2>1. /\ Ascending(s)
          /\ \A k \in 1 .. n : \E i \in DOMAIN cs : cs[i].start < fileLen /\ s[k] = Clamp(cs[i], fileLen)
          /\ \A i \in DOMAIN cs : cs[i].start < fileLen => \E k \in 1 .. n : s[k] = Clamp(cs[i], fileLen)
      BY InBoundsAscends
    <2> HIDE DEF s
    <2> QED
      BY <1>1, <2>1
  <1> HIDE DEF s
  <1>3. n \in Nat /\ DOMAIN s = 1 .. n /\ \A k \in 1 .. n : s[k] \in ClaimSet
    BY <1>2, LenProperties, ElementOfSeq DEF Ascending
  <1>4. PICK w : Walks(w, s) /\ Resolves(report, cs, fileLen, reads, s, w[n])
    <2>1. Len(InBounds(cs, fileLen)) \in Nat
      BY <1>3 DEF s
    <2> QED
      BY <2>1, FinishWalks DEF s
  <1> DEFINE covered == w[n].covered
  <1>5. Covers(covered, s, n)
    BY <1>2, <1>4, WalkedThrough DEF Walked
  <1> HIDE DEF report
  <1>6. /\ report.unclassified = Unclassified(covered, fileLen)
        /\ report.unclaimed_reads = Subtract(reads, covered)
        /\ report.unread_claims = {c \in ToSet(s) : c.parsed /\ ~Holds(reads, c)}
    BY <1>4 DEF Resolves
  <1> HIDE DEF covered, n
  <1>7. ASSUME NEW i \in 1 .. Len(cs), cs[i].start < fileLen
        PROVE  /\ Clamp(cs[i], fileLen).parsed = cs[i].parsed
               /\ \A b \in Int : b \in Bytes(Clamp(cs[i], fileLen)) <=> b \in Bytes(cs[i]) /\ b < fileLen
    <2> DEFINE c == cs[i]
               d == Clamp(c, fileLen)
    <2>1. c \in ClaimSet /\ c.start < fileLen
      BY <1>1, <1>7
    <2>2. PICK k \in 1 .. n : s[k] = d
      BY <1>2, <1>7
    <2>3. d \in ClaimSet
      BY <1>3, <2>2
    <2> HIDE DEF c
    <2>4. /\ d.start = c.start /\ d.parsed = c.parsed /\ End(d) <= fileLen
          /\ End(c) <= fileLen => d = c
          /\ fileLen < End(c) => End(d) = fileLen
      BY <2>1, ClampParts
    <2> HIDE DEF d
    <2>6. /\ c.start \in Nat /\ End(c) \in Nat /\ End(d) \in Nat
          /\ \A b : b \in Bytes(c) <=> b \in Int /\ c.start <= b /\ b < End(c)
          /\ \A b : b \in Bytes(d) <=> b \in Int /\ d.start <= b /\ b < End(d)
      BY <2>1, <2>3, ClaimParts
    <2>7. \A b \in Int : b \in Bytes(d) <=> b \in Bytes(c) /\ b < fileLen
      BY <2>4, <2>6
    <2> QED
      BY <2>4, <2>7 DEF c, d
  <1>8. ASSUME NEW b \in 0 .. fileLen - 1
        PROVE  b \in BytesOf(ToSet(covered)) <=> b \in BytesOf(ToSet(cs))
    <2>1. b \in BytesOf(ToSet(cs)) <=> \E i \in 1 .. Len(cs) : b \in Bytes(cs[i])
      BY <1>1 DEF BytesOf, ToSet
    <2>2. b \in BytesOf(ToSet(covered)) <=> \E k \in 1 .. n : b \in Bytes(s[k])
      BY <1>5 DEF Covers
    <2>3. ASSUME NEW i \in 1 .. Len(cs), b \in Bytes(cs[i]) PROVE \E k \in 1 .. n : b \in Bytes(s[k])
      <3>1. cs[i].start < fileLen
        <4>1. cs[i].start \in Nat /\ cs[i].start <= b
          BY <1>1, <2>3, ClaimParts
        <4> QED
          BY <4>1
      <3> QED
        BY <1>2, <1>7, <2>3, <3>1
    <2>4. ASSUME NEW k \in 1 .. n, b \in Bytes(s[k]) PROVE \E i \in 1 .. Len(cs) : b \in Bytes(cs[i])
      <3>1. PICK i \in 1 .. Len(cs) : cs[i].start < fileLen /\ s[k] = Clamp(cs[i], fileLen)
        BY <1>2
      <3> QED
        BY <1>7, <2>4, <3>1
    <2> QED
      BY <2>1, <2>2, <2>3, <2>4
  <1>8a. IsLedger(covered) /\ BytesOf(ToSet(covered)) \subseteq 0 .. fileLen - 1
    <2>1. ASSUME NEW b \in BytesOf(ToSet(covered)) PROVE b \in 0 .. fileLen - 1
      <3>1. PICK k \in 1 .. n : b \in Bytes(s[k])
        BY <1>5, <2>1 DEF Covers
      <3>2. PICK i \in 1 .. Len(cs) : cs[i].start < fileLen /\ s[k] = Clamp(cs[i], fileLen)
        BY <1>2
      <3>3. s[k] \in ClaimSet
        BY <1>3
      <3>4. b \in Int /\ 0 <= b
        BY <3>1, <3>3, ClaimParts
      <3>5. b \in Bytes(Clamp(cs[i], fileLen))
        BY <3>1, <3>2
      <3>6. b < fileLen
        BY <1>7, <3>2, <3>4, <3>5
      <3> QED
        BY <3>4, <3>6
    <2> QED
      BY <1>5, <2>1 DEF Covers
  <1>9. report.unclassified = <<>> <=> 0 .. fileLen - 1 \subseteq BytesOf(ToSet(cs))
    <2>1. report.unclassified \in Seq(SpanSet)
      BY <1>6, <1>8a, GapsAre
    <2>2. BytesOf(ToSet(report.unclassified)) = (0 .. fileLen - 1) \ BytesOf(ToSet(covered))
      BY <1>6, <1>8a, GapsAre
    <2>3. report.unclassified = <<>> <=> BytesOf(ToSet(report.unclassified)) = {}
      BY <2>1, NoSpans
    <2> QED
      BY <1>8, <2>2, <2>3
  <1>10. report.unclaimed_reads = <<>> <=> BytesOf(ToSet(reads)) \subseteq BytesOf(ToSet(cs))
    <2>1. report.unclaimed_reads \in Seq(SpanSet)
      BY <1>6, <1>8a, SubtractsAll
    <2>2. BytesOf(ToSet(report.unclaimed_reads)) = BytesOf(ToSet(reads)) \ BytesOf(ToSet(covered))
      BY <1>6, <1>8a, SubtractsAll
    <2>3. report.unclaimed_reads = <<>> <=> BytesOf(ToSet(report.unclaimed_reads)) = {}
      BY <2>1, NoSpans
    <2> QED
      BY <1>8, <2>2, <2>3
  <1>11. ASSUME NEW k \in 1 .. n PROVE Holds(reads, s[k]) <=> Bytes(s[k]) \subseteq BytesOf(ToSet(reads))
    <2> DEFINE c == s[k]
    <2>1. c \in ClaimSet
      BY <1>3
    <2> HIDE DEF c
    <2>2. c.start \in Nat /\ c.len \in Nat
      BY <2>1, ClaimParts
    <2>3. /\ Extent(c) = Span(c.start, c.len) /\ Extent(c).start = c.start /\ Extent(c).len = c.len
          /\ End(Extent(c)) = End(c) /\ Bytes(Extent(c)) = Bytes(c)
      BY <2>1, ClaimParts DEF Extent
    <2>4. Holds(reads, Extent(c)) <=> Bytes(Extent(c)) \subseteq BytesOf(ToSet(reads))
      BY <2>2, <2>3, HoldsIsTheBytes
    <2>5. Holds(reads, Extent(c)) <=> Holds(reads, c)
      BY <2>3 DEF Holds
    <2> QED
      BY <2>3, <2>4, <2>5 DEF c
  <1>12. report.unread_claims = {} <=> \A k \in 1 .. n : s[k].parsed => Bytes(s[k]) \subseteq BytesOf(ToSet(reads))
    <2>1. report.unread_claims = {} <=> \A k \in 1 .. n : ~(s[k].parsed /\ ~Holds(reads, s[k]))
      BY <1>3, <1>6 DEF ToSet
    <2> QED
      BY <1>11, <2>1
  <1>13. (\A k \in 1 .. n : s[k].parsed => Bytes(s[k]) \subseteq BytesOf(ToSet(reads))) <=>
            \A i \in 1 .. Len(cs) : cs[i].parsed /\ cs[i].start < fileLen =>
                Bytes(Clamp(cs[i], fileLen)) \subseteq BytesOf(ToSet(reads))
    BY <1>2, <1>7
  <1>14. Tells(report, cs, fileLen, reads)
    BY <1>9, <1>10, <1>12, <1>13 DEF Tells
  <1> QED
    BY <1>14 DEF report

\* The report is exact whatever was claimed and read.
LEMMA ExactReport == LedgerInv => ReportIsExact
  <1> SUFFICES ASSUME LedgerInv PROVE ReportIsExact
    OBVIOUS
  <1> DEFINE L == ParseLen
             s == InBounds(made, L)
             n == Len(s)
             within == {d \in ToSet(made) : d.start < L}
  <1>1. /\ L \in Nat /\ made \in Seq(ClaimSet) /\ IsLedger(spans)
        /\ BytesOf(ToSet(spans)) = touched /\ touched \subseteq 0 .. L - 1
    BY DEF LedgerInv, LedgerTypeOK, Coalesced, IsLedger, SpanSet, ClaimSet, ParseLen
  <1>2. DOMAIN made = 1 .. Len(made) /\ \A i \in DOMAIN made : made[i] \in ClaimSet
    BY <1>1, LenProperties, ElementOfSeq
  <1> HIDE DEF L
  <1>3. /\ Ascending(s)
        /\ \A k \in 1 .. n : \E i \in DOMAIN made : made[i].start < L /\ s[k] = Clamp(made[i], L)
        /\ \A i \in DOMAIN made : made[i].start < L => \E k \in 1 .. n : s[k] = Clamp(made[i], L)
    BY <1>1, InBoundsAscends
  <1> HIDE DEF s
  <1>4. n \in Nat /\ \A k \in 1 .. n : s[k] \in ClaimSet
    BY <1>3, LenProperties, ElementOfSeq DEF Ascending
  <1>5. PICK w : Walks(w, s) /\ Resolves(LedgerReport, made, L, spans, s, w[n])
    <2>1. Len(InBounds(made, L)) \in Nat
      BY <1>4 DEF s
    <2> QED
      BY <2>1, FinishWalks DEF LedgerReport, L, s
  <1> DEFINE p == w[n]
             covered == BytesOf(ToSet(p.covered))
  <1>6. Covers(p.covered, s, n) /\ Blames(p.conflicts, s, n)
    BY <1>3, <1>5, WalkedThrough DEF Walked
  <1>7. /\ LedgerReport.conflicts = p.conflicts
        /\ LedgerReport.unclassified = Unclassified(p.covered, L)
        /\ LedgerReport.out_of_bounds = {c \in ToSet(made) : End(c) > L}
        /\ LedgerReport.unclaimed_reads = Subtract(spans, p.covered)
        /\ LedgerReport.unread_claims = {c \in ToSet(s) : c.parsed /\ ~Holds(spans, c)}
    BY <1>5 DEF Resolves
  <1> HIDE DEF p
  <1>8. \A c : c \in within <=> \E i \in DOMAIN made : made[i].start < L /\ c = made[i]
    BY DEF ToSet
  <1> HIDE DEF within, n
  <1>9. \A e : e \in DistinctExtents <=> \E k \in 1 .. n : e = Extent(s[k])
    <2>1. \A e : e \in DistinctExtents <=> \E c \in within : e = Extent(Clamp(c, L))
      BY DEF DistinctExtents, within, L
    <2> QED
      BY <1>3, <1>8, <2>1
  <1>10. \A b : b \in ClaimedBytes <=> \E k \in 1 .. n : b \in Bytes(s[k])
    <2>1. \A b : b \in ClaimedBytes <=> \E c \in within : b \in Bytes(Clamp(c, L))
      BY DEF ClaimedBytes, BytesOf, within, L
    <2> QED
      BY <1>3, <1>8, <2>1
  <1>11. ClaimedBytes = covered
    <2>1. \A b : b \in covered <=> \E i \in 1 .. n : b \in Bytes(s[i])
      BY <1>6 DEF Covers
    <2> HIDE DEF covered
    <2> QED
      BY <1>10, <2>1
  <1> HIDE DEF covered
  <1>12. ASSUME NEW k \in 1 .. n PROVE /\ Bytes(Extent(s[k])) \subseteq 0 .. L - 1
                                       /\ Bytes(Extent(s[k])) = Bytes(s[k])
    <2>1. PICK i \in DOMAIN made : made[i].start < L /\ s[k] = Clamp(made[i], L)
      BY <1>3
    <2>2. End(s[k]) <= L
      BY <1>1, <1>2, <2>1, ClampParts
    <2>3. /\ s[k].start \in Nat /\ End(s[k]) \in Nat /\ Bytes(Extent(s[k])) = Bytes(s[k])
          /\ \A b : b \in Bytes(s[k]) <=> b \in Int /\ s[k].start <= b /\ b < End(s[k])
      BY <1>4, ClaimParts
    <2> QED
      BY <1>1, <2>2, <2>3
  <1>13. (0 .. L - 1) \ ClaimedBytes \in SUBSET (0 .. L)
    BY <1>1
  <1> DEFINE gaps == (0 .. L - 1) \ ClaimedBytes
  <1>13a. IsLedger(p.covered) /\ BytesOf(ToSet(p.covered)) \subseteq 0 .. L - 1
    <2>1. ASSUME NEW b \in covered PROVE b \in 0 .. L - 1
      <3>1. PICK k \in 1 .. n : b \in Bytes(s[k])
        BY <1>10, <1>11, <2>1
      <3> QED
        BY <1>12, <3>1
    <2> QED
      BY <1>6, <2>1 DEF Covers, covered
  <1>14. BytesOf(ToSet(LedgerReport.unclassified)) = gaps /\ (LedgerReport.unclassified = <<>> <=> gaps = {})
    <2>1. LedgerReport.unclassified \in Seq(SpanSet)
      BY <1>1, <1>7, <1>13a, GapsAre
    <2>2. BytesOf(ToSet(LedgerReport.unclassified)) = (0 .. L - 1) \ BytesOf(ToSet(p.covered))
      BY <1>1, <1>7, <1>13a, GapsAre
    <2>3. BytesOf(ToSet(LedgerReport.unclassified)) = gaps
      BY <1>11, <2>2 DEF covered
    <2> HIDE DEF gaps
    <2> QED
      BY <2>1, <2>3, NoSpans
  <1>14a. /\ BytesOf(ToSet(LedgerReport.unclaimed_reads)) = touched \ ClaimedBytes
          /\ LedgerReport.unclaimed_reads = <<>> <=> touched \ ClaimedBytes = {}
    <2>1. LedgerReport.unclaimed_reads \in Seq(SpanSet)
      BY <1>1, <1>7, <1>13a, SubtractsAll
    <2>2. BytesOf(ToSet(LedgerReport.unclaimed_reads)) = BytesOf(ToSet(spans)) \ BytesOf(ToSet(p.covered))
      BY <1>1, <1>7, <1>13a, SubtractsAll
    <2>3. BytesOf(ToSet(LedgerReport.unclaimed_reads)) = touched \ ClaimedBytes
      BY <1>1, <1>11, <2>2 DEF covered
    <2> QED
      BY <2>1, <2>3, NoSpans
  <1>15. (LedgerReport.conflicts # <<>>) <=> \E a, b \in DistinctExtents : Overlap(a, b)
    <2>1. (LedgerReport.conflicts # <<>>) <=> \E h, i \in 1 .. n : Overlap(Extent(s[h]), Extent(s[i]))
      BY <1>6, <1>7 DEF Blames
    <2> QED
      BY <1>9, <2>1
  <1>16. \A k \in DOMAIN LedgerReport.conflicts : Overlap(LedgerReport.conflicts[k][1], LedgerReport.conflicts[k][2])
    <2>1. DOMAIN p.conflicts = 1 .. Len(p.conflicts)
      BY <1>6, LenProperties DEF Blames
    <2> QED
      BY <1>6, <1>7, <2>1 DEF Blames
  <1> DEFINE Ranges(b) == {e \in DistinctExtents : b \in Bytes(e)}
             once == \A b \in 0 .. L - 1 : Cardinality(Ranges(b)) = 1
             bounded == \A k \in DOMAIN made : End(made[k]) <= L
             allclaimed == touched \subseteq ClaimedBytes
             allread == \A k \in DOMAIN made : made[k].parsed => Bytes(made[k]) \subseteq touched
  <1>17. once <=> LedgerReport.unclassified = <<>> /\ LedgerReport.conflicts = <<>>
    <2>1. ASSUME once PROVE gaps = {}
      <3> SUFFICES ASSUME NEW b \in gaps PROVE FALSE
        OBVIOUS
      <3>1. b \in 0 .. L - 1 /\ b \notin ClaimedBytes
        OBVIOUS
      <3>2. Cardinality(Ranges(b)) = 1
        BY <2>1, <3>1
      <3>3. Ranges(b) = {}
        <4> SUFFICES ASSUME NEW e \in DistinctExtents, b \in Bytes(e) PROVE FALSE
          OBVIOUS
        <4>1. PICK k \in 1 .. n : e = Extent(s[k])
          BY <1>9
        <4>2. b \in Bytes(s[k])
          BY <1>12, <4>1
        <4> QED
          BY <1>10, <3>1, <4>2
      <3>4. Cardinality({}) = 0
        BY FS_EmptySet
      <3> HIDE DEF Ranges
      <3> QED
        BY <3>2, <3>3, <3>4
    <2>2. IsFiniteSet(DistinctExtents)
      <3> DEFINE f == [k \in 1 .. n |-> Extent(s[k])]
      <3>1. f \in Surjection(1 .. n, DistinctExtents)
        BY <1>9 DEF Surjection
      <3>2. IsFiniteSet(1 .. n)
        BY <1>4, FS_Interval
      <3> HIDE DEF f
      <3> QED
        BY <3>1, <3>2, FS_Surjection
    <2>3. ASSUME NEW b PROVE IsFiniteSet(Ranges(b))
      <3>1. Ranges(b) \in SUBSET DistinctExtents
        OBVIOUS
      <3> HIDE DEF Ranges
      <3> QED
        BY <2>2, <3>1, FS_Subset
    <2>4. ASSUME once, NEW a \in DistinctExtents, NEW b \in DistinctExtents, Overlap(a, b) PROVE FALSE
      <3>1. PICK x : x \in Bytes(a) /\ x \in Bytes(b)
        BY <2>4 DEF Overlap
      <3>2. x \in 0 .. L - 1
        <4>1. PICK k \in 1 .. n : a = Extent(s[k])
          BY <1>9
        <4> QED
          BY <1>12, <3>1, <4>1
      <3>3. a \in Ranges(x) /\ b \in Ranges(x)
        BY <3>1
      <3>4. Cardinality(Ranges(x)) = 1
        BY <2>4, <3>2
      <3> HIDE DEF Ranges
      <3>5. PICK e : Ranges(x) = {e}
        BY <2>3, <3>4, FS_Singleton
      <3> QED
        BY <2>4, <3>3, <3>5 DEF Overlap
    <2>5. ASSUME gaps = {}, \A a, b \in DistinctExtents : ~Overlap(a, b), NEW b \in 0 .. L - 1
          PROVE  Cardinality(Ranges(b)) = 1
      <3>1. PICK k \in 1 .. n : b \in Bytes(s[k])
        BY <1>10, <2>5
      <3>2. Extent(s[k]) \in Ranges(b)
        BY <1>9, <1>12, <3>1
      <3>3. \A e \in Ranges(b) : e = Extent(s[k])
        BY <2>5, <3>2 DEF Overlap
      <3> HIDE DEF Ranges
      <3>4. Ranges(b) = {Extent(s[k])}
        BY <3>2, <3>3
      <3> QED
        BY <3>4, FS_Singleton
    <2>6. once => LedgerReport.conflicts = <<>>
      BY <1>15, <2>4
    <2>7. once => LedgerReport.unclassified = <<>>
      BY <1>14, <2>1
    <2>8. ASSUME LedgerReport.unclassified = <<>>, LedgerReport.conflicts = <<>> PROVE once
      <3>1. gaps = {} /\ \A a, b \in DistinctExtents : ~Overlap(a, b)
        <4> HIDE DEF gaps, once
        <4> QED
          BY <1>14, <1>15, <2>8
      <3> QED
        BY <2>5, <3>1
    <2> HIDE DEF once
    <2> QED
      BY <2>6, <2>7, <2>8
  <1>18. bounded <=> LedgerReport.out_of_bounds = {}
    <2>1. LedgerReport.out_of_bounds = {} <=> \A i \in DOMAIN made : ~(End(made[i]) > L)
      BY <1>7 DEF ToSet
    <2>2. \A i \in DOMAIN made : End(made[i]) \in Nat
      BY <1>2, ClaimParts
    <2> QED
      BY <1>1, <2>1, <2>2
  <1>19. allclaimed <=> LedgerReport.unclaimed_reads = <<>>
    <2>1. allclaimed <=> touched \ ClaimedBytes = {}
      OBVIOUS
    <2> HIDE DEF allclaimed
    <2> QED
      BY <1>14a, <2>1
  <1>20. bounded => (allread <=> LedgerReport.unread_claims = {})
    <2> SUFFICES ASSUME bounded PROVE allread <=> LedgerReport.unread_claims = {}
      OBVIOUS
    <2>1. ASSUME NEW i \in DOMAIN made PROVE made[i].start < L /\ Clamp(made[i], L) = made[i]
      <3>1. made[i] \in ClaimSet
        BY <1>2
      <3>2. /\ made[i].start \in Nat /\ End(made[i]) \in Nat
            /\ made[i].start < End(made[i]) /\ End(made[i]) <= L
        BY <3>1, ClaimParts
      <3>3. made[i].start < L
        BY <1>1, <3>2
      <3> QED
        BY <1>1, <3>1, <3>2, <3>3, ClampParts
    <2>2. \A c : c \in ToSet(s) <=> \E i \in DOMAIN made : c = made[i]
      <3>1. \A c : c \in ToSet(s) <=> \E k \in 1 .. n : c = s[k]
        <4>1. DOMAIN s = 1 .. n
          BY <1>3, LenProperties DEF Ascending, n
        <4> QED
          BY <4>1 DEF ToSet
      <3> QED
        BY <1>3, <2>1, <3>1
    <2>3. ASSUME NEW i \in DOMAIN made PROVE Holds(spans, made[i]) <=> Bytes(made[i]) \subseteq touched
      <3> DEFINE c == made[i]
      <3>1. c \in ClaimSet
        BY <1>2
      <3>2. c.start \in Nat /\ c.len \in Nat
        BY <3>1, ClaimParts
      <3>3. /\ Extent(c) = Span(c.start, c.len) /\ Extent(c).start = c.start /\ Extent(c).len = c.len
            /\ End(Extent(c)) = End(c) /\ Bytes(Extent(c)) = Bytes(c)
        BY <3>1, ClaimParts DEF Extent
      <3> HIDE DEF c
      <3>4. Holds(spans, Extent(c)) <=> Bytes(Extent(c)) \subseteq BytesOf(ToSet(spans))
        BY <1>1, <3>2, <3>3, HoldsIsTheBytes
      <3>5. Holds(spans, Extent(c)) <=> Holds(spans, c)
        BY <3>3 DEF Holds
      <3> QED
        BY <1>1, <3>3, <3>4, <3>5 DEF c
    <2>4. LedgerReport.unread_claims = {} <=> \A i \in DOMAIN made : ~(made[i].parsed /\ ~Holds(spans, made[i]))
      BY <1>7, <2>2
    <2> QED
      BY <2>3, <2>4
  <1>21. FullyClassified(LedgerReport) <=> once /\ bounded /\ allclaimed /\ allread
    <2> HIDE DEF once, bounded, allclaimed, allread
    <2> QED
      BY <1>17, <1>18, <1>19, <1>20 DEF FullyClassified
  <1> QED
    <2>1. BytesOf(ToSet(LedgerReport.unclassified)) = (0 .. ParseLen - 1) \ ClaimedBytes
      BY <1>14 DEF L
    <2>2. BytesOf(ToSet(LedgerReport.unclaimed_reads)) = touched \ ClaimedBytes
      BY <1>14a
    <2>3. FullyClassified(LedgerReport) <=>
             /\ \A b \in 0 .. ParseLen - 1 : Cardinality({e \in DistinctExtents : b \in Bytes(e)}) = 1
             /\ \A k \in DOMAIN made : End(made[k]) <= ParseLen
             /\ touched \subseteq ClaimedBytes
             /\ \A k \in DOMAIN made : made[k].parsed => Bytes(made[k]) \subseteq touched
      BY <1>21 DEF L
    <2> QED
      BY <1>15, <1>16, <2>1, <2>2, <2>3 DEF ReportIsExact

----------------------------------------------------------------------------
(* The ledger. *)

\* The ledger starts well.
LEMMA InitLedger == LedgerInit => LedgerInv
  <1> SUFFICES ASSUME LedgerInit PROVE LedgerInv
    OBVIOUS
  <1>1. parse \in [file : Nat, claims : Nat]
    BY LedgerAssumption DEF LedgerInit
  <1>2. LedgerTypeOK
    BY <1>1, EmptySeq DEF LedgerInit, LedgerTypeOK, ParseLen
  <1>3. Coalesced /\ BytesOf(ToSet(spans)) = touched
    BY DEF LedgerInit, Coalesced, BytesOf, ToSet
  <1> QED
    BY <1>2, <1>3 DEF LedgerInv

\* A read and a claim keep the ledger's invariant.
LEMMA NextLedger == LedgerInv /\ [LedgerNext]_ledgervars => LedgerInv'
  <1> SUFFICES ASSUME LedgerInv, [LedgerNext]_ledgervars PROVE LedgerInv'
    OBVIOUS
  <1>1. ParseLen \in Nat
    BY DEF LedgerInv, LedgerTypeOK, ParseLen
  <1>2. ASSUME NEW s \in 0 .. ParseLen, NEW l \in 0 .. ParseLen, Read(s, l) PROVE LedgerInv'
    <2>1. IsLedger(spans)
      BY DEF LedgerInv, LedgerTypeOK, Coalesced, IsLedger, SpanSet
    <2>2. /\ IsLedger(spans') /\ s \in Nat /\ l \in Nat
          /\ BytesOf(ToSet(spans')) = BytesOf(ToSet(spans)) \cup Bytes(Span(s, l))
      BY <1>1, <1>2, <2>1, RecordCoalesces DEF Read
    <2>3. Bytes(Span(s, l)) \subseteq 0 .. ParseLen - 1
      BY <1>1, <1>2, <2>2 DEF Read, Bytes, Span, End
    <2>4. (BytesOf(ToSet(spans)) = touched)'
      BY <1>2, <2>2 DEF LedgerInv, Read
    <2>5. Coalesced'
      BY <2>2 DEF Coalesced, IsLedger
    <2>6. LedgerTypeOK'
      BY <1>2, <2>2, <2>3 DEF LedgerInv, LedgerTypeOK, Read, ParseLen, IsLedger, SpanSet
    <2> QED
      BY <2>4, <2>5, <2>6 DEF LedgerInv
  <1>3. ASSUME NEW s \in 0 .. ParseLen, NEW l \in 1 .. ParseLen, NEW parsed \in Provenances,
               Claim(s, l, parsed)
        PROVE  LedgerInv'
    <2> DEFINE c == [start |-> s, len |-> l, kind |-> "data", parsed |-> parsed]
    <2>1. c \in ClaimSet
      <3>1. s \in Nat /\ l \in Nat \ {0} /\ parsed \in BOOLEAN
        BY <1>1, ProvenanceAssumption
      <3> QED
        BY <3>1 DEF ClaimSet, SpanKinds
    <2> HIDE DEF c
    <2>2. /\ made' = Append(made, c) /\ Len(made) < parse.claims
          /\ UNCHANGED <<parse, spans, touched>>
      BY <1>3 DEF Claim, c
    <2>3. made' \in Seq(ClaimSet) /\ Len(made') <= parse.claims
      <3>1. /\ made \in Seq(ClaimSet) /\ Len(made) \in Nat /\ parse.claims \in Nat
        BY LenProperties DEF LedgerInv, LedgerTypeOK, ClaimSet
      <3>2. Append(made, c) \in Seq(ClaimSet) /\ Len(Append(made, c)) = Len(made) + 1
        BY <2>1, <3>1, AppendProperties
      <3> QED
        BY <2>2, <3>1, <3>2
    <2>4. LedgerTypeOK'
      BY <2>2, <2>3 DEF LedgerInv, LedgerTypeOK, ParseLen, ClaimSet
    <2>5. (Coalesced /\ BytesOf(ToSet(spans)) = touched)'
      BY <2>2 DEF LedgerInv, Coalesced
    <2> QED
      BY <2>4, <2>5 DEF LedgerInv
  <1>4. CASE UNCHANGED ledgervars
    BY <1>4 DEF ledgervars, LedgerInv, LedgerTypeOK, Coalesced, ParseLen
  <1> QED
    BY <1>2, <1>3, <1>4 DEF LedgerNext

\* For every file, whatever is read and claimed in whatever order, the read ledger is
\* sorted, coalesced, and its bytes are the bytes read.
THEOREM LedgerInvariant == LedgerSpec => []LedgerInv
  <1> QED
    BY InitLedger, NextLedger, PTL DEF LedgerSpec

\* So containment, which looks at one span, answers for every byte of a range
\* (Tracked::read_exact_at, ReadLedger::record and contains of track.rs).
THEOREM LedgerIsExact == LedgerSpec => []LedgerIsTheBytesRead
  <1>1. LedgerInv => LedgerIsTheBytesRead
    <2> SUFFICES ASSUME LedgerInv PROVE LedgerIsTheBytesRead
      OBVIOUS
    <2>1. IsLedger(spans) /\ ParseLen \in Nat /\ Coalesced /\ BytesOf(ToSet(spans)) = touched
      BY DEF LedgerInv, LedgerTypeOK, Coalesced, IsLedger, SpanSet, ParseLen
    <2>2. ASSUME NEW s \in 0 .. ParseLen, NEW l \in 0 .. ParseLen
          PROVE  Holds(spans, Span(s, l)) <=> Bytes(Span(s, l)) \subseteq touched
      <3>1. s \in Nat /\ l \in Nat
        BY <2>1
      <3> QED
        BY <2>1, <3>1, HoldsIsTheBytes
    <2> QED
      BY <2>1, <2>2 DEF LedgerIsTheBytesRead
  <1> QED
    BY <1>1, LedgerInvariant, PTL

\* Whatever is claimed and read in whatever order, the report of SegmentMap::finish says what is
\* true of the file, and is_fully_classified is the archival verdict (segment.rs).
THEOREM ReportHolds == LedgerSpec => []ReportIsExact
  <1> QED
    BY ExactReport, LedgerInvariant, PTL

----------------------------------------------------------------------------
(* The walks: how far the audit has come, and what its ledgers say of it. *)

\* The directories that parse, and what each offset points to.
Parsing == {o \in Nat : Parses(o)}
PointedBy == [o \in Nat |-> ToSet(Pointers(o))]

\* A stack of frames, each of a directory of P.
IsFrame(f) ==
    /\ f = [dir |-> f.dir, todo |-> f.todo, cur |-> f.cur, kids |-> f.kids]
    /\ f.dir \in Nat /\ f.todo \in Seq(Nat) /\ f.cur \in Nat
IsFrameOf(f, P) == IsFrame(f) /\ f.dir \in P
IsStack(s, P) == s \in Seq(ToSet(s)) /\ \A k \in 1 .. Len(s) : IsFrameOf(s[k], P)

\* The walk is in the page after the last finished one.
WalkTypes ==
    /\ file \in Files /\ pc \in {"chain", "strict", "lenient", "done", "failed"}
    /\ at \in Nat /\ pages \in Seq(Nat) /\ ToSet(pages) \subseteq Parsing /\ visited \subseteq Nat
    /\ IsStack(stack, Parsing)
    /\ trees \in Seq(ToSet(trees)) /\ Len(trees) <= Len(pages)
    /\ stack # <<>> => Len(trees) < Len(pages) /\ stack[1].dir = Page
    /\ pc = "chain" => stack = <<>> /\ trees = <<>>
    /\ pc = "done" => stack = <<>> /\ Len(trees) = Len(pages)

Unparsed(fs) == \E f \in fs : f[1] = "unparseable"
ClaimedIn == BytesOf(ToSet(claims))

\* Claims and reads that match: every byte read is in the file, every parsed claim was read,
\* and every byte read is claimed, unless a target did not parse.
Match(cs, bytes, fs) ==
    /\ cs \in Seq(ClaimSet)
    /\ bytes \subseteq 0 .. FileLen - 1
    /\ \A c \in ToSet(cs) : c.parsed => End(c) <= FileLen /\ Bytes(c) \subseteq bytes
    /\ ~Unparsed(fs) => bytes \subseteq BytesOf(ToSet(cs))

\* What has been reached is claimed, or is why there is a finding.
ReachedIsClaimed ==
    /\ 0 \in ClaimedIn /\ ToSet(pages) \subseteq ClaimedIn
    /\ pc \in {"lenient", "done"} =>
          /\ visited \cap Parsing \subseteq ClaimedIn
          /\ visited \subseteq Parsing \/ Unparsed(findings)

\* A walk that has followed the pointers to vis, left the directories of fin and is in those of
\* the stack s has each pointer of a directory (to) followed, or before it on the stack.
Follows(s, vis, fin, to) ==
    /\ \A k \in 1 .. Len(s) : \A p \in to[s[k].dir] :
          p \in ToSet(s[k].todo) \/ p = s[k].cur \/ p \in vis \cup {0}
    /\ \A k \in 1 .. Len(s) : k < Len(s) => s[k].cur \in vis \cup {0}
    /\ \A o \in vis \cup fin :
          (\E k \in 1 .. Len(s) : s[k].dir = o) \/ to[o] \subseteq vis \cup {0}

Left == {pages[i] : i \in 1 .. Len(trees)}

\* Unless it skipped a directory, the audit follows every pointer.
PointersAreFollowed ==
    pc \in {"lenient", "done"} /\ ~Skipped => Follows(stack, visited, Left, PointedBy)

WalkInv ==
    /\ WalkTypes /\ Match(claims, read, findings)
    /\ ReachedIsClaimed /\ PointersAreFollowed

\* Ledgers that match still do with what one more directory adds to each.
LEMMA MatchGrows ==
    ASSUME NEW cs, NEW bytes, NEW fs, Match(cs, bytes, fs),
           NEW new \in Seq(ClaimSet), NEW more, NEW gs,
           more \subseteq 0 .. FileLen - 1,
           \A c \in ToSet(new) : c.parsed => End(c) <= FileLen /\ Bytes(c) \subseteq more,
           Unparsed(fs) => Unparsed(gs), Unparsed(gs) \/ more \subseteq BytesOf(ToSet(new))
    PROVE  /\ Match(cs \o new, bytes \cup more, gs)
           /\ BytesOf(ToSet(cs)) \subseteq BytesOf(ToSet(cs \o new))
           /\ BytesOf(ToSet(new)) \subseteq BytesOf(ToSet(cs \o new))
  <1>1. cs \in Seq(ClaimSet)
    BY DEF Match
  <1>2. cs \o new \in Seq(ClaimSet) /\ ToSet(cs \o new) = ToSet(cs) \cup ToSet(new)
    BY <1>1, JoinedElements
  <1>3. BytesOf(ToSet(cs \o new)) = BytesOf(ToSet(cs)) \cup BytesOf(ToSet(new))
    BY <1>2 DEF BytesOf
  <1>4. \A c \in ToSet(cs \o new) : c.parsed => End(c) <= FileLen /\ Bytes(c) \subseteq bytes \cup more
    BY <1>2 DEF Match
  <1>5. bytes \cup more \subseteq 0 .. FileLen - 1
    BY DEF Match
  <1>6. ~Unparsed(gs) => bytes \cup more \subseteq BytesOf(ToSet(cs \o new))
    BY <1>3 DEF Match
  <1> QED
    BY <1>2, <1>3, <1>4, <1>5, <1>6 DEF Match

\* A directory as the file has it.
LEMMA StoredIs ==
    ASSUME file \in Files, NEW o, Stored(o)
    PROVE  /\ o \in Nat /\ file.dirs[o] \in Dir
           /\ file.dirs[o].whole \in BOOLEAN /\ file.dirs[o].ptrs \in Seq(Nat) /\ file.dirs[o].next \in Nat
           /\ file.dirs[o].whole => o + BodyLen <= FileLen
           /\ file.dirs[o].value # None =>
                 /\ file.dirs[o].value.start \in Nat /\ file.dirs[o].value.len \in Nat
                 /\ file.dirs[o].value.decodes \in BOOLEAN
           /\ file.dirs[o].data # None =>
                 file.dirs[o].data.start \in Nat /\ file.dirs[o].data.len \in Nat
  <1>1. o \in Nat /\ file.dirs[o] \in Dir /\ (file.dirs[o].whole => o + BodyLen <= FileLen)
    BY WalkAssumption DEF Stored
  <1> QED
    BY <1>1 DEF Dir

\* The bytes of a span.
LEMMA SpanBytes ==
    ASSUME NEW s \in Nat, NEW l \in Nat
    PROVE  Bytes(Span(s, l)) = s .. s + l - 1
  <1>1. Span(s, l).start = s /\ Span(s, l).len = l
    BY DEF Span
  <1>2. End(Span(s, l)) = s + l
    BY <1>1 DEF End
  <1> QED
    BY <1>1, <1>2 DEF Bytes

\* A claim that is made, and one that is ignored for being empty.
LEMMA ClaimOfIs ==
    ASSUME NEW s \in Nat, NEW l \in Nat, NEW kind \in SpanKinds, NEW parsed \in BOOLEAN
    PROVE  /\ ClaimOf(s, l, kind, parsed) \in Seq(ClaimSet)
           /\ \A c \in ToSet(ClaimOf(s, l, kind, parsed)) :
                 c.parsed = parsed /\ Bytes(c) = Bytes(Span(s, l)) /\ End(c) = s + l
           /\ BytesOf(ToSet(ClaimOf(s, l, kind, parsed))) = Bytes(Span(s, l))
  <1> DEFINE c == [start |-> s, len |-> l, kind |-> kind, parsed |-> parsed]
             cs == ClaimOf(s, l, kind, parsed)
  <1>1. CASE l = 0
    <2>1. cs = <<>>
      BY <1>1 DEF ClaimOf
    <2>2. Bytes(Span(s, l)) = {}
      BY <1>1 DEF Bytes, Span, End
    <2>3. <<>> \in Seq(ClaimSet) /\ ToSet(<<>>) = {}
      BY EmptySeq DEF ToSet
    <2>4. BytesOf({}) = {}
      BY DEF BytesOf
    <2> HIDE DEF cs
    <2> QED
      BY <2>1, <2>2, <2>3, <2>4 DEF cs
  <1>2. CASE l # 0
    <2>1. cs = <<c>>
      BY <1>2 DEF ClaimOf
    <2>2. c \in ClaimSet
      BY <1>2 DEF ClaimSet
    <2>3. /\ c.parsed = parsed /\ c.start = s /\ End(c) = s + l
          /\ Bytes(c) = Bytes(Span(s, l))
      BY DEF End, Bytes, Span
    <2> HIDE DEF c, cs
    <2>4. cs \in Seq(ClaimSet) /\ ToSet(cs) = {c}
      BY <2>1, <2>2 DEF ToSet
    <2>5. BytesOf(ToSet(cs)) = Bytes(c)
      BY <2>4 DEF BytesOf
    <2> QED
      BY <2>3, <2>4, <2>5 DEF cs
  <1> QED
    BY <1>1, <1>2

\* What an audit that reads a directory adds to the two ledgers.
Adds(o, cs, bytes) ==
    /\ cs \in Seq(ClaimSet)
    /\ bytes \subseteq 0 .. FileLen - 1
    /\ \A c \in ToSet(cs) : c.parsed => End(c) <= FileLen /\ Bytes(c) \subseteq bytes
    /\ Parses(o) => bytes \subseteq BytesOf(ToSet(cs)) /\ o \in BytesOf(ToSet(cs))

\* It claims what it read, and all of that if the directory parses.
LEMMA DirectoryAdds ==
    ASSUME file \in Files, NEW o \in Nat
    PROVE  Adds(o, DirClaims(o), BytesOf(DirReads(o)))
  <1> DEFINE d == file.dirs[o]
             v == d.value
             body == ClaimOf(o, BodyLen, "body", TRUE)
             value == ClaimOf(v.start, v.len, "value", TRUE)
             cs == DirClaims(o)
             rs == DirReads(o)
  <1>1. /\ FileLen \in Nat /\ BodyLen \in Nat /\ BodyLen # 0
        /\ "body" \in SpanKinds /\ "value" \in SpanKinds
    BY WalkAssumption DEF SpanKinds
  <1>2. CASE ~Stored(o) \/ ~d.whole
    <2>1. cs = <<>> /\ ~Parses(o) /\ rs = IF o >= FileLen THEN {} ELSE {Span(o, 1)}
      <3>1. cs = <<>>
        BY <1>2 DEF DirClaims
      <3>2. ~Parses(o)
        BY <1>2 DEF Parses
      <3>3. rs = IF o >= FileLen THEN {} ELSE {Span(o, 1)}
        BY <1>2 DEF DirReads
      <3> QED
        BY <3>1, <3>2, <3>3
    <2>2. <<>> \in Seq(ClaimSet) /\ ToSet(<<>>) = {}
      BY EmptySeq DEF ToSet
    <2>3. Bytes(Span(o, 1)) = o .. o
      <3>1. Bytes(Span(o, 1)) = o .. o + 1 - 1
        BY SpanBytes
      <3> QED
        BY <3>1
    <2> HIDE DEF rs, cs
    <2>4. BytesOf(rs) \subseteq 0 .. FileLen - 1
      BY <1>1, <2>1, <2>3 DEF BytesOf
    <2>5. Adds(o, cs, BytesOf(rs))
      BY <2>1, <2>2, <2>4 DEF Adds
    <2> QED
      BY <2>5 DEF cs, rs
  <1>3. CASE Stored(o) /\ d.whole
    <2> DEFINE kept == v # None /\ Inside(v) /\ v.decodes
               fetched == v # None /\ Inside(v)
    <2>1. o + BodyLen <= FileLen /\ (v # None => v.start \in Nat /\ v.len \in Nat)
      BY <1>3, StoredIs
    <2>2. o < FileLen
      BY <1>1, <2>1
    <2>3. cs = body \o (IF kept THEN value ELSE <<>>)
      BY <1>3 DEF DirClaims
    <2>4. rs = {BodySpan(o)} \cup IF fetched THEN {Span(v.start, v.len)} ELSE {}
      BY <1>1, <1>3, <2>2 DEF DirReads
    <2>5. Parses(o) => (fetched => kept)
      BY DEF Parses
    <2> HIDE DEF d, cs, rs, body, value
    <2>6. /\ body \in Seq(ClaimSet) /\ BytesOf(ToSet(body)) = Bytes(BodySpan(o))
          /\ \A c \in ToSet(body) : c.parsed = TRUE /\ Bytes(c) = Bytes(BodySpan(o)) /\ End(c) = o + BodyLen
      BY <1>1, ClaimOfIs DEF body, BodySpan
    <2>7. o \in Bytes(BodySpan(o)) /\ Bytes(BodySpan(o)) \subseteq 0 .. FileLen - 1
      <3>1. Bytes(BodySpan(o)) = o .. o + BodyLen - 1
        BY <1>1, SpanBytes DEF BodySpan
      <3> QED
        BY <1>1, <2>1, <3>1
    <2>8. CASE kept
      <3> DEFINE b == Bytes(Span(v.start, v.len))
      <3>1. /\ value \in Seq(ClaimSet) /\ BytesOf(ToSet(value)) = b
            /\ \A c \in ToSet(value) : c.parsed = TRUE /\ Bytes(c) = b /\ End(c) = v.start + v.len
        <4> DEFINE s == v.start
                   l == v.len
        <4>1. s \in Nat /\ l \in Nat
          BY <2>1, <2>8
        <4>2. value = ClaimOf(s, l, "value", TRUE)
          BY DEF value
        <4> HIDE DEF s, l
        <4>3. /\ ClaimOf(s, l, "value", TRUE) \in Seq(ClaimSet)
              /\ \A c \in ToSet(ClaimOf(s, l, "value", TRUE)) :
                    c.parsed = TRUE /\ Bytes(c) = Bytes(Span(s, l)) /\ End(c) = s + l
              /\ BytesOf(ToSet(ClaimOf(s, l, "value", TRUE))) = Bytes(Span(s, l))
          BY <1>1, <4>1, ClaimOfIs
        <4> QED
          BY <4>2, <4>3 DEF s, l
      <3>2. v.start + v.len <= FileLen
        BY <2>8 DEF Inside, End
      <3>3. b \subseteq 0 .. FileLen - 1
        <4>1. b = v.start .. v.start + v.len - 1
          BY <2>1, <2>8, SpanBytes
        <4> QED
          BY <1>1, <2>1, <2>8, <3>2, <4>1
      <3>4. cs = body \o value /\ rs = {BodySpan(o), Span(v.start, v.len)}
        BY <2>3, <2>4, <2>8
      <3> HIDE DEF v, b, kept
      <3>5. cs \in Seq(ClaimSet) /\ ToSet(cs) = ToSet(body) \cup ToSet(value)
        BY <2>6, <3>1, <3>4, JoinedElements
      <3>6. BytesOf(rs) = Bytes(BodySpan(o)) \cup b
        BY <3>4 DEF BytesOf, b
      <3>7. BytesOf(ToSet(cs)) = BytesOf(ToSet(body)) \cup BytesOf(ToSet(value))
        BY <3>5 DEF BytesOf
      <3>8. \A c \in ToSet(cs) : End(c) <= FileLen /\ Bytes(c) \subseteq BytesOf(rs)
        BY <2>1, <2>6, <3>1, <3>2, <3>5, <3>6
      <3>9. Adds(o, cs, BytesOf(rs))
        BY <2>6, <2>7, <3>1, <3>3, <3>5, <3>6, <3>7, <3>8 DEF Adds
      <3> QED
        BY <3>9 DEF cs, rs
    <2>9. CASE ~kept
      <3>1. cs = body
        BY <2>3, <2>6, <2>9, ConcatEmptySeq
      <3>2. BytesOf(rs) \subseteq 0 .. FileLen - 1 /\ Bytes(BodySpan(o)) \subseteq BytesOf(rs)
        <4>1. CASE fetched
          <5>1. rs = {BodySpan(o), Span(v.start, v.len)}
            BY <2>4, <4>1
          <5>2. Bytes(Span(v.start, v.len)) = v.start .. v.start + v.len - 1
            BY <2>1, <4>1, SpanBytes
          <5>3. v.start \in Nat /\ v.len \in Nat /\ v.start + v.len <= FileLen
            BY <2>1, <4>1 DEF Inside, End
          <5>4. Bytes(Span(v.start, v.len)) \subseteq 0 .. FileLen - 1
            BY <1>1, <5>2, <5>3
          <5> QED
            BY <2>7, <5>1, <5>4 DEF BytesOf
        <4>2. CASE ~fetched
          <5>1. rs = {BodySpan(o)}
            BY <2>4, <4>2
          <5> QED
            BY <2>7, <5>1 DEF BytesOf
        <4> QED
          BY <4>1, <4>2
      <3>3. Parses(o) => rs = {BodySpan(o)}
        BY <2>4, <2>5, <2>9
      <3>4. Parses(o) => BytesOf(rs) = Bytes(BodySpan(o))
        BY <3>3 DEF BytesOf
      <3>5. Adds(o, cs, BytesOf(rs))
        BY <2>1, <2>6, <2>7, <3>1, <3>2, <3>4 DEF Adds
      <3> QED
        BY <3>5 DEF cs, rs
    <2> QED
      BY <2>8, <2>9
  <1> QED
    BY <1>2, <1>3 DEF d

\* What is declared is not said to have been read.
LEMMA ExtentsAre ==
    ASSUME file \in Files, NEW o \in Parsing
    PROVE  Extents(o) \in Seq(ClaimSet) /\ \A c \in ToSet(Extents(o)) : ~c.parsed
  <1> DEFINE d == file.dirs[o].data
  <1>1. Stored(o)
    BY DEF Parsing, Parses
  <1>2. CASE d = None
    <2>1. Extents(o) = <<>>
      BY <1>2 DEF Extents
    <2> QED
      BY <2>1, EmptySeq DEF ToSet
  <1>3. CASE d # None
    <2>1. d.start \in Nat /\ d.len \in Nat
      BY <1>1, <1>3, StoredIs
    <2>2. Extents(o) = ClaimOf(d.start, d.len, "data", FALSE)
      BY <1>3 DEF Extents
    <2>3. "data" \in SpanKinds
      BY DEF SpanKinds
    <2> DEFINE s == d.start
               l == d.len
               e == ClaimOf(s, l, "data", FALSE)
    <2>4. s \in Nat /\ l \in Nat /\ Extents(o) = e
      BY <2>1, <2>2
    <2> HIDE DEF s, l
    <2>5. e \in Seq(ClaimSet) /\ \A c \in ToSet(e) : c.parsed = FALSE
      BY <2>3, <2>4, ClaimOfIs
    <2>6. \A c \in ToSet(e) : ~c.parsed
      BY <2>5
    <2> QED
      BY <2>4, <2>5, <2>6
  <1> QED
    BY <1>2, <1>3

\* A frame that moves to another pointer, with another child.
LEMMA FrameMoves ==
    ASSUME NEW f, IsFrame(f), NEW x, NEW y
    PROVE  [f EXCEPT !.kids = x, !.cur = y] = [dir |-> f.dir, todo |-> f.todo, cur |-> y, kids |-> x]
  <1> DEFINE g == [f EXCEPT !.kids = x]
  <1>1. f = [dir |-> f.dir, todo |-> f.todo, cur |-> f.cur, kids |-> f.kids]
    BY DEF IsFrame
  <1>2. g = [dir |-> f.dir, todo |-> f.todo, cur |-> f.cur, kids |-> x]
    BY <1>1
  <1> HIDE DEF g
  <1>3. [g EXCEPT !.cur = y] = [dir |-> f.dir, todo |-> f.todo, cur |-> y, kids |-> x]
    BY <1>2
  <1> QED
    BY <1>3 DEF g

\* r is the stack s with f on top, or with f on top in place of what was there.
Pushes(r, s, f) == r = Append(s, f)
Retops(r, s, f) == r = [s EXCEPT ![Len(s)] = f]

\* A stack that loses its top keeps what is below it.
LEMMA StackPops ==
    ASSUME NEW P, NEW s, IsStack(s, P), s # <<>>
    PROVE  /\ IsStack(Front(s), P) /\ Len(s) \in Nat /\ Len(s) >= 1 /\ Len(Front(s)) = Len(s) - 1
           /\ \A k \in 1 .. Len(s) - 1 : Front(s)[k] = s[k]
  <1>1. s \in Seq(ToSet(s)) /\ Len(s) \in Nat /\ Len(s) >= 1
    BY EmptySeq DEF IsStack
  <1>2. /\ Front(s) \in Seq(ToSet(s)) /\ Len(Front(s)) = Len(s) - 1
        /\ \A k \in 1 .. Len(s) - 1 : Front(s)[k] = s[k]
    BY <1>1, Popped
  <1>3. Front(s) \in Seq(ToSet(Front(s)))
    BY <1>2, OwnElements
  <1> QED
    BY <1>1, <1>2, <1>3 DEF IsStack

\* A stack whose top is replaced keeps what is below it.
LEMMA StackTops ==
    ASSUME NEW P, NEW s, IsStack(s, P), s # <<>>, NEW f, IsFrameOf(f, P),
           NEW r, Retops(r, s, f)
    PROVE  /\ IsStack(r, P) /\ Len(s) \in Nat /\ Len(s) >= 1 /\ Len(r) = Len(s) /\ r # <<>>
           /\ r[Len(s)] = f /\ \A k \in 1 .. Len(s) : k < Len(s) => r[k] = s[k]
  <1> DEFINE S == ToSet(s) \cup {f}
  <1>1. s \in Seq(ToSet(s)) /\ Len(s) \in Nat /\ Len(s) >= 1
    BY EmptySeq DEF IsStack
  <1>2. s \in Seq(S) /\ f \in S
    BY <1>1, Widened
  <1> HIDE DEF S
  <1>3. /\ r \in Seq(S) /\ Len(r) = Len(s) /\ r # <<>> /\ r[Len(s)] = f
        /\ \A k \in 1 .. Len(s) - 1 : r[k] = s[k]
    BY <1>2, Retopped DEF Retops
  <1>4. r \in Seq(ToSet(r))
    BY <1>3, OwnElements
  <1>5. ASSUME NEW k \in 1 .. Len(s), k < Len(s) PROVE r[k] = s[k]
    <2>1. k \in 1 .. Len(s) - 1
      BY <1>1, <1>5
    <2> QED
      BY <1>3, <2>1
  <1>6. ASSUME NEW k \in 1 .. Len(r) PROVE IsFrameOf(r[k], P)
    <2>1. k \in 1 .. Len(s) /\ (k < Len(s) \/ k = Len(s))
      BY <1>1, <1>3
    <2> QED
      BY <1>3, <1>5, <2>1 DEF IsStack
  <1>7. IsStack(r, P)
    BY <1>4, <1>6 DEF IsStack
  <1> QED
    BY <1>1, <1>3, <1>5, <1>7

\* A stack that gains a frame keeps what it had.
LEMMA StackPushes ==
    ASSUME NEW P, NEW s, IsStack(s, P), NEW f, IsFrameOf(f, P),
           NEW r, Pushes(r, s, f)
    PROVE  /\ IsStack(r, P) /\ Len(s) \in Nat /\ Len(r) = Len(s) + 1 /\ r # <<>>
           /\ r[Len(s) + 1] = f /\ \A k \in 1 .. Len(s) : r[k] = s[k]
  <1> DEFINE S == ToSet(s) \cup {f}
  <1>1. s \in Seq(ToSet(s)) /\ Len(s) \in Nat
    BY LenProperties DEF IsStack
  <1>2. s \in Seq(S) /\ f \in S
    BY <1>1, Widened
  <1> HIDE DEF S
  <1>3. /\ r \in Seq(S) /\ Len(r) = Len(s) + 1 /\ r # <<>> /\ r[Len(s) + 1] = f
        /\ \A k \in 1 .. Len(s) : r[k] = s[k]
    BY <1>2, AppendProperties DEF Pushes
  <1>4. r \in Seq(ToSet(r))
    BY <1>3, OwnElements
  <1>5. ASSUME NEW k \in 1 .. Len(r) PROVE IsFrameOf(r[k], P)
    <2>1. k \in 1 .. Len(s) \/ k = Len(s) + 1
      BY <1>1, <1>3
    <2> QED
      BY <1>3, <2>1 DEF IsStack
  <1>6. IsStack(r, P)
    BY <1>4, <1>5 DEF IsStack
  <1> QED
    BY <1>1, <1>3, <1>6

\* No directory is open yet.
LEMMA EmptyStack == ASSUME NEW P PROVE IsStack(<<>>, P) /\ Len(<<>>) = 0 /\ <<>> \in Seq(ToSet(<<>>))
  <1>1. <<>> \in Seq(ToSet(<<>>)) /\ Len(<<>>) = 0
    BY EmptySeq
  <1>2. \A k \in 1 .. Len(<<>>) : FALSE
    BY <1>1
  <1> QED
    BY <1>1, <1>2 DEF IsStack

\* What is read of the file does not change.
LEMMA SameFile ==
    ASSUME [Next]_vars
    PROVE  file' = file /\ Parsing' = Parsing /\ PointedBy' = PointedBy
  <1>1. file' = file
    BY DEF Next, vars, ReadPage, ChainFails, Fail, EndChain, EnterPage, Leave, ResolvePointer, ToAudit,
           RefusePointer, ReturnTree, NextPointer, SkipRefused, SkipUnparseable, Follow, FinishAudit
  <1>2. \A o : Parses(o)' <=> Parses(o)
    BY <1>1 DEF Parses, Stored
  <1>3. Parsing' = Parsing
    BY <1>2 DEF Parsing
  <1>4. \A o : Pointers(o)' = Pointers(o)
    BY <1>1, <1>2 DEF Pointers
  <1>5. PointedBy' = PointedBy
    BY <1>4 DEF PointedBy
  <1> QED
    BY <1>1, <1>3, <1>5

\* The frame of a directory that parsed has all its pointers before it.
LEMMA FrameIs ==
    ASSUME file \in Files, NEW o \in Parsing
    PROVE  /\ IsFrame(Frame(o)) /\ Frame(o).dir = o /\ Frame(o).cur = 0
           /\ o \in Nat /\ PointedBy[o] = ToSet(Frame(o).todo)
           /\ file.dirs[o].next \in Nat
  <1>1. o \in Nat /\ Stored(o) /\ Parses(o)
    BY DEF Parsing, Parses
  <1>2. file.dirs[o].ptrs \in Seq(Nat) /\ file.dirs[o].next \in Nat
    BY <1>1, StoredIs
  <1>3. Pointers(o) = file.dirs[o].ptrs
    BY <1>1 DEF Pointers
  <1>4. Frame(o) = [dir |-> o, todo |-> file.dirs[o].ptrs, cur |-> 0, kids |-> <<>>]
    BY DEF Frame
  <1>5. PointedBy[o] = ToSet(Frame(o).todo)
    BY <1>1, <1>3, <1>4 DEF PointedBy
  <1> QED
    BY <1>1, <1>2, <1>4, <1>5 DEF IsFrame

\* The top of the stack, and what it can be replaced by.
LEMMA TopIs ==
    ASSUME WalkTypes, stack # <<>>
    PROVE  /\ Len(stack) \in Nat /\ Len(stack) >= 1 /\ Top = stack[Len(stack)]
           /\ IsFrame(Top) /\ Top.dir \in Parsing /\ Top.cur \in Nat /\ Top.todo \in Seq(Nat)
  <1>1. Len(stack) \in Nat /\ Len(stack) >= 1
    BY EmptySeq DEF WalkTypes, IsStack
  <1> QED
    BY <1>1 DEF WalkTypes, IsStack, IsFrameOf, Top, IsFrame

\* A directory that is left: its parent goes on, or a page is finished.
LEMMA LeaveIs ==
    ASSUME WalkTypes, NEW which, Leave(which)
    PROVE  /\ stack # <<>> /\ Top.todo = <<>> /\ Top.cur = 0 /\ pc = which
           /\ UNCHANGED <<file, pc, at, pages, visited, strict, read, claims>>
           /\ Len(stack) = 1 => stack' = <<>> /\ trees' = Append(trees, Tree(Top)) /\ UNCHANGED findings
           /\ Len(stack) > 1 =>
                 /\ IsStack(stack', Parsing) /\ stack' # <<>> /\ Len(stack') = Len(stack) - 1
                 /\ \A k \in 1 .. Len(stack) - 1 :
                       /\ stack'[k].dir = stack[k].dir /\ stack'[k].todo = stack[k].todo
                       /\ k < Len(stack) - 1 => stack'[k].cur = stack[k].cur
                 /\ UNCHANGED trees
                 /\ findings' = findings \/ findings' = findings \cup {<<"chained", Top.dir>>}
  <1> DEFINE n == Len(stack)
             below == SubSeq(stack, 1, Len(stack) - 1)
             next == file.dirs[Top.dir].next
             old == below[Len(below)]
             parent == [old EXCEPT !.kids = Append(@, Tree(Top)), !.cur = IF which = "lenient" THEN next ELSE 0]
  <1>1. /\ stack # <<>> /\ Top.todo = <<>> /\ Top.cur = 0 /\ pc = which
        /\ UNCHANGED <<file, pc, at, pages, visited, strict, read, claims>>
    BY DEF Leave
  <1>2. /\ below = <<>> => stack' = <<>> /\ trees' = Append(trees, Tree(Top)) /\ UNCHANGED findings
        /\ below # <<>> =>
              /\ stack' = [below EXCEPT ![Len(below)] = parent]
              /\ findings' = IF which = "lenient" /\ next # 0
                             THEN findings \cup {<<"chained", Top.dir>>} ELSE findings
              /\ UNCHANGED trees
    BY DEF Leave
  <1>3. /\ n \in Nat /\ n >= 1 /\ Top = stack[n] /\ Top.dir \in Parsing
    BY <1>1, TopIs
  <1>4. IsStack(stack, Parsing)
    BY DEF WalkTypes
  <1>5. /\ IsStack(below, Parsing) /\ Len(below) = n - 1
        /\ \A k \in 1 .. n - 1 : below[k] = stack[k]
    BY <1>1, <1>4, StackPops DEF Front
  <1>6. below = <<>> <=> n = 1
    <2>1. below \in Seq(ToSet(below))
      BY <1>5 DEF IsStack
    <2> HIDE DEF below
    <2> QED
      BY <1>3, <1>5, <2>1, EmptySeq
  <1>7. next \in Nat
    BY <1>3, FrameIs DEF WalkTypes
  <1> HIDE DEF n, below, next
  <1>8. ASSUME n > 1
        PROVE  /\ IsStack(stack', Parsing) /\ stack' # <<>> /\ Len(stack') = n - 1
               /\ \A k \in 1 .. n - 1 :
                     /\ stack'[k].dir = stack[k].dir /\ stack'[k].todo = stack[k].todo
                     /\ k < n - 1 => stack'[k].cur = stack[k].cur
               /\ UNCHANGED trees
               /\ findings' = findings \/ findings' = findings \cup {<<"chained", Top.dir>>}
    <2>1. below # <<>> /\ n - 1 \in 1 .. n - 1 /\ old = stack[n - 1]
      BY <1>3, <1>5, <1>6, <1>8
    <2>2. IsFrame(old) /\ old.dir \in Parsing
      BY <1>3, <1>4, <1>8, <2>1 DEF IsStack, IsFrameOf, n
    <2> HIDE DEF old
    <2>3. parent = [dir |-> old.dir, todo |-> old.todo, cur |-> IF which = "lenient" THEN next ELSE 0,
                    kids |-> Append(old.kids, Tree(Top))]
      BY <2>2, FrameMoves
    <2> HIDE DEF parent
    <2>4. IsFrame(parent) /\ parent.dir = old.dir /\ parent.todo = old.todo
      BY <1>7, <2>2, <2>3 DEF IsFrame
    <2> IsFrameOf(parent, Parsing)
      BY <2>2, <2>4 DEF IsFrameOf
    <2>5. Retops(stack', below, parent) /\ UNCHANGED trees
      BY <1>2, <2>1 DEF parent, old, Retops
    <2>6. /\ IsStack(stack', Parsing) /\ Len(stack') = n - 1 /\ stack' # <<>>
          /\ stack'[n - 1] = parent /\ \A k \in 1 .. n - 1 : k < n - 1 => stack'[k] = below[k]
      <3>1. /\ IsStack(stack', Parsing) /\ Len(below) \in Nat /\ Len(below) >= 1
            /\ Len(stack') = Len(below) /\ stack' # <<>> /\ stack'[Len(below)] = parent
            /\ \A k \in 1 .. Len(below) : k < Len(below) => stack'[k] = below[k]
        BY <1>5, <2>1, <2>5, StackTops
      <3> QED
        BY <1>5, <3>1
    <2>7. findings' = findings \/ findings' = findings \cup {<<"chained", Top.dir>>}
      BY <1>2, <2>1
    <2>8. ASSUME NEW k \in 1 .. n - 1
          PROVE  /\ stack'[k].dir = stack[k].dir /\ stack'[k].todo = stack[k].todo
                 /\ k < n - 1 => stack'[k].cur = stack[k].cur
      <3>1. CASE k = n - 1
        BY <2>1, <2>4, <2>6, <3>1
      <3>2. CASE k < n - 1
        BY <1>5, <2>6, <3>2
      <3> QED
        BY <1>3, <3>1, <3>2
    <2> QED
      BY <2>5, <2>6, <2>7, <2>8
  <1>9. n = 1 => stack' = <<>> /\ trees' = Append(trees, Tree(Top)) /\ UNCHANGED findings
    BY <1>2, <1>6
  <1> QED
    BY <1>1, <1>8, <1>9 DEF n

\* One step along the pointers of the directory on top.
Moves(f) == \E c \in Nat, t \in Seq(Nat) : f = [Top EXCEPT !.cur = c, !.todo = t]

LEMMA RetopIs ==
    ASSUME WalkTypes, stack # <<>>, NEW f, Moves(f),
           NEW r, Retops(r, stack, f)
    PROVE  /\ IsFrame(f) /\ f.dir = Top.dir
           /\ IsStack(r, Parsing) /\ Len(r) = Len(stack) /\ r # <<>> /\ r[Len(stack)] = f
           /\ \A k \in 1 .. Len(stack) : (k < Len(stack) => r[k] = stack[k]) /\ r[k].dir = stack[k].dir
  <1>1. /\ Len(stack) \in Nat /\ Len(stack) >= 1 /\ Top = stack[Len(stack)]
        /\ IsFrame(Top) /\ Top.dir \in Parsing
    BY TopIs
  <1>2. PICK c \in Nat, t \in Seq(Nat) : f = [Top EXCEPT !.cur = c, !.todo = t]
    BY DEF Moves
  <1>3. f = [dir |-> Top.dir, todo |-> t, cur |-> c, kids |-> Top.kids]
    BY <1>1, <1>2 DEF IsFrame
  <1>4. IsFrame(f) /\ f.dir = Top.dir
    BY <1>1, <1>3 DEF IsFrame
  <1>5. /\ IsStack(r, Parsing) /\ Len(r) = Len(stack) /\ r # <<>>
        /\ r[Len(stack)] = f /\ \A k \in 1 .. Len(stack) : k < Len(stack) => r[k] = stack[k]
    <2>1. IsStack(stack, Parsing) /\ IsFrameOf(f, Parsing)
      BY <1>1, <1>4 DEF WalkTypes, IsFrameOf
    <2> QED
      BY <2>1, StackTops
  <1>6. \A k \in 1 .. Len(stack) : r[k].dir = stack[k].dir
    <2> SUFFICES ASSUME NEW k \in 1 .. Len(stack) PROVE r[k].dir = stack[k].dir
      OBVIOUS
    <2>1. k < Len(stack) \/ k = Len(stack)
      BY <1>1
    <2> QED
      BY <1>1, <1>4, <1>5, <2>1
  <1> QED
    BY <1>4, <1>5, <1>6

\* The page the walk is in is a directory that parsed.
LEMMA PageIs ==
    ASSUME WalkTypes, Len(trees) < Len(pages)
    PROVE  Page \in Parsing /\ Page = pages[Len(trees) + 1] /\ Len(trees) + 1 \in 1 .. Len(pages)
  <1>1. Len(trees) \in Nat /\ Len(pages) \in Nat
    BY LenProperties DEF WalkTypes
  <1>2. Len(trees) + 1 \in 1 .. Len(pages)
    BY <1>1
  <1>3. pages[Len(trees) + 1] \in ToSet(pages)
    BY <1>2, OwnElements DEF WalkTypes
  <1> QED
    BY <1>2, <1>3 DEF Page, WalkTypes

\* The shapes of the walk are kept.
LEMMA TypesKept == WalkTypes /\ [Next]_vars => WalkTypes'
  <1> SUFFICES ASSUME WalkTypes, [Next]_vars PROVE WalkTypes'
    OBVIOUS
  <1>1. file \in Files /\ file' = file /\ Parsing' = Parsing
    BY SameFile DEF WalkTypes
  <1>2. /\ pages \in Seq(Nat) /\ Len(pages) \in Nat /\ ToSet(pages) \subseteq Parsing /\ at \in Nat
        /\ IsStack(stack, Parsing) /\ visited \subseteq Nat
        /\ trees \in Seq(ToSet(trees)) /\ Len(trees) \in Nat /\ Len(trees) <= Len(pages)
    BY LenProperties DEF WalkTypes
  <1>3. IsStack(<<>>, Parsing) /\ Len(<<>>) = 0 /\ <<>> \in Seq(ToSet(<<>>))
    BY EmptyStack
  <1>4. CASE ReadPage
    <2>1. /\ at \in Parsing /\ pages' = Append(pages, at) /\ at' = file.dirs[at].next
          /\ pc = "chain" /\ stack' = <<>> /\ trees' = <<>> /\ pc' = pc /\ visited' = visited
      BY <1>2, <1>4 DEF ReadPage, Parsing, WalkTypes
    <2>2. at' \in Nat
      BY <1>1, <2>1, FrameIs
    <2>3. pages' \in Seq(Nat) /\ Len(pages') = Len(pages) + 1
      BY <1>2, <2>1, AppendProperties
    <2>4. ToSet(pages') \subseteq Parsing
      <3>1. pages \in Seq(Parsing)
        BY <1>2, OwnElements, Widened
      <3>2. pages' \in Seq(Parsing)
        BY <2>1, <3>1, AppendProperties
      <3> QED
        BY <3>2, OwnElements, ElementOfSeq
    <2> QED
      BY <1>1, <1>2, <1>3, <2>1, <2>2, <2>3, <2>4 DEF WalkTypes
  <1>5. CASE ChainFails
    <2>1. UNCHANGED <<file, at, pages, visited, stack, trees>> /\ pc' = "failed"
      BY <1>5 DEF ChainFails, Fail
    <2> QED
      BY <1>1, <2>1 DEF WalkTypes, Page
  <1>6. CASE EndChain
    <2>1. UNCHANGED <<file, at, pages, visited, stack, trees>> /\ pc' = "strict"
      BY <1>6 DEF EndChain
    <2> QED
      BY <1>1, <2>1 DEF WalkTypes, Page
  <1>7. ASSUME NEW which \in {"strict", "lenient"}, EnterPage(which) PROVE WalkTypes'
    <2>1. /\ stack' = <<Frame(Page)>> /\ pc = which /\ Len(trees) < Len(pages)
          /\ UNCHANGED <<file, pc, at, pages, visited, trees>>
      BY <1>7 DEF EnterPage
    <2>2. Page \in Parsing
      BY <2>1, PageIs
    <2> DEFINE f == Frame(Page)
    <2>3. IsFrame(f) /\ f.dir = Page
      BY <1>1, <2>2, FrameIs
    <2>4. Pushes(stack', <<>>, f)
      BY <2>1 DEF Pushes
    <2> HIDE DEF f
    <2>5. IsStack(stack', Parsing) /\ stack'[1] = f
      <3>1. IsFrameOf(f, Parsing)
        BY <2>2, <2>3 DEF IsFrameOf
      <3>2. IsStack(stack', Parsing) /\ stack'[Len(<<>>) + 1] = f
        BY <1>3, <2>4, <3>1, StackPushes
      <3> QED
        BY <1>3, <3>2
    <2>6. Page' = Page
      BY <2>1 DEF Page
    <2> QED
      BY <1>1, <1>2, <1>7, <2>1, <2>3, <2>5, <2>6 DEF WalkTypes
  <1>8. ASSUME NEW which \in {"strict", "lenient"}, Leave(which) PROVE WalkTypes'
    <2>1. /\ stack # <<>> /\ pc = which
          /\ UNCHANGED <<file, pc, at, pages, visited>>
          /\ Len(stack) = 1 => stack' = <<>> /\ trees' = Append(trees, Tree(Top))
          /\ Len(stack) > 1 =>
                /\ IsStack(stack', Parsing) /\ stack' # <<>> /\ Len(stack') = Len(stack) - 1
                /\ \A k \in 1 .. Len(stack) - 1 : stack'[k].dir = stack[k].dir
                /\ UNCHANGED trees
      BY <1>8, LeaveIs
    <2>2. Len(stack) \in Nat /\ Len(stack) >= 1
      BY <2>1, TopIs
    <2>6. Len(trees) < Len(pages) /\ stack[1].dir = Page
      BY <2>1 DEF WalkTypes
    <2>3. CASE Len(stack) = 1
      <3> DEFINE t == Tree(Top)
                 S == ToSet(trees) \cup {t}
      <3>1. trees \in Seq(S) /\ t \in S
        BY <1>2, Widened
      <3>2. trees' = Append(trees, t)
        BY <2>1, <2>3
      <3> HIDE DEF t, S
      <3>3. trees' \in Seq(S) /\ Len(trees') = Len(trees) + 1
        BY <3>1, <3>2, AppendProperties
      <3>4. trees' \in Seq(ToSet(trees'))
        BY <3>3, OwnElements
      <3> QED
        BY <1>1, <1>2, <1>3, <1>8, <2>1, <2>3, <2>6, <3>3, <3>4 DEF WalkTypes
    <2>4. CASE Len(stack) > 1
      <3>1. stack'[1].dir = stack[1].dir
        BY <2>1, <2>2, <2>4
      <3>2. Page' = Page
        BY <2>1, <2>4 DEF Page
      <3> QED
        BY <1>1, <1>2, <1>8, <2>1, <2>4, <2>6, <3>1, <3>2 DEF WalkTypes
    <2>5. Len(stack) = 1 \/ Len(stack) > 1
      BY <2>2
    <2> QED
      BY <2>3, <2>4, <2>5
  <1>9. ASSUME NEW r, IsStack(r, Parsing), r # <<>>, r[1].dir = stack[1].dir, stack # <<>>, stack' = r,
                UNCHANGED <<file, pc, at, pages, trees>>, pc \in {"strict", "lenient"},
                visited' \subseteq Nat
         PROVE  WalkTypes'
    <2>1. Page' = Page
      BY <1>9 DEF Page
    <2> QED
      BY <1>1, <1>2, <1>9, <2>1 DEF WalkTypes
  <1>10. CASE ResolvePointer
    <2> DEFINE o == Head(Top.todo)
               f == [Top EXCEPT !.todo = Tail(@)]
    <2>1. /\ stack # <<>> /\ Top.todo # <<>> /\ pc = "strict" /\ Parses(o)
          /\ visited' = visited \cup {o} /\ stack' = Append(WithTop(f), Frame(o))
          /\ UNCHANGED <<file, pc, at, pages, trees>>
      BY <1>10 DEF ResolvePointer, Legal
    <2>2. /\ IsFrame(Top) /\ Top.dir \in Parsing /\ Top.cur \in Nat /\ Top.todo \in Seq(Nat)
          /\ Len(stack) \in Nat /\ Len(stack) >= 1
      BY <2>1, TopIs
    <2>3. o \in Nat /\ Tail(Top.todo) \in Seq(Nat)
      BY <2>1, <2>2, HeadTailProperties
    <2>4. o \in Parsing
      BY <2>1, <2>3 DEF Parsing
    <2>5. Moves(f)
      <3>1. Top = [dir |-> Top.dir, todo |-> Top.todo, cur |-> Top.cur, kids |-> Top.kids]
        BY <2>2 DEF IsFrame
      <3>2. f = [Top EXCEPT !.cur = Top.cur, !.todo = Tail(Top.todo)]
        BY <3>1
      <3> QED
        BY <2>2, <2>3, <3>2 DEF Moves
    <2> DEFINE g == Frame(o)
               r == WithTop(f)
    <2>6. IsFrame(g) /\ g.dir = o
      BY <1>1, <2>4, FrameIs
    <2> HIDE DEF f, g, o
    <2>7. /\ IsStack(r, Parsing) /\ Len(r) = Len(stack) /\ r # <<>>
          /\ \A k \in 1 .. Len(stack) : r[k].dir = stack[k].dir
      <3>1. Retops(r, stack, f)
        BY DEF Retops, WithTop
      <3> HIDE DEF r
      <3> QED
        BY <2>1, <2>5, <3>1, RetopIs
    <2>8. r[1].dir = stack[1].dir
      BY <2>2, <2>7
    <2> HIDE DEF r
    <2>9. /\ IsStack(stack', Parsing) /\ stack' # <<>>
          /\ \A k \in 1 .. Len(r) : stack'[k] = r[k]
      <3>1. IsFrameOf(g, Parsing) /\ Pushes(stack', r, g)
        BY <2>1, <2>4, <2>6 DEF r, g, IsFrameOf, Pushes
      <3> QED
        BY <2>7, <3>1, StackPushes
    <2>10. stack'[1].dir = stack[1].dir
      BY <2>2, <2>7, <2>8, <2>9
    <2>11. visited' \subseteq Nat
      BY <1>2, <2>1, <2>3
    <2> QED
      BY <1>9, <2>1, <2>9, <2>10, <2>11
  <1>11. ASSUME NEW result, ToAudit(result) PROVE WalkTypes'
    <2>1. /\ pc' = "lenient" /\ visited' = {} /\ stack' = <<>> /\ trees' = <<>>
          /\ UNCHANGED <<file, at, pages>>
      BY <1>11 DEF ToAudit
    <2> QED
      BY <1>1, <1>2, <1>3, <2>1 DEF WalkTypes
  <1>12. CASE NextPointer
    <2> DEFINE f == [Top EXCEPT !.cur = Head(Top.todo), !.todo = Tail(@)]
    <2>1. /\ stack # <<>> /\ Top.todo # <<>> /\ pc = "lenient" /\ stack' = WithTop(f)
          /\ UNCHANGED <<file, pc, at, pages, visited, trees>>
      BY <1>12 DEF NextPointer
    <2>2. /\ Top.todo \in Seq(Nat) /\ Len(stack) \in Nat /\ Len(stack) >= 1
      BY <2>1, TopIs
    <2>3. Head(Top.todo) \in Nat /\ Tail(Top.todo) \in Seq(Nat)
      BY <2>1, <2>2, HeadTailProperties
    <2>4. Moves(f)
      BY <2>3 DEF Moves
    <2> HIDE DEF f
    <2>5. /\ IsStack(stack', Parsing) /\ stack' # <<>>
          /\ \A k \in 1 .. Len(stack) : stack'[k].dir = stack[k].dir
      <3>1. Retops(stack', stack, f)
        BY <2>1 DEF Retops, WithTop
      <3> QED
        BY <2>1, <2>4, <3>1, RetopIs
    <2>6. stack'[1].dir = stack[1].dir
      BY <2>2, <2>5
    <2> QED
      BY <1>2, <1>9, <2>1, <2>5, <2>6
  <1>13. ASSUME NEW reason, Skip(reason), pc = "lenient", stack # <<>>,
                visited' \in {visited, visited \cup {Top.cur}}, UNCHANGED <<file, pc, at, pages, trees>>
         PROVE  WalkTypes'
    <2> DEFINE f == [Top EXCEPT !.cur = 0]
    <2>1. stack' = WithTop(f)
      BY <1>13 DEF Skip
    <2>2. /\ IsFrame(Top) /\ Top.todo \in Seq(Nat) /\ Top.cur \in Nat
          /\ Len(stack) \in Nat /\ Len(stack) >= 1
      BY <1>13, TopIs
    <2>3. Moves(f)
      <3>1. Top = [dir |-> Top.dir, todo |-> Top.todo, cur |-> Top.cur, kids |-> Top.kids]
        BY <2>2 DEF IsFrame
      <3>2. f = [Top EXCEPT !.cur = 0, !.todo = Top.todo]
        BY <3>1
      <3> QED
        BY <2>2, <3>2 DEF Moves
    <2> HIDE DEF f
    <2>4. /\ IsStack(stack', Parsing) /\ stack' # <<>>
          /\ \A k \in 1 .. Len(stack) : stack'[k].dir = stack[k].dir
      <3>1. Retops(stack', stack, f)
        BY <2>1 DEF Retops, WithTop
      <3> QED
        BY <1>13, <2>3, <3>1, RetopIs
    <2>5. stack'[1].dir = stack[1].dir
      BY <2>2, <2>4
    <2>6. visited' \subseteq Nat
      BY <1>2, <1>13, <2>2
    <2> QED
      BY <1>9, <1>13, <2>4, <2>5, <2>6
  <1>14. CASE SkipRefused
    BY <1>13, <1>14 DEF SkipRefused
  <1>15. CASE SkipUnparseable
    BY <1>13, <1>15 DEF SkipUnparseable
  <1>16. CASE Follow
    <2> DEFINE o == Top.cur
               g == Frame(o)
    <2>1. /\ stack # <<>> /\ pc = "lenient" /\ Parses(o)
          /\ visited' = visited \cup {o} /\ stack' = Append(stack, g)
          /\ UNCHANGED <<file, pc, at, pages, trees>>
      BY <1>16 DEF Follow
    <2>2. o \in Nat /\ Len(stack) \in Nat /\ Len(stack) >= 1
      BY <2>1, TopIs
    <2>3. o \in Parsing
      BY <2>1, <2>2 DEF Parsing
    <2>4. IsFrame(g) /\ g.dir = o
      BY <1>1, <2>3, FrameIs
    <2> HIDE DEF o, g
    <2>5. /\ IsStack(stack', Parsing) /\ stack' # <<>>
          /\ \A k \in 1 .. Len(stack) : stack'[k] = stack[k]
      <3>1. IsFrameOf(g, Parsing) /\ Pushes(stack', stack, g)
        BY <2>1, <2>3, <2>4 DEF IsFrameOf, Pushes
      <3> QED
        BY <1>2, <3>1, StackPushes
    <2>6. stack'[1].dir = stack[1].dir
      BY <2>2, <2>5
    <2>7. visited' \subseteq Nat
      BY <1>2, <2>1, <2>2
    <2> QED
      BY <1>9, <2>1, <2>5, <2>6, <2>7
  <1>17. CASE FinishAudit
    <2>1. /\ UNCHANGED <<file, at, pages, visited, stack, trees>> /\ pc' = "done"
          /\ stack = <<>> /\ Len(trees) = Len(pages)
      BY <1>17 DEF FinishAudit
    <2> QED
      BY <1>1, <2>1 DEF WalkTypes, Page
  <1>18. CASE RefusePointer \/ ReturnTree
    BY <1>11, <1>18 DEF RefusePointer, ReturnTree
  <1>19. CASE UNCHANGED vars
    BY <1>1, <1>19 DEF vars, WalkTypes, Page
  <1> QED
    BY <1>4, <1>5, <1>6, <1>7, <1>8, <1>10, <1>12, <1>14, <1>15, <1>16, <1>17, <1>18, <1>19 DEF Next

\* One more directory in the ledgers.
LEMMA DirectoryMatches ==
    ASSUME file \in Files, NEW o \in Nat, NEW cs, NEW bytes, NEW fs, Match(cs, bytes, fs),
           NEW gs, Unparsed(fs) => Unparsed(gs), Unparsed(gs) \/ Parses(o)
    PROVE  /\ Match(cs \o DirClaims(o), bytes \cup BytesOf(DirReads(o)), gs)
           /\ BytesOf(ToSet(cs)) \subseteq BytesOf(ToSet(cs \o DirClaims(o)))
           /\ Parses(o) => o \in BytesOf(ToSet(cs \o DirClaims(o)))
  <1> DEFINE new == DirClaims(o)
             more == BytesOf(DirReads(o))
  <1>1. Adds(o, new, more)
    BY DirectoryAdds
  <1> HIDE DEF new, more
  <1>2. /\ new \in Seq(ClaimSet) /\ more \subseteq 0 .. FileLen - 1
        /\ \A c \in ToSet(new) : c.parsed => End(c) <= FileLen /\ Bytes(c) \subseteq more
        /\ Parses(o) => more \subseteq BytesOf(ToSet(new)) /\ o \in BytesOf(ToSet(new))
    BY <1>1 DEF Adds
  <1>3. /\ Match(cs \o new, bytes \cup more, gs)
        /\ BytesOf(ToSet(cs)) \subseteq BytesOf(ToSet(cs \o new))
        /\ BytesOf(ToSet(new)) \subseteq BytesOf(ToSet(cs \o new))
    BY <1>2, MatchGrows
  <1> QED
    BY <1>2, <1>3 DEF new, more

\* Declared extents in the ledgers: no byte is read.
LEMMA ExtentsMatch ==
    ASSUME file \in Files, NEW o \in Parsing, NEW cs, NEW bytes, NEW fs, Match(cs, bytes, fs)
    PROVE  /\ Match(cs \o Extents(o), bytes, fs)
           /\ BytesOf(ToSet(cs)) \subseteq BytesOf(ToSet(cs \o Extents(o)))
  <1> DEFINE new == Extents(o)
             more == {}
  <1>1. new \in Seq(ClaimSet) /\ \A c \in ToSet(new) : ~c.parsed
    BY ExtentsAre
  <1>2. more \subseteq 0 .. FileLen - 1 /\ more \subseteq BytesOf(ToSet(new)) /\ bytes \cup more = bytes
    OBVIOUS
  <1> HIDE DEF new, more
  <1>3. \A c \in ToSet(new) : c.parsed => End(c) <= FileLen /\ Bytes(c) \subseteq more
    BY <1>1
  <1>4. /\ Match(cs \o new, bytes \cup more, fs)
        /\ BytesOf(ToSet(cs)) \subseteq BytesOf(ToSet(cs \o new))
    BY <1>1, <1>2, <1>3, MatchGrows
  <1> QED
    BY <1>2, <1>4 DEF new

\* Reading the directories keeps the ledgers in agreement, and claims what it reaches.
LEMMA LedgersKept ==
    ASSUME WalkInv, [Next]_vars
    PROVE  Match(claims', read', findings') /\ ReachedIsClaimed'
  <1>1. WalkTypes /\ Match(claims, read, findings) /\ ReachedIsClaimed
    BY DEF WalkInv
  <1>2. file \in Files /\ file' = file /\ Parsing' = Parsing
    BY <1>1, SameFile DEF WalkTypes
  <1>3. /\ 0 \in ClaimedIn /\ ToSet(pages) \subseteq ClaimedIn
        /\ pc \in {"lenient", "done"} =>
              visited \cap Parsing \subseteq ClaimedIn /\ (visited \subseteq Parsing \/ Unparsed(findings))
    BY <1>1 DEF ReachedIsClaimed
  <1>4. ASSUME UNCHANGED <<claims, read, pages>>, Unparsed(findings) => Unparsed(findings'),
               pc' \in {"lenient", "done"} => visited' = {} \/ (visited' = visited /\ pc \in {"lenient", "done"})
        PROVE  Match(claims', read', findings') /\ ReachedIsClaimed'
    <2>1. Match(claims', read', findings')
      BY <1>1, <1>4 DEF Match
    <2>2. ClaimedIn' = ClaimedIn
      BY <1>4 DEF ClaimedIn
    <2> QED
      BY <1>2, <1>3, <1>4, <2>1, <2>2 DEF ReachedIsClaimed
  <1>5. CASE ReadPage
    <2>1. /\ Parses(at) /\ pages' = Append(pages, at) /\ pc = "chain" /\ UNCHANGED <<pc, findings>>
          /\ read' = read \cup BytesOf(DirReads(at)) /\ claims' = claims \o DirClaims(at)
      BY <1>5 DEF ReadPage, Fetched
    <2>2. at \in Nat /\ pages \in Seq(Nat)
      BY <1>1 DEF WalkTypes
    <2>3. /\ Match(claims', read', findings') /\ ClaimedIn \subseteq ClaimedIn' /\ at \in ClaimedIn'
      BY <1>1, <1>2, <2>1, <2>2, DirectoryMatches DEF ClaimedIn
    <2>4. ToSet(pages') \subseteq ToSet(pages) \cup {at}
      <3>1. pages' = pages \o <<at>>
        BY <2>1, <2>2, AppendIsConcat
      <3>2. <<at>> \in Seq(Nat) /\ ToSet(<<at>>) = {at}
        BY <2>2 DEF ToSet
      <3>3. pages \in Seq(Nat) /\ <<at>> \in Seq(Nat)
        BY <2>2, <3>2
      <3>4. /\ pages \o <<at>> \in Seq(Nat)
            /\ ToSet(pages \o <<at>>) = ToSet(pages) \cup ToSet(<<at>>)
        BY <3>3, JoinedElements
      <3> QED
        BY <3>1, <3>2, <3>4
    <2> QED
      BY <1>2, <1>3, <2>1, <2>3, <2>4 DEF ReachedIsClaimed
  <1>6. CASE EnterPage("lenient")
    <2>1. /\ pc = "lenient" /\ Len(trees) < Len(pages) /\ claims' = claims \o Extents(Page)
          /\ UNCHANGED <<pc, pages, visited, read, findings>>
      BY <1>6 DEF EnterPage
    <2>2. Page \in Parsing
      BY <1>1, <2>1, PageIs
    <2>3. Match(claims', read', findings') /\ ClaimedIn \subseteq ClaimedIn'
      BY <1>1, <1>2, <2>1, <2>2, ExtentsMatch DEF ClaimedIn
    <2> QED
      BY <1>2, <1>3, <2>1, <2>3 DEF ReachedIsClaimed
  <1>7. ASSUME NEW which \in {"strict", "lenient"}, Leave(which)
        PROVE  Match(claims', read', findings') /\ ReachedIsClaimed'
    <2>1. UNCHANGED <<pc, pages, visited, read, claims>> /\ findings \subseteq findings' /\ pc = which
      <3>1. /\ pc = which /\ UNCHANGED <<pc, pages, visited, read, claims>> /\ stack # <<>>
            /\ Len(stack) = 1 => UNCHANGED findings
            /\ Len(stack) > 1 => findings' = findings \/ findings' = findings \cup {<<"chained", Top.dir>>}
        BY <1>1, <1>7, LeaveIs
      <3>2. Len(stack) \in Nat /\ Len(stack) >= 1
        BY <1>1, <3>1, TopIs
      <3>3. Len(stack) = 1 \/ Len(stack) > 1
        BY <3>2
      <3> QED
        BY <3>1, <3>3
    <2>2. Unparsed(findings) => Unparsed(findings')
      BY <2>1 DEF Unparsed
    <2>3. pc' \in {"lenient", "done"} => visited' = {} \/ (visited' = visited /\ pc \in {"lenient", "done"})
      BY <2>1
    <2> QED
      BY <1>4, <2>1, <2>2, <2>3
  <1>8. CASE SkipUnparseable
    <2> DEFINE o == Top.cur
    <2>1. /\ pc = "lenient" /\ stack # <<>> /\ findings' = findings \cup {<<"unparseable", o>>}
          /\ visited' = visited \cup {o} /\ ~Parses(o)
          /\ read' = read \cup BytesOf(DirReads(o)) /\ claims' = claims \o DirClaims(o)
          /\ UNCHANGED <<pc, pages>>
      BY <1>8 DEF SkipUnparseable, Skip, Fetched
    <2>2. o \in Nat
      BY <1>1, <2>1, TopIs
    <2> HIDE DEF o
    <2>3. Unparsed(findings')
      <3>1. <<"unparseable", o>> \in findings' /\ <<"unparseable", o>>[1] = "unparseable"
        BY <2>1
      <3> QED
        BY <3>1 DEF Unparsed
    <2>4. Match(claims', read', findings') /\ ClaimedIn \subseteq ClaimedIn'
      BY <1>1, <1>2, <2>1, <2>2, <2>3, DirectoryMatches DEF ClaimedIn
    <2>5. visited' \cap Parsing \subseteq ClaimedIn'
      BY <1>3, <2>1, <2>4 DEF Parsing
    <2> QED
      BY <1>2, <1>3, <2>1, <2>3, <2>4, <2>5 DEF ReachedIsClaimed
  <1>9. CASE Follow
    <2> DEFINE o == Top.cur
               cs == claims \o DirClaims(o)
    <2>1. /\ pc = "lenient" /\ stack # <<>> /\ Parses(o) /\ visited' = visited \cup {o}
          /\ read' = read \cup BytesOf(DirReads(o)) /\ claims' = claims \o DirClaims(o) \o Extents(o)
          /\ UNCHANGED <<pc, pages, findings>>
      BY <1>9 DEF Follow, Fetched
    <2>2. o \in Nat
      BY <1>1, <2>1, TopIs
    <2>3. o \in Parsing
      BY <2>1, <2>2 DEF Parsing
    <2> HIDE DEF o
    <2>4. /\ Match(cs, read', findings) /\ ClaimedIn \subseteq BytesOf(ToSet(cs))
          /\ o \in BytesOf(ToSet(cs))
      BY <1>1, <1>2, <2>1, <2>2, DirectoryMatches DEF ClaimedIn
    <2>5. claims' = cs \o Extents(o)
      BY <2>1
    <2> HIDE DEF cs
    <2>6. Match(claims', read', findings') /\ BytesOf(ToSet(cs)) \subseteq ClaimedIn'
      BY <1>2, <2>1, <2>3, <2>4, <2>5, ExtentsMatch DEF ClaimedIn
    <2>7. visited' \cap Parsing \subseteq ClaimedIn' /\ (visited' \subseteq Parsing \/ Unparsed(findings))
      BY <1>3, <2>1, <2>3, <2>4, <2>6
    <2> QED
      BY <1>2, <1>3, <2>1, <2>4, <2>6, <2>7 DEF ReachedIsClaimed
  <1>10. CASE SkipRefused
    <2>1. findings \subseteq findings' /\ pc = "lenient" /\ UNCHANGED <<claims, read, pages, visited, pc>>
      BY <1>10 DEF SkipRefused, Skip
    <2> QED
      BY <1>4, <2>1 DEF Unparsed
  <1>11. CASE RefusePointer \/ ReturnTree
    <2>1. visited' = {} /\ UNCHANGED <<claims, read, pages, findings>>
      BY <1>11 DEF RefusePointer, ReturnTree, ToAudit
    <2> QED
      BY <1>4, <2>1
  <1>12. CASE ChainFails \/ EndChain \/ EnterPage("strict") \/ ResolvePointer
    <2>1. UNCHANGED <<claims, read, pages, findings>> /\ pc' \notin {"lenient", "done"}
      BY <1>12 DEF ChainFails, Fail, EndChain, EnterPage, ResolvePointer
    <2> QED
      BY <1>4, <2>1
  <1>13. CASE NextPointer \/ FinishAudit \/ UNCHANGED vars
    <2>1. /\ UNCHANGED <<claims, read, pages, findings, visited>>
          /\ pc' \in {"lenient", "done"} => pc \in {"lenient", "done"}
      BY <1>13 DEF NextPointer, FinishAudit, vars
    <2> QED
      BY <1>4, <2>1
  <1> QED
    BY <1>5, <1>6, <1>7, <1>8, <1>9, <1>10, <1>11, <1>12, <1>13 DEF Next

\* The pointers of the walk are followed as it goes on, unless it skips one.
LEMMA PointersKept == ASSUME WalkInv, [Next]_vars PROVE PointersAreFollowed'
  <1> DEFINE n == Len(stack)
             V == visited \cup {0}
             T == PointedBy
  <1>1. WalkTypes /\ PointersAreFollowed /\ file \in Files
    BY DEF WalkInv, WalkTypes
  <1>2. PointedBy' = T /\ Parsing' = Parsing
    BY SameFile
  <1>3. SUFFICES ASSUME pc' \in {"lenient", "done"}, ~Skipped' PROVE Follows(stack', visited', Left', T)
    BY <1>2 DEF PointersAreFollowed
  <1>4. ASSUME pc \in {"lenient", "done"}, findings \subseteq findings' PROVE Follows(stack, visited, Left, T)
    <2>1. ~Skipped
      BY <1>3, <1>4 DEF Skipped
    <2> QED
      BY <1>1, <1>4, <2>1 DEF PointersAreFollowed
  <1>5. ASSUME Follows(stack, visited, Left, T)
        PROVE  /\ \A k \in 1 .. n : \A p \in T[stack[k].dir] :
                     p \in ToSet(stack[k].todo) \/ p = stack[k].cur \/ p \in V
               /\ \A k \in 1 .. n : k < n => stack[k].cur \in V
               /\ \A o \in visited \cup Left : (\E k \in 1 .. n : stack[k].dir = o) \/ T[o] \subseteq V
    BY <1>5 DEF Follows
  <1>6. CASE EnterPage("lenient")
    <2> DEFINE f == Frame(Page)
    <2>1. /\ pc = "lenient" /\ stack = <<>> /\ Len(trees) < Len(pages) /\ stack' = <<f>>
          /\ UNCHANGED <<pages, visited, trees, findings>>
      BY <1>6 DEF EnterPage
    <2>2. Page \in Parsing
      BY <1>1, <2>1, PageIs
    <2>3. f.dir = Page /\ f.cur = 0 /\ T[Page] = ToSet(f.todo)
      BY <1>1, <2>2, FrameIs
    <2> HIDE DEF f
    <2>4. Follows(stack, visited, Left, T) /\ Len(stack) = 0
      BY <1>4, <2>1, EmptyStack
    <2>5. \A o \in visited \cup Left : T[o] \subseteq V
      BY <1>5, <2>4
    <2>6. Left' = Left
      BY <2>1 DEF Left
    <2>7. Len(stack') = 1 /\ stack'[1] = f
      BY <2>1
    <2> HIDE DEF T
    <2> QED
      BY <2>1, <2>3, <2>5, <2>6, <2>7 DEF Follows
  <1>7. CASE Leave("lenient")
    <2>1. /\ stack # <<>> /\ Top.todo = <<>> /\ Top.cur = 0 /\ pc = "lenient"
          /\ UNCHANGED <<pages, visited>>
          /\ Len(stack) = 1 => stack' = <<>> /\ trees' = Append(trees, Tree(Top)) /\ UNCHANGED findings
          /\ Len(stack) > 1 =>
                /\ stack' # <<>> /\ Len(stack') = Len(stack) - 1
                /\ \A k \in 1 .. Len(stack) - 1 :
                      /\ stack'[k].dir = stack[k].dir /\ stack'[k].todo = stack[k].todo
                      /\ k < Len(stack) - 1 => stack'[k].cur = stack[k].cur
                /\ UNCHANGED trees
                /\ findings' = findings \/ findings' = findings \cup {<<"chained", Top.dir>>}
      BY <1>1, <1>7, LeaveIs
    <2>2. n \in Nat /\ n >= 1 /\ Top = stack[n]
      BY <1>1, <2>1, TopIs
    <2>3. n = 1 \/ n > 1
      <3> DEFINE m == n
      <3>1. m \in Nat /\ m >= 1
        BY <2>2
      <3> HIDE DEF m
      <3>2. m = 1 \/ m > 1
        BY <3>1
      <3> QED
        BY <3>2 DEF m
    <2>4. findings \subseteq findings'
      BY <2>1, <2>3
    <2>5. Follows(stack, visited, Left, T)
      BY <1>4, <2>1, <2>4
    <2>6. T[Top.dir] \subseteq V
      <3>1. ToSet(<<>>) = {}
        BY DEF ToSet
      <3>2. n \in 1 .. n
        BY <2>2
      <3> HIDE DEF n, T
      <3>3. \A p \in T[stack[n].dir] : p \in ToSet(stack[n].todo) \/ p = stack[n].cur \/ p \in V
        BY <1>5, <2>5, <3>2
      <3> QED
        BY <2>1, <2>2, <3>1, <3>3
    <2>7. CASE n = 1
      <3>1. \A o \in visited \cup Left : T[o] \subseteq V
        <4> SUFFICES ASSUME NEW o \in visited \cup Left PROVE T[o] \subseteq V
          OBVIOUS
        <4>1. (\E k \in 1 .. n : stack[k].dir = o) \/ T[o] \subseteq V
          BY <1>5, <2>5
        <4>2. \A k \in 1 .. n : stack[k] = Top
          BY <2>2, <2>7
        <4> QED
          BY <2>6, <4>1, <4>2
      <3>2. stack' = <<>> /\ Left' \subseteq Left \cup {Top.dir}
        <4> DEFINE t == Tree(Top)
                   S == ToSet(trees) \cup {t}
        <4>1. trees \in Seq(S) /\ t \in S
          BY <1>1, Widened DEF WalkTypes
        <4>2. trees' = Append(trees, t) /\ stack' = <<>>
          BY <2>1, <2>7
        <4> HIDE DEF t, S
        <4>3. Len(trees') = Len(trees) + 1 /\ Len(trees) \in Nat
          BY <4>1, <4>2, AppendProperties, LenProperties
        <4>4. Top.dir = pages[Len(trees) + 1]
          <5>1. stack[1].dir = Page
            BY <1>1, <2>1 DEF WalkTypes
          <5> QED
            BY <2>2, <2>7, <5>1 DEF Page
        <4>5. pages' = pages
          BY <2>1
        <4>6. \A i \in 1 .. Len(trees') : i \in 1 .. Len(trees) \/ i = Len(trees) + 1
          BY <4>3
        <4> QED
          BY <4>2, <4>4, <4>5, <4>6 DEF Left
      <3>3. Len(stack') = 0
        BY <3>2, EmptyStack
      <3>4. \A k \in 1 .. Len(stack') : FALSE
        BY <3>3
      <3>5. \A o \in visited \cup Left' : T[o] \subseteq V
        BY <2>6, <3>1, <3>2
      <3>6. visited' = visited
        BY <2>1
      <3> HIDE DEF T
      <3> QED
        BY <3>4, <3>5, <3>6 DEF Follows
    <2>8. CASE n > 1
      <3>1. /\ Len(stack') = n - 1 /\ visited' = visited /\ Left' = Left
            /\ \A k \in 1 .. n - 1 :
                  /\ stack'[k].dir = stack[k].dir /\ stack'[k].todo = stack[k].todo
                  /\ k < n - 1 => stack'[k].cur = stack[k].cur
        BY <2>1, <2>8 DEF Left
      <3> HIDE DEF n, T
      <3>2. /\ \A k \in 1 .. n : \A p \in T[stack[k].dir] :
                  p \in ToSet(stack[k].todo) \/ p = stack[k].cur \/ p \in V
            /\ \A k \in 1 .. n : k < n => stack[k].cur \in V
            /\ \A o \in visited \cup Left : (\E k \in 1 .. n : stack[k].dir = o) \/ T[o] \subseteq V
        BY <1>5, <2>5
      <3>3. ASSUME NEW k \in 1 .. n - 1, NEW p \in T[stack'[k].dir] PROVE p \in ToSet(stack'[k].todo) \/ p \in V
        <4>1. k \in 1 .. n /\ k < n
          BY <2>2
        <4>2. p \in T[stack[k].dir] /\ stack'[k].todo = stack[k].todo
          BY <3>1, <3>3
        <4> QED
          BY <3>2, <4>1, <4>2
      <3>4. ASSUME NEW k \in 1 .. n - 1, k < n - 1 PROVE stack'[k].cur \in V
        <4>1. k \in 1 .. n /\ k < n
          BY <2>2
        <4> QED
          BY <3>1, <3>2, <3>4, <4>1
      <3>5. ASSUME NEW o \in visited \cup Left PROVE (\E k \in 1 .. n - 1 : stack'[k].dir = o) \/ T[o] \subseteq V
        <4>1. ASSUME NEW k \in 1 .. n, stack[k].dir = o PROVE (\E j \in 1 .. n - 1 : stack'[j].dir = o) \/ T[o] \subseteq V
          <5>1. CASE k = n
            BY <2>2, <2>6, <4>1, <5>1
          <5>2. CASE k # n
            <6>1. k \in 1 .. n - 1
              BY <2>2, <5>2
            <6> QED
              BY <3>1, <4>1, <6>1
          <5> QED
            BY <5>1, <5>2
        <4> QED
          BY <3>2, <4>1
      <3> QED
        BY <3>1, <3>3, <3>4, <3>5 DEF Follows
    <2> QED
      BY <2>3, <2>7, <2>8
  <1>8. CASE NextPointer
    <2> DEFINE o == Head(Top.todo)
               t == Tail(Top.todo)
               f == [Top EXCEPT !.cur = Head(Top.todo), !.todo = Tail(@)]
    <2>1. /\ stack # <<>> /\ Top.todo # <<>> /\ Top.cur = 0 /\ pc = "lenient" /\ stack' = WithTop(f)
          /\ UNCHANGED <<pages, visited, trees, findings>>
      BY <1>8 DEF NextPointer
    <2>2. /\ Top.todo \in Seq(Nat) /\ n \in Nat /\ n >= 1 /\ Top = stack[n] /\ IsFrame(Top)
      BY <1>1, <2>1, TopIs
    <2>3. o \in Nat /\ t \in Seq(Nat) /\ Top.todo = <<o>> \o t
      <3>1. o \in Nat /\ t \in Seq(Nat) /\ Len(t) = Len(Top.todo) - 1 /\ \A i \in 1 .. Len(t) : t[i] = Top.todo[i + 1]
        BY <2>1, <2>2, HeadTailProperties
      <3> QED
        BY <2>1, <2>2
    <2>4. ToSet(Top.todo) \subseteq ToSet(t) \cup {o}
      <3> DEFINE b == <<o>>
      <3>1. b \in Seq(Nat) /\ ToSet(b) = {o}
        BY <2>3 DEF ToSet
      <3>2. t \in Seq(Nat) /\ Top.todo = b \o t
        BY <2>3
      <3> HIDE DEF o, t, b
      <3>3. b \o t \in Seq(Nat) /\ ToSet(b \o t) = ToSet(b) \cup ToSet(t)
        BY <3>1, <3>2, JoinedElements
      <3> QED
        BY <3>1, <3>2, <3>3
    <2>5. f = [Top EXCEPT !.cur = o, !.todo = t]
      OBVIOUS
    <2>6. f = [dir |-> Top.dir, todo |-> t, cur |-> o, kids |-> Top.kids]
      <3>1. Top = [dir |-> Top.dir, todo |-> Top.todo, cur |-> Top.cur, kids |-> Top.kids]
        BY <2>2 DEF IsFrame
      <3> HIDE DEF o, t, f
      <3> QED
        BY <2>5, <3>1
    <2>7. Moves(f)
      <3> HIDE DEF o, t, f
      <3> QED
        BY <2>3, <2>5 DEF Moves
    <2> HIDE DEF f, o, t
    <2>8. /\ Len(stack') = n /\ stack'[n] = f
          /\ \A k \in 1 .. n : (k < n => stack'[k] = stack[k]) /\ stack'[k].dir = stack[k].dir
      <3>1. Retops(stack', stack, f)
        BY <2>1 DEF Retops, WithTop
      <3> QED
        BY <1>1, <2>1, <2>7, <3>1, RetopIs
    <2>9. f.todo = t /\ f.cur = o
      BY <2>6
    <2>10. Follows(stack, visited, Left, T) /\ Left' = Left /\ visited' = visited
      BY <1>4, <2>1 DEF Left
    <2> HIDE DEF n, T
    <2>11. /\ \A k \in 1 .. n : \A p \in T[stack[k].dir] :
                 p \in ToSet(stack[k].todo) \/ p = stack[k].cur \/ p \in V
           /\ \A k \in 1 .. n : k < n => stack[k].cur \in V
           /\ \A x \in visited \cup Left : (\E k \in 1 .. n : stack[k].dir = x) \/ T[x] \subseteq V
      BY <1>5, <2>10
    <2>12. ASSUME NEW k \in 1 .. n, NEW p \in T[stack'[k].dir]
           PROVE  p \in ToSet(stack'[k].todo) \/ p = stack'[k].cur \/ p \in V
      <3>1. p \in T[stack[k].dir]
        BY <2>8, <2>12
      <3>2. CASE k < n
        BY <2>8, <2>11, <3>1, <3>2
      <3>3. CASE k = n
        BY <2>1, <2>2, <2>4, <2>8, <2>9, <2>11, <3>1, <3>3
      <3> QED
        BY <2>2, <3>2, <3>3
    <2>13. \A k \in 1 .. n : k < n => stack'[k].cur \in V
      BY <2>8, <2>11
    <2>14. \A x \in visited \cup Left : (\E k \in 1 .. n : stack'[k].dir = x) \/ T[x] \subseteq V
      BY <2>8, <2>11
    <2> QED
      BY <2>8, <2>10, <2>12, <2>13, <2>14 DEF Follows
  <1>9. CASE Follow
    <2> DEFINE o == Top.cur
               g == Frame(o)
               W == visited' \cup {0}
    <2>1. /\ stack # <<>> /\ pc = "lenient" /\ Parses(o) /\ visited' = visited \cup {o} /\ stack' = Append(stack, g)
          /\ UNCHANGED <<pages, trees, findings>>
      BY <1>9 DEF Follow
    <2>2. o \in Nat /\ n \in Nat /\ n >= 1 /\ o = stack[n].cur
      BY <1>1, <2>1, TopIs
    <2>3. o \in Parsing
      BY <2>1, <2>2 DEF Parsing
    <2>4. IsFrame(g) /\ g.dir = o /\ T[o] = ToSet(g.todo)
      BY <1>1, <2>3, FrameIs
    <2> HIDE DEF o, g
    <2>5. Len(stack') = n + 1 /\ stack'[n + 1] = g /\ \A k \in 1 .. n : stack'[k] = stack[k]
      <3>1. IsFrameOf(g, Parsing) /\ Pushes(stack', stack, g) /\ IsStack(stack, Parsing)
        BY <1>1, <2>1, <2>3, <2>4 DEF IsFrameOf, Pushes, WalkTypes
      <3> QED
        BY <3>1, StackPushes
    <2>6. Follows(stack, visited, Left, T) /\ Left' = Left
      BY <1>4, <2>1 DEF Left
    <2>7. V \subseteq W /\ o \in W
      BY <2>1
    <2> HIDE DEF n, T
    <2>8. /\ \A k \in 1 .. n : \A p \in T[stack[k].dir] :
                p \in ToSet(stack[k].todo) \/ p = stack[k].cur \/ p \in V
          /\ \A k \in 1 .. n : k < n => stack[k].cur \in V
          /\ \A x \in visited \cup Left : (\E k \in 1 .. n : stack[k].dir = x) \/ T[x] \subseteq V
      BY <1>5, <2>6
    <2> HIDE DEF V
    <2>9. \A k \in 1 .. n + 1 : k \in 1 .. n \/ k = n + 1
      BY <2>2
    <2>10. ASSUME NEW k \in 1 .. n + 1, NEW p \in T[stack'[k].dir]
           PROVE  p \in ToSet(stack'[k].todo) \/ p = stack'[k].cur \/ p \in W
      BY <2>4, <2>5, <2>7, <2>8, <2>9, <2>10
    <2>11. ASSUME NEW k \in 1 .. n + 1, k < n + 1 PROVE stack'[k].cur \in W
      <3>1. k \in 1 .. n /\ (k < n \/ k = n)
        BY <2>2, <2>11
      <3> QED
        BY <2>2, <2>5, <2>7, <2>8, <3>1
    <2>12. ASSUME NEW x \in visited' \cup Left' PROVE (\E k \in 1 .. n + 1 : stack'[k].dir = x) \/ T[x] \subseteq W
      <3>1. CASE x = o
        <4>1. n + 1 \in 1 .. n + 1
          BY <2>2
        <4> QED
          BY <2>4, <2>5, <3>1, <4>1
      <3>2. CASE x # o
        <4>1. x \in visited \cup Left
          BY <2>1, <2>6, <3>2
        <4>2. \A k \in 1 .. n : k \in 1 .. n + 1
          BY <2>2
        <4> QED
          BY <2>5, <2>7, <2>8, <4>1, <4>2
      <3> QED
        BY <3>1, <3>2
    <2> QED
      BY <2>5, <2>10, <2>11, <2>12 DEF Follows
  <1>10. CASE RefusePointer \/ ReturnTree
    <2>1. visited' = {} /\ stack' = <<>> /\ trees' = <<>>
      BY <1>10 DEF RefusePointer, ReturnTree, ToAudit
    <2>2. Len(stack') = 0 /\ Len(trees') = 0
      BY <2>1, EmptyStack
    <2>3. Left' = {} /\ \A k \in 1 .. Len(stack') : FALSE
      BY <2>2 DEF Left
    <2> HIDE DEF T
    <2> QED
      BY <2>1, <2>3 DEF Follows
  <1>11. ASSUME NEW reason, reason # "chained", Skip(reason) PROVE FALSE
    <2>1. <<reason, Top.cur>> \in findings' /\ <<reason, Top.cur>>[1] # "chained"
      BY <1>11 DEF Skip
    <2> QED
      BY <1>3, <2>1 DEF Skipped
  <1>12. CASE SkipRefused
    <2>1. Skip(Refusal(Top.cur)) /\ Refusal(Top.cur) # None
      BY <1>12 DEF SkipRefused
    <2>2. Refusal(Top.cur) # "chained"
      BY <2>1 DEF Refusal
    <2> QED
      BY <1>11, <2>1, <2>2
  <1>13. CASE SkipUnparseable
    BY <1>11, <1>13 DEF SkipUnparseable
  <1>14. CASE FinishAudit \/ UNCHANGED vars
    <2>1. UNCHANGED <<stack, visited, pages, trees, findings>> /\ pc \in {"lenient", "done"}
      BY <1>3, <1>14 DEF FinishAudit, vars
    <2>2. Follows(stack, visited, Left, T) /\ Left' = Left
      BY <1>4, <2>1 DEF Left
    <2> QED
      BY <2>1, <2>2
  <1>15. CASE ReadPage \/ ChainFails \/ EndChain \/ EnterPage("strict") \/ Leave("strict") \/ ResolvePointer
    BY <1>3, <1>15 DEF ReadPage, ChainFails, Fail, EndChain, EnterPage, Leave, ResolvePointer
  <1> QED
    BY <1>6, <1>7, <1>8, <1>9, <1>10, <1>12, <1>13, <1>14, <1>15 DEF Next

\* The header is read and claimed before the walk starts.
LEMMA InitWalk == Init => WalkInv
  <1> SUFFICES ASSUME Init PROVE WalkInv
    OBVIOUS
  <1> DEFINE header == ClaimOf(0, HeaderLen, "header", TRUE)
  <1>1. /\ file \in Files /\ pc = "chain" /\ at = file.first /\ pages = <<>> /\ visited = {}
        /\ stack = <<>> /\ trees = <<>> /\ read = 0 .. HeaderLen - 1 /\ claims = header
    BY DEF Init
  <1>2. HeaderLen \in Nat \ {0} /\ FileLen \in Nat /\ HeaderLen <= FileLen /\ at \in Nat
    BY <1>1, WalkAssumption
  <1>3. "header" \in SpanKinds
    BY DEF SpanKinds
  <1>4. /\ header \in Seq(ClaimSet)
        /\ \A c \in ToSet(header) :
              c.parsed = TRUE /\ Bytes(c) = Bytes(Span(0, HeaderLen)) /\ End(c) = 0 + HeaderLen
        /\ BytesOf(ToSet(header)) = Bytes(Span(0, HeaderLen))
    BY <1>2, <1>3, ClaimOfIs
  <1>5. Bytes(Span(0, HeaderLen)) = 0 .. HeaderLen - 1
    <2>1. Bytes(Span(0, HeaderLen)) = 0 .. 0 + HeaderLen - 1
      BY <1>2, SpanBytes
    <2> QED
      BY <1>2, <2>1
  <1> HIDE DEF header
  <1>6. Match(claims, read, findings)
    <2>1. read \subseteq 0 .. FileLen - 1
      BY <1>1, <1>2
    <2>2. \A c \in ToSet(claims) : End(c) <= FileLen /\ Bytes(c) \subseteq read
      BY <1>1, <1>2, <1>4, <1>5
    <2>3. read \subseteq BytesOf(ToSet(claims))
      BY <1>1, <1>4, <1>5
    <2> QED
      BY <1>1, <1>4, <2>1, <2>2, <2>3 DEF Match
  <1>7. IsStack(<<>>, Parsing) /\ Len(<<>>) = 0 /\ <<>> \in Seq(ToSet(<<>>))
    BY EmptyStack
  <1>8. ToSet(pages) = {} /\ pages \in Seq(Nat)
    BY <1>1, EmptySeq DEF ToSet
  <1>9. WalkTypes
    <2>1. IsStack(stack, Parsing) /\ trees \in Seq(ToSet(trees)) /\ Len(trees) <= Len(pages)
      BY <1>1, <1>7
    <2> QED
      BY <1>1, <1>2, <1>8, <2>1 DEF WalkTypes
  <1>10. ReachedIsClaimed
    <2>1. 0 \in ClaimedIn
      BY <1>1, <1>2, <1>4, <1>5 DEF ClaimedIn
    <2> QED
      BY <1>1, <1>8, <2>1 DEF ReachedIsClaimed
  <1> QED
    BY <1>1, <1>6, <1>9, <1>10 DEF WalkInv, PointersAreFollowed

\* No step of either walk breaks the invariant.
LEMMA NextWalk == WalkInv /\ [Next]_vars => WalkInv'
  <1> SUFFICES ASSUME WalkInv, [Next]_vars PROVE WalkInv'
    OBVIOUS
  <1>1. WalkTypes'
    BY TypesKept DEF WalkInv
  <1>2. Match(claims', read', findings') /\ ReachedIsClaimed'
    BY LedgersKept
  <1>3. PointersAreFollowed'
    BY PointersKept
  <1> QED
    BY <1>1, <1>2, <1>3 DEF WalkInv

\* Whatever the file holds and wherever its pointers lead, at every point of the walks
\* (read_tree, audit) what was read, what is claimed, what was followed and what is still to be
\* followed fit together.
THEOREM WalkInvariant == Spec => []WalkInv
  <1>1. Init => WalkInv
    BY InitWalk
  <1>2. WalkInv /\ [Next]_vars => WalkInv'
    BY NextWalk
  <1> QED
    BY <1>1, <1>2, PTL DEF Spec

\* The report of the audit's ledgers.
LEMMA AuditTells ==
    ASSUME WalkInv
    PROVE  /\ Report.unclassified = <<>> <=> 0 .. FileLen - 1 \subseteq ClaimedIn
           /\ Report.unclaimed_reads = <<>> <=> read \subseteq ClaimedIn
           /\ Report.unread_claims = {} <=>
                 \A k \in 1 .. Len(claims) : claims[k].parsed /\ claims[k].start < FileLen =>
                     Bytes(Clamp(claims[k], FileLen)) \subseteq read
  <1> DEFINE runs == Runs(read)
  <1>1. claims \in Seq(ClaimSet) /\ read \subseteq 0 .. FileLen - 1 /\ FileLen \in Nat
    BY WalkAssumption DEF WalkInv, Match
  <1>2. read \in SUBSET (0 .. FileLen)
    BY <1>1
  <1>3. IsLedger(runs) /\ BytesOf(ToSet(runs)) = read
    BY <1>1, <1>2, RunsAre
  <1>4. Report = Finish(claims, FileLen, runs)
    BY DEF Report
  <1> HIDE DEF runs
  <1>5. Tells(Finish(claims, FileLen, runs), claims, FileLen, runs)
    BY <1>1, <1>3, ReportTells
  <1>6. Tells(Report, claims, FileLen, runs)
    BY <1>4, <1>5
  <1> QED
    BY <1>3, <1>6 DEF Tells, ClaimedIn

\* With every target parsed, the ledgers agree byte by byte.
LEMMA AgreeingLedgers == WalkInv => LedgersAgree
  <1> SUFFICES ASSUME WalkInv, \A f \in findings : f[1] # "unparseable"
               PROVE  Report.unclaimed_reads = <<>> /\ Report.unread_claims = {}
    BY DEF LedgersAgree
  <1>1. Match(claims, read, findings) /\ ~Unparsed(findings)
    BY DEF WalkInv, Unparsed
  <1>2. /\ claims \in Seq(ClaimSet) /\ read \subseteq ClaimedIn
        /\ \A c \in ToSet(claims) : c.parsed => End(c) <= FileLen /\ Bytes(c) \subseteq read
    BY <1>1 DEF Match, ClaimedIn
  <1>3. ASSUME NEW k \in 1 .. Len(claims), claims[k].parsed, claims[k].start < FileLen
        PROVE  Bytes(Clamp(claims[k], FileLen)) \subseteq read
    <2> DEFINE c == claims[k]
    <2>1. c \in ToSet(claims)
      BY <1>2, <1>3, OwnElements
    <2>2. c \in ClaimSet
      BY <1>2, <1>3, ElementOfSeq
    <2>3. c.parsed /\ c.start < FileLen
      BY <1>3
    <2> HIDE DEF c
    <2>4. End(c) <= FileLen /\ Bytes(c) \subseteq read
      BY <1>2, <2>1, <2>3
    <2>5. FileLen \in Nat
      BY WalkAssumption
    <2>6. Clamp(c, FileLen) = c
      BY <2>2, <2>3, <2>4, <2>5, ClampParts
    <2> QED
      BY <2>4, <2>6 DEF c
  <1> QED
    BY <1>2, <1>3, AuditTells

\* A finished audit that skipped no directory has followed every pointer.
LEMMA AllFollowed ==
    ASSUME WalkInv, pc = "done", ~Skipped
    PROVE  Targets(visited \cup ToSet(pages)) \subseteq visited \cup {0}
  <1> DEFINE to == PointedBy
  <1>1. Follows(stack, visited, Left, to)
    BY DEF WalkInv, PointersAreFollowed
  <1>2. /\ stack = <<>> /\ Len(trees) = Len(pages) /\ pages \in Seq(Nat)
        /\ ToSet(pages) \subseteq Parsing /\ visited \subseteq Nat
    BY DEF WalkInv, WalkTypes
  <1>3. Len(stack) = 0
    BY <1>2, EmptyStack
  <1>4. ToSet(pages) \subseteq Left
    BY <1>2, OwnElements DEF Left
  <1>5. \A k \in 1 .. Len(stack) : FALSE
    BY <1>3
  <1> HIDE DEF to
  <1>6. \A o \in visited \cup Left : to[o] \subseteq visited \cup {0}
    BY <1>1, <1>5 DEF Follows
  <1>7. ASSUME NEW o \in visited \cup ToSet(pages) PROVE ToSet(Pointers(o)) \subseteq visited \cup {0}
    <2>1. o \in Nat
      BY <1>2, <1>7 DEF Parsing
    <2>2. to[o] = ToSet(Pointers(o))
      BY <2>1 DEF to, PointedBy
    <2> QED
      BY <1>4, <1>6, <1>7, <2>2
  <1> QED
    BY <1>7 DEF Targets

\* A file that is fully classified has no directory to hide.
LEMMA HidingVerdict == WalkInv => VerdictHidesNoDirectory
  <1> SUFFICES ASSUME WalkInv, pc = "done", FullyClassified(Final),
                      NEW o \in Targets(visited \cup ToSet(pages)), Stored(o), o < FileLen
               PROVE  o \in ClaimedIn
    BY DEF VerdictHidesNoDirectory, ClaimedIn
  <1>1. CASE Skipped
    <2>1. Report.unclassified = <<>>
      BY <1>1 DEF FullyClassified, Final, NamesGaps
    <2>2. 0 .. FileLen - 1 \subseteq ClaimedIn
      BY <2>1, AuditTells
    <2>3. o \in Nat /\ FileLen \in Nat
      BY StoredIs, WalkAssumption DEF WalkInv, WalkTypes
    <2> QED
      BY <2>2, <2>3
  <1>2. CASE ~Skipped
    <2>1. o \in visited \cup {0}
      BY <1>2, AllFollowed
    <2>2. ~Unparsed(findings)
      BY <1>2 DEF Skipped, Unparsed
    <2>3. 0 \in ClaimedIn /\ visited \cap Parsing \subseteq ClaimedIn /\ visited \subseteq Parsing
      BY <2>2 DEF WalkInv, ReachedIsClaimed
    <2> QED
      BY <2>1, <2>3
  <1> QED
    BY <1>1, <1>2

\* The verdict of the audit (audit.rs: Auditor::finish) can be relied on for every file, of any
\* size, whatever its pointers, values and data extents: when every target parsed, all bytes read
\* are claimed and all parsed claims were read; and a file that is fully classified has no
\* directory outside every claim.
THEOREM AuditVerdictHolds == Spec => []VerdictIsHonest
  <1>1. WalkInv => VerdictIsHonest
    BY AgreeingLedgers, HidingVerdict DEF VerdictIsHonest
  <1> QED
    BY <1>1, WalkInvariant, PTL
====================================================================================
