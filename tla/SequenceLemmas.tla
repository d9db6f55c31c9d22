------------------------------ MODULE SequenceLemmas -------------------------------
(* What the proofs share.  The three changes of a call stack, for stacks of any    *)
(* frames: a call returns, the call at work moves on, the backend it runs makes a  *)
(* call.  Induction along the positions of a sequence, recursive functions on the  *)
(* naturals, and powers of two.                                                    *)
EXTENDS SequencesExt, SequenceTheorems, WellFoundedInduction, TLAPS

\* Removing the top of a nonempty stack shortens it by one and leaves the
\* frames below in place.
LEMMA Popped ==
    ASSUME NEW S, NEW s \in Seq(S), s # <<>>
    PROVE  /\ Front(s) \in Seq(S)
           /\ Len(Front(s)) = Len(s) - 1
           /\ DOMAIN Front(s) = 1 .. Len(s) - 1
           /\ \A d \in 1 .. Len(s) - 1 : Front(s)[d] = s[d]
  <1> DEFINE n == Len(s) - 1
  <1>1. n \in Nat /\ n \in Int /\ 1 \in Int
    BY EmptySeq, LenProperties
  <1>2. \A i \in 1 .. n : s[i] \in S
    BY <1>1, ElementOfSeq, LenProperties
  <1> HIDE DEF n
  <1>3. /\ SubSeq(s, 1, n) \in Seq(S)
        /\ Len(SubSeq(s, 1, n)) = IF 1 <= n THEN n - 1 + 1 ELSE 0
        /\ \A i \in 1 .. n - 1 + 1 : SubSeq(s, 1, n)[i] = s[1 + i - 1]
    BY <1>1, <1>2, SubSeqProperties
  <1>4. /\ SubSeq(s, 1, n) \in Seq(S)
        /\ Len(SubSeq(s, 1, n)) = n
        /\ \A i \in 1 .. n : SubSeq(s, 1, n)[i] = s[i]
    BY <1>1, <1>3
  <1>5. DOMAIN SubSeq(s, 1, n) = 1 .. n
    BY <1>4, LenProperties
  <1> QED
    BY <1>4, <1>5 DEF Front, n

\* Replacing the top of a nonempty stack keeps its length and the frames
\* below.
LEMMA Retopped ==
    ASSUME NEW S, NEW s \in Seq(S), s # <<>>, NEW f \in S
    PROVE  LET r == [s EXCEPT ![Len(s)] = f] IN
           /\ r \in Seq(S)
           /\ Len(r) = Len(s) /\ DOMAIN r = 1 .. Len(s)
           /\ r # <<>>
           /\ r[Len(s)] = f
           /\ \A d \in 1 .. Len(s) - 1 : r[d] = s[d]
  <1>1. Len(s) \in Nat /\ Len(s) > 0
    BY EmptySeq, LenProperties
  <1> QED
    BY <1>1, ExceptSeq, LenProperties

\* Pushing a frame on a nonempty stack whose top is replaced keeps the frames
\* below both.
LEMMA Repushed ==
    ASSUME NEW S, NEW s \in Seq(S), s # <<>>, NEW f \in S, NEW g \in S
    PROVE  LET r == Append([s EXCEPT ![Len(s)] = f], g) IN
           /\ r \in Seq(S)
           /\ Len(r) = Len(s) + 1 /\ DOMAIN r = 1 .. Len(s) + 1
           /\ r # <<>>
           /\ r[Len(s) + 1] = g /\ r[Len(s)] = f
           /\ \A d \in 1 .. Len(s) - 1 : r[d] = s[d]
  <1> DEFINE q == [s EXCEPT ![Len(s)] = f]
             r == Append(q, g)
  <1>1. Len(s) \in Nat /\ Len(s) > 0
    BY EmptySeq, LenProperties
  <1>2. /\ q \in Seq(S) /\ Len(q) = Len(s) /\ q[Len(s)] = f
        /\ \A d \in 1 .. Len(s) - 1 : q[d] = s[d]
    BY Retopped
  <1> HIDE DEF q
  <1>3. /\ r \in Seq(S) /\ r # <<>> /\ Len(r) = Len(q) + 1 /\ r[Len(q) + 1] = g
        /\ \A i \in 1 .. Len(q) : r[i] = q[i]
    BY <1>2, AppendProperties
  <1> HIDE DEF r
  <1>4. DOMAIN r = 1 .. Len(r)
    BY <1>3, LenProperties
  <1>5. /\ r \in Seq(S) /\ Len(r) = Len(s) + 1 /\ DOMAIN r = 1 .. Len(s) + 1
        /\ r # <<>> /\ r[Len(s) + 1] = g /\ r[Len(s)] = f
        /\ \A d \in 1 .. Len(s) - 1 : r[d] = s[d]
    BY <1>1, <1>2, <1>3, <1>4
  <1> QED
    BY <1>5 DEF r, q

----------------------------------------------------------------------------
(* The same changes to the stack of one thread, in a map of stacks. *)

\* A pop moves one stack only and keeps the map of stacks well typed.
LEMMA MapPopped ==
    ASSUME NEW T, NEW S, NEW m \in [T -> Seq(S)], NEW t \in T, m[t] # <<>>
    PROVE  LET r == [m EXCEPT ![t] = Front(@)] IN
           /\ r \in [T -> Seq(S)]
           /\ \A u \in T : u # t => r[u] = m[u]
           /\ Len(r[t]) = Len(m[t]) - 1 /\ DOMAIN r[t] = 1 .. Len(m[t]) - 1
           /\ \A d \in 1 .. Len(m[t]) - 1 : r[t][d] = m[t][d]
  <1>1. m[t] \in Seq(S)
    OBVIOUS
  <1>2. /\ Front(m[t]) \in Seq(S) /\ Len(Front(m[t])) = Len(m[t]) - 1
        /\ DOMAIN Front(m[t]) = 1 .. Len(m[t]) - 1
        /\ \A d \in 1 .. Len(m[t]) - 1 : Front(m[t])[d] = m[t][d]
    BY <1>1, Popped
  <1> QED
    BY <1>2

\* Replacing the top of one stack moves no other.
LEMMA MapRetopped ==
    ASSUME NEW T, NEW S, NEW m \in [T -> Seq(S)], NEW t \in T, m[t] # <<>>, NEW f \in S
    PROVE  LET r == [m EXCEPT ![t] = [@ EXCEPT ![Len(@)] = f]] IN
           /\ r \in [T -> Seq(S)]
           /\ \A u \in T : u # t => r[u] = m[u]
           /\ Len(r[t]) = Len(m[t]) /\ DOMAIN r[t] = 1 .. Len(m[t])
           /\ r[t] # <<>> /\ r[t][Len(m[t])] = f
           /\ \A d \in 1 .. Len(m[t]) - 1 : r[t][d] = m[t][d]
  <1> DEFINE q == [m[t] EXCEPT ![Len(m[t])] = f]
  <1>1. m[t] \in Seq(S)
    OBVIOUS
  <1>2. /\ q \in Seq(S) /\ Len(q) = Len(m[t]) /\ DOMAIN q = 1 .. Len(m[t])
        /\ q # <<>> /\ q[Len(m[t])] = f /\ \A d \in 1 .. Len(m[t]) - 1 : q[d] = m[t][d]
    BY <1>1, Retopped
  <1> HIDE DEF q
  <1>3. [m EXCEPT ![t] = [@ EXCEPT ![Len(@)] = f]] = [m EXCEPT ![t] = q]
    BY DEF q
  <1> QED
    BY <1>2, <1>3

\* A nested call pushes a frame on one stack and moves no other.
LEMMA MapRepushed ==
    ASSUME NEW T, NEW S, NEW m \in [T -> Seq(S)], NEW t \in T, m[t] # <<>>,
           NEW f \in S, NEW g \in S
    PROVE  LET r == [m EXCEPT ![t] = Append([@ EXCEPT ![Len(@)] = f], g)] IN
           /\ r \in [T -> Seq(S)]
           /\ \A u \in T : u # t => r[u] = m[u]
           /\ Len(r[t]) = Len(m[t]) + 1 /\ DOMAIN r[t] = 1 .. Len(m[t]) + 1
           /\ r[t] # <<>> /\ r[t][Len(m[t]) + 1] = g /\ r[t][Len(m[t])] = f
           /\ \A d \in 1 .. Len(m[t]) - 1 : r[t][d] = m[t][d]
  <1> DEFINE q == Append([m[t] EXCEPT ![Len(m[t])] = f], g)
  <1>1. m[t] \in Seq(S)
    OBVIOUS
  <1>2. /\ q \in Seq(S) /\ Len(q) = Len(m[t]) + 1 /\ DOMAIN q = 1 .. Len(m[t]) + 1
        /\ q # <<>> /\ q[Len(m[t]) + 1] = g /\ q[Len(m[t])] = f
        /\ \A d \in 1 .. Len(m[t]) - 1 : q[d] = m[t][d]
    BY <1>1, Repushed
  <1> HIDE DEF q
  <1>3. [m EXCEPT ![t] = Append([@ EXCEPT ![Len(@)] = f], g)] = [m EXCEPT ![t] = q]
    BY DEF q
  <1> QED
    BY <1>2, <1>3

----------------------------------------------------------------------------
(* Induction along 0 .. n. *)

\* Induction up to n, about the numbers for which something holds as a set: the library
\* states it of a predicate, which the provers cannot instantiate.
LEMMA UpTo ==
    ASSUME NEW n \in Nat, NEW H, 0 \in H, \A k \in 1 .. n : k - 1 \in H => k \in H
    PROVE  \A k \in 0 .. n : k \in H
  <1> DEFINE W == {k \in 0 .. n : k \notin H}
             R == OpToRel(<, Nat)
  <1>1. SUFFICES ASSUME W # {} PROVE FALSE
    OBVIOUS
  <1>2. W \subseteq Nat
    OBVIOUS
  <1>3. PICK m \in W : \A y \in W : ~(<<y, m>> \in R)
    <2> HIDE DEF W, R
    <2> QED
      BY <1>1, <1>2, WFMin, NatLessThanWellFounded DEF R
  <1>4. \A y \in W : ~(y < m)
    BY <1>2, <1>3 DEF OpToRel
  <1>5. m \in 1 .. n /\ m - 1 \in 0 .. n
    OBVIOUS
  <1>6. m - 1 \in H
    BY <1>4, <1>5
  <1> QED
    BY <1>5, <1>6

\* The least of a set of numbers is one of them and below them all.
LEMMA LeastOf ==
    ASSUME NEW S \in SUBSET Nat, S # {}
    PROVE  Min(S) \in S /\ \A x \in S : Min(S) <= x
  <1> DEFINE R == OpToRel(<, Nat)
  <1>1. PICK m \in S : \A y \in S : ~(<<y, m>> \in R)
    <2> HIDE DEF R
    <2> QED
      BY WFMin, NatLessThanWellFounded DEF R
  <1>2. \A y \in S : ~(y < m)
    BY <1>1 DEF OpToRel
  <1>3. m \in Nat /\ \A y \in S : m <= y
    BY <1>2
  <1> QED
    BY <1>3 DEF Min

\* The greatest of a bounded set of numbers is one of them and above them all.
LEMMA GreatestOf ==
    ASSUME NEW S \in SUBSET Nat, S # {}, NEW m \in Nat, \A x \in S : x <= m
    PROVE  Max(S) \in S /\ \A x \in S : x <= Max(S)
  <1> DEFINE D == {m - x : x \in S}
  <1>1. D \in SUBSET Nat /\ D # {}
    <2>1. \A x \in S : m - x \in Nat
      OBVIOUS
    <2> QED
      BY <2>1
  <1>2. Min(D) \in D /\ \A d \in D : Min(D) <= d
    <2> HIDE DEF D
    <2> QED
      BY <1>1, LeastOf
  <1>3. PICK g \in S : Min(D) = m - g
    BY <1>2
  <1>4. \A x \in S : m - g <= m - x
    BY <1>2, <1>3
  <1>5. \A x \in S : g >= x
    BY <1>4
  <1>6. Max(S) \in S /\ \A x \in S : Max(S) >= x
    BY <1>5 DEF Max
  <1> QED
    BY <1>6

\* f is defined by recursion over 0 .. n: by a step from each index and the value before.
Recursive(f, n, S, b, step) ==
    /\ f \in [0 .. n -> S]
    /\ f[0] = b
    /\ \A k \in 1 .. n : f[k] = step[k][f[k - 1]]

\* A definition by recursion has a solution.
LEMMA Recursion ==
    ASSUME NEW n \in Nat, NEW S, NEW b \in S, NEW step \in [1 .. n -> [S -> S]]
    PROVE  \E f : Recursive(f, n, S, b, step)
  <1> DEFINE Sol(m, f) == /\ f \in [0 .. m -> S]
                          /\ f[0] = b
                          /\ \A k \in 1 .. m : f[k] = step[k][f[k - 1]]
             H == {m \in 0 .. n : \E f : Sol(m, f)}
  <1>1. 0 \in H
    <2> DEFINE g == [k \in 0 .. 0 |-> b]
    <2>1. g \in [0 .. 0 -> S] /\ g[0] = b
      OBVIOUS
    <2>2. Sol(0, g)
      BY <2>1
    <2> HIDE DEF g, Sol
    <2> QED
      BY <2>2
  <1>2. ASSUME NEW m \in 1 .. n, m - 1 \in H PROVE m \in H
    <2>1. PICK f : Sol(m - 1, f)
      BY <1>2
    <2> DEFINE g == [k \in 0 .. m |-> IF k < m THEN f[k] ELSE step[m][f[m - 1]]]
    <2>2. f[m - 1] \in S
      BY <2>1
    <2>3. g \in [0 .. m -> S]
      BY <2>1, <2>2
    <2>4. ASSUME NEW k \in 1 .. m PROVE g[k] = step[k][g[k - 1]]
      BY <2>1
    <2>5. g[0] = b
      BY <2>1
    <2>6. Sol(m, g)
      <3> HIDE DEF g
      <3> QED
        BY <2>3, <2>4, <2>5
    <2> HIDE DEF g, Sol
    <2> QED
      BY <2>6
  <1>3. \A k \in 1 .. n : k - 1 \in H => k \in H
    BY <1>2
  <1>4. n \in 0 .. n
    OBVIOUS
  <1>5. n \in H
    <2> HIDE DEF H
    <2>1. \A k \in 0 .. n : k \in H
      BY <1>1, <1>3, UpTo
    <2> QED
      BY <1>4, <2>1
  <1>6. PICK f : Sol(n, f)
    BY <1>5
  <1> QED
    BY <1>6 DEF Recursive

\* What each step of a sequence of values keeps, all the values have.
LEMMA StaysIn ==
    ASSUME NEW n \in Nat, NEW S, NEW f, f[0] \in S, \A k \in 1 .. n : f[k - 1] \in S => f[k] \in S
    PROVE  \A k \in 0 .. n : f[k] \in S
  <1> DEFINE H == {k \in 0 .. n : f[k] \in S}
  <1>1. 0 \in H
    OBVIOUS
  <1>2. \A k \in 1 .. n : k - 1 \in H => k \in H
    OBVIOUS
  <1>3. \A k \in 0 .. n : k \in H
    <2> HIDE DEF H
    <2> QED
      BY <1>1, <1>2, UpTo
  <1> QED
    BY <1>3

\* A sequence over a set is one over any larger set.
LEMMA Widened ==
    ASSUME NEW A, NEW B, A \subseteq B, NEW s \in Seq(A)
    PROVE  s \in Seq(B)
  <1>1. Len(s) \in Nat /\ s \in [1 .. Len(s) -> A]
    BY LenProperties
  <1>2. s \in [1 .. Len(s) -> B]
    BY <1>1
  <1> QED
    BY <1>1, <1>2, SeqDef

\* A sequence is one of its own elements.
LEMMA OwnElements ==
    ASSUME NEW S, NEW s \in Seq(S)
    PROVE  s \in Seq(ToSet(s)) /\ \A e : e \in ToSet(s) <=> \E k \in 1 .. Len(s) : e = s[k]
  <1>1. Len(s) \in Nat /\ DOMAIN s = 1 .. Len(s) /\ s \in [1 .. Len(s) -> S]
    BY LenProperties
  <1>2. \A e : e \in ToSet(s) <=> \E k \in 1 .. Len(s) : e = s[k]
    BY <1>1 DEF ToSet
  <1>3. s \in [1 .. Len(s) -> ToSet(s)]
    BY <1>1, <1>2
  <1> QED
    BY <1>1, <1>2, <1>3, SeqDef

\* Two sequences joined have the elements of both.
LEMMA JoinedElements ==
    ASSUME NEW S, NEW a \in Seq(S), NEW b \in Seq(S)
    PROVE  a \o b \in Seq(S) /\ ToSet(a \o b) = ToSet(a) \cup ToSet(b)
  <1> DEFINE j == a \o b
  <1>1. Len(a) \in Nat /\ Len(b) \in Nat
    BY LenProperties
  <1>2. /\ j \in Seq(S) /\ Len(j) = Len(a) + Len(b)
        /\ \A i \in 1 .. Len(a) + Len(b) : j[i] = IF i <= Len(a) THEN a[i] ELSE b[i - Len(a)]
    BY ConcatProperties
  <1> HIDE DEF j
  <1>3. /\ \A e : e \in ToSet(a) <=> \E k \in 1 .. Len(a) : e = a[k]
        /\ \A e : e \in ToSet(b) <=> \E k \in 1 .. Len(b) : e = b[k]
        /\ \A e : e \in ToSet(j) <=> \E k \in 1 .. Len(j) : e = j[k]
    <2>1. \A e : e \in ToSet(a) <=> \E k \in 1 .. Len(a) : e = a[k]
      BY OwnElements
    <2>2. \A e : e \in ToSet(b) <=> \E k \in 1 .. Len(b) : e = b[k]
      BY OwnElements
    <2>3. j \in Seq(S)
      BY <1>2
    <2>4. \A e : e \in ToSet(j) <=> \E k \in 1 .. Len(j) : e = j[k]
      BY <2>3, OwnElements
    <2> QED
      BY <2>1, <2>2, <2>4
  <1>4. ASSUME NEW k \in 1 .. Len(a) PROVE a[k] \in ToSet(j)
    BY <1>1, <1>2, <1>3
  <1>5. ASSUME NEW k \in 1 .. Len(b) PROVE b[k] \in ToSet(j)
    <2> DEFINE i == Len(a) + k
    <2>1. i \in 1 .. Len(a) + Len(b) /\ ~(i <= Len(a)) /\ i - Len(a) = k
      BY <1>1
    <2> HIDE DEF i
    <2>2. i \in 1 .. Len(j) /\ j[i] = b[k]
      BY <1>2, <2>1
    <2> QED
      BY <1>3, <2>2
  <1>6. ASSUME NEW k \in 1 .. Len(j) PROVE j[k] \in ToSet(a) \cup ToSet(b)
    <2>1. CASE k <= Len(a)
      BY <1>1, <1>2, <1>3, <2>1
    <2>2. CASE k > Len(a)
      <3>1. k - Len(a) \in 1 .. Len(b) /\ j[k] = b[k - Len(a)]
        BY <1>1, <1>2, <2>2
      <3> QED
        BY <1>3, <3>1
    <2> QED
      BY <1>1, <1>2, <2>1, <2>2
  <1>7. ToSet(j) = ToSet(a) \cup ToSet(b)
    BY <1>3, <1>4, <1>5, <1>6
  <1> QED
    BY <1>2, <1>7 DEF j

----------------------------------------------------------------------------
(* Sequences joined one after another. *)

\* Partial joins, of no segment up to all of them.
Joins(F, S, segs) ==
    /\ F \in [0 .. Len(segs) -> Seq(S)]
    /\ F[0] = <<>>
    /\ \A k \in 1 .. Len(segs) : F[k] = F[k - 1] \o segs[k]

LEMMA Joined ==
    ASSUME NEW S, NEW segs \in Seq(Seq(S)), Len(segs) >= 1
    PROVE  \E F : Joins(F, S, segs) /\ FlattenSeq(segs) = F[Len(segs)]
  <1> DEFINE n == Len(segs)
             step == [i \in 1 .. n |-> [v \in Seq(S) |-> v \o segs[i]]]
             Eq(f) == f = [i \in 1 .. n |-> IF i = 1 THEN segs[i] ELSE f[i - 1] \o segs[i]]
             C == CHOOSE f : Eq(f)
  <1>1. n \in Nat /\ n >= 1 /\ \A i \in 1 .. n : segs[i] \in Seq(S)
    BY LenProperties, ElementOfSeq
  <1>2. FlattenSeq(segs) = C[n]
    <2>1. Len(segs) # 0
      BY <1>1
    <2> QED
      BY <2>1 DEF FlattenSeq
  <1> HIDE DEF n
  <1>3. step \in [1 .. n -> [Seq(S) -> Seq(S)]]
    <2>1. ASSUME NEW i \in 1 .. n, NEW v \in Seq(S) PROVE v \o segs[i] \in Seq(S)
      BY <1>1, ConcatProperties
    <2> QED
      BY <2>1
  <1>4. <<>> \in Seq(S)
    BY EmptySeq
  <1>5. PICK f : Recursive(f, n, Seq(S), <<>>, step)
    <2> HIDE DEF step
    <2> QED
      BY <1>1, <1>3, <1>4, Recursion
  <1>6. f \in [0 .. n -> Seq(S)] /\ f[0] = <<>>
    BY <1>5 DEF Recursive
  <1>7. ASSUME NEW i \in 1 .. n PROVE f[i] = f[i - 1] \o segs[i] /\ f[i - 1] \in Seq(S)
    <2>1. f[i] = step[i][f[i - 1]]
      <3> HIDE DEF step
      <3> QED
        BY <1>5 DEF Recursive
    <2>2. i - 1 \in 0 .. n
      BY <1>1
    <2>3. f[i - 1] \in Seq(S)
      BY <1>6, <2>2
    <2> QED
      BY <2>1, <2>3
  <1>8. f[1] = segs[1]
    <2>1. 1 \in 1 .. n /\ 1 - 1 = 0
      BY <1>1
    <2>2. f[1] = <<>> \o segs[1] /\ segs[1] \in Seq(S)
      BY <1>1, <1>6, <1>7, <2>1
    <2> QED
      BY <2>2, ConcatEmptySeq
  <1> DEFINE g == [i \in 1 .. n |-> f[i]]
  <1>9. Eq(g)
    <2>1. ASSUME NEW i \in 1 .. n
          PROVE  g[i] = IF i = 1 THEN segs[i] ELSE g[i - 1] \o segs[i]
      <3>1. CASE i = 1
        BY <1>8, <3>1
      <3>2. CASE i # 1
        <4>1. i - 1 \in 1 .. n
          BY <1>1, <3>2
        <4> QED
          BY <1>7, <3>2, <4>1
      <3> QED
        BY <3>1, <3>2
    <2> DEFINE e == [i \in 1 .. n |-> IF i = 1 THEN segs[i] ELSE g[i - 1] \o segs[i]]
    <2>2. \A i \in 1 .. n : g[i] = e[i]
      BY <2>1
    <2>3. g = [i \in 1 .. n |-> g[i]] /\ e = [i \in 1 .. n |-> e[i]]
      OBVIOUS
    <2>4. g = e
      <3> HIDE DEF g, e
      <3> QED
        BY <2>2, <2>3
    <2> QED
      BY <2>4
  <1>10. Eq(C)
    <2> HIDE DEF Eq, g
    <2> QED
      BY <1>9
  <1> HIDE DEF C
  <1>11. \A i \in 1 .. n : C[i] = IF i = 1 THEN segs[i] ELSE C[i - 1] \o segs[i]
    BY <1>10
  <1> DEFINE H == {k \in 0 .. n : k >= 1 => C[k] = f[k]}
  <1>12. 0 \in H
    BY <1>1
  <1>13. \A k \in 1 .. n : k - 1 \in H => k \in H
    <2>1. ASSUME NEW k \in 1 .. n, k - 1 \in H PROVE k \in H
      <3>1. CASE k = 1
        <4>1. C[k] = segs[k] /\ segs[k] = f[k]
          BY <1>8, <1>11, <3>1
        <4> QED
          BY <4>1
      <3>2. CASE k # 1
        <4>1. C[k] = C[k - 1] \o segs[k]
          BY <1>11, <3>2
        <4>2. k - 1 >= 1
          BY <3>2
        <4>3. C[k - 1] = f[k - 1]
          BY <2>1, <4>2
        <4>4. C[k] = f[k]
          BY <1>7, <4>1, <4>3
        <4> QED
          BY <4>4
      <3> QED
        BY <3>1, <3>2
    <2> QED
      BY <2>1
  <1>14. n \in H
    <2>1. n \in 0 .. n
      BY <1>1
    <2> HIDE DEF H
    <2>2. \A k \in 0 .. n : k \in H
      BY <1>1, <1>12, <1>13, UpTo
    <2> QED
      BY <2>1, <2>2
  <1>15. Joins(f, S, segs)
    BY <1>6, <1>7 DEF Joins, n
  <1> QED
    BY <1>1, <1>2, <1>14, <1>15 DEF n

----------------------------------------------------------------------------
(* Powers of two, as far as the coders use them: an operator of their own, so that  *)
(* the provers treat them as numbers they know by these lemmas only.             *)

Pow(n) == 2 ^ n

LEMMA PowTable ==
    /\ Pow(0) = 1 /\ Pow(1) = 2 /\ Pow(2) = 4 /\ Pow(3) = 8 /\ Pow(4) = 16
    /\ Pow(5) = 32 /\ Pow(6) = 64 /\ Pow(7) = 128 /\ Pow(8) = 256 /\ Pow(9) = 512
    /\ Pow(10) = 1024 /\ Pow(11) = 2048 /\ Pow(12) = 4096 /\ Pow(13) = 8192 /\ Pow(14) = 16384
    /\ Pow(15) = 32768 /\ Pow(16) = 65536 /\ Pow(17) = 131072 /\ Pow(18) = 262144 /\ Pow(19) = 524288
    /\ Pow(20) = 1048576 /\ Pow(21) = 2097152 /\ Pow(22) = 4194304 /\ Pow(23) = 8388608 /\ Pow(24) = 16777216
    /\ Pow(25) = 33554432 /\ Pow(26) = 67108864 /\ Pow(27) = 134217728 /\ Pow(28) = 268435456 /\ Pow(29) = 536870912
    /\ Pow(30) = 1073741824 /\ Pow(31) = 2147483648 /\ Pow(32) = 4294967296 /\ Pow(33) = 8589934592 /\ Pow(34) = 17179869184
    /\ Pow(35) = 34359738368 /\ Pow(36) = 68719476736 /\ Pow(37) = 137438953472 /\ Pow(38) = 274877906944 /\ Pow(39) = 549755813888
  BY DEF Pow

LEMMA PowStep == \A n \in 0 .. 38 : Pow(n) \in Nat /\ Pow(n) >= 1 /\ Pow(n + 1) = 2 * Pow(n)
  <1> DEFINE H(n) == Pow(n) \in Nat /\ Pow(n) >= 1 /\ Pow(n + 1) = 2 * Pow(n)
  <1>1. H(0) /\ H(1) /\ H(2) /\ H(3) /\ H(4) /\ H(5) /\ H(6) /\ H(7) /\ H(8) /\ H(9)
    BY PowTable
  <1>2. H(10) /\ H(11) /\ H(12) /\ H(13) /\ H(14) /\ H(15) /\ H(16) /\ H(17) /\ H(18) /\ H(19)
    BY PowTable
  <1>3. H(20) /\ H(21) /\ H(22) /\ H(23) /\ H(24) /\ H(25) /\ H(26) /\ H(27) /\ H(28) /\ H(29)
    BY PowTable
  <1>4. H(30) /\ H(31) /\ H(32) /\ H(33) /\ H(34) /\ H(35) /\ H(36) /\ H(37) /\ H(38)
    BY PowTable
  <1>5. \A n \in 0 .. 38 : H(n)
    <2> HIDE DEF H
    <2>1. \A n \in 0 .. 19 : H(n)
      BY <1>1, <1>2
    <2>2. \A n \in 20 .. 38 : H(n)
      BY <1>3, <1>4
    <2> QED
      BY <2>1, <2>2
  <1> QED
    BY <1>5

\* Where a quotient and a remainder lie.
LEMMA Quotient ==
    ASSUME NEW a \in Nat, NEW b \in Nat, b >= 1
    PROVE  /\ a \div b \in Nat /\ a % b \in 0 .. b - 1
           /\ \A k \in Nat : a < k * b => a \div b < k
  <1>1. a = b * (a \div b) + (a % b) /\ a \div b \in Int /\ a % b \in 0 .. b - 1
    OBVIOUS
  <1>2. a \div b >= 0
    BY <1>1
  <1>3. ASSUME NEW k \in Nat, a < k * b PROVE a \div b < k
    <2> DEFINE q == a \div b
    <2>1. SUFFICES ASSUME q >= k PROVE FALSE
      BY <1>1
    <2>2. b * q >= b * k
      BY <1>1, <2>1
    <2> QED
      BY <1>1, <1>3, <2>2
  <1> QED
    BY <1>1, <1>2, <1>3
===================================================================================
