------------------------------ MODULE PngReader_proof ------------------------------
(* What both readers of a PNG chunk stream guarantee for every stream of chunks,   *)
(* every budget and every header: decode accepts exactly the grammar, metadata()   *)
(* agrees with it, and what is inflated stays within the budget.  And what becomes  *)
(* of a file that PngEncoder wrote, for every encode and every fault of the medium: *)
(* untouched it comes back whole, and a fault costs no more than what it hit.       *)
EXTENDS PngFile, SequenceLemmas, FiniteSetTheorems

----------------------------------------------------------------------------
(* The chunks read, when there is one more. *)

\* The new chunk is at the end, the others stay where they were.
LEMMA Appended ==
    ASSUME NEW s \in Seq(Chunks), NEW c \in Chunks
    PROVE  /\ Append(s, c) \in Seq(Chunks) /\ Append(s, c) # <<>>
           /\ Len(s) \in Nat /\ DOMAIN s = 1 .. Len(s)
           /\ Len(Append(s, c)) = Len(s) + 1
           /\ DOMAIN Append(s, c) = 1 .. Len(s) + 1
           /\ \A k \in 1 .. Len(s) : Append(s, c)[k] = s[k]
           /\ Append(s, c)[Len(s) + 1] = c
  <1>1. /\ Append(s, c) \in Seq(Chunks) /\ Append(s, c) # <<>>
        /\ Len(Append(s, c)) = Len(s) + 1
        /\ \A k \in 1 .. Len(s) : Append(s, c)[k] = s[k]
        /\ Append(s, c)[Len(s) + 1] = c
    BY AppendProperties
  <1>2. Len(s) \in Nat /\ DOMAIN s = 1 .. Len(s)
    BY LenProperties
  <1>3. DOMAIN Append(s, c) = 1 .. Len(Append(s, c))
    BY <1>1, LenProperties
  <1> QED
    BY <1>1, <1>2, <1>3

\* So the chunks of a type are those there were, and the new one if it is of the type.
LEMMA AppendedAt ==
    ASSUME NEW s \in Seq(Chunks), NEW c \in Chunks, NEW type
    PROVE  At(Append(s, c), type)
              = At(s, type) \cup (IF c.type = type THEN {Len(s) + 1} ELSE {})
  BY Appended DEF At

\* What the grammar asks of the next chunk.
Admits(s, c) ==
    /\ c.type \notin {"IHDR", "CRIT"}
    /\ c.type \in Critical => c.ok
    /\ c.type = "IDAT" => \A i \in At(s, "IDAT"), k \in DOMAIN s : i < k => s[k].type = "IDAT"
    /\ c.type \in {"PLTE", "tRNS"} => At(s, "IDAT") = {}
    /\ c.type = "PLTE" => At(s, "PLTE") = {} /\ \A k \in At(s, "tRNS") : ~s[k].ok

\* A stream that is out of order stays so whatever follows.
LEMMA DisorderStays ==
    ASSUME NEW s \in Seq(Chunks), s # <<>>, NEW c \in Chunks, InOrder(Append(s, c))
    PROVE  InOrder(s)
  <1> DEFINE t == Append(s, c)
  <1>1. /\ Len(s) \in Nat /\ DOMAIN s = 1 .. Len(s) /\ DOMAIN t = 1 .. Len(s) + 1
        /\ \A k \in 1 .. Len(s) : t[k] = s[k]
    BY Appended
  <1>2. 1 \in 1 .. Len(s) /\ Len(s) # 0
    BY <1>1, EmptySeq
  <1>3. \A type : At(s, type) = At(t, type) \ {Len(s) + 1}
    BY <1>1 DEF At
  <1>4. \A type : At(s, type) \subseteq At(t, type) /\ At(s, type) \subseteq 1 .. Len(s)
    BY <1>1, <1>3 DEF At
  <1> HIDE DEF t
  <1>5. InOrder(t)
    BY DEF t
  <1>6. At(s, "IHDR") = {1} /\ s[1].n = 1 /\ At(s, "CRIT") = {}
    BY <1>1, <1>2, <1>3, <1>5 DEF InOrder
  <1>7. \A k \in DOMAIN s : s[k].type \in Critical => s[k].ok
    BY <1>1, <1>5 DEF InOrder
  <1>8. \A i, j \in At(s, "IDAT") : \A k \in i .. j : s[k].type = "IDAT"
    BY <1>1, <1>4, <1>5 DEF InOrder
  <1>9. \A i, j \in At(s, "PLTE") : i = j
    BY <1>4, <1>5 DEF InOrder
  <1>10. \A k \in At(s, "PLTE") \cup At(s, "tRNS"), i \in At(s, "IDAT") : k < i
    BY <1>4, <1>5 DEF InOrder
  <1>11. \A p \in At(s, "PLTE"), k \in At(s, "tRNS") : s[k].ok => p < k
    BY <1>1, <1>4, <1>5 DEF InOrder
  <1> QED
    BY <1>6, <1>7, <1>8, <1>9, <1>10, <1>11 DEF InOrder

\* A chunk the grammar does not admit here puts the stream out of order.
LEMMA MisfitDisorders ==
    ASSUME NEW s \in Seq(Chunks), s # <<>>, NEW c \in Chunks, InOrder(Append(s, c))
    PROVE  Admits(s, c)
  <1> DEFINE t == Append(s, c)
             n == Len(s) + 1
  <1>1. /\ Len(s) \in Nat /\ DOMAIN s = 1 .. Len(s) /\ DOMAIN t = 1 .. n
        /\ \A k \in 1 .. Len(s) : t[k] = s[k]
        /\ t[n] = c
    BY Appended
  <1>2. Len(s) # 0 /\ n \in 1 .. n /\ n # 1
    BY <1>1, EmptySeq
  <1>3. \A type : /\ At(s, type) \subseteq At(t, type) /\ At(s, type) \subseteq 1 .. Len(s)
                  /\ c.type = type => n \in At(t, type)
    BY <1>1, <1>2 DEF At
  <1>4. n \notin 1 .. Len(s)
    BY <1>1
  <1>5. InOrder(t)
    OBVIOUS
  <1> HIDE DEF t
  <1>6. c.type \notin {"IHDR", "CRIT"}
    BY <1>2, <1>3, <1>5 DEF InOrder
  <1>7. c.type \in Critical => c.ok
    BY <1>1, <1>2, <1>5 DEF InOrder
  <1>8. ASSUME c.type = "IDAT", NEW i \in At(s, "IDAT"), NEW k \in DOMAIN s, i < k
        PROVE  s[k].type = "IDAT"
    <2>1. i \in At(t, "IDAT") /\ n \in At(t, "IDAT") /\ k \in i .. n
      BY <1>1, <1>3, <1>8
    <2>2. t[k].type = "IDAT"
      BY <1>5, <2>1 DEF InOrder
    <2> QED
      BY <1>1, <2>2
  <1>9. ASSUME c.type \in {"PLTE", "tRNS"} PROVE At(s, "IDAT") = {}
    <2> SUFFICES ASSUME NEW i \in At(s, "IDAT") PROVE FALSE
      OBVIOUS
    <2>1. n < i
      BY <1>3, <1>5, <1>9 DEF InOrder
    <2> QED
      BY <1>1, <1>3, <2>1
  <1>10. ASSUME c.type = "PLTE" PROVE At(s, "PLTE") = {} /\ \A k \in At(s, "tRNS") : ~s[k].ok
    <2>1. \A i \in At(s, "PLTE") : i = n
      BY <1>3, <1>5, <1>10 DEF InOrder
    <2>2. \A k \in At(s, "tRNS") : t[k].ok => n < k
      BY <1>3, <1>5, <1>10 DEF InOrder
    <2> QED
      BY <1>1, <1>3, <1>4, <2>1, <2>2
  <1> QED
    BY <1>6, <1>7, <1>8, <1>9, <1>10 DEF Admits

\* One that it admits keeps the order.
LEMMA FitKeepsOrder ==
    ASSUME NEW s \in Seq(Chunks), InOrder(s), NEW c \in Chunks, Admits(s, c)
    PROVE  InOrder(Append(s, c))
  <1> DEFINE t == Append(s, c)
             n == Len(s) + 1
             More(type) == IF c.type = type THEN {n} ELSE {}
  <1>1. /\ Len(s) \in Nat /\ DOMAIN s = 1 .. Len(s) /\ DOMAIN t = 1 .. n
        /\ \A k \in 1 .. Len(s) : t[k] = s[k]
        /\ t[n] = c
    BY Appended
  <1>2. \A type : At(t, type) = At(s, type) \cup More(type)
    BY AppendedAt
  <1>3. \A type : At(s, type) \subseteq 1 .. Len(s)
    BY <1>1 DEF At
  <1>4. 1 \in 1 .. Len(s)
    BY <1>3 DEF InOrder
  <1> HIDE DEF t
  <1>5. At(t, "IHDR") = {1} /\ t[1].n = 1 /\ At(t, "CRIT") = {}
    BY <1>1, <1>2, <1>4 DEF InOrder, Admits
  <1>6. \A k \in DOMAIN t : t[k].type \in Critical => t[k].ok
    BY <1>1 DEF InOrder, Admits
  <1>7. ASSUME NEW i \in At(t, "IDAT"), NEW j \in At(t, "IDAT"), NEW k \in i .. j
        PROVE  t[k].type = "IDAT"
    <2>0. i \in 1 .. n /\ j \in 1 .. n /\ k \in 1 .. n
      BY <1>1, <1>2, <1>3
    <2>1. CASE j \in At(s, "IDAT")
      <3>1. i \in At(s, "IDAT") /\ k \in 1 .. Len(s)
        BY <1>1, <1>2, <1>3, <2>0, <2>1
      <3> QED
        BY <1>1, <2>1, <3>1 DEF InOrder
    <2>2. CASE j = n /\ c.type = "IDAT"
      <3>1. CASE k = n
        BY <1>1, <2>2, <3>1
      <3>2. CASE k # n
        <4>1. k \in DOMAIN s /\ i \in At(s, "IDAT")
          BY <1>1, <1>2, <2>0, <3>2
        <4>2. i < k => s[k].type = "IDAT"
          BY <2>2, <4>1 DEF Admits
        <4>3. i = k => s[k].type = "IDAT"
          BY <4>1 DEF At
        <4> QED
          BY <1>1, <2>0, <4>1, <4>2, <4>3
      <3> QED
        BY <3>1, <3>2
    <2> QED
      BY <1>2, <2>1, <2>2
  <1>8. \A i, j \in At(t, "PLTE") : i = j
    BY <1>2 DEF InOrder, Admits
  <1>9. ASSUME NEW k \in At(t, "PLTE") \cup At(t, "tRNS"), NEW i \in At(t, "IDAT")
        PROVE  k < i
    <2>1. CASE k \in At(s, "PLTE") \cup At(s, "tRNS") /\ i \in At(s, "IDAT")
      BY <2>1 DEF InOrder
    <2>2. CASE k \in 1 .. Len(s) /\ i = n
      BY <1>1, <2>2
    <2>3. CASE k = n /\ c.type \in {"PLTE", "tRNS"}
      BY <1>2, <2>3 DEF Admits
    <2> QED
      BY <1>2, <1>3, <2>1, <2>2, <2>3
  <1>10. ASSUME NEW p \in At(t, "PLTE"), NEW k \in At(t, "tRNS"), t[k].ok PROVE p < k
    <2>1. CASE p \in At(s, "PLTE") /\ k \in At(s, "tRNS")
      BY <1>1, <1>3, <1>10, <2>1 DEF InOrder
    <2>2. CASE p \in 1 .. Len(s) /\ k = n
      BY <1>1, <2>2
    <2>3. CASE p = n /\ c.type = "PLTE"
      BY <1>1, <1>2, <1>3, <1>10, <2>3 DEF Admits
    <2> QED
      BY <1>2, <1>3, <2>1, <2>2, <2>3
  <1> QED
    BY <1>5, <1>6, <1>7, <1>8, <1>9, <1>10 DEF InOrder, t

----------------------------------------------------------------------------
(* One chunk through the loop of parse_stream. *)

\* Whether the new chunk puts the stream out of order is decided by the flags, once
\* idatDone has been brought up to date.
LEMMA FlagsDecide ==
    ASSUME NEW s \in Seq(Chunks), NEW c \in Chunks, NEW p \in ParseState, FlagsSay(p, s)
    PROVE  LET q == Closed(p, c) IN
           /\ q \in ParseState /\ q.at = p.at
           /\ q.idats = p.idats /\ q.plte = p.plte /\ q.trns = p.trns
           /\ c.type = "IDAT" => q.idatDone = p.idatDone
           /\ Admits(s, c) <=>
                 /\ c.type \notin {"IHDR", "CRIT"}
                 /\ c.type \in Critical => c.ok
                 /\ c.type = "IDAT" => ~q.idatDone
                 /\ c.type \in {"PLTE", "tRNS"} => ~(q.idats > 0)
                 /\ c.type = "PLTE" => q.plte = None /\ q.trns = None
  <1> DEFINE q == Closed(p, c)
  <1>1. /\ q \in ParseState /\ q.at = p.at
        /\ q.idats = p.idats /\ q.plte = p.plte /\ q.trns = p.trns
        /\ q.idatDone = (p.idatDone \/ (p.idats > 0 /\ c.type # "IDAT"))
    BY DEF Closed, ParseState
  <1>2. c.type = "IDAT" => q.idatDone = p.idatDone
    BY <1>1 DEF ParseState
  <1> HIDE DEF q
  <1>3. (\A i \in At(s, "IDAT"), k \in DOMAIN s : i < k => s[k].type = "IDAT") <=> ~p.idatDone
    BY DEF FlagsSay
  <1>4. At(s, "IDAT") = {} <=> ~(p.idats > 0)
    BY DEF FlagsSay
  <1>5. At(s, "PLTE") = {} <=> p.plte = None
    BY DEF FlagsSay
  <1>6. (\A k \in At(s, "tRNS") : ~s[k].ok) <=> p.trns = None
    BY DEF FlagsSay
  <1>7. Admits(s, c) <=>
           /\ c.type \notin {"IHDR", "CRIT"}
           /\ c.type \in Critical => c.ok
           /\ c.type = "IDAT" => ~q.idatDone
           /\ c.type \in {"PLTE", "tRNS"} => ~(q.idats > 0)
           /\ c.type = "PLTE" => q.plte = None /\ q.trns = None
    BY <1>1, <1>2, <1>3, <1>4, <1>5, <1>6 DEF Admits
  <1> QED
    BY <1>1, <1>2, <1>7 DEF q

\* The flags that ParseChunk leaves describe the stream with the new chunk.
LEMMA FlagsFollow ==
    ASSUME NEW s \in Seq(Chunks), NEW c \in Chunks, NEW p \in ParseState, FlagsSay(p, s),
           NEW q \in ParseState,
           q.idatDone = (p.idatDone \/ (p.idats > 0 /\ c.type # "IDAT")),
           q.idats = IF c.type = "IDAT" THEN p.idats + 1 ELSE p.idats,
           q.plte = IF c.type = "PLTE" THEN c.n ELSE p.plte,
           q.trns = IF c.type = "tRNS" /\ c.ok /\ p.trns = None THEN c.n ELSE p.trns
    PROVE  FlagsSay(q, Append(s, c))
  <1> DEFINE t == Append(s, c)
             n == Len(s) + 1
             More(type) == IF c.type = type THEN {n} ELSE {}
  <1>1. /\ Len(s) \in Nat /\ DOMAIN s = 1 .. Len(s) /\ DOMAIN t = 1 .. n
        /\ \A k \in 1 .. Len(s) : t[k] = s[k]
        /\ t[n] = c
    BY Appended
  <1>2. \A type : At(t, type) = At(s, type) \cup More(type)
    BY AppendedAt
  <1>3. \A type : At(s, type) \subseteq 1 .. Len(s)
    BY <1>1 DEF At
  <1>4. c.n \in Nat /\ c.n # None
    BY ChunksAssumption DEF None
  <1>5. p.idats \in Nat
    BY DEF ParseState
  <1> HIDE DEF t
  <1>6. q.idats > 0 <=> At(t, "IDAT") # {}
    <2>1. CASE c.type = "IDAT"
      <3>1. q.idats > 0
        BY <1>5, <2>1
      <3> QED
        BY <1>2, <2>1, <3>1
    <2>2. CASE c.type # "IDAT"
      BY <1>2, <2>2 DEF FlagsSay
    <2> QED
      BY <2>1, <2>2
  <1>7. q.idatDone <=> \E i \in At(t, "IDAT"), k \in DOMAIN t : i < k /\ t[k].type # "IDAT"
    <2>1. ASSUME p.idatDone
          PROVE  \E i \in At(t, "IDAT"), k \in DOMAIN t : i < k /\ t[k].type # "IDAT"
      <3>1. PICK i \in At(s, "IDAT"), k \in DOMAIN s : i < k /\ s[k].type # "IDAT"
        BY <2>1 DEF FlagsSay
      <3> QED
        BY <1>1, <1>2, <3>1
    <2>2. ASSUME p.idats > 0, c.type # "IDAT"
          PROVE  \E i \in At(t, "IDAT"), k \in DOMAIN t : i < k /\ t[k].type # "IDAT"
      <3>1. PICK i \in At(s, "IDAT") : TRUE
        BY <2>2 DEF FlagsSay
      <3>2. i < n /\ n \in DOMAIN t /\ t[n].type # "IDAT"
        BY <1>1, <1>3, <2>2
      <3> QED
        BY <1>2, <3>2
    <2>3. ASSUME NEW i \in At(t, "IDAT"), NEW k \in DOMAIN t, i < k, t[k].type # "IDAT"
          PROVE  p.idatDone \/ (p.idats > 0 /\ c.type # "IDAT")
      <3>1. i \in At(s, "IDAT")
        BY <1>1, <1>2, <1>3, <2>3
      <3>2. CASE k = n
        BY <1>1, <2>3, <3>1, <3>2 DEF FlagsSay
      <3>3. CASE k \in 1 .. Len(s)
        BY <1>1, <2>3, <3>1, <3>3 DEF FlagsSay
      <3> QED
        BY <1>1, <3>2, <3>3
    <2> QED
      BY <2>1, <2>2, <2>3
  <1>8. q.plte # None <=> At(t, "PLTE") # {}
    BY <1>2, <1>4 DEF FlagsSay
  <1>9. q.trns # None <=> \E k \in At(t, "tRNS") : t[k].ok
    BY <1>1, <1>2, <1>3, <1>4 DEF FlagsSay
  <1> QED
    BY <1>6, <1>7, <1>8, <1>9 DEF FlagsSay, t

\* One chunk in the body: the reader goes on with flags that say what it has read, or
\* ends well, or the chunk was out of order or ends the stream badly.
LEMMA ParseChunkIsExact ==
    ASSUME NEW s \in Seq(Chunks), s # <<>>, NEW c \in Chunks,
           NEW p \in ParseState, p.at = "body", InOrder(s), FlagsSay(p, s)
    PROVE  LET q == ParseChunk(p, c)
               t == Append(s, c)
           IN  /\ q \in ParseState /\ q.at \in {"body", "done", "refused"}
               /\ q.at = "body" => c.type # "IEND" /\ InOrder(t) /\ FlagsSay(q, t)
               /\ q.at = "done" =>
                     c.type = "IEND" /\ c.n = 0 /\ InOrder(t) /\ FlagsSay(q, t)
               /\ q.at = "refused" => ~InOrder(t) \/ (c.type = "IEND" /\ c.n # 0)
  <1> DEFINE z == Closed(p, c)
             q == ParseChunk(p, c)
             t == Append(s, c)
  <1>1. /\ z \in ParseState /\ z.at = "body"
        /\ z.idats = p.idats /\ z.plte = p.plte /\ z.trns = p.trns
        /\ z.idatDone = (p.idatDone \/ (p.idats > 0 /\ c.type # "IDAT"))
    BY DEF Closed, ParseState
  <1>2. Admits(s, c) <=>
           /\ c.type \notin {"IHDR", "CRIT"}
           /\ c.type \in Critical => c.ok
           /\ c.type = "IDAT" => ~z.idatDone
           /\ c.type \in {"PLTE", "tRNS"} => ~(z.idats > 0)
           /\ c.type = "PLTE" => z.plte = None /\ z.trns = None
    BY FlagsDecide
  <1>3. c.type \in Critical \cup Ancillary /\ c.ok \in BOOLEAN /\ c.n \in Nat
    BY ChunksAssumption
  <1> HIDE DEF z
  <1>4. /\ q \in ParseState
        /\ q.at = "refused" \/ (q.at = "done" /\ c.type = "IEND" /\ c.n = 0)
                            \/ (q.at = "body" /\ c.type # "IEND")
        /\ q.at = "refused" => ~Admits(s, c) \/ (c.type = "IEND" /\ c.n # 0)
        /\ q.at # "refused" =>
              /\ Admits(s, c)
              /\ q.idatDone = z.idatDone
              /\ q.idats = IF c.type = "IDAT" THEN p.idats + 1 ELSE p.idats
              /\ q.plte = IF c.type = "PLTE" THEN c.n ELSE p.plte
              /\ q.trns = IF c.type = "tRNS" /\ c.ok /\ p.trns = None THEN c.n ELSE p.trns
    <2>1. CASE c.type = "IEND"
      <3>1. q = Last_(z, c)
        BY <2>1 DEF ParseChunk, Ancillary, z
      <3> QED
        BY <1>1, <1>2, <1>3, <2>1, <3>1 DEF Last_, Refused, ParseState, Position, Critical
    <2>2. CASE c.type = "IDAT"
      <3>1. q = ParseIdat(z, c)
        BY <2>2 DEF ParseChunk, Ancillary, z
      <3>2. Admits(s, c) <=> c.ok /\ ~z.idatDone
        BY <1>2, <2>2 DEF Critical
      <3>3. CASE ~c.ok \/ z.idatDone
        <4>1. q = Refused(z)
          BY <3>1, <3>3 DEF ParseIdat
        <4> QED
          BY <1>1, <2>2, <3>2, <3>3, <4>1 DEF Refused, ParseState, Position
      <3>4. CASE c.ok /\ ~z.idatDone
        <4>1. q = [z EXCEPT !.idats = @ + 1]
          BY <3>1, <3>4 DEF ParseIdat
        <4>2. z.idats + 1 \in Nat
          BY <1>1 DEF ParseState
        <4>3. q \in ParseState /\ q.at = "body" /\ q.idats = p.idats + 1
              /\ q.idatDone = z.idatDone /\ q.plte = p.plte /\ q.trns = p.trns
          BY <1>1, <4>1, <4>2 DEF ParseState
        <4> QED
          BY <2>2, <3>2, <3>4, <4>3
      <3> QED
        BY <3>3, <3>4
    <2>3. CASE c.type = "PLTE"
      <3>1. q = ParsePlte(z, c)
        BY <2>3 DEF ParseChunk, Ancillary, z
      <3> QED
        BY <1>1, <1>2, <1>3, <2>3, <3>1 DEF ParsePlte, Refused, ParseState, Position, Critical
    <2>4. CASE c.type = "tRNS"
      <3>1. q = ParseTrns(z, c)
        BY <2>4 DEF ParseChunk, Ancillary, z
      <3> QED
        BY <1>1, <1>2, <1>3, <2>4, <3>1 DEF ParseTrns, Refused, ParseState, Position, Critical
    <2>5. CASE c.type \in Ancillary \ {"tRNS"}
      <3>1. q = KeepAncillary(z, c)
        BY <2>5 DEF ParseChunk, z, Ancillary
      <3>2. Append(z.anc, c) \in Seq(Chunks)
        BY <1>1, AppendProperties DEF ParseState
      <3> QED
        BY <1>1, <1>2, <2>5, <3>1, <3>2 DEF KeepAncillary, ParseState, Critical, Ancillary
    <2>6. CASE c.type \in {"IHDR", "CRIT"}
      <3>1. q = Refused(z)
        BY <2>6 DEF ParseChunk, z, Ancillary
      <3> QED
        BY <1>1, <1>2, <2>6, <3>1 DEF Refused, ParseState, Position
    <2> QED
      BY <1>3, <2>1, <2>2, <2>3, <2>4, <2>5, <2>6 DEF Critical
  <1> HIDE DEF q
  <1>5. q.at # "refused" => InOrder(t) /\ FlagsSay(q, t)
    BY <1>1, <1>4, FitKeepsOrder, FlagsFollow
  <1>6. ~Admits(s, c) => ~InOrder(t)
    BY MisfitDisorders
  <1> QED
    BY <1>4, <1>5, <1>6 DEF q

----------------------------------------------------------------------------
(* The metadata collected along a sequence of chunks. *)

LEMMA KeepType ==
    ASSUME NEW m \in Metadata, NEW c \in Chunks
    PROVE  Keep(m, c) \in Metadata
  <1>1. c.n \in Nat /\ None = -1 /\ Budget \in Nat
    BY ChunksAssumption, BudgetAssumption DEF None
  <1>2. Append(m.texts, c.n) \in Seq(Nat)
    BY <1>1, AppendProperties DEF Metadata
  <1>3. Inflate(m, c).left \in 0 .. Budget
    BY <1>1 DEF Inflate, Metadata
  <1> DEFINE z == Inflate(m, c)
  <1> HIDE DEF z
  <1>4. z.left \in 0 .. Budget
    BY <1>3 DEF z
  <1>5. CASE c.type = "eXIf"
    BY <1>1, <1>5 DEF Keep, Metadata
  <1>6. CASE c.type = "iCCP"
    <2>1. Keep(m, c) = IF m.icc # None THEN m
                       ELSE [m EXCEPT !.icc = IF z.ok THEN c.n ELSE None, !.left = z.left]
      BY <1>6 DEF Keep, z
    <2> QED
      BY <1>1, <1>4, <2>1 DEF Metadata
  <1>7. CASE c.type = "iXMP"
    BY <1>1, <1>7 DEF Keep, Metadata
  <1>8. CASE c.type = "tEXt"
    BY <1>2, <1>8 DEF Keep, Metadata
  <1>9. CASE c.type = "zXMP"
    <2>1. Keep(m, c) = [m EXCEPT !.xmp = IF z.ok /\ @ = None THEN c.n ELSE @, !.left = z.left]
      BY <1>9 DEF Keep, z
    <2> QED
      BY <1>1, <1>4, <2>1 DEF Metadata
  <1>10. CASE c.type = "zTXt"
    <2>1. Keep(m, c) = [m EXCEPT !.texts = IF z.ok THEN Append(@, c.n) ELSE @, !.left = z.left]
      BY <1>10 DEF Keep, z
    <2> QED
      BY <1>2, <1>4, <2>1 DEF Metadata
  <1>11. CASE c.type \notin {"eXIf", "iCCP", "iXMP", "tEXt", "zXMP", "zTXt"}
    BY <1>11 DEF Keep
  <1> QED
    BY <1>5, <1>6, <1>7, <1>8, <1>9, <1>10, <1>11

\* f is what has been collected after each of the chunks.
Collecting(s, w, f) ==
    /\ f \in [0 .. Len(s) -> Metadata]
    /\ f[0] = NoMetadata
    /\ \A k \in 1 .. Len(s) : f[k] = IF s[k].type \in w THEN f[k - 1] ELSE Keep(f[k - 1], s[k])

LEMMA CollectsAlong ==
    ASSUME NEW s \in Seq(Chunks), NEW w
    PROVE  \E f : Collecting(s, w, f) /\ CollectBut(s, w) = f[Len(s)]
  <1> DEFINE step == [k \in 1 .. Len(s) |->
                        [m \in Metadata |-> IF s[k].type \in w THEN m ELSE Keep(m, s[k])]]
             Eq(f) == f = [k \in 0 .. Len(s) |->
                             IF k = 0 THEN NoMetadata
                             ELSE IF s[k].type \in w THEN f[k - 1] ELSE Keep(f[k - 1], s[k])]
             F == CHOOSE f : Eq(f)
  <1>1. Len(s) \in Nat /\ \A k \in 1 .. Len(s) : s[k] \in Chunks
    BY LenProperties, ElementOfSeq
  <1>2. NoMetadata \in Metadata
    BY BudgetAssumption, EmptySeq DEF NoMetadata, Metadata
  <1>3. step \in [1 .. Len(s) -> [Metadata -> Metadata]]
    BY <1>1, KeepType
  <1>4. PICK f \in [0 .. Len(s) -> Metadata] :
           f[0] = NoMetadata /\ \A k \in 1 .. Len(s) : f[k] = step[k][f[k - 1]]
    <2> HIDE DEF step
    <2>1. Len(s) \in Nat
      BY <1>1
    <2>2. \E f : Recursive(f, Len(s), Metadata, NoMetadata, step)
      BY <2>1, <1>2, <1>3, Recursion
    <2> QED
      BY <2>2 DEF Recursive
  <1>5. ASSUME NEW k \in 1 .. Len(s)
        PROVE  step[k][f[k - 1]] = IF s[k].type \in w THEN f[k - 1] ELSE Keep(f[k - 1], s[k])
    <2>1. f[k - 1] \in Metadata
      <3> HIDE DEF step
      <3>1. k - 1 \in 0 .. Len(s)
        BY <1>1
      <3> QED
        BY <1>4, <3>1
    <2> QED
      BY <2>1
  <1>6. Eq(f)
    <2> DEFINE g == [k \in 0 .. Len(s) |->
                       IF k = 0 THEN NoMetadata
                       ELSE IF s[k].type \in w THEN f[k - 1] ELSE Keep(f[k - 1], s[k])]
    <2>1. DOMAIN f = 0 .. Len(s) /\ DOMAIN g = 0 .. Len(s)
      BY <1>4
    <2>2. ASSUME NEW k \in 0 .. Len(s) PROVE f[k] = g[k]
      <3>1. CASE k = 0
        BY <1>4, <3>1
      <3>2. CASE k # 0
        <4>1. k \in 1 .. Len(s)
          BY <1>1, <3>2
        <4>2. f[k] = step[k][f[k - 1]]
          <5> HIDE DEF step
          <5> QED
            BY <1>4, <3>2
        <4> QED
          BY <1>5, <3>2, <4>1, <4>2
      <3> QED
        BY <3>1, <3>2
    <2>3. f = [k \in 0 .. Len(s) |-> f[k]]
      BY <1>4
    <2>4. f = g
      <3> HIDE DEF g
      <3>1. g = [k \in 0 .. Len(s) |-> g[k]]
        BY DEF g
      <3> QED
        BY <2>2, <2>3, <3>1
    <2> QED
      BY <2>4
  <1>7. Eq(F)
    <2> HIDE DEF Eq
    <2> QED
      BY <1>6
  <1>8. CollectBut(s, w) = F[Len(s)]
    BY DEF CollectBut
  <1> HIDE DEF F
  <1>9. /\ F[0] = NoMetadata
        /\ \A k \in 1 .. Len(s) :
              F[k] = IF s[k].type \in w THEN F[k - 1] ELSE Keep(F[k - 1], s[k])
        /\ F = [k \in 0 .. Len(s) |-> F[k]]
    BY <1>1, <1>7
  <1>10. \A k \in 0 .. Len(s) : F[k] \in Metadata
    <2> DEFINE H == {k \in 0 .. Len(s) : F[k] \in Metadata}
    <2>1. 0 \in H
      BY <1>1, <1>2, <1>9
    <2>2. ASSUME NEW k \in 1 .. Len(s), k - 1 \in H PROVE k \in H
      <3>1. F[k - 1] \in Metadata /\ s[k] \in Chunks /\ k \in 0 .. Len(s)
        BY <1>1, <2>2
      <3>2. Keep(F[k - 1], s[k]) \in Metadata
        BY <3>1, KeepType
      <3> QED
        BY <1>9, <3>1, <3>2
    <2>3. \A k \in 0 .. Len(s) : k \in H
      <3> HIDE DEF H
      <3> QED
        BY <1>1, <2>1, <2>2, UpTo
    <2> QED
      BY <2>3
  <1>11. Collecting(s, w, F)
    BY <1>9, <1>10 DEF Collecting
  <1> QED
    BY <1>8, <1>11

\* One more chunk: it is skipped, or kept.
LEMMA CollectAppended ==
    ASSUME NEW s \in Seq(Chunks), NEW c \in Chunks, NEW w
    PROVE  CollectBut(Append(s, c), w)
              = IF c.type \in w THEN CollectBut(s, w) ELSE Keep(CollectBut(s, w), c)
  <1> DEFINE t == Append(s, c)
  <1>1. /\ t \in Seq(Chunks) /\ Len(s) \in Nat /\ Len(t) = Len(s) + 1
        /\ \A k \in 1 .. Len(s) : t[k] = s[k]
        /\ t[Len(s) + 1] = c
    BY Appended
  <1> HIDE DEF t
  <1>2. PICK f : Collecting(s, w, f) /\ CollectBut(s, w) = f[Len(s)]
    BY CollectsAlong
  <1>3. PICK g : Collecting(t, w, g) /\ CollectBut(t, w) = g[Len(t)]
    BY <1>1, CollectsAlong
  <1>4. \A k \in 0 .. Len(s) : f[k] = g[k]
    <2> DEFINE H == {k \in 0 .. Len(s) : f[k] = g[k]}
    <2>1. 0 \in H
      BY <1>1, <1>2, <1>3 DEF Collecting
    <2>2. ASSUME NEW k \in 1 .. Len(s), k - 1 \in H PROVE k \in H
      <3>1. k \in 1 .. Len(t) /\ t[k] = s[k] /\ f[k - 1] = g[k - 1]
        BY <1>1, <2>2
      <3>2. f[k] = IF s[k].type \in w THEN f[k - 1] ELSE Keep(f[k - 1], s[k])
        BY <1>2 DEF Collecting
      <3>3. g[k] = IF t[k].type \in w THEN g[k - 1] ELSE Keep(g[k - 1], t[k])
        BY <1>3, <3>1 DEF Collecting
      <3> QED
        BY <1>1, <3>1, <3>2, <3>3
    <2>3. \A k \in 1 .. Len(s) : k - 1 \in H => k \in H
      BY <2>2
    <2>4. \A k \in 0 .. Len(s) : k \in H
      <3> HIDE DEF H
      <3> QED
        BY <1>1, <2>1, <2>3, UpTo
    <2> QED
      BY <2>4
  <1>5. Len(t) \in 1 .. Len(t) /\ Len(t) - 1 = Len(s) /\ Len(s) \in 0 .. Len(s)
    BY <1>1
  <1>6. g[Len(t)] = IF t[Len(t)].type \in w THEN g[Len(t) - 1] ELSE Keep(g[Len(t) - 1], t[Len(t)])
    BY <1>3, <1>5 DEF Collecting
  <1>7. CollectBut(t, w) = IF c.type \in w THEN f[Len(s)] ELSE Keep(f[Len(s)], c)
    BY <1>1, <1>3, <1>4, <1>5, <1>6
  <1> QED
    BY <1>2, <1>7 DEF t

----------------------------------------------------------------------------
(* The budget. *)

\* f is the running total of ns.
Totalling(ns, f) ==
    /\ f \in [0 .. Len(ns) -> Nat]
    /\ f[0] = 0
    /\ \A k \in 1 .. Len(ns) : f[k] = f[k - 1] + ns[k]

LEMMA TotalsAlong ==
    ASSUME NEW ns \in Seq(Nat)
    PROVE  \E f : Totalling(ns, f) /\ Total(ns) = f[Len(ns)]
  <1> DEFINE step == [k \in 1 .. Len(ns) |-> [v \in Nat |-> v + ns[k]]]
             Eq(f) == f = [k \in 0 .. Len(ns) |-> IF k = 0 THEN 0 ELSE f[k - 1] + ns[k]]
             F == CHOOSE f : Eq(f)
  <1>1. Len(ns) \in Nat /\ \A k \in 1 .. Len(ns) : ns[k] \in Nat
    BY LenProperties, ElementOfSeq
  <1>2. step \in [1 .. Len(ns) -> [Nat -> Nat]]
    BY <1>1
  <1>3. PICK f : Recursive(f, Len(ns), Nat, 0, step)
    <2> HIDE DEF step
    <2>1. Len(ns) \in Nat
      BY <1>1
    <2> QED
      BY <1>2, <2>1, Recursion
  <1>4. /\ f \in [0 .. Len(ns) -> Nat] /\ f[0] = 0
        /\ \A k \in 1 .. Len(ns) : f[k] = f[k - 1] + ns[k]
    <2>1. f \in [0 .. Len(ns) -> Nat] /\ f[0] = 0
      BY <1>3 DEF Recursive
    <2>2. ASSUME NEW k \in 1 .. Len(ns) PROVE f[k] = f[k - 1] + ns[k]
      <3>1. f[k] = step[k][f[k - 1]]
        <4> HIDE DEF step
        <4> QED
          BY <1>3 DEF Recursive
      <3>2. f[k - 1] \in Nat
        <4> HIDE DEF step
        <4>1. k - 1 \in 0 .. Len(ns)
          BY <1>1
        <4> QED
          BY <2>1, <4>1
      <3> QED
        BY <3>1, <3>2
    <2> QED
      BY <2>1, <2>2
  <1>5. Eq(f)
    <2> HIDE DEF step
    <2> DEFINE g == [k \in 0 .. Len(ns) |-> IF k = 0 THEN 0 ELSE f[k - 1] + ns[k]]
    <2>1. \A k \in 0 .. Len(ns) : f[k] = g[k]
      BY <1>1, <1>4
    <2>2. f = [k \in 0 .. Len(ns) |-> f[k]] /\ g = [k \in 0 .. Len(ns) |-> g[k]]
      BY <1>4
    <2>3. f = g
      <3> HIDE DEF g
      <3> QED
        BY <2>1, <2>2
    <2> QED
      BY <2>3
  <1>6. Eq(F)
    <2> HIDE DEF Eq
    <2> QED
      BY <1>5
  <1>7. Total(ns) = F[Len(ns)]
    BY DEF Total
  <1> HIDE DEF F
  <1>8. /\ F[0] = 0
        /\ \A k \in 1 .. Len(ns) : F[k] = F[k - 1] + ns[k]
        /\ F = [k \in 0 .. Len(ns) |-> F[k]]
    BY <1>1, <1>6
  <1>9. \A k \in 0 .. Len(ns) : F[k] \in Nat
    <2> DEFINE H == {k \in 0 .. Len(ns) : F[k] \in Nat}
    <2>1. 0 \in H
      BY <1>1, <1>8
    <2>2. ASSUME NEW k \in 1 .. Len(ns), k - 1 \in H PROVE k \in H
      <3>1. F[k - 1] \in Nat
        BY <2>2
      <3>2. F[k] = F[k - 1] + ns[k]
        BY <1>8
      <3>3. ns[k] \in Nat /\ k \in 0 .. Len(ns)
        BY <1>1
      <3> QED
        BY <3>1, <3>2, <3>3
    <2>3. \A k \in 1 .. Len(ns) : k - 1 \in H => k \in H
      BY <2>2
    <2>4. \A k \in 0 .. Len(ns) : k \in H
      <3> HIDE DEF H
      <3> QED
        BY <1>1, <2>1, <2>3, UpTo
    <2> QED
      BY <2>4
  <1>10. Totalling(ns, F)
    BY <1>8, <1>9 DEF Totalling
  <1> QED
    BY <1>7, <1>10

LEMMA TotalAppended ==
    ASSUME NEW ns \in Seq(Nat), NEW n \in Nat
    PROVE  Total(ns) \in Nat /\ Total(Append(ns, n)) = Total(ns) + n
  <1> DEFINE t == Append(ns, n)
  <1>1. /\ t \in Seq(Nat) /\ Len(ns) \in Nat /\ Len(t) = Len(ns) + 1
        /\ \A k \in 1 .. Len(ns) : t[k] = ns[k]
        /\ t[Len(ns) + 1] = n
    BY AppendProperties, LenProperties
  <1> HIDE DEF t
  <1>2. PICK f : Totalling(ns, f) /\ Total(ns) = f[Len(ns)]
    BY TotalsAlong
  <1>3. PICK g : Totalling(t, g) /\ Total(t) = g[Len(t)]
    BY <1>1, TotalsAlong
  <1>4. \A k \in 0 .. Len(ns) : f[k] = g[k]
    <2> DEFINE H == {k \in 0 .. Len(ns) : f[k] = g[k]}
    <2>1. 0 \in H
      BY <1>1, <1>2, <1>3 DEF Totalling
    <2>2. ASSUME NEW k \in 1 .. Len(ns), k - 1 \in H PROVE k \in H
      <3>1. k \in 1 .. Len(t) /\ t[k] = ns[k] /\ f[k - 1] = g[k - 1]
        BY <1>1, <2>2
      <3>2. f[k] = f[k - 1] + ns[k] /\ g[k] = g[k - 1] + t[k]
        BY <1>2, <1>3, <3>1 DEF Totalling
      <3> QED
        BY <1>1, <3>1, <3>2
    <2>3. \A k \in 1 .. Len(ns) : k - 1 \in H => k \in H
      BY <2>2
    <2>4. \A k \in 0 .. Len(ns) : k \in H
      <3> HIDE DEF H
      <3> QED
        BY <1>1, <2>1, <2>3, UpTo
    <2> QED
      BY <2>4
  <1>5. Len(t) \in 1 .. Len(t) /\ Len(t) - 1 = Len(ns) /\ Len(ns) \in 0 .. Len(ns)
    BY <1>1
  <1>6. g[Len(t)] = g[Len(t) - 1] + t[Len(t)] /\ f[Len(ns)] \in Nat
    BY <1>2, <1>3, <1>5 DEF Totalling
  <1> QED
    BY <1>1, <1>2, <1>3, <1>4, <1>5, <1>6 DEF t

Uncompressed == {"tEXt", "iXMP"}
Within(m) == Kept(m) + m.left <= Budget

\* What a compressed chunk adds to the metadata it takes from the budget.
LEMMA KeepIsCharged ==
    ASSUME NEW m \in Metadata, NEW c \in Chunks, c.type \notin Uncompressed, Within(m)
    PROVE  Within(Keep(m, c))
  <1> DEFINE z == Inflate(m, c)
  <1>1. c.n \in Nat /\ None = -1 /\ Budget \in Nat
    BY ChunksAssumption, BudgetAssumption DEF None
  <1>2. /\ m.icc \in Nat \cup {None} /\ m.xmp \in Nat \cup {None} /\ m.left \in Nat
        /\ m.texts \in Seq(Nat)
    BY <1>1 DEF Metadata
  <1>3. /\ z.ok => z.left = m.left - c.n
        /\ ~z.ok => z.left = m.left
        /\ z.left \in Int
    BY <1>1, <1>2 DEF Inflate
  <1>4. Total(m.texts) \in Nat /\ Total(Append(m.texts, c.n)) = Total(m.texts) + c.n
    BY <1>1, <1>2, TotalAppended
  <1>5. /\ Worth(m.icc) \in Nat /\ Worth(m.xmp) \in Nat /\ Worth(None) = 0 /\ Worth(c.n) = c.n
    BY <1>1, <1>2 DEF Worth
  <1>6. Worth(m.icc) + Worth(m.xmp) + Total(m.texts) + m.left <= Budget
    BY DEF Within, Kept
  <1> HIDE DEF z
  <1>7. CASE c.type = "eXIf"
    <2>1. LET k == Keep(m, c) IN
          k.icc = m.icc /\ k.xmp = m.xmp /\ k.texts = m.texts /\ k.left = m.left
      BY <1>7 DEF Keep, Metadata
    <2> QED
      BY <1>6, <2>1 DEF Within, Kept
  <1>8. CASE c.type = "iCCP"
    <2>1. CASE m.icc # None
      <3>1. Keep(m, c) = m
        BY <1>8, <2>1 DEF Keep
      <3> QED
        BY <3>1
    <2>2. CASE m.icc = None
      <3>1. Keep(m, c) = [m EXCEPT !.icc = IF z.ok THEN c.n ELSE None, !.left = z.left]
        BY <1>8, <2>2 DEF Keep, z
      <3> DEFINE k == Keep(m, c)
      <3>2. /\ k.icc = (IF z.ok THEN c.n ELSE None) /\ k.xmp = m.xmp /\ k.texts = m.texts
            /\ k.left = z.left
        BY <3>1 DEF Metadata
      <3> HIDE DEF k
      <3>3. Worth(k.icc) = IF z.ok THEN c.n ELSE 0
        BY <1>5, <3>2
      <3>4. Worth(k.icc) + Worth(k.xmp) + Total(k.texts) + k.left <= Budget
        <4>1. Worth(m.icc) = 0
          BY <1>5, <2>2
        <4>2. Total(k.texts) = Total(m.texts) /\ Worth(k.xmp) = Worth(m.xmp) /\ k.left = z.left
          BY <3>2
        <4>3. /\ Worth(m.xmp) \in Nat /\ Total(m.texts) \in Nat /\ m.left \in Nat
              /\ Worth(m.xmp) + Total(m.texts) + m.left <= Budget
          BY <1>2, <1>4, <1>5, <1>6, <4>1
        <4>4. Worth(k.icc) \in Int /\ z.left \in Int /\ Worth(k.icc) + z.left = m.left
          BY <1>1, <1>2, <1>3, <3>3
        <4> QED
          BY <1>1, <4>2, <4>3, <4>4
      <3> QED
        BY <3>4 DEF Within, Kept, k
    <2> QED
      BY <2>1, <2>2
  <1>9. CASE c.type = "zXMP"
    <2>1. Keep(m, c) = [m EXCEPT !.xmp = IF z.ok /\ @ = None THEN c.n ELSE @, !.left = z.left]
      BY <1>9 DEF Keep, z
    <2> DEFINE k == Keep(m, c)
    <2>2. /\ k.xmp = (IF z.ok /\ m.xmp = None THEN c.n ELSE m.xmp) /\ k.icc = m.icc
          /\ k.texts = m.texts /\ k.left = z.left
      BY <2>1 DEF Metadata
    <2> HIDE DEF k
    <2>3. Worth(k.xmp) <= Worth(m.xmp) + (IF z.ok THEN c.n ELSE 0) /\ Worth(k.xmp) \in Nat
      BY <1>1, <1>5, <2>2
    <2>4. /\ Worth(k.xmp) + k.left <= Worth(m.xmp) + m.left /\ k.left \in Int
          /\ Worth(k.icc) = Worth(m.icc) /\ Total(k.texts) = Total(m.texts)
      BY <1>1, <1>2, <1>3, <1>5, <2>2, <2>3
    <2>5. /\ Worth(m.icc) \in Nat /\ Worth(m.xmp) \in Nat /\ Total(m.texts) \in Nat
          /\ m.left \in Nat /\ Budget \in Nat
      BY <1>1, <1>2, <1>4, <1>5
    <2>6. Worth(m.icc) + Worth(k.xmp) + Total(m.texts) + k.left <= Budget
      BY <1>6, <2>3, <2>4, <2>5
    <2> QED
      BY <2>4, <2>6 DEF Within, Kept, k
  <1>10. CASE c.type = "zTXt"
    <2>1. Keep(m, c) = [m EXCEPT !.texts = IF z.ok THEN Append(@, c.n) ELSE @, !.left = z.left]
      BY <1>10 DEF Keep, z
    <2> DEFINE k == Keep(m, c)
    <2>2. /\ k.texts = (IF z.ok THEN Append(m.texts, c.n) ELSE m.texts) /\ k.icc = m.icc
          /\ k.xmp = m.xmp /\ k.left = z.left
      BY <2>1 DEF Metadata
    <2> HIDE DEF k
    <2>3. Total(k.texts) = Total(m.texts) + (IF z.ok THEN c.n ELSE 0)
      BY <1>1, <1>4, <2>2
    <2>4. Worth(k.icc) + Worth(k.xmp) + Total(k.texts) + k.left <= Budget
      <3>1. Worth(k.icc) = Worth(m.icc) /\ Worth(k.xmp) = Worth(m.xmp) /\ k.left = z.left
        BY <2>2
      <3>2. /\ Worth(m.icc) \in Nat /\ Worth(m.xmp) \in Nat /\ Total(m.texts) \in Nat
            /\ m.left \in Nat
        BY <1>2, <1>4, <1>5
      <3>3. /\ Total(k.texts) \in Int /\ z.left \in Int
            /\ Total(k.texts) + z.left = Total(m.texts) + m.left
        BY <1>1, <1>3, <2>3, <3>2
      <3> QED
        BY <1>1, <1>6, <3>1, <3>2, <3>3
    <2> QED
      BY <2>4 DEF Within, Kept, k
  <1>11. CASE c.type \notin {"eXIf", "iCCP", "iXMP", "tEXt", "zXMP", "zTXt"}
    BY <1>11 DEF Keep
  <1> QED
    BY <1>7, <1>8, <1>9, <1>10, <1>11 DEF Uncompressed

\* So whatever chunks there are, in whatever order, what is inflated and kept stays
\* within the budget.
LEMMA CollectedWithinBudget ==
    ASSUME NEW s \in Seq(Chunks)
    PROVE  Kept(CollectBut(s, Uncompressed)) <= Budget
  <1>1. PICK f : Collecting(s, Uncompressed, f) /\ CollectBut(s, Uncompressed) = f[Len(s)]
    BY CollectsAlong
  <1> DEFINE H == {k \in 0 .. Len(s) : Within(f[k])}
  <1>2. Len(s) \in Nat /\ \A k \in 1 .. Len(s) : s[k] \in Chunks
    BY LenProperties, ElementOfSeq
  <1>3. 0 \in H
    <2>1. Totalling(<<>>, [k \in 0 .. 0 |-> 0]) /\ <<>> \in Seq(Nat) /\ Len(<<>>) = 0
      BY EmptySeq DEF Totalling
    <2>2. PICK g : Totalling(<<>>, g) /\ Total(<<>>) = g[Len(<<>>)]
      BY <2>1, TotalsAlong
    <2>3. Total(<<>>) = 0
      BY <2>1, <2>2 DEF Totalling
    <2>4. f[0] = NoMetadata
      BY <1>1 DEF Collecting
    <2>5. Within(NoMetadata)
      BY <2>3, BudgetAssumption DEF Within, Kept, NoMetadata, Worth
    <2> QED
      BY <1>2, <2>4, <2>5
  <1>4. ASSUME NEW k \in 1 .. Len(s), k - 1 \in H PROVE k \in H
    <2>1. /\ f[k - 1] \in Metadata /\ s[k] \in Chunks /\ k \in 0 .. Len(s) /\ Within(f[k - 1])
      BY <1>1, <1>2, <1>4 DEF Collecting
    <2>2. f[k] = IF s[k].type \in Uncompressed THEN f[k - 1] ELSE Keep(f[k - 1], s[k])
      BY <1>1 DEF Collecting
    <2>3. Within(f[k])
      BY <2>1, <2>2, KeepIsCharged
    <2> QED
      BY <2>1, <2>3
  <1>5. \A k \in 1 .. Len(s) : k - 1 \in H => k \in H
    BY <1>4
  <1>6. \A k \in 0 .. Len(s) : k \in H
    <2> HIDE DEF H
    <2> QED
      BY <1>2, <1>3, <1>5, UpTo
  <1>7. Within(f[Len(s)]) /\ f[Len(s)] \in Metadata
    BY <1>1, <1>2, <1>6 DEF Collecting
  <1> DEFINE m == f[Len(s)]
  <1> HIDE DEF m
  <1>8. Within(m) /\ m \in Metadata
    BY <1>7 DEF m
  <1>9. Kept(m) \in Nat /\ m.left \in Nat /\ Budget \in Nat
    <2>1. /\ m.icc \in Nat \cup {None} /\ m.xmp \in Nat \cup {None} /\ m.left \in Nat
          /\ m.texts \in Seq(Nat) /\ Budget \in Nat
      BY <1>8, BudgetAssumption DEF Metadata
    <2>2. Worth(m.icc) \in Nat /\ Worth(m.xmp) \in Nat
      BY <2>1 DEF Worth
    <2>3. Total(m.texts) \in Nat
      BY <2>1, TotalAppended
    <2> QED
      BY <2>1, <2>2, <2>3 DEF Kept
  <1> QED
    BY <1>1, <1>8, <1>9 DEF Within, m

----------------------------------------------------------------------------
(* The invariant. *)

\* IEND ends both readers, so what they have read is the body of the file.
LEMMA BodyIsRead ==
    ASSUME fed \in Seq(Chunks), IendIsLast
    PROVE  Body = fed
  <1>1. Len(fed) \in Nat /\ DOMAIN fed = 1 .. Len(fed)
    BY LenProperties
  <1>2. CASE \E k \in DOMAIN fed : fed[k].type = "IEND"
    <2> DEFINE I == {k \in 1 .. Len(fed) : fed[k].type = "IEND"}
    <2>1. I = {Len(fed)}
      BY <1>1, <1>2 DEF IendIsLast, At
    <2>2. SelectInSeq(fed, LAMBDA c : c.type = "IEND") = Min(I)
      BY <2>1 DEF SelectInSeq
    <2>3. Min(I) = Len(fed)
      BY <1>1, <2>1 DEF Min
    <2> HIDE DEF I
    <2>4. Body = SubSeq(fed, 1, Len(fed))
      BY <1>2, <2>2, <2>3 DEF Body
    <2>5. SubSeq(fed, 1, Len(fed)) = fed
      BY SubSeqFull
    <2> QED
      BY <2>4, <2>5
  <1>3. CASE ~\E k \in DOMAIN fed : fed[k].type = "IEND"
    BY <1>3 DEF Body
  <1> QED
    BY <1>2, <1>3

LEMMA InitEstablishes == Init => IInv
  <1> SUFFICES ASSUME Init PROVE IInv
    OBVIOUS
  <1>1. <<>> \in Seq(Chunks) /\ DOMAIN <<>> = {} /\ \A type : At(<<>>, type) = {}
    BY EmptySeq DEF At
  <1>2. TypeOK
    BY <1>1 DEF Init, TypeOK, ParseState, WalkState, Position
  <1>3. IendIsLast
    BY <1>1 DEF Init, IendIsLast
  <1>4. ParseIsExact
    <2>1. FlagsSay(parse, <<>>)
      BY <1>1 DEF Init, FlagsSay, None
    <2> QED
      BY <2>1 DEF Init, ParseIsExact
  <1>5. WalkFollows
    BY DEF Init, WalkFollows
  <1> QED
    BY <1>2, <1>3, <1>4, <1>5 DEF IInv

\* The first chunk: both readers take it, or it is not the header of a PNG.
LEMMA FirstIsExact ==
    ASSUME NEW c \in Chunks, NEW p \in ParseState, FlagsSay(p, <<>>)
    PROVE  LET q == First(p, c)
               t == Append(<<>>, c)
           IN  /\ q \in ParseState /\ q.at \in {"body", "refused"} /\ q.anc = p.anc
               /\ q.at = "body" => c.type # "IEND" /\ InOrder(t) /\ FlagsSay(q, t)
               /\ q.at = "refused" => ~InOrder(t)
  <1> DEFINE q == First(p, c)
             t == Append(<<>>, c)
  <1>1. <<>> \in Seq(Chunks) /\ DOMAIN <<>> = {} /\ Len(<<>>) = 0
    BY EmptySeq
  <1>2. /\ t \in Seq(Chunks) /\ DOMAIN t = {1} /\ t[1] = c
    BY <1>1, Appended
  <1> HIDE DEF t
  <1>3. \A type : At(t, type) = IF c.type = type THEN {1} ELSE {}
    BY <1>2 DEF At
  <1>4. InOrder(t) => c.type = "IHDR" /\ c.ok /\ c.n = 1
    BY <1>2, <1>3 DEF InOrder, Critical
  <1>5. c.type = "IHDR" /\ c.ok /\ c.n = 1 => InOrder(t)
    BY <1>2, <1>3 DEF InOrder, Critical
  <1>6. CASE c.type = "IHDR" /\ c.ok /\ c.n = 1
    <2>1. q = [p EXCEPT !.at = "body"]
      BY <1>6 DEF First
    <2>2. /\ q \in ParseState /\ q.at = "body" /\ q.anc = p.anc /\ q.idatDone = p.idatDone
          /\ q.idats = p.idats /\ q.plte = p.plte /\ q.trns = p.trns
      BY <2>1 DEF ParseState, Position
    <2> HIDE DEF q
    <2>3. ~p.idatDone /\ ~(p.idats > 0)
      BY <1>1 DEF FlagsSay, At
    <2>4. q.idatDone = (p.idatDone \/ (p.idats > 0 /\ c.type # "IDAT"))
      BY <2>2, <2>3 DEF ParseState
    <2>5. FlagsSay(q, t)
      BY <1>1, <1>6, <2>2, <2>4, FlagsFollow DEF t
    <2> QED
      BY <1>5, <1>6, <2>2, <2>5 DEF q, t
  <1>7. CASE ~(c.type = "IHDR" /\ c.ok /\ c.n = 1)
    <2>1. q = [p EXCEPT !.at = "refused"]
      BY <1>7 DEF First, Refused
    <2>2. q \in ParseState /\ q.at = "refused" /\ q.anc = p.anc
      BY <2>1 DEF ParseState, Position
    <2> QED
      BY <1>4, <1>7, <2>2 DEF t
  <1> QED
    BY <1>6, <1>7

\* One chunk past the header through the metadata walk: it goes on, ends or refuses, and
\* never accepts less than parse_stream does, nor other metadata.
LEMMA WalkChunkFollows ==
    ASSUME NEW c \in Chunks, NEW w \in WalkState, w.at = "body",
           NEW p \in ParseState, p.at = "body", Collect(w.anc) = Collect(p.anc)
    PROVE  LET q == ParseChunk(p, c)
               v == WalkChunk(w, c)
           IN  /\ v \in WalkState /\ v.at \in {"body", "done", "refused"}
               /\ c.type = "IEND" => v.at # "body"
               /\ q.at # "refused" => v.at = q.at /\ Collect(v.anc) = Collect(q.anc)
  <1> DEFINE q == ParseChunk(p, c)
             v == WalkChunk(w, c)
             z == Closed(p, c)
  <1>1. z \in ParseState /\ z.at = "body" /\ z.anc = p.anc
    BY DEF Closed, ParseState
  <1>2. c.type \in Critical \cup Ancillary /\ c.ok \in BOOLEAN /\ c.n \in Nat
    BY ChunksAssumption
  <1>3. p.anc \in Seq(Chunks) /\ w.anc \in Seq(Chunks)
    BY DEF ParseState, WalkState
  <1>4. /\ Append(w.anc, c) \in Seq(Chunks)
        /\ Collect(Append(w.anc, c)) = Keep(Collect(w.anc), c)
        /\ Collect(Append(p.anc, c)) = Keep(Collect(p.anc), c)
    BY <1>3, CollectAppended, AppendProperties DEF Collect
  <1> HIDE DEF z
  <1>5. CASE c.type = "IEND"
    <2>1. q = Last_(z, c) /\ v = Last_(w, c)
      BY <1>5 DEF ParseChunk, WalkChunk, Ancillary, z
    <2> QED
      BY <1>1, <1>5, <2>1 DEF Last_, Refused, ParseState, WalkState, Position
  <1>6. CASE c.type = "IDAT"
    <2>1. q = ParseIdat(z, c) /\ v = w
      BY <1>6 DEF ParseChunk, WalkChunk, Ancillary, z
    <2> QED
      BY <1>1, <1>6, <2>1 DEF ParseIdat, Refused, ParseState, WalkState, Position
  <1>7. CASE c.type = "PLTE"
    <2>1. q = ParsePlte(z, c) /\ v = w
      BY <1>7 DEF ParseChunk, WalkChunk, Ancillary, z
    <2> QED
      BY <1>1, <1>7, <2>1 DEF ParsePlte, Refused, ParseState, WalkState, Position
  <1>8. CASE c.type = "tRNS"
    <2>1. q = ParseTrns(z, c) /\ v = KeepAncillary(w, c)
      BY <1>8 DEF ParseChunk, WalkChunk, Ancillary, z
    <2>2. q.at # "refused" => q.at = "body" /\ q.anc = p.anc
      BY <1>1, <2>1 DEF ParseTrns, Refused, ParseState, Position
    <2>3. v \in WalkState /\ v.at = "body" /\ v.anc = IF c.ok THEN Append(w.anc, c) ELSE w.anc
      BY <1>4, <2>1 DEF KeepAncillary, WalkState, Position
    <2>4. Keep(Collect(w.anc), c) = Collect(w.anc)
      BY <1>8 DEF Keep
    <2> HIDE DEF q, v
    <2>5. Collect(v.anc) = Collect(w.anc)
      BY <1>4, <2>3, <2>4
    <2> QED
      BY <1>8, <2>2, <2>3, <2>5 DEF q, v
  <1>9. CASE c.type \in Ancillary \ {"tRNS"}
    <2>1. q = KeepAncillary(z, c) /\ v = KeepAncillary(w, c)
      BY <1>9 DEF ParseChunk, WalkChunk, Ancillary, z
    <2>2. q.at = "body" /\ q.anc = IF c.ok THEN Append(p.anc, c) ELSE p.anc
      BY <1>1, <2>1 DEF KeepAncillary, ParseState, Position
    <2>3. v \in WalkState /\ v.at = "body" /\ v.anc = IF c.ok THEN Append(w.anc, c) ELSE w.anc
      BY <1>4, <2>1 DEF KeepAncillary, WalkState, Position
    <2> HIDE DEF q, v
    <2>4. Collect(v.anc) = Collect(q.anc)
      BY <1>4, <2>2, <2>3
    <2>5. c.type # "IEND"
      BY <1>9 DEF Ancillary
    <2> QED
      BY <2>2, <2>3, <2>4, <2>5 DEF q, v
  <1>10. CASE c.type \in {"IHDR", "CRIT"}
    <2>1. q = Refused(z) /\ v = Refused(w)
      BY <1>10 DEF ParseChunk, WalkChunk, Ancillary, z
    <2> QED
      BY <1>1, <1>10, <2>1 DEF Refused, ParseState, WalkState, Position
  <1> QED
    BY <1>2, <1>5, <1>6, <1>7, <1>8, <1>9, <1>10 DEF Critical

\* The metadata walk alone, when parse_stream has already refused the file.
LEMMA WalkChunkType ==
    ASSUME NEW c \in Chunks, NEW w \in WalkState, w.at = "body"
    PROVE  LET v == WalkChunk(w, c) IN
           /\ v \in WalkState /\ v.at \in {"body", "done", "refused"}
           /\ c.type = "IEND" => v.at # "body"
  <1>1. Append(w.anc, c) \in Seq(Chunks)
    BY AppendProperties DEF WalkState
  <1> QED
    BY <1>1 DEF WalkChunk, Last_, KeepAncillary, Refused, WalkState, Position, Ancillary

LEMMA FeedPreserves ==
    ASSUME IInv, NEW c \in Chunks, Feed(c)
    PROVE  IInv'
  <1>1. /\ TypeOK /\ IendIsLast /\ ParseIsExact /\ WalkFollows
        /\ fed \in Seq(Chunks) /\ parse \in ParseState /\ walk \in WalkState
        /\ parse.at \in Position /\ walk.at \in Position
    BY DEF IInv, TypeOK, ParseState, WalkState
  <1>2. Open /\ fed' = Append(fed, c) /\ header' = header
    BY DEF Feed
  <1>3. At(fed, "IEND") = {}
    BY <1>1, <1>2 DEF IendIsLast
  <1>4. /\ fed' \in Seq(Chunks) /\ fed' # <<>> /\ Len(fed') = Len(fed) + 1
        /\ At(fed', "IEND") = IF c.type = "IEND" THEN {Len(fed')} ELSE {}
        /\ Len(fed') \in Nat /\ fed'[Len(fed')] = c
    BY <1>1, <1>2, <1>3, Appended, AppendedAt
  <1>5. Last(fed') = c
    BY <1>4 DEF Last
  \* What is left to show of each reader.
  <1> DEFINE ParseGoal == /\ parse' \in ParseState
                          /\ parse'.at # "start"
                          /\ c.type = "IEND" => ~Reading(parse')
                          /\ ParseIsExact'
             WalkGoal == /\ walk' \in WalkState
                         /\ walk'.at # "start"
                         /\ c.type = "IEND" => ~Reading(walk')
                         /\ parse'.at # "refused" =>
                               walk'.at = parse'.at /\ Collect(walk'.anc) = Collect(parse'.anc)
  <1>6. ASSUME parse.at = "start" PROVE ParseGoal /\ WalkGoal
    <2>1. fed = <<>> /\ FlagsSay(parse, <<>>)
      BY <1>1, <1>6 DEF ParseIsExact
    <2>2. walk.at = "start" /\ Collect(walk.anc) = Collect(parse.anc)
      BY <1>1, <1>6 DEF WalkFollows
    <2>3. parse' = First(parse, c) /\ walk' = First(walk, c)
      BY <1>6, <2>2 DEF Feed
    <2>4. /\ parse' \in ParseState /\ parse'.at \in {"body", "refused"} /\ parse'.anc = parse.anc
          /\ parse'.at = "body" => c.type # "IEND" /\ InOrder(fed') /\ FlagsSay(parse', fed')
          /\ parse'.at = "refused" => ~InOrder(fed')
      BY <1>1, <1>2, <2>1, <2>3, FirstIsExact
    <2>5. ParseIsExact'
      <3>1. CASE parse'.at = "body"
        BY <1>4, <2>4, <3>1 DEF ParseIsExact
      <3>2. CASE parse'.at = "refused"
        BY <1>4, <2>4, <3>2 DEF ParseIsExact
      <3> QED
        BY <2>4, <3>1, <3>2
    <2>6. /\ walk' \in WalkState /\ walk'.at = parse'.at /\ walk'.anc = walk.anc
      BY <1>1, <2>3 DEF First, Refused, ParseState, WalkState, Position
    <2>7. c.type = "IEND" => parse'.at = "refused"
      BY <2>4
    <2>8. ParseGoal
      BY <2>4, <2>5, <2>7 DEF Reading
    <2>9. WalkGoal
      BY <2>2, <2>4, <2>6, <2>7 DEF Reading
    <2> HIDE DEF ParseGoal, WalkGoal
    <2> QED
      BY <2>8, <2>9
  <1>7. ASSUME parse.at = "body" PROVE ParseGoal /\ WalkGoal
    <2>1. InOrder(fed) /\ FlagsSay(parse, fed)
      BY <1>1, <1>7 DEF ParseIsExact
    <2>2. fed # <<>>
      BY <2>1, EmptySeq DEF InOrder, At
    <2>3. walk.at = "body" /\ Collect(walk.anc) = Collect(parse.anc)
      BY <1>1, <1>7 DEF WalkFollows
    <2>4. parse' = ParseChunk(parse, c) /\ walk' = WalkChunk(walk, c)
      BY <1>7, <2>3 DEF Feed
    <2>5. /\ parse' \in ParseState /\ parse'.at \in {"body", "done", "refused"}
          /\ parse'.at = "body" => c.type # "IEND" /\ InOrder(fed') /\ FlagsSay(parse', fed')
          /\ parse'.at = "done" =>
                c.type = "IEND" /\ c.n = 0 /\ InOrder(fed') /\ FlagsSay(parse', fed')
          /\ parse'.at = "refused" => ~InOrder(fed') \/ (c.type = "IEND" /\ c.n # 0)
      BY <1>1, <1>2, <1>7, <2>1, <2>2, <2>4, ParseChunkIsExact
    <2>6. /\ walk' \in WalkState /\ walk'.at \in {"body", "done", "refused"}
          /\ c.type = "IEND" => walk'.at # "body"
          /\ parse'.at # "refused" =>
                walk'.at = parse'.at /\ Collect(walk'.anc) = Collect(parse'.anc)
      BY <1>1, <1>7, <2>3, <2>4, WalkChunkFollows
    <2>7. ParseIsExact'
      <3>1. CASE parse'.at = "body"
        BY <1>4, <2>5, <3>1 DEF ParseIsExact
      <3>2. CASE parse'.at = "done"
        BY <1>4, <1>5, <2>5, <3>2 DEF ParseIsExact
      <3>3. CASE parse'.at = "refused"
        BY <1>4, <1>5, <2>5, <3>3 DEF ParseIsExact
      <3> QED
        BY <2>5, <3>1, <3>2, <3>3
    <2>8. ParseGoal
      BY <2>5, <2>7 DEF Reading
    <2>9. WalkGoal
      BY <2>6 DEF Reading
    <2> HIDE DEF ParseGoal, WalkGoal
    <2> QED
      BY <2>8, <2>9
  <1>8. parse.at # "done"
    BY <1>1, <1>2 DEF WalkFollows, Open, Reading
  <1>9. ASSUME parse.at = "refused" PROVE ParseGoal /\ WalkGoal
    <2>1. fed # <<>> /\ ~InOrder(fed)
      BY <1>1, <1>2, <1>3, <1>9 DEF ParseIsExact
    <2>2. ~InOrder(fed')
      BY <1>1, <1>2, <2>1, DisorderStays
    <2>3. parse' = parse
      BY <1>9 DEF Feed
    <2>4. ParseIsExact'
      BY <1>4, <1>9, <2>2, <2>3 DEF ParseIsExact
    <2>5. ParseGoal
      BY <1>1, <1>9, <2>3, <2>4 DEF Reading
    <2>6. walk.at = "body"
      BY <1>1, <1>2, <1>9 DEF WalkFollows, Open, Reading
    <2>7. walk' = WalkChunk(walk, c)
      BY <2>6 DEF Feed
    <2>8. /\ walk' \in WalkState /\ walk'.at # "start"
          /\ c.type = "IEND" => walk'.at # "body"
      BY <1>1, <2>6, <2>7, WalkChunkType
    <2>9. WalkGoal
      BY <1>9, <2>3, <2>8 DEF Reading
    <2> HIDE DEF ParseGoal, WalkGoal
    <2> QED
      BY <2>5, <2>9
  <1>10. ParseGoal /\ WalkGoal
    <2> HIDE DEF ParseGoal, WalkGoal
    <2> QED
      BY <1>1, <1>6, <1>7, <1>8, <1>9 DEF Position
  <1>11. TypeOK'
    BY <1>1, <1>2, <1>4, <1>10 DEF TypeOK
  <1>12. IendIsLast'
    BY <1>4, <1>10 DEF IendIsLast, Open
  <1>13. WalkFollows'
    BY <1>10 DEF WalkFollows
  <1> QED
    BY <1>10, <1>11, <1>12, <1>13 DEF IInv

LEMMA EndPreserves ==
    ASSUME IInv, EndOfInput
    PROVE  IInv'
  <1>1. /\ TypeOK /\ IendIsLast /\ ParseIsExact /\ WalkFollows
        /\ parse \in ParseState /\ walk \in WalkState
        /\ parse.at \in Position /\ walk.at \in Position
    BY DEF IInv, TypeOK, ParseState, WalkState
  <1>2. Open /\ fed' = fed /\ header' = header
    BY DEF EndOfInput
  <1>3. At(fed, "IEND") = {}
    BY <1>1, <1>2 DEF IendIsLast
  <1>4. parse' \in ParseState /\ ~Reading(parse') /\ (~Reading(parse) => parse' = parse)
        /\ (Reading(parse) => parse'.at = "refused")
    BY <1>1 DEF EndOfInput, Reading, Refused, ParseState, Position
  <1>5. walk' \in WalkState /\ ~Reading(walk')
    BY <1>1 DEF EndOfInput, Reading, Refused, WalkState, Position
  <1>6. parse.at # "done"
    BY <1>1, <1>2 DEF WalkFollows, Open, Reading
  <1>7. parse'.at = "refused"
    BY <1>1, <1>4, <1>6 DEF Reading, Position
  <1>8. TypeOK'
    BY <1>1, <1>2, <1>4, <1>5 DEF TypeOK
  <1>9. IendIsLast'
    BY <1>2, <1>3 DEF IendIsLast
  <1>10. ParseIsExact'
    BY <1>2, <1>3, <1>4, <1>5, <1>7 DEF ParseIsExact, Open
  <1>11. WalkFollows'
    BY <1>5, <1>7 DEF WalkFollows, Reading
  <1> QED
    BY <1>8, <1>9, <1>10, <1>11 DEF IInv

\* The invariant of both readers holds of every stream of chunks.
THEOREM InvariantHolds == Spec => []IInv
  <1>1. IInv /\ [Next]_vars => IInv'
    <2> SUFFICES ASSUME IInv, [Next]_vars PROVE IInv'
      OBVIOUS
    <2>1. CASE \E c \in Chunks : Feed(c)
      BY <2>1, FeedPreserves
    <2>2. CASE EndOfInput
      BY <2>2, EndPreserves
    <2>3. CASE UNCHANGED vars
      BY <2>3 DEF vars, IInv, TypeOK, IendIsLast, ParseIsExact, WalkFollows, Open
    <2> QED
      BY <2>1, <2>2, <2>3 DEF Next
  <1> QED
    BY <1>1, InitEstablishes, PTL DEF Spec

\* The position, flags and chunks of parse_stream and walk_metadata_chunks stay of
\* their types.
THEOREM TypeCorrect == Spec => []TypeOK
  <1>1. IInv => TypeOK
    BY DEF IInv
  <1> QED
    BY <1>1, InvariantHolds, PTL

\* parse_stream finds a PNG exactly in the streams of the grammar: for every header,
\* every set of chunks, and every length, the flags seen_idat, idat_done, seen_iend, plte
\* and trns of its loop refuse what is out of place and nothing else.
THEOREM DecodeAcceptsTheGrammar == Spec => []ParsesExactlyWellFormed
  <1>1. ASSUME IInv PROVE ParsesExactlyWellFormed
    <2>1. fed \in Seq(Chunks) /\ IendIsLast /\ ParseIsExact /\ parse.at \in Position
      BY <1>1 DEF IInv, TypeOK, ParseState
    <2>2. Body = fed
      BY <2>1, BodyIsRead
    <2>3. CASE parse.at = "done"
      <3>1. /\ InOrder(fed) /\ At(fed, "IEND") # {} /\ Last(fed).n = 0
            /\ parse.idats > 0 <=> At(fed, "IDAT") # {}
        BY <2>1, <2>3 DEF ParseIsExact, FlagsSay
      <3> QED
        BY <2>2, <2>3, <3>1 DEF ParsesExactlyWellFormed, Parsed, WellFormed
    <2>4. CASE parse.at = "refused"
      <3>1. At(fed, "IEND") = {} \/ ~InOrder(fed) \/ Last(fed).n # 0
        BY <2>1, <2>4 DEF ParseIsExact
      <3> QED
        BY <2>2, <2>4, <3>1 DEF ParsesExactlyWellFormed, Parsed, WellFormed
    <2>5. CASE Reading(parse)
      BY <2>5 DEF ParsesExactlyWellFormed, Finished
    <2> QED
      BY <2>1, <2>3, <2>4, <2>5 DEF Position, Reading
  <1> QED
    BY <1>1, InvariantHolds, PTL

\* metadata() reads every file that parse_stream reads and finds the same metadata in
\* it, whatever chunks it skips unread.
THEOREM MetadataAgrees == Spec => []MetadataMatchesDecode
  <1>1. IInv => MetadataMatchesDecode
    BY DEF IInv, WalkFollows, MetadataMatchesDecode, Parsed
  <1> QED
    BY <1>1, InvariantHolds, PTL

\* What metadata() inflates and keeps is within max_metadata_bytes after every stream,
\* for every budget.
THEOREM BudgetIsKept == Spec => []BudgetHolds
  <1>1. TypeOK => BudgetHolds
    <2> SUFFICES ASSUME TypeOK PROVE BudgetHolds
      OBVIOUS
    <2>1. walk.anc \in Seq(Chunks)
      BY DEF TypeOK, WalkState
    <2> QED
      BY <2>1, CollectedWithinBudget DEF BudgetHolds, Uncompressed
  <1> QED
    BY <1>1, TypeCorrect, PTL

----------------------------------------------------------------------------
(* What the encoder writes. *)

AnyChunks == [type : Critical \cup Ancillary, ok : BOOLEAN, n : Nat]

\* The order in which write_png and the Ancillary it calls emit the types.
Rank(type) ==
    CASE type = "IHDR" -> 1 [] type = "iCCP" -> 2 [] type = "PLTE" -> 3 [] type = "tRNS" -> 4
      [] type = "eXIf" -> 5 [] type = "zTXt" -> 6 [] type = "iXMP" -> 7 [] type = "IDAT" -> 8
      [] type = "IEND" -> 9 [] OTHER -> 0

\* What a chunk of each type carries in the file of j, when there is one.
Says(j, c) ==
    /\ c.ok
    /\ c.type \in {"IHDR", "iCCP", "PLTE", "tRNS", "eXIf", "zTXt", "iXMP", "IDAT", "IEND"}
    /\ c.type = "IHDR" => c.n = 1
    /\ c.type = "IEND" => c.n = 0
    /\ c.type = "iCCP" => c.n = j.icc
    /\ c.type = "eXIf" => c.n = j.exif
    /\ c.type = "iXMP" => c.n = j.xmp
    /\ c.type = "PLTE" => j.color = "indexed" /\ c.n = 3 * j.entries
    /\ c.type = "tRNS" => j.color = "indexed" /\ c.n = j.alphas

\* A run of what the encoder writes, of types from rank a to rank b.
Block(j, s, a, b) ==
    /\ s \in Seq(AnyChunks)
    /\ \A i \in 1 .. Len(s) : Says(j, s[i]) /\ a <= Rank(s[i].type) /\ Rank(s[i].type) <= b
    /\ \A i, k \in 1 .. Len(s) : i < k =>
          \/ Rank(s[i].type) < Rank(s[k].type)
          \/ s[i].type = s[k].type /\ s[i].type \in {"zTXt", "IDAT"}
Has(s, type) == \E i \in 1 .. Len(s) : s[i].type = type

\* ns are the texts of s, after its first o chunks.
TextsAt(s, o, ns) ==
    \A i \in 1 .. Len(s) :
        /\ s[i].type = "zTXt" <=> i - o \in 1 .. Len(ns)
        /\ s[i].type = "zTXt" => s[i].n = ns[i - o]

\* Two runs after one another.
LEMMA RunsJoin ==
    ASSUME NEW s \in Seq(AnyChunks), NEW t \in Seq(AnyChunks)
    PROVE  /\ s \o t \in Seq(AnyChunks)
           /\ Len(s) \in Nat /\ Len(t) \in Nat /\ Len(s \o t) = Len(s) + Len(t)
           /\ \A i \in 1 .. Len(s) : i \in 1 .. Len(s \o t) /\ (s \o t)[i] = s[i]
           /\ \A i \in 1 .. Len(t) :
                 i + Len(s) \in 1 .. Len(s \o t) /\ (s \o t)[i + Len(s)] = t[i]
           /\ \A i \in 1 .. Len(s \o t) : i \in 1 .. Len(s) \/ i - Len(s) \in 1 .. Len(t)
  <1> DEFINE z == s \o t
             A == Len(s)
             B == Len(t)
  <1>1. A \in Nat /\ B \in Nat
    BY LenProperties
  <1>2. /\ z \in Seq(AnyChunks) /\ Len(z) = A + B
        /\ \A i \in 1 .. A + B : z[i] = IF i <= A THEN s[i] ELSE t[i - A]
    BY <1>1, ConcatProperties
  <1> HIDE DEF z, A, B
  <1>3. \A i \in 1 .. A : i \in 1 .. A + B /\ z[i] = s[i]
    BY <1>1, <1>2
  <1>4. \A i \in 1 .. B : i + A \in 1 .. A + B /\ z[i + A] = t[i]
    <2> TAKE i \in 1 .. B
    <2>1. i + A \in 1 .. A + B /\ ~(i + A <= A) /\ (i + A) - A = i
      BY <1>1
    <2> QED
      BY <1>2, <2>1
  <1>5. \A i \in 1 .. A + B : i \in 1 .. A \/ i - A \in 1 .. B
    BY <1>1
  <1> QED
    BY <1>1, <1>2, <1>3, <1>4, <1>5 DEF z, A, B

LEMMA HasJoined ==
    ASSUME NEW s \in Seq(AnyChunks), NEW t \in Seq(AnyChunks), NEW type
    PROVE  Has(s \o t, type) <=> Has(s, type) \/ Has(t, type)
  <1> DEFINE z == s \o t
  <1>1. /\ Len(s) \in Nat /\ Len(t) \in Nat
        /\ \A i \in 1 .. Len(s) : i \in 1 .. Len(z) /\ z[i] = s[i]
        /\ \A i \in 1 .. Len(t) : i + Len(s) \in 1 .. Len(z) /\ z[i + Len(s)] = t[i]
        /\ \A i \in 1 .. Len(z) : i \in 1 .. Len(s) \/ i - Len(s) \in 1 .. Len(t)
    BY RunsJoin
  <1> HIDE DEF z
  <1>2. Has(s, type) => Has(z, type)
    BY <1>1 DEF Has
  <1>3. Has(t, type) => Has(z, type)
    BY <1>1 DEF Has
  <1>4. ASSUME Has(z, type) PROVE Has(s, type) \/ Has(t, type)
    <2>1. PICK i \in 1 .. Len(z) : z[i].type = type
      BY <1>4 DEF Has
    <2>2. CASE i \in 1 .. Len(s)
      BY <1>1, <2>1, <2>2 DEF Has
    <2>3. CASE i - Len(s) \in 1 .. Len(t)
      <3>1. (i - Len(s)) + Len(s) = i
        BY <1>1
      <3>2. t[i - Len(s)].type = type
        BY <1>1, <2>1, <2>3, <3>1
      <3> QED
        BY <2>3, <3>2 DEF Has
    <2> QED
      BY <1>1, <2>2, <2>3
  <1> QED
    BY <1>2, <1>3, <1>4 DEF z

LEMMA BlocksJoin ==
    ASSUME NEW j, NEW a \in Nat, NEW b \in Nat, NEW c \in Nat, NEW d \in Nat,
           a <= b, b < c, c <= d, NEW s, NEW t, Block(j, s, a, b), Block(j, t, c, d)
    PROVE  Block(j, s \o t, a, d)
  <1> DEFINE z == s \o t
             A == Len(s)
             B == Len(t)
  <1>1. s \in Seq(AnyChunks) /\ t \in Seq(AnyChunks)
    BY DEF Block
  <1>2. /\ z \in Seq(AnyChunks) /\ A \in Nat /\ B \in Nat /\ Len(z) = A + B
        /\ \A i \in 1 .. A : z[i] = s[i]
        /\ \A i \in 1 .. B : z[i + A] = t[i]
        /\ \A i \in 1 .. A + B : i \in 1 .. A \/ i - A \in 1 .. B
    BY <1>1, RunsJoin
  <1>3. \A i \in 1 .. A : Says(j, s[i]) /\ a <= Rank(s[i].type) /\ Rank(s[i].type) <= b
    BY DEF Block
  <1>4. \A i \in 1 .. B : Says(j, t[i]) /\ c <= Rank(t[i].type) /\ Rank(t[i].type) <= d
    BY DEF Block
  <1>5. \A i, k \in 1 .. A : i < k =>
          \/ Rank(s[i].type) < Rank(s[k].type)
          \/ s[i].type = s[k].type /\ s[i].type \in {"zTXt", "IDAT"}
    BY DEF Block
  <1>6. \A i, k \in 1 .. B : i < k =>
          \/ Rank(t[i].type) < Rank(t[k].type)
          \/ t[i].type = t[k].type /\ t[i].type \in {"zTXt", "IDAT"}
    BY DEF Block
  <1>7. \A type : Rank(type) \in Nat
    BY DEF Rank
  <1> HIDE DEF z, A, B
  <1>8. \A i \in 1 .. A + B : i - A \in 1 .. B => z[i] = t[i - A]
    <2> TAKE i \in 1 .. A + B
    <2>1. (i - A) + A = i
      BY <1>2
    <2> QED
      BY <1>2, <2>1
  <1>9. \A i \in 1 .. A + B : Says(j, z[i]) /\ a <= Rank(z[i].type) /\ Rank(z[i].type) <= d
    <2> TAKE i \in 1 .. A + B
    <2>1. CASE i \in 1 .. A
      BY <1>2, <1>3, <1>7, <2>1
    <2>2. CASE i - A \in 1 .. B
      BY <1>4, <1>7, <1>8, <2>2
    <2> QED
      BY <1>2, <2>1, <2>2
  <1>10. ASSUME NEW i \in 1 .. A + B, NEW k \in 1 .. A + B, i < k
         PROVE  \/ Rank(z[i].type) < Rank(z[k].type)
                \/ z[i].type = z[k].type /\ z[i].type \in {"zTXt", "IDAT"}
    <2>1. CASE k \in 1 .. A
      <3>1. i \in 1 .. A /\ z[i] = s[i] /\ z[k] = s[k]
        BY <1>2, <1>10, <2>1
      <3> QED
        BY <1>5, <1>10, <2>1, <3>1
    <2>2. CASE i \in 1 .. A /\ k - A \in 1 .. B
      <3>1. z[i] = s[i] /\ z[k] = t[k - A]
        BY <1>2, <1>8, <2>2
      <3>2. Rank(z[i].type) <= b /\ c <= Rank(z[k].type)
        BY <1>3, <1>4, <2>2, <3>1
      <3> QED
        BY <1>7, <3>2
    <2>3. CASE i - A \in 1 .. B
      <3>1. k - A \in 1 .. B /\ i - A < k - A
        BY <1>2, <1>10, <2>3
      <3>2. z[i] = t[i - A] /\ z[k] = t[k - A]
        BY <1>8, <2>3, <3>1
      <3> QED
        BY <1>6, <2>3, <3>1, <3>2
    <2> QED
      BY <1>2, <2>1, <2>2, <2>3
  <1>11. Block(j, z, a, d)
    BY <1>2, <1>9, <1>10 DEF Block
  <1> QED
    BY <1>11 DEF z

\* A run of one chunk, or of none.
LEMMA OneChunk ==
    ASSUME NEW j, NEW type, NEW n \in Nat,
           Says(j, [type |-> type, ok |-> TRUE, n |-> n])
    PROVE  /\ Block(j, Chunk_(type, n), Rank(type), Rank(type))
           /\ \A x : Has(Chunk_(type, n), x) <=> x = type
           /\ Len(Chunk_(type, n)) = 1 /\ Chunk_(type, n)[1].type = type
  <1> DEFINE c == [type |-> type, ok |-> TRUE, n |-> n]
  <1>1. c \in AnyChunks /\ c.type = type
    BY DEF Says, AnyChunks, Critical, Ancillary
  <1>2. Rank(type) \in Nat
    BY DEF Rank
  <1> HIDE DEF c
  <1>3. Says(j, c)
    BY DEF c
  <1>4. /\ <<c>> \in Seq(AnyChunks) /\ Len(<<c>>) = 1 /\ <<c>>[1] = c
    BY <1>1
  <1> DEFINE s == <<c>>
  <1> HIDE DEF s
  <1>5. Block(j, s, Rank(type), Rank(type))
    BY <1>1, <1>2, <1>3, <1>4 DEF Block, s
  <1>6. \A x : Has(s, x) <=> x = type
    BY <1>1, <1>4 DEF Has, s
  <1> QED
    BY <1>1, <1>4, <1>5, <1>6 DEF Chunk_, c, s

LEMMA NoChunk ==
    ASSUME NEW j, NEW a, NEW b
    PROVE  Block(j, <<>>, a, b) /\ (\A x : ~Has(<<>>, x)) /\ Len(<<>>) = 0
  BY EmptySeq DEF Block, Has

LEMMA OptionalChunk ==
    ASSUME NEW j, NEW type, NEW n \in Nat \cup {None},
           n # None => Says(j, [type |-> type, ok |-> TRUE, n |-> n])
    PROVE  Block(j, Optional(type, n), Rank(type), Rank(type))
  <1>1. CASE n = None
    BY <1>1, NoChunk DEF Optional
  <1>2. CASE n # None
    BY <1>2, OneChunk DEF Optional
  <1> QED
    BY <1>1, <1>2

LEMMA OptionalHas ==
    ASSUME NEW type, NEW n, NEW x
    PROVE  Has(Optional(type, n), x) <=> x = type /\ n # None
  <1>1. CASE n = None
    BY <1>1, NoChunk DEF Optional
  <1>2. CASE n # None
    <2> DEFINE s == <<[type |-> type, ok |-> TRUE, n |-> n]>>
    <2>1. Optional(type, n) = s
      BY <1>2 DEF Optional, Chunk_
    <2>2. Len(s) = 1 /\ s[1].type = type
      OBVIOUS
    <2> HIDE DEF s
    <2> QED
      BY <1>2, <2>1, <2>2 DEF Has
  <1> QED
    BY <1>1, <1>2

----------------------------------------------------------------------------
LEMMA TextChunks ==
    ASSUME NEW j \in Job
    PROVE  /\ Block(j, Texts(j), 6, 6) /\ TextsAt(Texts(j), 0, j.texts)
           /\ Len(Texts(j)) = Len(j.texts)
  <1> DEFINE w == Texts(j)
  <1>1. /\ j.texts \in Seq(Nat \ {0}) /\ Len(j.texts) \in Nat /\ DOMAIN j.texts = 1 .. Len(j.texts)
        /\ \A k \in 1 .. Len(j.texts) : j.texts[k] \in Nat
    BY LenProperties, ElementOfSeq DEF Job
  <1>2. \A k \in 1 .. Len(j.texts) : w[k] = [type |-> "zTXt", ok |-> TRUE, n |-> j.texts[k]]
    BY <1>1 DEF Texts
  <1> HIDE DEF w
  <1>3. \A k \in 1 .. Len(j.texts) :
            w[k] \in AnyChunks /\ w[k].type = "zTXt" /\ w[k].ok /\ w[k].n = j.texts[k]
    <2> TAKE k \in 1 .. Len(j.texts)
    <2> DEFINE c == [type |-> "zTXt", ok |-> TRUE, n |-> j.texts[k]]
    <2>1. c \in AnyChunks /\ c.type = "zTXt" /\ c.ok /\ c.n = j.texts[k]
      BY <1>1 DEF AnyChunks, Ancillary
    <2> QED
      BY <1>2, <2>1
  <1>4. w \in Seq(AnyChunks) /\ Len(w) = Len(j.texts)
    <2>1. DOMAIN w = 1 .. Len(j.texts) /\ w = [k \in 1 .. Len(j.texts) |-> w[k]]
      BY <1>1 DEF Texts, w
    <2>2. w \in [1 .. Len(j.texts) -> AnyChunks]
      BY <1>3, <2>1
    <2> QED
      BY <1>1, <2>2, SeqDef, LenProperties
  <1>5. Rank("zTXt") = 6
    BY DEF Rank
  <1>6. Block(j, w, 6, 6)
    BY <1>3, <1>4, <1>5 DEF Block, Says
  <1>7. TextsAt(w, 0, j.texts)
    BY <1>1, <1>3, <1>4 DEF TextsAt
  <1> QED
    BY <1>4, <1>6, <1>7 DEF w

LEMMA PixelChunks ==
    ASSUME NEW j \in Job
    PROVE  /\ Block(j, Idats(j), 8, 8) /\ \A x : Has(Idats(j), x) <=> x = "IDAT"
  <1> DEFINE w == Idats(j)
  <1>1. j.pieces \in Nat /\ j.pieces >= 1
    BY DEF Job
  <1>2. \A k \in 1 .. j.pieces : w[k] = [type |-> "IDAT", ok |-> TRUE, n |-> k]
    BY <1>1 DEF Idats
  <1> HIDE DEF w
  <1>3. \A k \in 1 .. j.pieces : w[k] \in AnyChunks /\ w[k].type = "IDAT" /\ w[k].ok
    <2> TAKE k \in 1 .. j.pieces
    <2> DEFINE c == [type |-> "IDAT", ok |-> TRUE, n |-> k]
    <2>1. c \in AnyChunks /\ c.type = "IDAT" /\ c.ok
      BY <1>1 DEF AnyChunks, Critical
    <2> QED
      BY <1>2, <2>1
  <1>4. w \in Seq(AnyChunks) /\ Len(w) = j.pieces
    <2>1. DOMAIN w = 1 .. j.pieces /\ w = [k \in 1 .. j.pieces |-> w[k]]
      BY <1>1 DEF Idats, w
    <2>2. w \in [1 .. j.pieces -> AnyChunks]
      BY <1>3, <2>1
    <2> QED
      BY <1>1, <2>2, SeqDef, LenProperties
  <1>5. Rank("IDAT") = 8
    BY DEF Rank
  <1>6. Block(j, w, 8, 8)
    BY <1>3, <1>4, <1>5 DEF Block, Says
  <1>7. \A x : Has(w, x) <=> x = "IDAT"
    BY <1>1, <1>3, <1>4 DEF Has
  <1> QED
    BY <1>6, <1>7 DEF w

\* PLTE and tRNS, of an indexed image only.
LEMMA PaletteChunks ==
    ASSUME NEW j \in Job
    PROVE  /\ Block(j, Palette(j), 3, 4)
           /\ Has(Palette(j), "PLTE") <=> j.color = "indexed"
           /\ \A x : Has(Palette(j), x) => x \in {"PLTE", "tRNS"}
  <1>1. j.entries \in Nat /\ j.alphas \in Nat /\ Rank("PLTE") = 3 /\ Rank("tRNS") = 4
    <2>1. j.entries \in 0 .. 256 /\ j.alphas \in 0 .. 256
      BY DEF Job
    <2>2. Rank("PLTE") = 3 /\ Rank("tRNS") = 4
      BY DEF Rank
    <2> QED
      BY <2>1, <2>2
  <1>2. CASE j.color # "indexed"
    <2>1. Palette(j) = <<>>
      BY <1>2 DEF Palette
    <2> QED
      BY <1>2, <2>1, NoChunk
  <1>3. CASE j.color = "indexed"
    <2> DEFINE a == IF j.alphas = 0 THEN None ELSE j.alphas
               s == Chunk_("PLTE", 3 * j.entries)
               t == Optional("tRNS", a)
    <2>1. Palette(j) = s \o t
      BY <1>3 DEF Palette
    <2>2. /\ a \in Nat \cup {None} /\ 3 * j.entries \in Nat
          /\ a # None => a = j.alphas
      BY <1>1 DEF None
    <2>3. /\ Says(j, [type |-> "PLTE", ok |-> TRUE, n |-> 3 * j.entries])
          /\ a # None => Says(j, [type |-> "tRNS", ok |-> TRUE, n |-> a])
      BY <1>3, <2>2 DEF Says
    <2> HIDE DEF a
    <2>4. Block(j, s, 3, 3) /\ \A x : Has(s, x) <=> x = "PLTE"
      BY <1>1, <2>2, <2>3, OneChunk
    <2>5. Block(j, t, 4, 4) /\ \A x : Has(t, x) <=> x = "tRNS" /\ a # None
      <3>1. Block(j, t, 4, 4)
        BY <1>1, <2>2, <2>3, OptionalChunk
      <3>2. \A x : Has(t, x) <=> x = "tRNS" /\ a # None
        BY <2>2, <2>3, OptionalHas
      <3> QED
        BY <3>1, <3>2
    <2> HIDE DEF s, t
    <2>6. Block(j, s \o t, 3, 4)
      BY <2>4, <2>5, BlocksJoin
    <2>7. s \in Seq(AnyChunks) /\ t \in Seq(AnyChunks)
      BY <2>4, <2>5 DEF Block
    <2>8. \A x : Has(s \o t, x) <=> Has(s, x) \/ Has(t, x)
      BY <2>7, HasJoined
    <2> QED
      BY <1>3, <2>1, <2>4, <2>5, <2>6, <2>8
  <1> QED
    BY <1>2, <1>3

\* The file of j: every type in its place, and each chunk there that j asks for.
FileOf(j, w) ==
    /\ Block(j, w, 1, 9)
    /\ Has(w, "IHDR") /\ Has(w, "IDAT") /\ Has(w, "IEND")
    /\ j.color = "indexed" => Has(w, "PLTE")
    /\ j.icc # None => Has(w, "iCCP")
    /\ j.exif # None => Has(w, "eXIf")
    /\ j.xmp # None => Has(w, "iXMP")
    /\ Len(j.texts) >= 1 => Has(w, "zTXt")
    /\ \E o \in Nat : TextsAt(w, o, j.texts)

\* Chunks in front of the texts, or after them, leave them where they are.
LEMMA TextsAfter ==
    ASSUME NEW s \in Seq(AnyChunks), NEW t \in Seq(AnyChunks), NEW ns, Len(ns) \in Nat,
           ~Has(s, "zTXt"), TextsAt(t, 0, ns), Len(t) = Len(ns)
    PROVE  TextsAt(s \o t, Len(s), ns)
  <1> DEFINE z == s \o t
             A == Len(s)
  <1>1. /\ A \in Nat /\ Len(t) \in Nat /\ Len(z) = A + Len(t)
        /\ \A i \in 1 .. A : z[i] = s[i]
        /\ \A i \in 1 .. Len(t) : z[i + A] = t[i]
        /\ \A i \in 1 .. Len(z) : i \in 1 .. A \/ i - A \in 1 .. Len(t)
    BY RunsJoin
  <1> HIDE DEF z
  <1> SUFFICES ASSUME NEW i \in 1 .. Len(z)
               PROVE  /\ z[i].type = "zTXt" <=> i - A \in 1 .. Len(ns)
                      /\ z[i].type = "zTXt" => z[i].n = ns[i - A]
    BY DEF TextsAt, z
  <1>2. CASE i \in 1 .. A
    <2>1. z[i].type # "zTXt"
      BY <1>1, <1>2 DEF Has
    <2> QED
      BY <1>1, <1>2, <2>1
  <1>3. CASE i - A \in 1 .. Len(t)
    <2>1. (i - A) + A = i /\ (i - A) - 0 = i - A
      BY <1>1
    <2>2. z[i] = t[i - A]
      BY <1>1, <1>3, <2>1
    <2>3. /\ t[i - A].type = "zTXt" <=> (i - A) - 0 \in 1 .. Len(ns)
          /\ t[i - A].type = "zTXt" => t[i - A].n = ns[(i - A) - 0]
      BY <1>3 DEF TextsAt
    <2> QED
      BY <2>1, <2>2, <2>3
  <1> QED
    BY <1>1, <1>2, <1>3

LEMMA TextsBefore ==
    ASSUME NEW s \in Seq(AnyChunks), NEW t \in Seq(AnyChunks), NEW ns, Len(ns) \in Nat,
           NEW o \in Nat, TextsAt(s, o, ns), o + Len(ns) <= Len(s), ~Has(t, "zTXt")
    PROVE  TextsAt(s \o t, o, ns) /\ o + Len(ns) <= Len(s \o t)
  <1> DEFINE z == s \o t
             A == Len(s)
  <1>1. /\ A \in Nat /\ Len(t) \in Nat /\ Len(z) = A + Len(t)
        /\ \A i \in 1 .. A : z[i] = s[i]
        /\ \A i \in 1 .. Len(t) : z[i + A] = t[i]
        /\ \A i \in 1 .. Len(z) : i \in 1 .. A \/ i - A \in 1 .. Len(t)
    BY RunsJoin
  <1> HIDE DEF z
  <1>2. ASSUME NEW i \in 1 .. Len(z)
        PROVE  /\ z[i].type = "zTXt" <=> i - o \in 1 .. Len(ns)
               /\ z[i].type = "zTXt" => z[i].n = ns[i - o]
    <2>1. CASE i \in 1 .. A
      BY <1>1, <2>1 DEF TextsAt
    <2>2. CASE i - A \in 1 .. Len(t)
      <3>1. (i - A) + A = i /\ ~(i - o \in 1 .. Len(ns))
        BY <1>1, <2>2
      <3>2. z[i] = t[i - A]
        BY <1>1, <2>2, <3>1
      <3>3. z[i].type # "zTXt"
        BY <2>2, <3>2 DEF Has
      <3> QED
        BY <3>1, <3>3
    <2> QED
      BY <1>1, <2>1, <2>2
  <1>3. TextsAt(z, o, ns)
    BY <1>2 DEF TextsAt
  <1>4. o + Len(ns) <= Len(z)
    BY <1>1
  <1> QED
    BY <1>3, <1>4 DEF z

LEMMA WrittenIs ==
    ASSUME NEW j \in Job
    PROVE  FileOf(j, Written(j))
  <1> DEFINE a1 == Chunk_("IHDR", 1)
             a2 == Optional("iCCP", j.icc)
             a3 == Palette(j)
             a4 == Optional("eXIf", j.exif)
             a5 == Texts(j)
             a6 == Optional("iXMP", j.xmp)
             a7 == Idats(j)
             a8 == Chunk_("IEND", 0)
             b2 == a1 \o a2
             b3 == b2 \o a3
             b4 == b3 \o a4
             b5 == b4 \o a5
             b6 == b5 \o a6
             b7 == b6 \o a7
             b8 == b7 \o a8
  <1>0. Written(j) = b8
    BY DEF Written
  <1> HIDE DEF a1, a2, a3, a4, a5, a6, a7, a8
  <1>1. /\ Rank("IHDR") = 1 /\ Rank("iCCP") = 2 /\ Rank("eXIf") = 5 /\ Rank("iXMP") = 7
        /\ Rank("IEND") = 9
    BY DEF Rank
  <1>2. j.icc \in Nat \cup {None} /\ j.exif \in Nat \cup {None} /\ j.xmp \in Nat \cup {None}
    BY DEF Job
  <1>3. Block(j, a1, 1, 1) /\ \A x : Has(a1, x) <=> x = "IHDR"
    <2>1. Says(j, [type |-> "IHDR", ok |-> TRUE, n |-> 1])
      BY DEF Says
    <2> QED
      BY <1>1, <2>1, OneChunk DEF a1
  <1>4. Block(j, a2, 2, 2) /\ \A x : Has(a2, x) <=> x = "iCCP" /\ j.icc # None
    <2>1. Says(j, [type |-> "iCCP", ok |-> TRUE, n |-> j.icc])
      BY DEF Says
    <2>2. Block(j, a2, 2, 2)
      BY <1>1, <1>2, <2>1, OptionalChunk DEF a2
    <2>3. \A x : Has(a2, x) <=> x = "iCCP" /\ j.icc # None
      BY OptionalHas DEF a2
    <2> QED
      BY <2>2, <2>3
  <1>5. /\ Block(j, a3, 3, 4)
        /\ Has(a3, "PLTE") <=> j.color = "indexed"
        /\ \A x : Has(a3, x) => x \in {"PLTE", "tRNS"}
    BY PaletteChunks DEF a3
  <1>6. Block(j, a4, 5, 5) /\ \A x : Has(a4, x) <=> x = "eXIf" /\ j.exif # None
    <2>1. Says(j, [type |-> "eXIf", ok |-> TRUE, n |-> j.exif])
      BY DEF Says
    <2>2. Block(j, a4, 5, 5)
      BY <1>1, <1>2, <2>1, OptionalChunk DEF a4
    <2>3. \A x : Has(a4, x) <=> x = "eXIf" /\ j.exif # None
      BY OptionalHas DEF a4
    <2> QED
      BY <2>2, <2>3
  <1>7. Block(j, a5, 6, 6) /\ TextsAt(a5, 0, j.texts) /\ Len(a5) = Len(j.texts)
    BY TextChunks DEF a5
  <1>8. Block(j, a6, 7, 7) /\ \A x : Has(a6, x) <=> x = "iXMP" /\ j.xmp # None
    <2>1. Says(j, [type |-> "iXMP", ok |-> TRUE, n |-> j.xmp])
      BY DEF Says
    <2>2. Block(j, a6, 7, 7)
      BY <1>1, <1>2, <2>1, OptionalChunk DEF a6
    <2>3. \A x : Has(a6, x) <=> x = "iXMP" /\ j.xmp # None
      BY OptionalHas DEF a6
    <2> QED
      BY <2>2, <2>3
  <1>9. Block(j, a7, 8, 8) /\ \A x : Has(a7, x) <=> x = "IDAT"
    BY PixelChunks DEF a7
  <1>10. Block(j, a8, 9, 9) /\ \A x : Has(a8, x) <=> x = "IEND"
    <2>1. Says(j, [type |-> "IEND", ok |-> TRUE, n |-> 0])
      BY DEF Says
    <2> QED
      BY <1>1, <2>1, OneChunk DEF a8
  <1>11. Block(j, b2, 1, 2)
    BY <1>3, <1>4, BlocksJoin
  <1> HIDE DEF b2
  <1>12. Block(j, b3, 1, 4)
    <2>1. 1 <= 2 /\ 2 < 3 /\ 3 <= 4
      OBVIOUS
    <2>2. Block(j, b2, 1, 2) /\ Block(j, a3, 3, 4)
      BY <1>5, <1>11
    <2> QED
      BY <2>1, <2>2, BlocksJoin
  <1> HIDE DEF b3
  <1>13. Block(j, b4, 1, 5)
    BY <1>6, <1>12, BlocksJoin
  <1> HIDE DEF b4
  <1>14. Block(j, b5, 1, 6)
    BY <1>7, <1>13, BlocksJoin
  <1> HIDE DEF b5
  <1>15. Block(j, b6, 1, 7)
    BY <1>8, <1>14, BlocksJoin
  <1> HIDE DEF b6
  <1>16. Block(j, b7, 1, 8)
    BY <1>9, <1>15, BlocksJoin
  <1> HIDE DEF b7
  <1>17. Block(j, b8, 1, 9)
    BY <1>10, <1>16, BlocksJoin
  <1> HIDE DEF b8
  <1>18. /\ a1 \in Seq(AnyChunks) /\ a2 \in Seq(AnyChunks) /\ a3 \in Seq(AnyChunks)
         /\ a4 \in Seq(AnyChunks) /\ a5 \in Seq(AnyChunks) /\ a6 \in Seq(AnyChunks)
         /\ a7 \in Seq(AnyChunks) /\ a8 \in Seq(AnyChunks)
         /\ b2 \in Seq(AnyChunks) /\ b3 \in Seq(AnyChunks) /\ b4 \in Seq(AnyChunks)
         /\ b5 \in Seq(AnyChunks) /\ b6 \in Seq(AnyChunks) /\ b7 \in Seq(AnyChunks)
    <2>1. ASSUME NEW s, NEW a, NEW b, Block(j, s, a, b) PROVE s \in Seq(AnyChunks)
      BY <2>1 DEF Block
    <2> QED
      BY <1>3, <1>4, <1>5, <1>6, <1>7, <1>8, <1>9, <1>10, <1>11, <1>12, <1>13, <1>14, <1>15,
         <1>16, <2>1
  <1>19. \A x : Has(b2, x) <=> Has(a1, x) \/ Has(a2, x)
    BY <1>18, HasJoined DEF b2
  <1>20. \A x : Has(b3, x) <=> Has(b2, x) \/ Has(a3, x)
    BY <1>18, HasJoined DEF b3
  <1>21. \A x : Has(b4, x) <=> Has(b3, x) \/ Has(a4, x)
    BY <1>18, HasJoined DEF b4
  <1>22. \A x : Has(b5, x) <=> Has(b4, x) \/ Has(a5, x)
    BY <1>18, HasJoined DEF b5
  <1>23. \A x : Has(b6, x) <=> Has(b5, x) \/ Has(a6, x)
    BY <1>18, HasJoined DEF b6
  <1>24. \A x : Has(b7, x) <=> Has(b6, x) \/ Has(a7, x)
    BY <1>18, HasJoined DEF b7
  <1>25. \A x : Has(b8, x) <=> Has(b7, x) \/ Has(a8, x)
    BY <1>18, HasJoined DEF b8
  <1>26. Len(j.texts) \in Nat
    BY LenProperties DEF Job
  <1>27. \E o \in Nat : TextsAt(b8, o, j.texts)
    <2>1. Len(b4) \in Nat /\ Len(b5) = Len(b4) + Len(a5)
      BY <1>18, RunsJoin DEF b5
    <2>2. ~Has(b4, "zTXt")
      BY <1>3, <1>4, <1>5, <1>6, <1>19, <1>20, <1>21
    <2>3. TextsAt(b5, Len(b4), j.texts)
      BY <1>7, <1>18, <1>26, <2>2, TextsAfter DEF b5
    <2> DEFINE o == Len(b4)
    <2>4. o \in Nat /\ o + Len(j.texts) <= Len(b5) /\ TextsAt(b5, o, j.texts)
      BY <1>7, <1>26, <2>1, <2>3
    <2> HIDE DEF o
    <2>5. ~Has(a6, "zTXt") /\ ~Has(a7, "zTXt") /\ ~Has(a8, "zTXt")
      BY <1>8, <1>9, <1>10
    <2>6. TextsAt(b6, o, j.texts) /\ o + Len(j.texts) <= Len(b6)
      BY <1>18, <1>26, <2>4, <2>5, TextsBefore DEF b6
    <2>7. TextsAt(b7, o, j.texts) /\ o + Len(j.texts) <= Len(b7)
      BY <1>18, <1>26, <2>4, <2>5, <2>6, TextsBefore DEF b7
    <2>8. TextsAt(b8, o, j.texts)
      BY <1>18, <1>26, <2>4, <2>5, <2>7, TextsBefore DEF b8
    <2> QED
      BY <2>4, <2>8
  <1>28. /\ Has(b8, "IHDR") /\ Has(b8, "IDAT") /\ Has(b8, "IEND")
         /\ j.color = "indexed" => Has(b8, "PLTE")
         /\ j.icc # None => Has(b8, "iCCP")
         /\ j.exif # None => Has(b8, "eXIf")
         /\ j.xmp # None => Has(b8, "iXMP")
    BY <1>3, <1>4, <1>5, <1>6, <1>8, <1>9, <1>10, <1>19, <1>20, <1>21, <1>22, <1>23, <1>24, <1>25
  <1>29. ASSUME Len(j.texts) >= 1 PROVE Has(b8, "zTXt")
    <2>1. 1 \in 1 .. Len(a5) /\ 1 - 0 \in 1 .. Len(j.texts)
      BY <1>7, <1>26, <1>29
    <2>2. Has(a5, "zTXt")
      BY <1>7, <2>1 DEF TextsAt, Has
    <2> QED
      BY <1>22, <1>23, <1>24, <1>25, <2>2
  <1>30. FileOf(j, b8)
    BY <1>17, <1>27, <1>28, <1>29 DEF FileOf
  <1> QED
    BY <1>0, <1>30

----------------------------------------------------------------------------
(* What the medium makes of a file w, of which it has passed on h chunks. *)

\* F are its faults: of chunks it has passed on, or of the next one, read once already.
Faults(F, w, h) ==
    /\ F \subseteq (1 .. Len(w)) \X {"damaged", "lost", "repeated"}
    /\ \A f \in F : f[1] <= h \/ f = <<h + 1, "repeated">>
    /\ \A e, f \in F : e[1] = f[1] => e = f

\* g tells of each chunk of s which chunk of w it is: whole, or damaged; in order, and
\* twice only where the medium repeated it; and every chunk but those it lost.
Came(g, s, w, h, F) ==
    /\ g \in [1 .. Len(s) -> 1 .. Len(w)]
    /\ \A i \in 1 .. Len(s) :
          IF <<g[i], "damaged">> \in F THEN s[i] = [w[g[i]] EXCEPT !.ok = FALSE]
          ELSE s[i] = w[g[i]]
    /\ \A i, k \in 1 .. Len(s) : i < k => g[i] < g[k] \/ (g[i] = g[k] /\ <<g[i], "repeated">> \in F)
    /\ \A i \in 1 .. Len(s) : g[i] <= h \/ (g[i] = h + 1 /\ <<h + 1, "repeated">> \in F)
    /\ \A k \in 1 .. h : <<k, "lost">> \in F \/ \E i \in 1 .. Len(s) : g[i] = k

\* The chunk behind h is read as c, whole, damaged, or not for the last time.
NextRead(F, w, h, E, k, c) ==
    \/ E = F /\ k = h + 1 /\ c = w[h + 1]
    \/ /\ \A f \in F : f[1] # h + 1
       /\ \/ /\ E = F \cup {<<h + 1, "damaged">>} /\ k = h + 1
             /\ c = [w[h + 1] EXCEPT !.ok = FALSE]
          \/ E = F \cup {<<h + 1, "repeated">>} /\ k = h /\ c = w[h + 1]

\* The next chunk is read, touched or not.
LEMMA CameOneMore ==
    ASSUME NEW S, NEW s \in Seq(S), NEW c \in S, NEW w, Len(w) \in Nat,
           NEW h \in Nat, h + 1 <= Len(w), NEW F, Faults(F, w, h),
           NEW g, Came(g, s, w, h, F),
           NEW E, NEW k \in {h, h + 1},
           NextRead(F, w, h, E, k, c)
    PROVE  Faults(E, w, k) /\ \E r : Came(r, Append(s, c), w, k, E)
  <1> DEFINE t == Append(s, c)
             n == Len(s)
             r == [i \in 1 .. n + 1 |-> IF i <= n THEN g[i] ELSE h + 1]
  <1>   \/ E = F /\ k = h + 1 /\ c = w[h + 1]
        \/ /\ \A f \in F : f[1] # h + 1
           /\ \/ /\ E = F \cup {<<h + 1, "damaged">>} /\ k = h + 1
                 /\ c = [w[h + 1] EXCEPT !.ok = FALSE]
              \/ E = F \cup {<<h + 1, "repeated">>} /\ k = h /\ c = w[h + 1]
    BY DEF NextRead
  <1>1. /\ n \in Nat /\ Len(t) = n + 1 /\ \A i \in 1 .. n : t[i] = s[i]
        /\ t[n + 1] = c
    BY LenProperties, AppendProperties
  <1>2. /\ r \in [1 .. n + 1 -> 1 .. Len(w)]
        /\ \A i \in 1 .. n : r[i] = g[i]
        /\ r[n + 1] = h + 1
    BY <1>1 DEF Came
  <1>3. \A i \in 1 .. n : /\ g[i] \in 1 .. Len(w)
                          /\ g[i] <= h \/ (g[i] = h + 1 /\ <<h + 1, "repeated">> \in F)
    BY DEF Came
  <1>4. \A f \in F : f[1] <= h \/ f = <<h + 1, "repeated">>
    BY DEF Faults
  <1>5. /\ F \subseteq E
        /\ \A x, fault : <<x, fault>> \in E => <<x, fault>> \in F \/ x = h + 1
    <2>1. \A x, fault : <<x, fault>> = <<h + 1, "damaged">> => x = h + 1
      OBVIOUS
    <2>2. \A x, fault : <<x, fault>> = <<h + 1, "repeated">> => x = h + 1
      OBVIOUS
    <2> QED
      BY <2>1, <2>2
  <1> HIDE DEF t, r, n
  <1>6. <<h + 1, "damaged">> \notin F /\ <<h + 1, "lost">> \notin F
    BY <1>4
  <1>7. <<h + 1, "damaged">> \in E => c = [w[h + 1] EXCEPT !.ok = FALSE]
    BY <1>6
  <1>8. <<h + 1, "damaged">> \notin E => c = w[h + 1]
    OBVIOUS
  <1>9. \A i \in 1 .. n : <<g[i], "damaged">> \in E <=> <<g[i], "damaged">> \in F
    <2> TAKE i \in 1 .. n
    <2>1. CASE g[i] <= h
      BY <1>3, <1>5, <2>1
    <2>2. CASE g[i] = h + 1
      BY <1>3, <1>6, <2>2
    <2> QED
      BY <1>3, <2>1, <2>2
  <1>10. Faults(E, w, k)
    <2>1. h + 1 \in 1 .. Len(w)
      OBVIOUS
    <2>2. F \subseteq (1 .. Len(w)) \X {"damaged", "lost", "repeated"}
      BY DEF Faults
    <2>3. E \subseteq (1 .. Len(w)) \X {"damaged", "lost", "repeated"}
      BY <2>1, <2>2
    <2>4. \A f \in F : f[1] \in 1 .. Len(w)
      BY <2>2
    <2>5. \A f \in E : f[1] <= k \/ f = <<k + 1, "repeated">>
      BY <1>4, <2>4
    <2>6. \A e, f \in E : e[1] = f[1] => e = f
      BY DEF Faults
    <2> QED
      BY <2>3, <2>5, <2>6 DEF Faults
  <1>11. \A i \in 1 .. n + 1 :
            IF <<r[i], "damaged">> \in E THEN t[i] = [w[r[i]] EXCEPT !.ok = FALSE]
            ELSE t[i] = w[r[i]]
    <2> TAKE i \in 1 .. n + 1
    <2>1. CASE i \in 1 .. n
      BY <1>1, <1>2, <1>9, <2>1 DEF Came, n
    <2>2. CASE i = n + 1
      BY <1>1, <1>2, <1>7, <1>8, <2>2
    <2> QED
      BY <1>1, <2>1, <2>2
  <1>12. ASSUME NEW i \in 1 .. n + 1, NEW l \in 1 .. n + 1, i < l
         PROVE  r[i] < r[l] \/ (r[i] = r[l] /\ <<r[i], "repeated">> \in E)
    <2>1. CASE l \in 1 .. n
      <3>1. i \in 1 .. n /\ r[i] = g[i] /\ r[l] = g[l]
        BY <1>1, <1>2, <1>12, <2>1
      <3>2. g[i] < g[l] \/ (g[i] = g[l] /\ <<g[i], "repeated">> \in F)
        BY <1>12, <2>1, <3>1 DEF Came, n
      <3> QED
        BY <1>5, <3>1, <3>2
    <2>2. CASE l = n + 1
      <3>1. i \in 1 .. n /\ r[i] = g[i] /\ r[l] = h + 1
        BY <1>1, <1>2, <1>12, <2>2
      <3> QED
        BY <1>3, <1>5, <3>1
    <2> QED
      BY <1>1, <2>1, <2>2
  <1>13. \A i \in 1 .. n + 1 : r[i] <= k \/ (r[i] = k + 1 /\ <<k + 1, "repeated">> \in E)
    <2> TAKE i \in 1 .. n + 1
    <2>1. CASE i \in 1 .. n
      BY <1>2, <1>3, <1>5, <2>1
    <2>2. CASE i = n + 1
      BY <1>2, <2>2
    <2> QED
      BY <1>1, <2>1, <2>2
  <1>14. ASSUME NEW x \in 1 .. k PROVE <<x, "lost">> \in E \/ \E i \in 1 .. n + 1 : r[i] = x
    <2>1. CASE x \in 1 .. h
      <3>1. <<x, "lost">> \in F \/ \E i \in 1 .. n : g[i] = x
        BY <2>1 DEF Came, n
      <3>2. \A i \in 1 .. n : i \in 1 .. n + 1
        BY <1>1
      <3> QED
        BY <1>2, <1>5, <3>1, <3>2
    <2>2. CASE x = h + 1
      BY <1>1, <1>2, <2>2
    <2> QED
      BY <2>1, <2>2
  <1>15. Came(r, t, w, k, E)
    BY <1>1, <1>2, <1>11, <1>12, <1>13, <1>14 DEF Came
  <1> QED
    BY <1>10, <1>15 DEF t

\* The next chunk is lost.
LEMMA CameOneLess ==
    ASSUME NEW S, NEW s \in Seq(S), NEW w, Len(w) \in Nat,
           NEW h \in Nat, h + 1 <= Len(w), NEW F, Faults(F, w, h),
           NEW g, Came(g, s, w, h, F), \A f \in F : f[1] # h + 1,
           NEW E, E = F \cup {<<h + 1, "lost">>}
    PROVE  Faults(E, w, h + 1) /\ Came(g, s, w, h + 1, E)
  <1>1. Len(s) \in Nat
    BY LenProperties
  <1>2. \A i \in 1 .. Len(s) : /\ g[i] \in 1 .. Len(w)
                               /\ g[i] <= h \/ (g[i] = h + 1 /\ <<h + 1, "repeated">> \in F)
    BY DEF Came
  <1>3. \A i \in 1 .. Len(s) : g[i] <= h
    BY <1>2
  <1>4. \A x, fault : <<x, fault>> \in E <=>
            <<x, fault>> \in F \/ (x = h + 1 /\ fault = "lost")
    OBVIOUS
  <1>5. Faults(E, w, h + 1)
    <2>1. h + 1 \in 1 .. Len(w)
      OBVIOUS
    <2>2. F \subseteq (1 .. Len(w)) \X {"damaged", "lost", "repeated"}
      BY DEF Faults
    <2>3. E \subseteq (1 .. Len(w)) \X {"damaged", "lost", "repeated"}
      BY <2>1, <2>2
    <2>4. \A f \in F : f[1] \in 1 .. Len(w) /\ f[1] <= h
      BY <2>2 DEF Faults
    <2>5. \A f \in E : f[1] <= h + 1
      BY <2>4
    <2>6. \A e, f \in E : e[1] = f[1] => e = f
      BY DEF Faults
    <2> QED
      BY <2>3, <2>5, <2>6 DEF Faults
  <1>6. \A k \in 1 .. h + 1 : k \in 1 .. h \/ k = h + 1
    OBVIOUS
  <1>7. \A i \in 1 .. Len(s) : g[i] <= h + 1
    BY <1>2, <1>3
  <1> QED
    BY <1>4, <1>5, <1>6, <1>7 DEF Came

LEMMA RankTable ==
    /\ Rank("IHDR") = 1 /\ Rank("iCCP") = 2 /\ Rank("PLTE") = 3 /\ Rank("tRNS") = 4
    /\ Rank("eXIf") = 5 /\ Rank("zTXt") = 6 /\ Rank("iXMP") = 7 /\ Rank("IDAT") = 8
    /\ Rank("IEND") = 9
  <1>1. Rank("IHDR") = 1 /\ Rank("iCCP") = 2 /\ Rank("PLTE") = 3
    BY DEF Rank
  <1>2. Rank("tRNS") = 4 /\ Rank("eXIf") = 5 /\ Rank("zTXt") = 6
    BY DEF Rank
  <1>3. Rank("iXMP") = 7 /\ Rank("IDAT") = 8 /\ Rank("IEND") = 9
    BY DEF Rank
  <1> QED
    BY <1>1, <1>2, <1>3

\* What is read of the file says what was written, but for the CRC.
LEMMA CameAsWritten ==
    ASSUME NEW j, NEW w, FileOf(j, w), NEW s, NEW h, NEW F, NEW g, Came(g, s, w, h, F),
           NEW i \in 1 .. Len(s)
    PROVE  /\ g[i] \in 1 .. Len(w) /\ Says(j, w[g[i]])
           /\ s[i].type = w[g[i]].type /\ s[i].n = w[g[i]].n
           /\ s[i].ok <=> <<g[i], "damaged">> \notin F
  <1>1. g[i] \in 1 .. Len(w)
    BY DEF Came
  <1>2. w[g[i]] \in AnyChunks /\ Says(j, w[g[i]])
    BY <1>1, ElementOfSeq DEF FileOf, Block
  <1> DEFINE c == w[g[i]]
  <1> HIDE DEF c
  <1>3. c \in AnyChunks /\ c.ok
    BY <1>2 DEF c, Says
  <1>4. IF <<g[i], "damaged">> \in F THEN s[i] = [c EXCEPT !.ok = FALSE] ELSE s[i] = c
    BY DEF Came, c
  <1>5. s[i].type = c.type /\ s[i].n = c.n /\ (s[i].ok <=> <<g[i], "damaged">> \notin F)
    BY <1>3, <1>4 DEF AnyChunks
  <1> QED
    BY <1>1, <1>2, <1>5 DEF c

\* The first chunk of a file is its IHDR, and the last its IEND.
LEMMA FileEnds ==
    ASSUME NEW j, NEW w, FileOf(j, w)
    PROVE  /\ Len(w) \in Nat /\ Len(w) >= 1 /\ w[1].type = "IHDR"
           /\ \A k \in 1 .. Len(w) : w[k].type = "IEND" => k = Len(w)
  <1>1. Len(w) \in Nat
    BY LenProperties DEF FileOf, Block
  <1>2. PICK k \in 1 .. Len(w) : w[k].type = "IHDR"
    BY DEF FileOf, Has
  <1>3. \A i \in 1 .. Len(w) : 1 <= Rank(w[i].type) /\ Rank(w[i].type) <= 9
    BY DEF FileOf, Block
  <1>4. \A i, l \in 1 .. Len(w) : i < l =>
          \/ Rank(w[i].type) < Rank(w[l].type)
          \/ w[i].type = w[l].type /\ w[i].type \in {"zTXt", "IDAT"}
    BY DEF FileOf, Block
  <1>5. \A type : Rank(type) \in Nat
    BY DEF Rank
  <1>6. k = 1
    <2> SUFFICES ASSUME k # 1 PROVE FALSE
      OBVIOUS
    <2>1. 1 \in 1 .. Len(w) /\ 1 < k
      BY <1>1, <1>2
    <2>2. Rank(w[1].type) < 1 \/ "IHDR" \in {"zTXt", "IDAT"}
      BY <1>2, <1>4, <2>1, RankTable
    <2> QED
      BY <1>3, <1>5, <2>1, <2>2
  <1>7. ASSUME NEW l \in 1 .. Len(w), w[l].type = "IEND" PROVE l = Len(w)
    <2> SUFFICES ASSUME l # Len(w) PROVE FALSE
      OBVIOUS
    <2>1. Len(w) \in 1 .. Len(w) /\ l < Len(w)
      BY <1>1
    <2>2. 9 < Rank(w[Len(w)].type) \/ "IEND" \in {"zTXt", "IDAT"}
      BY <1>4, <1>7, <2>1, RankTable
    <2> QED
      BY <1>3, <1>5, <2>1, <2>2
  <1> QED
    BY <1>1, <1>2, <1>6, <1>7

\* A medium that touches ancillary chunks only keeps what the grammar asks for.
LEMMA OrderKept ==
    ASSUME NEW j, NEW w, FileOf(j, w), NEW s \in Seq(Chunks), s # <<>>,
           NEW h \in Nat, h <= Len(w), NEW F, Faults(F, w, h),
           NEW g, Came(g, s, w, h, F),
           \A f \in F : w[f[1]].type \in Ancillary
    PROVE  InOrder(s)
  <1>1. /\ Len(s) \in Nat /\ DOMAIN s = 1 .. Len(s) /\ Len(s) # 0
    BY LenProperties, EmptySeq
  <1>2. \A i \in 1 .. Len(s) :
           /\ g[i] \in 1 .. Len(w) /\ Says(j, w[g[i]])
           /\ s[i].type = w[g[i]].type /\ s[i].n = w[g[i]].n
           /\ s[i].ok <=> <<g[i], "damaged">> \notin F
    BY CameAsWritten
  <1>3. \A k, fault : <<k, fault>> \in F => w[k].type \in Ancillary
    OBVIOUS
  <1>4. \A i \in 1 .. Len(s) : s[i].type \in Critical => s[i].ok
    BY <1>2, <1>3 DEF Critical, Ancillary
  <1>5. \A i \in 1 .. Len(s) :
           /\ s[i].type \in {"IHDR", "iCCP", "PLTE", "tRNS", "eXIf", "zTXt", "iXMP", "IDAT", "IEND"}
           /\ s[i].type = "IHDR" => s[i].n = 1
    BY <1>2 DEF Says
  <1>6. \A type : Rank(type) \in Nat
    BY DEF Rank
  <1>7. ASSUME NEW i \in 1 .. Len(s), NEW k \in 1 .. Len(s), i < k
        PROVE  \/ Rank(s[i].type) < Rank(s[k].type)
               \/ s[i].type = s[k].type /\ s[i].type \in Ancillary \cup {"IDAT"}
    <2>1. CASE g[i] < g[k]
      <3>1. \/ Rank(w[g[i]].type) < Rank(w[g[k]].type)
            \/ w[g[i]].type = w[g[k]].type /\ w[g[i]].type \in {"zTXt", "IDAT"}
        BY <1>2, <2>1 DEF FileOf, Block
      <3> QED
        BY <1>2, <3>1 DEF Ancillary
    <2>2. CASE g[i] = g[k] /\ <<g[i], "repeated">> \in F
      BY <1>2, <1>3, <2>2
    <2> QED
      BY <1>7, <2>1, <2>2 DEF Came
  <1>8. /\ Len(w) >= 1 /\ Len(w) \in Nat /\ w[1].type = "IHDR"
    BY FileEnds
  <1>9. s[1].type = "IHDR"
    <2>1. 1 \in 1 .. Len(s)
      BY <1>1
    <2>2. \A fault : <<1, fault>> \notin F
      BY <1>3, <1>8 DEF Ancillary
    <2>3. g[1] <= h \/ (g[1] = h + 1 /\ <<h + 1, "repeated">> \in F)
      BY <2>1 DEF Came
    <2>4. 1 \in 1 .. h
      <3>0. g[1] \in 1 .. Len(w)
        BY <2>1 DEF Came
      <3>1. g[1] \in Nat /\ g[1] >= 1
        BY <1>8, <3>0
      <3>2. CASE h = 0
        <4>1. h + 1 = 1
          BY <3>2
        <4> QED
          BY <2>2, <2>3, <3>1, <3>2, <4>1
      <3>3. CASE h # 0
        BY <3>3
      <3> QED
        BY <3>2, <3>3
    <2>5. PICK i \in 1 .. Len(s) : g[i] = 1
      BY <2>2, <2>4 DEF Came
    <2>6. s[i].type = "IHDR"
      BY <1>2, <1>8, <2>5
    <2> SUFFICES ASSUME i # 1 PROVE FALSE
      BY <2>6
    <2>7. Rank(s[1].type) < 1
      BY <1>1, <1>7, <2>1, <2>6, RankTable DEF Ancillary
    <2>8. 1 <= Rank(s[1].type)
      BY <1>2, <2>1 DEF FileOf, Block
    <2> QED
      BY <1>6, <2>7, <2>8
  <1>10. At(s, "IHDR") = {1} /\ s[1].n = 1
    <2>1. \A k \in 1 .. Len(s) : k # 1 => s[k].type # "IHDR"
      <3> SUFFICES ASSUME NEW k \in 1 .. Len(s), k # 1, s[k].type = "IHDR" PROVE FALSE
        OBVIOUS
      <3>1. 1 < k /\ 1 \in 1 .. Len(s)
        BY <1>1
      <3> QED
        BY <1>6, <1>7, <1>9, <3>1 DEF Ancillary
    <2> QED
      BY <1>1, <1>5, <1>9, <2>1 DEF At
  <1>11. At(s, "CRIT") = {}
    BY <1>1, <1>5 DEF At
  <1>12. \A k \in DOMAIN s : s[k].type \in Critical => s[k].ok
    BY <1>1, <1>4
  <1>13. ASSUME NEW i \in At(s, "IDAT"), NEW l \in At(s, "IDAT"), NEW k \in i .. l
         PROVE  s[k].type = "IDAT"
    <2>1. /\ i \in 1 .. Len(s) /\ l \in 1 .. Len(s) /\ k \in 1 .. Len(s)
          /\ s[i].type = "IDAT" /\ s[l].type = "IDAT"
      BY <1>1 DEF At
    <2>2. CASE k = i \/ k = l
      BY <2>1, <2>2
    <2>3. CASE i < k /\ k < l
      <3>1. s[k].type = "IDAT" \/ (8 < Rank(s[k].type) /\ Rank(s[k].type) < 8)
        BY <1>7, <2>1, <2>3, RankTable
      <3> QED
        BY <1>6, <3>1
    <2> QED
      BY <2>1, <2>2, <2>3
  <1>14. ASSUME NEW i \in At(s, "PLTE"), NEW k \in At(s, "PLTE") PROVE i = k
    <2>1. /\ i \in 1 .. Len(s) /\ k \in 1 .. Len(s)
          /\ s[i].type = "PLTE" /\ s[k].type = "PLTE"
      BY <1>1 DEF At
    <2>2. ~(i < k) /\ ~(k < i)
      BY <1>6, <1>7, <2>1 DEF Ancillary
    <2> QED
      BY <2>1, <2>2
  <1>15. ASSUME NEW k \in At(s, "PLTE") \cup At(s, "tRNS"), NEW i \in At(s, "IDAT")
         PROVE  k < i
    <2>1. /\ i \in 1 .. Len(s) /\ k \in 1 .. Len(s)
          /\ s[k].type \in {"PLTE", "tRNS"} /\ s[i].type = "IDAT"
      BY <1>1 DEF At
    <2>2. Rank(s[k].type) < Rank(s[i].type)
      BY <2>1, RankTable
    <2>3. ~(i < k) /\ i # k
      BY <1>6, <1>7, <2>1, <2>2 DEF Ancillary
    <2> QED
      BY <2>1, <2>3
  <1>16. ASSUME NEW p \in At(s, "PLTE"), NEW k \in At(s, "tRNS") PROVE p < k
    <2>1. /\ p \in 1 .. Len(s) /\ k \in 1 .. Len(s)
          /\ s[k].type = "tRNS" /\ s[p].type = "PLTE"
      BY <1>1 DEF At
    <2>2. ~(k < p)
      BY <1>7, <2>1, RankTable DEF Ancillary
    <2> QED
      BY <2>1, <2>2
  <1> QED
    BY <1>10, <1>11, <1>12, <1>13, <1>14, <1>15, <1>16 DEF InOrder

----------------------------------------------------------------------------
(* What parse_stream has from the chunks, and why it refuses. *)

\* A palette and its transparency are those of a chunk that was read.
FlagsFrom(p, s) ==
    /\ p.plte = None \/ \E i \in 1 .. Len(s) : s[i].type = "PLTE" /\ s[i].n = p.plte
    /\ p.trns = None \/ \E i \in 1 .. Len(s) : s[i].type = "tRNS" /\ s[i].n = p.trns

\* decode refuses what is out of order, ends badly or is cut short, and nothing else.
RefusedForCause ==
    parse.at = "refused" =>
       \/ cut
       \/ fed # <<>> /\ ~InOrder(fed)
       \/ At(fed, "IEND") # {} /\ Last(fed).n # 0
CutRefuses == cut \in BOOLEAN /\ (cut => parse.at = "refused" /\ walk.at = "refused")

ReadersInv == IInv /\ RefusedForCause /\ CutRefuses /\ FlagsFrom(parse, fed)

LEMMA ParseChunkKeeps ==
    ASSUME NEW p \in ParseState, NEW c \in Chunks
    PROVE  LET q == ParseChunk(p, c) IN
           /\ q.plte = p.plte \/ (c.type = "PLTE" /\ q.plte = c.n)
           /\ q.trns = p.trns \/ (c.type = "tRNS" /\ q.trns = c.n)
           /\ q.at # "refused" =>
                 q.anc = IF c.ok /\ c.type \in Ancillary \ {"tRNS"} THEN Append(p.anc, c)
                         ELSE p.anc
  <1> DEFINE z == Closed(p, c)
             q == ParseChunk(p, c)
  <1>1. z \in ParseState /\ z.plte = p.plte /\ z.trns = p.trns /\ z.anc = p.anc
    BY DEF Closed, ParseState
  <1>2. c.type \in Critical \cup Ancillary /\ c.ok \in BOOLEAN /\ c.n \in Nat
    BY ChunksAssumption
  <1> HIDE DEF z
  <1>3. CASE c.type = "IEND"
    <2>1. q = Last_(z, c)
      BY <1>3 DEF ParseChunk, Ancillary, z
    <2> QED
      BY <1>1, <1>3, <2>1 DEF Last_, Refused, ParseState, Position, Ancillary
  <1>4. CASE c.type = "IDAT"
    <2>1. q = ParseIdat(z, c)
      BY <1>4 DEF ParseChunk, Ancillary, z
    <2> QED
      BY <1>1, <1>4, <2>1 DEF ParseIdat, Refused, ParseState, Position, Ancillary
  <1>5. CASE c.type = "PLTE"
    <2>1. q = ParsePlte(z, c)
      BY <1>5 DEF ParseChunk, Ancillary, z
    <2> QED
      BY <1>1, <1>5, <2>1 DEF ParsePlte, Refused, ParseState, Position, Ancillary
  <1>6. CASE c.type = "tRNS"
    <2>1. q = ParseTrns(z, c)
      BY <1>6 DEF ParseChunk, Ancillary, z
    <2> QED
      BY <1>1, <1>6, <2>1 DEF ParseTrns, Refused, ParseState, Position, Ancillary
  <1>7. CASE c.type \in Ancillary \ {"tRNS"}
    <2>1. q = KeepAncillary(z, c)
      BY <1>7 DEF ParseChunk, Ancillary, z
    <2> QED
      BY <1>1, <1>7, <2>1 DEF KeepAncillary, ParseState
  <1>8. CASE c.type \in {"IHDR", "CRIT"}
    <2>1. q = Refused(z)
      BY <1>8 DEF ParseChunk, Ancillary, z
    <2> QED
      BY <1>1, <1>8, <2>1 DEF Refused, ParseState, Position
  <1> QED
    BY <1>2, <1>3, <1>4, <1>5, <1>6, <1>7, <1>8 DEF Critical

\* One more chunk for both readers, wherever they are.
LEMMA FeedGoesOn ==
    ASSUME ReadersInv, NEW c \in Chunks, Feed(c), cut' = cut
    PROVE  /\ ReadersInv' /\ ~cut /\ fed' = Append(fed, c) /\ header' = header
           /\ parse'.at # "refused" =>
                 /\ parse.at # "refused"
                 /\ parse'.anc = parse.anc \/ (c.ok /\ c.type \in Ancillary \ {"tRNS"}
                                               /\ parse'.anc = Append(parse.anc, c))
                 /\ c.ok /\ c.type \in Ancillary \ {"tRNS"} =>
                       parse'.anc = Append(parse.anc, c)
  <1>1. /\ IInv /\ RefusedForCause /\ CutRefuses /\ FlagsFrom(parse, fed)
        /\ TypeOK /\ IendIsLast /\ ParseIsExact /\ WalkFollows
        /\ fed \in Seq(Chunks) /\ parse \in ParseState /\ walk \in WalkState
        /\ parse.at \in Position
    BY DEF ReadersInv, IInv, TypeOK, ParseState
  <1>2. Open /\ fed' = Append(fed, c) /\ header' = header
    BY DEF Feed
  <1>3. IInv'
    BY <1>1, FeedPreserves
  <1>4. ~cut
    BY <1>1, <1>2 DEF CutRefuses, Open, Reading
  <1>5. At(fed, "IEND") = {}
    BY <1>1, <1>2 DEF IendIsLast
  <1>6. /\ fed' \in Seq(Chunks) /\ fed' # <<>> /\ Len(fed') = Len(fed) + 1 /\ Len(fed) \in Nat
        /\ At(fed', "IEND") = IF c.type = "IEND" THEN {Len(fed')} ELSE {}
        /\ fed'[Len(fed')] = c
        /\ \A i \in 1 .. Len(fed) : fed'[i] = fed[i]
    BY <1>1, <1>2, <1>5, Appended, AppendedAt
  <1>7. Last(fed') = c
    BY <1>6 DEF Last
  <1>8. c.type \in Critical \cup Ancillary
    BY ChunksAssumption
  <1> DEFINE Kept_ == parse'.at # "refused" =>
                 /\ parse.at # "refused"
                 /\ parse'.anc = parse.anc \/ (c.ok /\ c.type \in Ancillary \ {"tRNS"}
                                               /\ parse'.anc = Append(parse.anc, c))
                 /\ c.ok /\ c.type \in Ancillary \ {"tRNS"} =>
                       parse'.anc = Append(parse.anc, c)
             From == /\ parse'.plte = parse.plte \/ (c.type = "PLTE" /\ parse'.plte = c.n)
                     /\ parse'.trns = parse.trns \/ (c.type = "tRNS" /\ parse'.trns = c.n)
  <1>9. RefusedForCause' /\ From /\ Kept_
    <2>1. CASE parse.at = "start"
      <3>1. fed = <<>> /\ FlagsSay(parse, fed)
        BY <1>1, <2>1 DEF ParseIsExact
      <3>2. parse' = First(parse, c)
        BY <2>1 DEF Feed
      <3>3. /\ parse'.at \in {"body", "refused"} /\ parse'.anc = parse.anc
            /\ parse'.at = "refused" => ~InOrder(fed')
        BY <1>1, <1>2, <3>1, <3>2, FirstIsExact
      <3>4. RefusedForCause'
        BY <1>6, <3>3 DEF RefusedForCause
      <3>5. /\ parse'.plte = parse.plte /\ parse'.trns = parse.trns
            /\ parse'.at # "refused" => c.type = "IHDR"
        BY <1>1, <3>2 DEF First, Refused, ParseState
      <3> QED
        BY <2>1, <3>3, <3>4, <3>5 DEF Ancillary
    <2>2. CASE parse.at = "body"
      <3>1. InOrder(fed) /\ FlagsSay(parse, fed)
        BY <1>1, <2>2 DEF ParseIsExact
      <3>2. fed # <<>>
        BY <3>1, EmptySeq DEF InOrder, At
      <3>3. parse' = ParseChunk(parse, c)
        BY <2>2 DEF Feed
      <3>4. parse'.at = "refused" => ~InOrder(fed') \/ (c.type = "IEND" /\ c.n # 0)
        BY <1>1, <1>2, <2>2, <3>1, <3>2, <3>3, ParseChunkIsExact
      <3>5. RefusedForCause'
        BY <1>6, <1>7, <3>4 DEF RefusedForCause
      <3>6. From /\ (parse'.at # "refused" =>
                        parse'.anc = IF c.ok /\ c.type \in Ancillary \ {"tRNS"}
                                     THEN Append(parse.anc, c) ELSE parse.anc)
        BY <1>1, <3>3, ParseChunkKeeps
      <3> QED
        BY <2>2, <3>5, <3>6
    <2>3. CASE parse.at = "refused"
      <3>1. parse' = parse
        BY <2>3 DEF Feed
      <3>2. fed # <<>> /\ ~InOrder(fed)
        BY <1>1, <1>4, <1>5, <2>3 DEF RefusedForCause
      <3>3. ~InOrder(fed')
        BY <1>1, <1>2, <3>2, DisorderStays
      <3>4. RefusedForCause'
        BY <1>6, <3>3 DEF RefusedForCause
      <3> QED
        BY <2>3, <3>1, <3>4
    <2>4. parse.at # "done"
      BY <1>1, <1>2 DEF WalkFollows, Open, Reading
    <2> HIDE DEF Kept_, From
    <2> QED
      BY <1>1, <2>1, <2>2, <2>3, <2>4 DEF Position
  <1>10. FlagsFrom(parse', fed')
    <2>1. \A i \in 1 .. Len(fed) : i \in 1 .. Len(fed')
      BY <1>6
    <2>2. Len(fed') \in 1 .. Len(fed')
      BY <1>6
    <2>3. parse'.plte = None \/ \E i \in 1 .. Len(fed') : fed'[i].type = "PLTE" /\ fed'[i].n = parse'.plte
      BY <1>1, <1>6, <1>9, <2>1, <2>2 DEF FlagsFrom
    <2>4. parse'.trns = None \/ \E i \in 1 .. Len(fed') : fed'[i].type = "tRNS" /\ fed'[i].n = parse'.trns
      BY <1>1, <1>6, <1>9, <2>1, <2>2 DEF FlagsFrom
    <2> QED
      BY <2>3, <2>4 DEF FlagsFrom
  <1>11. CutRefuses'
    BY <1>1, <1>4 DEF CutRefuses
  <1>12. ReadersInv'
    BY <1>3, <1>9, <1>10, <1>11 DEF ReadersInv
  <1> QED
    BY <1>2, <1>4, <1>9, <1>12

\* The end of what there is to read.
LEMMA EndGoesOn ==
    ASSUME ReadersInv, EndOfInput, cut' = (\A k \in DOMAIN fed : fed[k].type # "IEND")
    PROVE  ReadersInv' /\ cut' /\ parse'.at = "refused" /\ fed' = fed
  <1>1. /\ IInv /\ FlagsFrom(parse, fed) /\ TypeOK /\ IendIsLast /\ WalkFollows
        /\ parse \in ParseState /\ walk \in WalkState
        /\ parse.at \in Position /\ walk.at \in Position
    BY DEF ReadersInv, IInv, TypeOK, ParseState, WalkState
  <1>2. Open /\ fed' = fed
    BY DEF EndOfInput
  <1>3. IInv'
    BY <1>1, EndPreserves
  <1>4. cut' = TRUE
    BY <1>1, <1>2 DEF IendIsLast, At
  <1>5. Reading(walk)
    BY <1>1, <1>2 DEF WalkFollows, Open, Reading
  <1>6. walk'.at = "refused"
    BY <1>1, <1>5 DEF EndOfInput, Refused, WalkState, Position
  <1>7. parse.at # "done"
    BY <1>1, <1>5 DEF WalkFollows, Reading
  <1>8. parse' = (IF Reading(parse) THEN Refused(parse) ELSE parse)
    BY DEF EndOfInput
  <1>9. parse'.at = "refused" /\ parse'.plte = parse.plte /\ parse'.trns = parse.trns
    BY <1>1, <1>7, <1>8 DEF Refused, Reading, ParseState, Position
  <1> QED
    BY <1>1, <1>2, <1>3, <1>4, <1>6, <1>9 DEF ReadersInv, RefusedForCause, CutRefuses, FlagsFrom

----------------------------------------------------------------------------
(* The metadata of a file on its way. *)

\* m is what the chunks s, of the file of j, leave behind.
Gathers(m, j, s) ==
    /\ m \in Metadata
    /\ m.exif \in {None, j.exif} /\ m.icc \in {None, j.icc} /\ m.xmp \in {None, j.xmp}
    /\ \A i \in 1 .. Len(s) : s[i].ok =>
          /\ s[i].type = "eXIf" => m.exif = j.exif
          /\ s[i].type = "iCCP" => m.icc = j.icc
          /\ s[i].type = "iXMP" => m.xmp = j.xmp
          /\ s[i].type = "zTXt" => \E k \in 1 .. Len(m.texts) : m.texts[k] = s[i].n

\* A chunk of the file of j, whole or damaged, when the budget has room for it.
GatherOne(m, j, c) ==
    IF c.ok /\ c.type \in Ancillary \ {"tRNS"} THEN Keep(m, c) ELSE m

LEMMA OneGathered ==
    ASSUME NEW j \in Job, NEW s \in Seq(Chunks), NEW m, Gathers(m, j, s),
           NEW c \in Chunks, NEW w \in AnyChunks, Says(j, w), c.type = w.type, c.n = w.n,
           c.type = "iCCP" => c.n >= 1 /\ (m.icc = None => c.n <= m.left),
           c.type = "zTXt" => c.n >= 1 /\ c.n <= m.left
    PROVE  LET u == GatherOne(m, j, c) IN
           /\ Gathers(u, j, Append(s, c))
           /\ u.texts = IF c.ok /\ c.type = "zTXt" THEN Append(m.texts, c.n) ELSE m.texts
           /\ u.left + Worth(u.icc)
                 = m.left + Worth(m.icc) - (IF c.ok /\ c.type = "zTXt" THEN c.n ELSE 0)
  <1> DEFINE u == GatherOne(m, j, c)
             t == Append(s, c)
  <1>1. /\ m \in Metadata /\ m.left \in Nat /\ m.texts \in Seq(Nat)
        /\ m.exif \in Nat \cup {None} /\ m.icc \in Nat \cup {None} /\ m.xmp \in Nat \cup {None}
    BY BudgetAssumption DEF Gathers, Metadata
  <1>2. c.n \in Nat /\ c.ok \in BOOLEAN /\ None = -1
    BY ChunksAssumption DEF None
  <1>3. /\ c.type \in {"IHDR", "iCCP", "PLTE", "tRNS", "eXIf", "zTXt", "iXMP", "IDAT", "IEND"}
        /\ c.type = "iCCP" => c.n = j.icc
        /\ c.type = "eXIf" => c.n = j.exif
        /\ c.type = "iXMP" => c.n = j.xmp
    BY DEF Says
  <1>4. u \in Metadata
    BY <1>1, KeepType DEF GatherOne
  <1>5. /\ Len(s) \in Nat /\ Len(t) = Len(s) + 1 /\ t[Len(s) + 1] = c
        /\ \A i \in 1 .. Len(s) : t[i] = s[i]
    BY Appended
  \* What the chunk changes.
  <1> DEFINE Changed ==
                /\ u.exif \in {m.exif, j.exif} /\ (m.exif # None => u.exif = m.exif)
                /\ u.icc \in {m.icc, j.icc} /\ (m.icc # None => u.icc = m.icc)
                /\ u.xmp \in {m.xmp, j.xmp} /\ (m.xmp # None => u.xmp = m.xmp)
                /\ c.ok /\ c.type = "eXIf" => u.exif # None
                /\ c.ok /\ c.type = "iCCP" => u.icc # None
                /\ c.ok /\ c.type = "iXMP" => u.xmp # None
                /\ u.texts = IF c.ok /\ c.type = "zTXt" THEN Append(m.texts, c.n) ELSE m.texts
                /\ u.left + Worth(u.icc)
                     = m.left + Worth(m.icc) - (IF c.ok /\ c.type = "zTXt" THEN c.n ELSE 0)
  <1>6. Worth(m.icc) \in Nat
    BY <1>1 DEF Worth
  <1>7. Changed
    <2>1. CASE ~(c.ok /\ c.type \in {"eXIf", "iCCP", "iXMP", "zTXt"})
      <3>1. u = m
        BY <1>3, <2>1 DEF GatherOne, Ancillary
      <3> HIDE DEF u
      <3> QED
        BY <1>1, <1>2, <1>6, <2>1, <3>1
    <2>2. CASE c.ok /\ c.type = "eXIf"
      <3>1. u = IF m.exif = None THEN [m EXCEPT !.exif = c.n] ELSE m
        BY <2>2 DEF GatherOne, Keep, Ancillary
      <3> HIDE DEF u
      <3>2. /\ u.exif = IF m.exif = None THEN c.n ELSE m.exif
            /\ u.icc = m.icc /\ u.xmp = m.xmp /\ u.texts = m.texts /\ u.left = m.left
        BY <1>1, <3>1 DEF Metadata
      <3> QED
        BY <1>1, <1>2, <1>3, <1>6, <2>2, <3>2
    <2>3. CASE c.ok /\ c.type = "iXMP"
      <3>1. u = IF m.xmp = None THEN [m EXCEPT !.xmp = c.n] ELSE m
        BY <2>3 DEF GatherOne, Keep, Ancillary
      <3> HIDE DEF u
      <3>2. /\ u.xmp = IF m.xmp = None THEN c.n ELSE m.xmp
            /\ u.icc = m.icc /\ u.exif = m.exif /\ u.texts = m.texts /\ u.left = m.left
        BY <1>1, <3>1 DEF Metadata
      <3> QED
        BY <1>1, <1>2, <1>3, <1>6, <2>3, <3>2
    <2>4. CASE c.ok /\ c.type = "iCCP" /\ m.icc # None
      <3>1. u = m
        BY <2>4 DEF GatherOne, Keep, Ancillary
      <3> HIDE DEF u
      <3> QED
        BY <1>1, <1>2, <1>6, <2>4, <3>1
    <2>5. CASE c.ok /\ c.type = "iCCP" /\ m.icc = None
      <3>1. c.n # 0 /\ ~(c.n > m.left)
        BY <1>1, <1>2, <2>5
      <3>2. Inflate(m, c) = [ok |-> TRUE, left |-> m.left - c.n]
        BY <3>1 DEF Inflate
      <3>3. u = [m EXCEPT !.icc = c.n, !.left = m.left - c.n]
        BY <2>5, <3>2 DEF GatherOne, Keep, Ancillary
      <3> HIDE DEF u
      <3>4. /\ u.icc = c.n /\ u.left = m.left - c.n
            /\ u.xmp = m.xmp /\ u.exif = m.exif /\ u.texts = m.texts
        BY <1>1, <3>3 DEF Metadata
      <3>5. Worth(u.icc) = c.n /\ Worth(m.icc) = 0
        BY <1>2, <2>5, <3>4 DEF Worth
      <3> QED
        BY <1>1, <1>2, <1>3, <2>5, <3>4, <3>5
    <2>6. CASE c.ok /\ c.type = "zTXt"
      <3>1. c.n # 0 /\ ~(c.n > m.left)
        BY <1>1, <1>2, <2>6
      <3>2. Inflate(m, c) = [ok |-> TRUE, left |-> m.left - c.n]
        BY <3>1 DEF Inflate
      <3>3. u = [m EXCEPT !.texts = Append(m.texts, c.n), !.left = m.left - c.n]
        BY <2>6, <3>2 DEF GatherOne, Keep, Ancillary
      <3> HIDE DEF u
      <3>4. /\ u.texts = Append(m.texts, c.n) /\ u.left = m.left - c.n
            /\ u.xmp = m.xmp /\ u.exif = m.exif /\ u.icc = m.icc
        BY <1>1, <3>3 DEF Metadata
      <3> QED
        BY <1>1, <1>2, <1>6, <2>6, <3>4
    <2> HIDE DEF Changed
    <2> QED
      BY <2>1, <2>2, <2>3, <2>4, <2>5, <2>6
  <1> HIDE DEF u, t
  <1>8. u.exif \in {None, j.exif} /\ u.icc \in {None, j.icc} /\ u.xmp \in {None, j.xmp}
    BY <1>7 DEF Gathers
  <1>9. /\ Len(m.texts) \in Nat /\ Len(u.texts) >= Len(m.texts) /\ Len(u.texts) \in Nat
        /\ \A k \in 1 .. Len(m.texts) : u.texts[k] = m.texts[k]
        /\ c.ok /\ c.type = "zTXt" => u.texts[Len(u.texts)] = c.n /\ Len(u.texts) >= 1
    BY <1>1, <1>2, <1>7, LenProperties, AppendProperties
  <1>10. ASSUME NEW i \in 1 .. Len(t), t[i].ok
         PROVE  /\ t[i].type = "eXIf" => u.exif = j.exif
                /\ t[i].type = "iCCP" => u.icc = j.icc
                /\ t[i].type = "iXMP" => u.xmp = j.xmp
                /\ t[i].type = "zTXt" => \E k \in 1 .. Len(u.texts) : u.texts[k] = t[i].n
    <2>1. CASE i \in 1 .. Len(s)
      <3>1. /\ s[i].ok /\ t[i] = s[i]
        BY <1>5, <1>10, <2>1
      <3>2. /\ s[i].type = "eXIf" => m.exif = j.exif
            /\ s[i].type = "iCCP" => m.icc = j.icc
            /\ s[i].type = "iXMP" => m.xmp = j.xmp
            /\ s[i].type = "zTXt" => \E k \in 1 .. Len(m.texts) : m.texts[k] = s[i].n
        BY <2>1, <3>1 DEF Gathers
      <3>3. /\ m.exif = j.exif => u.exif = j.exif
            /\ m.icc = j.icc => u.icc = j.icc
            /\ m.xmp = j.xmp => u.xmp = j.xmp
        BY <1>7
      <3>4. \A k \in 1 .. Len(m.texts) : k \in 1 .. Len(u.texts)
        BY <1>9
      <3> QED
        BY <1>9, <3>1, <3>2, <3>3, <3>4
    <2>2. CASE i = Len(s) + 1
      <3>1. t[i] = c
        BY <1>5, <2>2
      <3>2. c.ok /\ c.type = "zTXt" => Len(u.texts) \in 1 .. Len(u.texts)
        BY <1>9
      <3> QED
        BY <1>7, <1>8, <1>9, <1>10, <3>1, <3>2
    <2> QED
      BY <1>5, <2>1, <2>2
  <1>11. Gathers(u, j, t)
    BY <1>4, <1>8, <1>10 DEF Gathers, u
  <1> QED
    BY <1>7, <1>11 DEF u, t

----------------------------------------------------------------------------
(* The budget of a file on its way. *)

\* f adds up the texts of j, dearest bounds each of them: the budget has room for all,
\* and for the dearest once more for every fault.
Prices(j, f, dearest) ==
    /\ f \in [0 .. Len(j.texts) -> Nat] /\ Len(j.texts) \in Nat
    /\ \A k \in 1 .. Len(j.texts) : f[k] = f[k - 1] + j.texts[k]
    /\ \A a \in 0 .. Len(j.texts) : f[a] <= f[Len(j.texts)]
    /\ dearest \in Nat
    /\ \A k \in 1 .. Len(j.texts) :
          j.texts[k] \in Nat /\ j.texts[k] >= 1 /\ j.texts[k] <= dearest
    /\ Worth(j.icc) \in Nat
    /\ Worth(j.icc) + f[Len(j.texts)] + MaxFaults * dearest <= Budget

LEMMA PricesKnown ==
    ASSUME NEW j \in Jobs
    PROVE  \E f, dearest : Prices(j, f, dearest)
  <1> DEFINE n == Len(j.texts)
  <1>1. j \in Job /\ j.texts \in Seq(Nat \ {0}) /\ j.icc \in Nat \cup {None}
    BY JobsAssumption DEF Job
  <1>2. /\ n \in Nat /\ DOMAIN j.texts = 1 .. n
        /\ \A k \in 1 .. n : j.texts[k] \in Nat \ {0}
    BY <1>1, LenProperties, ElementOfSeq
  <1>3. j.texts \in Seq(Nat)
    BY <1>1, SeqDef
  <1>4. PICK f : Totalling(j.texts, f) /\ Total(j.texts) = f[n]
    BY <1>3, TotalsAlong
  <1>5. PICK dearest \in 0 .. Budget :
          /\ \A k \in DOMAIN j.texts : j.texts[k] <= dearest
          /\ Worth(j.icc) + Total(j.texts) + MaxFaults * dearest <= Budget
    BY RoomAssumption
  <1>6. dearest \in Nat /\ Worth(j.icc) \in Nat
    BY <1>1, BudgetAssumption DEF Worth
  <1> HIDE DEF n
  <1>7. /\ f \in [0 .. n -> Nat]
        /\ \A k \in 1 .. n : f[k] = f[k - 1] + j.texts[k]
    BY <1>4 DEF Totalling, n
  <1>8. \A a \in 0 .. n : f[a] <= f[n]
    <2> DEFINE H == {a \in 0 .. n : f[n - a] <= f[n]}
    <2>1. 0 \in H
      BY <1>2, <1>7
    <2>2. ASSUME NEW a \in 1 .. n, a - 1 \in H PROVE a \in H
      <3>1. /\ n - (a - 1) \in 1 .. n /\ (n - (a - 1)) - 1 = n - a
            /\ n - a \in 0 .. n /\ n - (a - 1) \in 0 .. n /\ n \in 0 .. n /\ a \in 0 .. n
        BY <1>2
      <3>2. f[n - (a - 1)] = f[n - a] + j.texts[n - (a - 1)]
        BY <1>7, <3>1
      <3>3. f[n - (a - 1)] <= f[n]
        BY <2>2
      <3>4. /\ f[n - a] \in Nat /\ f[n - (a - 1)] \in Nat /\ f[n] \in Nat
            /\ j.texts[n - (a - 1)] \in Nat
        BY <1>2, <1>7, <3>1
      <3> QED
        BY <3>1, <3>2, <3>3, <3>4
    <2>3. \A a \in 0 .. n : a \in H
      <3> HIDE DEF H
      <3>1. \A a \in 1 .. n : a - 1 \in H => a \in H
        BY <2>2
      <3> QED
        BY <1>2, <2>1, <3>1, UpTo
    <2> TAKE a \in 0 .. n
    <2>4. n - a \in 0 .. n /\ n - (n - a) = a
      BY <1>2
    <2> QED
      BY <2>3, <2>4
  <1>9. Prices(j, f, dearest)
    <2>1. \A k \in 1 .. n : j.texts[k] \in Nat /\ j.texts[k] >= 1 /\ j.texts[k] <= dearest
      BY <1>2, <1>5
    <2>2. Worth(j.icc) + f[n] + MaxFaults * dearest <= Budget
      BY <1>4, <1>5
    <2> QED
      BY <1>2, <1>6, <1>7, <1>8, <2>1, <2>2 DEF Prices, n
  <1> QED
    BY <1>9

\* How many of n texts, behind the first o chunks, are among the first h.
TextsBy(o, h, n) == IF h <= o THEN 0 ELSE IF h - o <= n THEN h - o ELSE n

\* What m has left of the budget, after t texts and x faults: all but the price of what
\* was read; and without faults, exactly the texts read.
Accounts(m, j, s, x, t, f, dearest) ==
    /\ Gathers(m, j, s)
    /\ m.left + Worth(m.icc) + f[t] + x * dearest >= Budget
    /\ x = 0 => Len(m.texts) = t /\ \A k \in 1 .. t : m.texts[k] = j.texts[k]

LEMMA NextText ==
    ASSUME NEW j, NEW w, FileOf(j, w), NEW f, NEW dearest, Prices(j, f, dearest),
           NEW o \in Nat, TextsAt(w, o, j.texts), NEW h \in Nat, h + 1 <= Len(w)
    PROVE  LET n == Len(j.texts)
               t == TextsBy(o, h, n)
               u == TextsBy(o, h + 1, n)
           IN  /\ t \in 0 .. n /\ u \in 0 .. n
               /\ w[h + 1].type = "zTXt" => u = t + 1 /\ w[h + 1].n = j.texts[u]
               /\ w[h + 1].type # "zTXt" => u = t
  <1> DEFINE n == Len(j.texts)
             t == TextsBy(o, h, n)
             u == TextsBy(o, h + 1, n)
  <1>1. n \in Nat
    BY DEF Prices
  <1>2. Len(w) \in Nat /\ h + 1 \in 1 .. Len(w)
    BY FileEnds
  <1>3. /\ w[h + 1].type = "zTXt" <=> h + 1 - o \in 1 .. n
        /\ w[h + 1].type = "zTXt" => w[h + 1].n = j.texts[h + 1 - o]
    BY <1>2 DEF TextsAt
  <1> HIDE DEF n
  <1>4. CASE h + 1 - o \in 1 .. n
    <2>1. t = h - o /\ u = h + 1 - o
      BY <1>1, <1>4 DEF TextsBy
    <2> QED
      BY <1>1, <1>3, <1>4, <2>1 DEF n
  <1>5. CASE ~(h + 1 - o \in 1 .. n)
    <2>1. t = u /\ t \in 0 .. n
      BY <1>1, <1>5 DEF TextsBy
    <2> QED
      BY <1>3, <1>5, <2>1 DEF n
  <1> QED
    BY <1>4, <1>5

\* Products, as far as the price of faults needs them.
LEMMA Faulty ==
    ASSUME NEW d \in Nat, NEW x \in Nat, NEW most \in Nat, x <= most
    PROVE  /\ x * d \in Nat /\ most * d \in Nat /\ x * d <= most * d
           /\ (x + 1) * d = x * d + d /\ 0 * d = 0
  <1>1. x * d \in Nat /\ most * d \in Nat /\ (x + 1) * d = x * d + d /\ 0 * d = 0
    OBVIOUS
  <1>2. PICK y \in Nat : most = x + y
    <2>1. most - x \in Nat /\ most = x + (most - x)
      OBVIOUS
    <2> QED
      BY <2>1
  <1>3. most * d = x * d + y * d /\ y * d \in Nat
    BY <1>2
  <1> QED
    BY <1>1, <1>3

\* What is left when less is spent than was set aside.
LEMMA SetAside ==
    ASSUME NEW left_ \in Nat, NEW p \in Nat, NEW q \in Nat, NEW a \in Nat, NEW b \in Nat,
           NEW x \in Nat, NEW y \in Nat, NEW all \in Nat, x <= y,
           left_ + p + a + x >= all, q + b + y <= all
    PROVE  left_ >= (q - p) + (b - a)
  OBVIOUS

\* There is room for the next chunk, read for the first time or again.
LEMMA RoomLeft ==
    ASSUME NEW j \in Job, NEW w, FileOf(j, w), NEW f, NEW dearest, Prices(j, f, dearest),
           NEW o \in Nat, TextsAt(w, o, j.texts), NEW h \in Nat, h + 1 <= Len(w),
           NEW m, NEW s, NEW x \in Nat, x <= MaxFaults,
           Accounts(m, j, s, x, TextsBy(o, h, Len(j.texts)), f, dearest)
    PROVE  /\ w[h + 1].type = "iCCP" =>
                 w[h + 1].n >= 1 /\ (m.icc = None => w[h + 1].n <= m.left)
           /\ w[h + 1].type = "zTXt" =>
                 w[h + 1].n >= 1 /\ w[h + 1].n <= m.left /\ w[h + 1].n <= dearest
  <1> DEFINE n == Len(j.texts)
             t == TextsBy(o, h, n)
             u == TextsBy(o, h + 1, n)
             c == w[h + 1]
  <1>1. /\ n \in Nat /\ f \in [0 .. n -> Nat] /\ dearest \in Nat
        /\ \A k \in 1 .. n : f[k] = f[k - 1] + j.texts[k]
        /\ \A a \in 0 .. n : f[a] <= f[n]
        /\ \A k \in 1 .. n : j.texts[k] \in Nat /\ j.texts[k] >= 1 /\ j.texts[k] <= dearest
        /\ Worth(j.icc) \in Nat
        /\ Worth(j.icc) + f[n] + MaxFaults * dearest <= Budget
    BY DEF Prices
  <1>2. /\ t \in 0 .. n /\ u \in 0 .. n
        /\ c.type = "zTXt" => u = t + 1 /\ c.n = j.texts[u]
    BY NextText
  <1>3. /\ m.left \in Nat /\ m.icc \in {None, j.icc} /\ j.icc \in (Nat \ {0}) \cup {None}
        /\ m.left + Worth(m.icc) + f[t] + x * dearest >= Budget
    BY BudgetAssumption DEF Accounts, Gathers, Metadata, Job
  <1>4. Says(j, c)
    <2>1. h + 1 \in 1 .. Len(w)
      BY FileEnds
    <2> QED
      BY <2>1 DEF FileOf, Block
  <1>5. /\ x * dearest \in Nat /\ MaxFaults * dearest \in Nat
        /\ x * dearest <= MaxFaults * dearest
    BY <1>1, JobsAssumption, Faulty
  <1>6. Budget \in Nat
    BY BudgetAssumption
  <1> HIDE DEF t, u, n, c
  <1> DEFINE X == x * dearest
             M == MaxFaults * dearest
  <1> HIDE DEF X, M
  <1>7. X \in Nat /\ M \in Nat /\ X <= M /\ m.left + Worth(m.icc) + f[t] + X >= Budget
        /\ Worth(j.icc) + f[n] + M <= Budget
    BY <1>1, <1>3, <1>5 DEF X, M
  <1>8. f[t] \in Nat /\ f[n] \in Nat /\ f[t] <= f[n]
    BY <1>1, <1>2
  <1>9. Worth(m.icc) \in Nat /\ Worth(m.icc) <= Worth(j.icc)
    BY <1>1, <1>3 DEF Worth
  <1> DEFINE p == Worth(m.icc)
             q == Worth(j.icc)
             a == f[t]
             b == f[n]
  <1>10. m.left >= (q - p) + (b - a)
    <2> HIDE DEF p, q, a, b
    <2>1. p \in Nat /\ q \in Nat /\ a \in Nat /\ b \in Nat
      BY <1>1, <1>8, <1>9 DEF p, q, a, b
    <2>2. m.left + p + a + X >= Budget /\ q + b + M <= Budget
      BY <1>7 DEF p, q, a, b
    <2> QED
      BY <1>3, <1>6, <1>7, <2>1, <2>2, SetAside
  <1>11. ASSUME c.type = "iCCP" PROVE c.n >= 1 /\ (m.icc = None => c.n <= m.left)
    <2>1. c.n = j.icc
      BY <1>4, <1>11 DEF Says
    <2>2. c.n \in Nat
      <3>1. h + 1 \in 1 .. Len(w)
        BY FileEnds
      <3>2. c \in AnyChunks
        BY <3>1, ElementOfSeq DEF FileOf, Block, c
      <3> QED
        BY <3>2 DEF AnyChunks
    <2>3. c.n >= 1 /\ Worth(j.icc) = c.n
      BY <1>3, <2>1, <2>2 DEF Worth, None
    <2>4. m.icc = None => Worth(m.icc) = 0
      BY DEF Worth
    <2> QED
      BY <1>3, <1>8, <1>10, <2>2, <2>3, <2>4
  <1>12. ASSUME c.type = "zTXt" PROVE c.n >= 1 /\ c.n <= m.left /\ c.n <= dearest
    <2>1. u \in 1 .. n /\ c.n = j.texts[u] /\ u - 1 = t
      BY <1>1, <1>2, <1>12
    <2>2. f[u] = f[t] + c.n /\ f[u] <= f[n] /\ f[u] \in Nat /\ c.n \in Nat /\ c.n >= 1 /\ c.n <= dearest
      BY <1>1, <1>2, <2>1
    <2> QED
      <3>1. b - a >= c.n /\ b - a \in Int
        BY <1>8, <2>2
      <3>2. q - p >= 0 /\ q - p \in Int
        BY <1>1, <1>9
      <3> HIDE DEF p, q, a, b
      <3> QED
        BY <1>3, <1>10, <2>2, <3>1, <3>2
  <1> QED
    BY <1>11, <1>12 DEF c

\* The next chunk is read, lost, damaged, or read without being taken off the file: the
\* account still holds.
LEMMA AccountGoesOn ==
    ASSUME NEW j \in Job, NEW w, FileOf(j, w), NEW f, NEW dearest, Prices(j, f, dearest),
           NEW o \in Nat, TextsAt(w, o, j.texts), NEW h \in Nat, h + 1 <= Len(w),
           NEW m, NEW s \in Seq(Chunks), NEW x \in Nat, x <= MaxFaults,
           Accounts(m, j, s, x, TextsBy(o, h, Len(j.texts)), f, dearest),
           NEW c \in Chunks, c.type = w[h + 1].type, c.n = w[h + 1].n, NEW y, NEW k,
           \/ y = x /\ k = h + 1 /\ c.ok
           \/ y = x + 1 /\ k = h + 1 /\ ~c.ok
           \/ y = x + 1 /\ k = h /\ c.ok
    PROVE  Accounts(GatherOne(m, j, c), j, Append(s, c), y, TextsBy(o, k, Len(j.texts)), f,
                    dearest)
  <1> DEFINE n == Len(j.texts)
             t == TextsBy(o, h, n)
             v == TextsBy(o, k, n)
             u == GatherOne(m, j, c)
             e == w[h + 1]
  <1>1. /\ n \in Nat /\ f \in [0 .. n -> Nat] /\ dearest \in Nat
        /\ \A i \in 1 .. n : f[i] = f[i - 1] + j.texts[i]
        /\ \A i \in 1 .. n : j.texts[i] \in Nat
    BY DEF Prices
  <1>2. /\ t \in 0 .. n /\ TextsBy(o, h + 1, n) \in 0 .. n
        /\ c.type = "zTXt" => TextsBy(o, h + 1, n) = t + 1 /\ c.n = j.texts[t + 1]
        /\ c.type # "zTXt" => TextsBy(o, h + 1, n) = t
    <2>1. LET p == TextsBy(o, h + 1, n) IN
          /\ t \in 0 .. n /\ p \in 0 .. n
          /\ e.type = "zTXt" => p = t + 1 /\ e.n = j.texts[p]
          /\ e.type # "zTXt" => p = t
      BY NextText
    <2> QED
      BY <2>1
  <1>3. /\ Gathers(m, j, s)
        /\ m.left + Worth(m.icc) + f[t] + x * dearest >= Budget
        /\ x = 0 => Len(m.texts) = t /\ \A i \in 1 .. t : m.texts[i] = j.texts[i]
    BY DEF Accounts
  <1>4. /\ c.type = "iCCP" => c.n >= 1 /\ (m.icc = None => c.n <= m.left)
        /\ c.type = "zTXt" => c.n >= 1 /\ c.n <= m.left /\ c.n <= dearest
    BY RoomLeft
  <1>5. e \in AnyChunks /\ Says(j, e)
    <2>1. h + 1 \in 1 .. Len(w)
      BY FileEnds
    <2> QED
      BY <2>1, ElementOfSeq DEF FileOf, Block
  <1>6. c.n \in Nat /\ Budget \in Nat /\ c.ok \in BOOLEAN
    BY ChunksAssumption, BudgetAssumption
  <1> HIDE DEF e
  <1>7. /\ Gathers(u, j, Append(s, c))
        /\ u.texts = IF c.ok /\ c.type = "zTXt" THEN Append(m.texts, c.n) ELSE m.texts
        /\ u.left + Worth(u.icc)
              = m.left + Worth(m.icc) - (IF c.ok /\ c.type = "zTXt" THEN c.n ELSE 0)
    BY <1>3, <1>4, <1>5, OneGathered DEF e
  <1>8. /\ x * dearest \in Nat /\ (x + 1) * dearest = x * dearest + dearest
    BY <1>1, JobsAssumption, Faulty
  <1>9. m.texts \in Seq(Nat) /\ m.left \in Nat /\ m.icc \in Nat \cup {None}
    BY <1>3, BudgetAssumption DEF Gathers, Metadata
  <1>10. Worth(m.icc) \in Nat
    BY <1>9 DEF Worth
  <1> HIDE DEF u, t, v, n
  <1> DEFINE X == x * dearest
             Y == y * dearest
             L == m.left + Worth(m.icc)
             N == u.left + Worth(u.icc)
             A == f[t]
             B == f[v]
             D == IF c.ok /\ c.type = "zTXt" THEN c.n ELSE 0
  <1>11. /\ X \in Nat /\ L \in Nat /\ N = L - D
         /\ y = x => Y = X
         /\ y = x + 1 => Y = X + dearest
    <2>1. X \in Nat
      BY <1>8
    <2>2. L \in Nat
      <3>1. \A p, q \in Nat : p + q \in Nat
        OBVIOUS
      <3> QED
        BY <1>9, <1>10, <3>1
    <2>3. N = L - D
      <3>1. \A p, q, d \in Nat : p + (q - d) = (p + q) - d
        OBVIOUS
      <3>2. (IF c.ok /\ c.type = "zTXt" THEN c.n ELSE 0) \in Nat
        BY <1>6
      <3>3. D \in Nat
        BY <3>2
      <3>4. N = m.left + (Worth(m.icc) - D)
        BY <1>7
      <3> HIDE DEF D
      <3> QED
        BY <1>9, <1>10, <3>1, <3>3, <3>4
    <2>4. y = x => Y = X
      OBVIOUS
    <2>5. y = x + 1 => Y = X + dearest
      BY <1>8
    <2> QED
      BY <2>1, <2>2, <2>3, <2>4, <2>5
  <1>12. L + A + X >= Budget
    BY <1>3
  <1> HIDE DEF X, Y, L, N, A, B, D
  <1>13. f[t] \in Nat /\ (c.type = "zTXt" => f[t + 1] = f[t] + c.n)
    <2>1. f[t] \in Nat
      BY <1>1, <1>2
    <2>2. ASSUME c.type = "zTXt" PROVE f[t + 1] = f[t] + c.n
      <3>1. t + 1 \in 1 .. n /\ (t + 1) - 1 = t /\ c.n = j.texts[t + 1]
        BY <1>1, <1>2, <2>2
      <3> QED
        BY <1>1, <3>1
    <2> QED
      BY <2>1, <2>2
  <1>14. /\ k = h => v = t
         /\ k = h + 1 /\ c.type = "zTXt" => v = t + 1
         /\ k = h + 1 /\ c.type # "zTXt" => v = t
    BY <1>2 DEF v, t
  <1>15. D \in Nat /\ D <= c.n /\ (c.type = "zTXt" => D <= dearest) /\ (c.type # "zTXt" => D = 0)
    <2>1. CASE c.ok /\ c.type = "zTXt"
      <3>1. D = c.n
        BY <2>1 DEF D
      <3> QED
        BY <1>4, <1>6, <2>1, <3>1
    <2>2. CASE ~(c.ok /\ c.type = "zTXt")
      <3>1. D = 0
        BY <2>2 DEF D
      <3> QED
        BY <1>1, <1>6, <3>1
    <2> QED
      BY <2>1, <2>2
  <1>16. A \in Nat /\ dearest \in Nat
    BY <1>1, <1>13 DEF A
  <1>17. N + B + Y >= Budget
    <2>1. CASE y = x /\ k = h + 1 /\ c.ok
      <3>1. B = A + D /\ Y = X
        BY <1>6, <1>11, <1>13, <1>14, <2>1 DEF A, B, D
      <3> QED
        BY <1>6, <1>11, <1>12, <1>15, <1>16, <3>1
    <2>2. CASE y = x + 1 /\ k = h + 1 /\ ~c.ok
      <3>1. D = 0 /\ Y = X + dearest
        BY <1>11, <2>2 DEF D
      <3>2. B \in Nat /\ B >= A
        BY <1>6, <1>13, <1>14, <2>2 DEF A, B
      <3> QED
        BY <1>6, <1>11, <1>12, <1>16, <3>1, <3>2
    <2>3. CASE y = x + 1 /\ k = h /\ c.ok
      <3>1. B = A /\ Y = X + dearest
        BY <1>11, <1>14, <2>3 DEF A, B
      <3>2. D <= dearest
        BY <1>15, <1>16
      <3> QED
        BY <1>6, <1>11, <1>12, <1>15, <1>16, <3>1, <3>2
    <2> QED
      BY <2>1, <2>2, <2>3
  <1>18. ASSUME y = 0 PROVE Len(u.texts) = v /\ \A i \in 1 .. v : u.texts[i] = j.texts[i]
    <2>1. x = 0 /\ k = h + 1 /\ c.ok
      BY <1>18
    <2>2. Len(m.texts) = t /\ \A i \in 1 .. t : m.texts[i] = j.texts[i]
      BY <1>3, <2>1
    <2>3. CASE c.type = "zTXt"
      <3>1. u.texts = Append(m.texts, c.n) /\ v = t + 1 /\ c.n = j.texts[t + 1]
        BY <1>2, <1>7, <1>14, <2>1, <2>3
      <3>2. /\ Len(u.texts) = t + 1 /\ u.texts[t + 1] = c.n
            /\ \A i \in 1 .. t : u.texts[i] = m.texts[i]
        BY <1>6, <1>9, <2>2, <3>1, AppendProperties
      <3>3. \A i \in 1 .. t + 1 : i \in 1 .. t \/ i = t + 1
        BY <1>1, <1>2
      <3> QED
        BY <2>2, <3>1, <3>2, <3>3
    <2>4. CASE c.type # "zTXt"
      BY <1>7, <1>14, <2>1, <2>2, <2>4
    <2> QED
      BY <2>3, <2>4
  <1> QED
    BY <1>7, <1>17, <1>18 DEF Accounts, u, v, n, N, B, Y

LEMMA AccountOfLost ==
    ASSUME NEW j \in Job, NEW w, FileOf(j, w), NEW f, NEW dearest, Prices(j, f, dearest),
           NEW o \in Nat, TextsAt(w, o, j.texts), NEW h \in Nat, h + 1 <= Len(w),
           NEW m, NEW s, NEW x \in Nat, x <= MaxFaults,
           Accounts(m, j, s, x, TextsBy(o, h, Len(j.texts)), f, dearest)
    PROVE  Accounts(m, j, s, x + 1, TextsBy(o, h + 1, Len(j.texts)), f, dearest)
  <1> DEFINE n == Len(j.texts)
             t == TextsBy(o, h, n)
             v == TextsBy(o, h + 1, n)
  <1>1. /\ n \in Nat /\ f \in [0 .. n -> Nat] /\ dearest \in Nat
        /\ \A i \in 1 .. n : f[i] = f[i - 1] + j.texts[i]
        /\ \A i \in 1 .. n : j.texts[i] \in Nat
    BY DEF Prices
  <1>2. t \in 0 .. n /\ v \in 0 .. n /\ (v = t \/ v = t + 1)
    BY NextText
  <1>3. /\ Gathers(m, j, s) /\ m.left + Worth(m.icc) + f[t] + x * dearest >= Budget
    BY DEF Accounts
  <1>4. x * dearest \in Nat /\ (x + 1) * dearest = x * dearest + dearest
    BY <1>1, JobsAssumption, Faulty
  <1>5. Budget \in Nat /\ m.left \in Nat /\ m.icc \in Nat \cup {None}
    BY <1>3, BudgetAssumption DEF Gathers, Metadata
  <1>6. Worth(m.icc) \in Nat
    BY <1>5 DEF Worth
  <1> HIDE DEF t, v, n
  <1>7. f[t] \in Nat /\ f[v] \in Nat /\ f[v] >= f[t]
    <2>1. f[t] \in Nat /\ f[v] \in Nat
      BY <1>1, <1>2
    <2>2. CASE v = t + 1
      <3>1. v \in 1 .. n /\ v - 1 = t
        BY <1>1, <1>2, <2>2
      <3>2. f[v] = f[t] + j.texts[v] /\ j.texts[v] \in Nat
        BY <1>1, <3>1
      <3> QED
        BY <2>1, <3>2
    <2> QED
      BY <1>2, <2>1, <2>2
  <1> DEFINE X == x * dearest
             Y == (x + 1) * dearest
             L == m.left + Worth(m.icc)
             A == f[t]
             B == f[v]
  <1>8. /\ X \in Nat /\ Y = X + dearest /\ L + A + X >= Budget
        /\ L \in Nat /\ A \in Nat /\ B \in Nat /\ B >= A
    BY <1>3, <1>4, <1>5, <1>6, <1>7
  <1> HIDE DEF X, Y, L, A, B
  <1>9. L + B + Y >= Budget
    BY <1>1, <1>5, <1>8
  <1> QED
    BY <1>3, <1>9 DEF Accounts, v, n, Y, L, B

\* How many chunks of the file the medium has passed on, or lost.
Passed == Len(Written(job)) - Len(left)

\* A file of the encoder on its way: its faults, which chunks have come, and while decode
\* has refused none of them, the metadata that they leave behind.
Underway(g, o, f, dearest) ==
    /\ job \in Jobs /\ source = Encoder
    /\ header = [color |-> job.color, depth |-> Depth(job)]
    /\ left \in Seq(AnyChunks) /\ Passed \in Nat
    /\ \A i \in 1 .. Len(left) : left[i] = Written(job)[Passed + i]
    /\ Faults(faults, Written(job), Passed) /\ Came(g, fed, Written(job), Passed, faults)
    /\ IsFiniteSet(faults) /\ Cardinality(faults) <= MaxFaults
    /\ o \in Nat /\ TextsAt(Written(job), o, job.texts) /\ Prices(job, f, dearest)
    /\ parse.at # "refused" =>
          Accounts(Collect(parse.anc), job, fed, Cardinality(faults),
                   TextsBy(o, Passed, Len(job.texts)), f, dearest)

\* The next chunk of the file, and the rest.
LEMMA NextChunk ==
    ASSUME NEW g, NEW o, NEW f, NEW dearest, Underway(g, o, f, dearest), left # <<>>
    PROVE  /\ job \in Job /\ FileOf(job, Written(job))
           /\ Len(Written(job)) \in Nat /\ Passed \in Nat /\ Passed + 1 <= Len(Written(job))
           /\ Here = Passed + 1 /\ Head(left) = Written(job)[Passed + 1]
           /\ Head(left).ok /\ Head(left) \in AnyChunks
           /\ Head(left) \in Chunks /\ [Head(left) EXCEPT !.ok = FALSE] \in Chunks
           /\ Tail(left) \in Seq(AnyChunks) /\ Len(Written(job)) - Len(Tail(left)) = Passed + 1
           /\ \A i \in 1 .. Len(Tail(left)) :
                 Tail(left)[i] = Written(job)[(Passed + 1) + i]
  <1> DEFINE w == Written(job)
             h == Passed
  <1>1. /\ job \in Jobs /\ left \in Seq(AnyChunks) /\ h \in Nat
        /\ \A i \in 1 .. Len(left) : left[i] = w[h + i]
    BY DEF Underway
  <1>2. job \in Job /\ FileOf(job, w)
    BY <1>1, JobsAssumption, WrittenIs
  <1>3. Len(w) \in Nat /\ w \in Seq(AnyChunks)
    BY <1>2, FileEnds DEF FileOf, Block
  <1>4. Len(left) \in Nat /\ Len(left) # 0
    BY <1>1, LenProperties, EmptySeq
  <1>5. h = Len(w) - Len(left) /\ Here = (Len(w) - Len(left)) + 1
    BY DEF Passed, Here
  <1>6. Head(left) = left[1]
    BY <1>1
  <1>7. /\ Tail(left) \in Seq(AnyChunks) /\ Len(Tail(left)) = Len(left) - 1
        /\ \A i \in 1 .. Len(left) - 1 : Tail(left)[i] = left[i + 1]
    BY <1>1, HeadTailProperties
  <1>8. DOMAIN w = 1 .. Len(w)
    BY <1>3, LenProperties
  <1>9. \A k \in 1 .. Len(w) : {w[k], [w[k] EXCEPT !.ok = FALSE]} \subseteq Chunks
    BY <1>1, <1>8, WrittenAssumption
  <1> HIDE DEF w, h
  <1>10. h + 1 <= Len(w) /\ h + 1 \in 1 .. Len(w) /\ Here = h + 1 /\ 1 \in 1 .. Len(left)
    BY <1>1, <1>3, <1>4, <1>5
  <1>11. Head(left) = w[h + 1]
    BY <1>1, <1>6, <1>10
  <1>12. w[h + 1] \in AnyChunks /\ w[h + 1].ok
    BY <1>2, <1>3, <1>10, ElementOfSeq DEF FileOf, Block, Says
  <1>13. w[h + 1] \in Chunks /\ [w[h + 1] EXCEPT !.ok = FALSE] \in Chunks
    BY <1>9, <1>10
  <1>14. Len(w) - Len(Tail(left)) = h + 1
    BY <1>1, <1>3, <1>4, <1>5, <1>7
  <1>15. \A i \in 1 .. Len(Tail(left)) : Tail(left)[i] = w[(h + 1) + i]
    <2> TAKE i \in 1 .. Len(Tail(left))
    <2>1. i \in 1 .. Len(left) - 1 /\ i + 1 \in 1 .. Len(left) /\ h + (i + 1) = (h + 1) + i
      BY <1>1, <1>4, <1>7
    <2>2. left[i + 1] = w[h + (i + 1)]
      BY <1>1, <2>1
    <2> QED
      BY <1>7, <2>1, <2>2
  <1> QED
    BY <1>1, <1>2, <1>3, <1>7, <1>10, <1>11, <1>12, <1>13, <1>14, <1>15 DEF w, h

\* One fault more.
LEMMA TouchOnce ==
    ASSUME NEW fault, Touch(fault), IsFiniteSet(faults), Faults(faults, Written(job), Passed),
           Here = Passed + 1
    PROVE  /\ faults' = faults \cup {<<Passed + 1, fault>>}
           /\ \A f \in faults : f[1] # Passed + 1
           /\ Cardinality(faults) \in Nat /\ IsFiniteSet(faults')
           /\ Cardinality(faults') = Cardinality(faults) + 1
           /\ Cardinality(faults') <= MaxFaults
  <1>1. /\ faults' = faults \cup {<<Passed + 1, fault>>}
        /\ \A f \in faults : f[1] # Passed + 1
        /\ Cardinality(faults) < MaxFaults
    BY DEF Touch
  <1>2. Cardinality(faults) \in Nat /\ MaxFaults \in Nat
    BY FS_CardinalityType, JobsAssumption
  <1>3. <<Passed + 1, fault>> \notin faults
    BY <1>1
  <1>4. /\ IsFiniteSet(faults')
        /\ Cardinality(faults') = Cardinality(faults) + 1
    BY <1>1, <1>3, FS_AddElement
  <1> QED
    BY <1>1, <1>2, <1>4

\* The next chunk is read: whole, damaged, or once more than it is there.
LEMMA ReadOn ==
    ASSUME NEW g, NEW o, NEW f, NEW dearest, Underway(g, o, f, dearest), ReadersInv,
           left # <<>>, NEW c, Feed(c), job' = job, source' = source, cut' = cut,
           \/ faults' = faults /\ left' = Tail(left) /\ c = Head(left)
           \/ Touch("damaged") /\ left' = Tail(left) /\ c = [Head(left) EXCEPT !.ok = FALSE]
           \/ Touch("repeated") /\ left' = left /\ c = Head(left)
    PROVE  ReadersInv' /\ \E r : Underway(r, o, f, dearest)'
  <1> DEFINE w == Written(job)
             h == Passed
             k == Passed'
             E == faults'
             x == Cardinality(faults)
             y == Cardinality(faults')
             m == Collect(parse.anc)
             u == Collect(parse'.anc)
  <1>1. /\ job \in Job /\ FileOf(job, w) /\ Len(w) \in Nat /\ h \in Nat /\ h + 1 <= Len(w)
        /\ Here = h + 1 /\ Head(left) = w[h + 1] /\ Head(left).ok /\ Head(left) \in AnyChunks
        /\ Head(left) \in Chunks /\ [Head(left) EXCEPT !.ok = FALSE] \in Chunks
        /\ Tail(left) \in Seq(AnyChunks) /\ Len(w) - Len(Tail(left)) = h + 1
        /\ \A i \in 1 .. Len(Tail(left)) : Tail(left)[i] = w[(h + 1) + i]
    BY NextChunk
  <1>2. /\ job \in Jobs /\ source = Encoder
        /\ header = [color |-> job.color, depth |-> Depth(job)]
        /\ left \in Seq(AnyChunks)
        /\ \A i \in 1 .. Len(left) : left[i] = w[h + i]
        /\ Faults(faults, w, h) /\ Came(g, fed, w, h, faults)
        /\ IsFiniteSet(faults) /\ x <= MaxFaults
        /\ o \in Nat /\ TextsAt(w, o, job.texts) /\ Prices(job, f, dearest)
        /\ parse.at # "refused" =>
              Accounts(m, job, fed, x, TextsBy(o, h, Len(job.texts)), f, dearest)
    BY DEF Underway
  <1>3. c \in Chunks /\ c.type = w[h + 1].type /\ c.n = w[h + 1].n
    BY <1>1 DEF AnyChunks
  <1>4. /\ ReadersInv' /\ fed' = Append(fed, c) /\ header' = header
        /\ parse'.at # "refused" =>
              /\ parse.at # "refused"
              /\ parse'.anc = parse.anc \/ (c.ok /\ c.type \in Ancillary \ {"tRNS"}
                                            /\ parse'.anc = Append(parse.anc, c))
              /\ c.ok /\ c.type \in Ancillary \ {"tRNS"} =>
                    parse'.anc = Append(parse.anc, c)
    BY <1>3, FeedGoesOn
  <1>5. fed \in Seq(Chunks) /\ parse.anc \in Seq(Chunks)
    BY DEF ReadersInv, IInv, TypeOK, ParseState
  <1>6. x \in Nat
    BY <1>2, FS_CardinalityType
  <1>7. k = Len(w) - Len(left') /\ h = Len(w) - Len(left)
    BY DEF Passed
  <1> HIDE DEF h, k
  <1>8. /\ k \in Nat /\ IsFiniteSet(E) /\ y \in Nat /\ y <= MaxFaults
        /\ left' \in Seq(AnyChunks) /\ \A i \in 1 .. Len(left') : left'[i] = w[k + i]
        /\ \/ y = x /\ k = h + 1 /\ c.ok
           \/ y = x + 1 /\ k = h + 1 /\ ~c.ok
           \/ y = x + 1 /\ k = h /\ c.ok
        /\ NextRead(faults, w, h, E, k, c)
    <2>1. CASE faults' = faults /\ left' = Tail(left) /\ c = Head(left)
      <3>1. k = h + 1
        BY <1>1, <1>7, <2>1
      <3> QED
        BY <1>1, <1>2, <1>6, <2>1, <3>1 DEF NextRead
    <2>2. ASSUME NEW fault, Touch(fault)
          PROVE  /\ E = faults \cup {<<h + 1, fault>>} /\ \A e \in faults : e[1] # h + 1
                 /\ IsFiniteSet(E) /\ y = x + 1 /\ y <= MaxFaults
      BY <1>1, <1>2, <2>2, TouchOnce DEF h
    <2>3. CASE /\ Touch("damaged") /\ left' = Tail(left)
               /\ c = [Head(left) EXCEPT !.ok = FALSE]
      <3>1. k = h + 1
        BY <1>1, <1>7, <2>3
      <3>2. ~c.ok
        BY <1>1, <2>3 DEF AnyChunks
      <3>3. /\ E = faults \cup {<<h + 1, "damaged">>} /\ \A e \in faults : e[1] # h + 1
            /\ IsFiniteSet(E) /\ y = x + 1 /\ y <= MaxFaults
        BY <2>2, <2>3
      <3> HIDE DEF y, x, E, w
      <3>4. /\ k \in Nat /\ y \in Nat /\ left' \in Seq(AnyChunks)
            /\ \A i \in 1 .. Len(left') : left'[i] = w[k + i]
        BY <1>1, <1>6, <2>3, <3>1, <3>3
      <3> QED
        BY <1>1, <2>3, <3>1, <3>2, <3>3, <3>4 DEF NextRead
    <2>4. CASE Touch("repeated") /\ left' = left /\ c = Head(left)
      <3>1. k = h
        BY <1>7, <2>4
      <3>3. /\ E = faults \cup {<<h + 1, "repeated">>} /\ \A e \in faults : e[1] # h + 1
            /\ IsFiniteSet(E) /\ y = x + 1 /\ y <= MaxFaults
        BY <2>2, <2>4
      <3> HIDE DEF y, x, E, w
      <3>4. /\ k \in Nat /\ y \in Nat /\ left' \in Seq(AnyChunks)
            /\ \A i \in 1 .. Len(left') : left'[i] = w[k + i]
        BY <1>1, <1>2, <1>6, <2>4, <3>1, <3>3
      <3> QED
        BY <1>1, <2>4, <3>1, <3>3, <3>4 DEF NextRead
    <2> QED
      BY <2>1, <2>3, <2>4
  <1> HIDE DEF w, x, y, E, m, u
  <1>9. k \in {h, h + 1}
    BY <1>8
  <1>10. Faults(E, w, k) /\ \E r : Came(r, Append(fed, c), w, k, E)
    BY <1>1, <1>2, <1>3, <1>5, <1>8, <1>9, CameOneMore
  <1>11. PICK r : Came(r, Append(fed, c), w, k, E)
    BY <1>10
  <1>12. ASSUME parse'.at # "refused"
         PROVE  Accounts(u, job, Append(fed, c), y, TextsBy(o, k, Len(job.texts)), f, dearest)
    <2>1. Accounts(m, job, fed, x, TextsBy(o, h, Len(job.texts)), f, dearest)
      BY <1>2, <1>4, <1>12
    <2>2. Accounts(GatherOne(m, job, c), job, Append(fed, c), y,
                   TextsBy(o, k, Len(job.texts)), f, dearest)
      <3>1. CASE y = x /\ k = h + 1 /\ c.ok
        BY <1>1, <1>2, <1>3, <1>5, <1>6, <2>1, <3>1, AccountGoesOn
      <3>2. CASE y = x + 1 /\ k = h + 1 /\ ~c.ok
        BY <1>1, <1>2, <1>3, <1>5, <1>6, <2>1, <3>2, AccountGoesOn
      <3>3. CASE y = x + 1 /\ k = h /\ c.ok
        BY <1>1, <1>2, <1>3, <1>5, <1>6, <2>1, <3>3, AccountGoesOn
      <3> QED
        BY <1>8, <3>1, <3>2, <3>3
    <2>3. u = GatherOne(m, job, c)
      <3>1. CASE c.ok /\ c.type \in Ancillary \ {"tRNS"}
        <4>1. parse'.anc = Append(parse.anc, c)
          BY <1>4, <1>12, <3>1
        <4>2. CollectBut(Append(parse.anc, c), {}) = Keep(CollectBut(parse.anc, {}), c)
          BY <1>3, <1>5, CollectAppended
        <4> QED
          BY <3>1, <4>1, <4>2 DEF GatherOne, Collect, u, m
      <3>2. CASE ~(c.ok /\ c.type \in Ancillary \ {"tRNS"})
        BY <1>4, <1>12, <3>2 DEF GatherOne, u, m
      <3> QED
        BY <3>1, <3>2
    <2> QED
      BY <2>2, <2>3
  <1>13. Underway(r, o, f, dearest)'
    BY <1>2, <1>4, <1>7, <1>8, <1>10, <1>11, <1>12 DEF Underway, w, y, E, u, k
  <1> QED
    BY <1>4, <1>13

\* The file of another writer.
Foreign == source \in Sources /\ left = <<>> /\ faults = {}

\* The inductive invariant of a file on its way.
FileInv == ReadersInv /\ (Foreign \/ \E g, o, f, dearest : Underway(g, o, f, dearest))

\* Nothing comes of no chunks.
LEMMA CollectNothing == Collect(<<>>) = NoMetadata
  <1>1. <<>> \in Seq(Chunks) /\ Len(<<>>) = 0
    BY EmptySeq
  <1>2. PICK f : Collecting(<<>>, {}, f) /\ CollectBut(<<>>, {}) = f[Len(<<>>)]
    BY <1>1, CollectsAlong
  <1> QED
    BY <1>1, <1>2 DEF Collecting, Collect

\* The next chunk is lost.
LEMMA LoseOn ==
    ASSUME NEW g, NEW o, NEW f, NEW dearest, Underway(g, o, f, dearest), ReadersInv, Lose
    PROVE  ReadersInv' /\ Underway(g, o, f, dearest)'
  <1> DEFINE w == Written(job)
             h == Passed
             E == faults'
             x == Cardinality(faults)
             y == Cardinality(faults')
             m == Collect(parse.anc)
  <1>0. /\ left # <<>> /\ Touch("lost") /\ left' = Tail(left)
        /\ job' = job /\ source' = source /\ cut' = cut
        /\ header' = header /\ fed' = fed /\ parse' = parse /\ walk' = walk
    BY DEF Lose, vars
  <1>1. /\ job \in Job /\ FileOf(job, w) /\ Len(w) \in Nat /\ h \in Nat /\ h + 1 <= Len(w)
        /\ Here = h + 1
        /\ Tail(left) \in Seq(AnyChunks) /\ Len(w) - Len(Tail(left)) = h + 1
        /\ \A i \in 1 .. Len(Tail(left)) : Tail(left)[i] = w[(h + 1) + i]
    BY <1>0, NextChunk
  <1>2. /\ job \in Jobs /\ source = Encoder
        /\ header = [color |-> job.color, depth |-> Depth(job)]
        /\ Faults(faults, w, h) /\ Came(g, fed, w, h, faults)
        /\ IsFiniteSet(faults) /\ x <= MaxFaults
        /\ o \in Nat /\ TextsAt(w, o, job.texts) /\ Prices(job, f, dearest)
        /\ parse.at # "refused" =>
              Accounts(m, job, fed, x, TextsBy(o, h, Len(job.texts)), f, dearest)
    BY DEF Underway
  <1>3. fed \in Seq(Chunks) /\ x \in Nat
    BY <1>2, FS_CardinalityType DEF ReadersInv, IInv, TypeOK
  <1>4. Passed' = h + 1
    BY <1>0, <1>1 DEF Passed
  <1>5. /\ E = faults \cup {<<h + 1, "lost">>} /\ \A e \in faults : e[1] # h + 1
        /\ IsFiniteSet(E) /\ y = x + 1 /\ y <= MaxFaults
    BY <1>0, <1>1, <1>2, TouchOnce
  <1> HIDE DEF w, h, E, x, y, m
  <1>6. Faults(E, w, h + 1) /\ Came(g, fed, w, h + 1, E)
    BY <1>1, <1>2, <1>3, <1>5, CameOneLess
  <1>7. parse.at # "refused" =>
            Accounts(m, job, fed, x + 1, TextsBy(o, h + 1, Len(job.texts)), f, dearest)
    BY <1>1, <1>2, <1>3, AccountOfLost
  <1>8. Underway(g, o, f, dearest)'
    BY <1>0, <1>1, <1>2, <1>4, <1>5, <1>6, <1>7 DEF Underway, w, E, y, m
  <1>9. ReadersInv'
    BY <1>0 DEF ReadersInv, IInv, TypeOK, IendIsLast, ParseIsExact, WalkFollows, Open,
               RefusedForCause, CutRefuses
  <1> QED
    BY <1>8, <1>9

\* The file ends.
LEMMA CutOn ==
    ASSUME FileInv, Cut
    PROVE  FileInv'
  <1>1. /\ job' = job /\ source' = source /\ left' = left /\ faults' = faults
        /\ EndOfInput /\ cut' = (\A k \in DOMAIN fed : fed[k].type # "IEND")
    BY DEF Cut
  <1>2. ReadersInv' /\ parse'.at = "refused" /\ fed' = fed
    BY <1>1, EndGoesOn DEF FileInv
  <1>3. header' = header
    BY <1>1 DEF EndOfInput
  <1>4. ASSUME NEW g, NEW o, NEW f, NEW dearest, Underway(g, o, f, dearest)
        PROVE  Underway(g, o, f, dearest)'
    BY <1>1, <1>2, <1>3, <1>4 DEF Underway, Passed
  <1> QED
    BY <1>1, <1>2, <1>4 DEF FileInv, Foreign

\* Another writer's next chunk.
LEMMA StrayOn ==
    ASSUME FileInv, Stray
    PROVE  FileInv'
  <1>1. /\ job' = job /\ source' = source /\ left' = left /\ faults' = faults /\ cut' = cut
        /\ \E c \in source.chunks : Feed(c)
    BY DEF Stray
  <1>2. PICK c \in source.chunks : Feed(c)
    BY <1>1
  <1>3. source # Encoder
    BY <1>2 DEF Encoder
  <1>4. Foreign
    BY <1>3 DEF FileInv, Underway
  <1>5. c \in Chunks
    BY <1>2, <1>4, SourcesAssumption DEF Foreign
  <1>6. ReadersInv'
    BY <1>1, <1>2, <1>5, FeedGoesOn DEF FileInv
  <1> QED
    BY <1>1, <1>4, <1>6 DEF FileInv, Foreign

\* Nothing has been read.
LEMMA AtFirst ==
    ASSUME FileInit
    PROVE  FileInv
  <1>1. Init /\ faults = {} /\ cut = FALSE
    BY DEF FileInit
  <1>2. fed = <<>> /\ parse.at = "start" /\ parse.anc = <<>> /\ parse.plte = None /\ parse.trns = None
    BY <1>1 DEF Init
  <1>3. ReadersInv
    BY <1>1, <1>2, InitEstablishes DEF ReadersInv, RefusedForCause, CutRefuses, FlagsFrom
  <1>4. CASE source \in Sources /\ left = <<>>
    BY <1>1, <1>3, <1>4 DEF FileInv, Foreign
  <1>5. CASE /\ job \in Jobs /\ source = Encoder
             /\ header = [color |-> job.color, depth |-> Depth(job)]
             /\ left = Written(job)
    <2> DEFINE w == Written(job)
               g == [i \in 1 .. 0 |-> 1]
    <2>1. job \in Job /\ FileOf(job, w)
      BY <1>5, JobsAssumption, WrittenIs
    <2>2. Len(w) \in Nat /\ w \in Seq(AnyChunks)
      BY <2>1, FileEnds DEF FileOf, Block
    <2>3. PICK o \in Nat : TextsAt(w, o, job.texts)
      BY <2>1 DEF FileOf
    <2>4. PICK f, dearest : Prices(job, f, dearest)
      BY <1>5, PricesKnown
    <2>5. Passed = 0
      BY <1>5, <2>2 DEF Passed
    <2>6. \A i \in 1 .. Len(left) : left[i] = w[0 + i]
      BY <1>5, <2>2
    <2>7. Len(<<>>) = 0
      BY EmptySeq
    <2>8. Faults({}, w, 0) /\ Came(g, <<>>, w, 0, {})
      <3> HIDE DEF w
      <3> QED
        BY <2>2, <2>7 DEF Faults, Came
    <2>9. IsFiniteSet({}) /\ Cardinality({}) = 0 /\ 0 <= MaxFaults
      BY FS_EmptySet, JobsAssumption
    <2>10. Collect(<<>>) = NoMetadata
      BY CollectNothing
    <2>11. Accounts(NoMetadata, job, <<>>, 0, TextsBy(o, 0, Len(job.texts)), f, dearest)
      <3>1. TextsBy(o, 0, Len(job.texts)) = 0
        BY <2>3 DEF TextsBy
      <3>2. NoMetadata \in Metadata
        BY BudgetAssumption, EmptySeq DEF NoMetadata, Metadata
      <3>3. Gathers(NoMetadata, job, <<>>)
        BY <2>7, <3>2 DEF Gathers, NoMetadata
      <3>4. f[0] \in Nat /\ 0 * dearest = 0
        <4>1. 0 \in 0 .. Len(job.texts) /\ dearest \in Nat
          BY <2>4 DEF Prices
        <4> QED
          BY <2>4, <4>1 DEF Prices
      <3>5. NoMetadata.left = Budget /\ Worth(NoMetadata.icc) = 0 /\ NoMetadata.texts = <<>>
        BY DEF NoMetadata, Worth
      <3> QED
        BY <2>7, <3>1, <3>3, <3>4, <3>5, BudgetAssumption DEF Accounts
    <2>12. Underway(g, o, f, dearest)
      BY <1>1, <1>2, <1>5, <2>2, <2>3, <2>4, <2>5, <2>6, <2>8, <2>9, <2>10, <2>11 DEF Underway
    <2> QED
      BY <1>3, <2>12 DEF FileInv
  <1> QED
    BY <1>4, <1>5 DEF FileInit

\* Every step keeps it.
LEMMA FileStepPreserves ==
    ASSUME FileInv, [FileNext]_filevars
    PROVE  FileInv'
  <1>1. CASE Stray
    BY <1>1, StrayOn
  <1>2. CASE Cut
    BY <1>2, CutOn
  <1>3. ASSUME left # <<>>
        PROVE  ReadersInv /\ \E g, o, f, dearest : Underway(g, o, f, dearest)
    BY <1>3 DEF FileInv, Foreign
  <1>4. CASE Deliver
    <2>1. left # <<>> /\ Feed(Head(left)) /\ left' = Tail(left)
          /\ job' = job /\ source' = source /\ faults' = faults /\ cut' = cut
      BY <1>4 DEF Deliver
    <2>2. PICK g, o, f, dearest : Underway(g, o, f, dearest)
      BY <1>3, <2>1
    <2>3. ReadersInv' /\ \E r : Underway(r, o, f, dearest)'
      BY <1>3, <2>1, <2>2, ReadOn
    <2> QED
      BY <2>3 DEF FileInv
  <1>5. CASE Damage
    <2>1. /\ left # <<>> /\ Touch("damaged") /\ Feed([Head(left) EXCEPT !.ok = FALSE])
          /\ left' = Tail(left) /\ job' = job /\ source' = source /\ cut' = cut
      BY <1>5 DEF Damage
    <2>2. PICK g, o, f, dearest : Underway(g, o, f, dearest)
      BY <1>3, <2>1
    <2>3. ReadersInv' /\ \E r : Underway(r, o, f, dearest)'
      BY <1>3, <2>1, <2>2, ReadOn
    <2> QED
      BY <2>3 DEF FileInv
  <1>6. CASE Lose
    <2>1. PICK g, o, f, dearest : Underway(g, o, f, dearest)
      BY <1>3, <1>6 DEF Lose
    <2>2. ReadersInv' /\ Underway(g, o, f, dearest)'
      BY <1>3, <1>6, <2>1, LoseOn DEF Lose
    <2> QED
      BY <2>2 DEF FileInv
  <1>7. CASE Repeat
    <2>1. /\ left # <<>> /\ Touch("repeated") /\ Feed(Head(left))
          /\ job' = job /\ source' = source /\ left' = left /\ cut' = cut
      BY <1>7 DEF Repeat
    <2>2. PICK g, o, f, dearest : Underway(g, o, f, dearest)
      BY <1>3, <2>1
    <2>3. ReadersInv' /\ \E r : Underway(r, o, f, dearest)'
      BY <1>3, <2>1, <2>2, ReadOn
    <2> QED
      BY <2>3 DEF FileInv
  <1>8. CASE UNCHANGED filevars
    <2>1. /\ job' = job /\ source' = source /\ left' = left /\ faults' = faults /\ cut' = cut
          /\ header' = header /\ fed' = fed /\ parse' = parse /\ walk' = walk
      BY <1>8 DEF filevars, vars
    <2>2. ReadersInv' <=> ReadersInv
      BY <2>1 DEF ReadersInv, IInv, TypeOK, IendIsLast, ParseIsExact, WalkFollows, Open,
                  RefusedForCause, CutRefuses
    <2>3. ASSUME NEW g, NEW o, NEW f, NEW dearest, Underway(g, o, f, dearest)
          PROVE  Underway(g, o, f, dearest)'
      BY <2>1, <2>3 DEF Underway, Passed
    <2> QED
      BY <2>1, <2>2, <2>3 DEF FileInv, Foreign
  <1> QED
    BY <1>1, <1>2, <1>4, <1>5, <1>6, <1>7, <1>8 DEF FileNext

\* The palette that the encoder writes fits its depth.
LEMMA PaletteFits ==
    ASSUME NEW j \in Job, j.color = "indexed", j.entries >= 1
    PROVE  /\ (3 * j.entries) % 3 = 0 /\ (3 * j.entries) \div 3 = j.entries
           /\ j.entries \in 1 .. 256 /\ j.entries <= 2 ^ Depth(j)
  <1> DEFINE e == j.entries
  <1>1. e \in 1 .. 256
    BY DEF Job
  <1>2. (3 * e) % 3 = 0 /\ (3 * e) \div 3 = e
    <2> HIDE DEF e
    <2> QED
      BY <1>1
  <1>3. 2 ^ 1 = 2 /\ 2 ^ 2 = 4 /\ 2 ^ 4 = 16 /\ 2 ^ 8 = 256
    OBVIOUS
  <1>4. e <= 2 ^ Depth(j)
    <2>1. CASE e <= 2
      <3>1. Depth(j) = 1
        BY <2>1 DEF Depth
      <3> QED
        BY <1>3, <2>1, <3>1
    <2>2. CASE e \in 3 .. 4
      <3>1. Depth(j) = 2
        BY <2>2 DEF Depth
      <3> QED
        BY <1>3, <2>2, <3>1
    <2>3. CASE e \in 5 .. 16
      <3>1. Depth(j) = 4
        BY <2>3 DEF Depth
      <3> QED
        BY <1>3, <2>3, <3>1
    <2>4. CASE e > 16
      <3>1. Depth(j) = 8
        BY <1>1, <2>4 DEF Depth
      <3> QED
        BY <1>1, <1>3, <2>4, <3>1
    <2> QED
      BY <1>1, <2>1, <2>2, <2>3, <2>4
  <1> QED
    BY <1>1, <1>2, <1>4

\* Every chunk that no fault touched has come, whole.
LEMMA UntouchedCame ==
    ASSUME NEW j, NEW w, FileOf(j, w), NEW s, NEW h, NEW F, NEW g, Came(g, s, w, h, F),
           NEW k \in 1 .. h, \A f \in F : f[1] # k
    PROVE  \E i \in 1 .. Len(s) :
              g[i] = k /\ s[i].type = w[k].type /\ s[i].n = w[k].n /\ s[i].ok
  <1>1. \A fault : <<k, fault>> \notin F
    OBVIOUS
  <1>2. PICK i \in 1 .. Len(s) : g[i] = k
    BY <1>1 DEF Came
  <1>3. s[i].type = w[g[i]].type /\ s[i].n = w[g[i]].n /\ (s[i].ok <=> <<g[i], "damaged">> \notin F)
    BY CameAsWritten
  <1> QED
    BY <1>1, <1>2, <1>3

\* A file of which no critical chunk was touched is read to its end.
LEMMA ReadToItsEnd ==
    ASSUME ReadersInv, NEW g, NEW o, NEW f, NEW dearest, Underway(g, o, f, dearest),
           ~Open, ~cut, \A e \in faults : Type(e[1]) \in Ancillary
    PROVE  /\ parse.at = "done" /\ InOrder(fed) /\ FlagsSay(parse, fed)
           /\ Passed = Len(Written(job))
  <1> DEFINE w == Written(job)
             h == Passed
  <1>1. /\ job \in Job /\ FileOf(job, w)
    BY JobsAssumption, WrittenIs DEF Underway
  <1>2. /\ left \in Seq(AnyChunks) /\ h \in Nat /\ Len(left) \in Nat /\ Len(w) \in Nat
        /\ Faults(faults, w, h) /\ Came(g, fed, w, h, faults)
    BY <1>1, FileEnds, LenProperties DEF Underway
  <1>3. h <= Len(w)
    BY <1>2 DEF Passed
  <1>4. /\ fed \in Seq(Chunks) /\ parse.at \in Position /\ parse.at \notin {"start", "body"}
        /\ IendIsLast /\ ParseIsExact /\ RefusedForCause
    BY DEF ReadersInv, IInv, TypeOK, ParseState, Open, Reading
  <1>5. Len(fed) \in Nat /\ DOMAIN fed = 1 .. Len(fed)
    BY <1>4, LenProperties
  <1>6. \A e \in faults : w[e[1]].type \in Ancillary
    BY DEF Type
  <1> HIDE DEF w, h
  <1>7. \A i \in 1 .. Len(fed) :
           /\ g[i] \in 1 .. Len(w) /\ Says(job, w[g[i]])
           /\ fed[i].type = w[g[i]].type /\ fed[i].n = w[g[i]].n
           /\ fed[i].ok <=> <<g[i], "damaged">> \notin faults
    <2> TAKE i \in 1 .. Len(fed)
    <2>1. FileOf(job, w) /\ Came(g, fed, w, h, faults)
      BY <1>1, <1>2
    <2> QED
      BY <2>1, CameAsWritten
  <1>8. At(fed, "IEND") # {} => Last(fed).n = 0
    <2> SUFFICES ASSUME NEW k \in At(fed, "IEND") PROVE Last(fed).n = 0
      OBVIOUS
    <2>1. k \in 1 .. Len(fed) /\ fed[k].type = "IEND" /\ k = Len(fed)
      BY <1>4, <1>5 DEF At, IendIsLast
    <2>2. fed[k].n = 0
      BY <1>7, <2>1 DEF Says
    <2> QED
      BY <2>1, <2>2 DEF Last
  <1>9. fed # <<>> => InOrder(fed)
    BY <1>1, <1>2, <1>3, <1>4, <1>6, OrderKept
  <1>10. parse.at # "refused"
    BY <1>4, <1>8, <1>9 DEF RefusedForCause
  <1>11. parse.at = "done"
    BY <1>4, <1>10 DEF Position
  <1>12. InOrder(fed) /\ FlagsSay(parse, fed) /\ At(fed, "IEND") # {}
    BY <1>4, <1>11 DEF ParseIsExact
  <1>13. h = Len(w)
    <2>1. PICK i \in 1 .. Len(fed) : fed[i].type = "IEND"
      BY <1>5, <1>12 DEF At
    <2>2. g[i] \in 1 .. Len(w) /\ w[g[i]].type = "IEND"
      BY <1>7, <2>1
    <2>3. g[i] = Len(w)
      BY <1>1, <2>2, FileEnds
    <2>4. g[i] <= h \/ (g[i] = h + 1 /\ <<h + 1, "repeated">> \in faults)
      BY <1>2 DEF Came
    <2>5. <<g[i], "repeated">> \notin faults
      BY <1>6, <2>2 DEF Ancillary
    <2> QED
      BY <1>2, <1>3, <2>3, <2>4, <2>5
  <1> QED
    BY <1>11, <1>12, <1>13 DEF w, h

\* Then decode shows its pixels.
LEMMA ThenDecoded ==
    ASSUME ReadersInv, NEW g, NEW o, NEW f, NEW dearest, Underway(g, o, f, dearest),
           ~Open, ~cut, \A e \in faults : Type(e[1]) \in Ancillary
    PROVE  Decoded
  <1> DEFINE w == Written(job)
             h == Passed
  <1>1. /\ parse.at = "done" /\ InOrder(fed) /\ FlagsSay(parse, fed) /\ h = Len(w)
    BY ReadToItsEnd
  <1>2. /\ job \in Jobs /\ job \in Job /\ FileOf(job, w)
        /\ header.color = job.color /\ header.depth = Depth(job)
        /\ Came(g, fed, w, h, faults)
    BY JobsAssumption, WrittenIs DEF Underway
  <1>3. /\ parse.plte \in Nat \cup {None} /\ parse.trns \in Nat \cup {None} /\ parse.idats \in Nat
        /\ FlagsFrom(parse, fed) /\ fed \in Seq(Chunks)
    BY DEF ReadersInv, IInv, TypeOK, ParseState
  <1>4. Len(fed) \in Nat /\ DOMAIN fed = 1 .. Len(fed)
    BY <1>3, LenProperties
  <1>5. \A e \in faults : w[e[1]].type \in Ancillary
    BY DEF Type
  <1>6. job.color \in Colors /\ None = -1 /\ job.entries \in 0 .. 256 /\ job.alphas \in 0 .. 256
    BY <1>2 DEF Job, None
  <1> HIDE DEF w, h
  <1>7. \A i \in 1 .. Len(fed) :
           /\ g[i] \in 1 .. Len(w) /\ Says(job, w[g[i]])
           /\ fed[i].type = w[g[i]].type /\ fed[i].n = w[g[i]].n
           /\ fed[i].ok <=> <<g[i], "damaged">> \notin faults
    <2> TAKE i \in 1 .. Len(fed)
    <2>1. FileOf(job, w) /\ Came(g, fed, w, h, faults)
      BY <1>2
    <2> QED
      BY <2>1, CameAsWritten
  <1>8. ASSUME NEW type \in Critical, Has(w, type) PROVE At(fed, type) # {}
    <2>1. PICK k \in 1 .. Len(w) : w[k].type = type
      BY <1>8 DEF Has
    <2>2. \A e \in faults : e[1] # k
      BY <1>5, <2>1 DEF Critical, Ancillary
    <2>3. PICK i \in 1 .. Len(fed) : fed[i].type = w[k].type
      BY <1>1, <1>2, <2>1, <2>2, UntouchedCame
    <2> QED
      BY <1>4, <2>1, <2>3 DEF At
  <1>9. parse.idats > 0
    BY <1>1, <1>2, <1>8 DEF FileOf, FlagsSay, Critical
  <1>10. parse.plte # None => job.color = "indexed" /\ parse.plte = 3 * job.entries
    BY <1>3, <1>7 DEF FlagsFrom, Says
  <1>11. parse.trns # None => job.color = "indexed" /\ parse.trns = job.alphas
    BY <1>3, <1>7 DEF FlagsFrom, Says
  <1>12. PlteFits
    <2>1. CASE job.color # "indexed"
      <3>1. parse.plte = None /\ header.color # "indexed"
        BY <1>2, <1>10, <2>1
      <3> QED
        BY <3>1 DEF PlteFits
    <2>2. CASE job.color = "indexed"
      <3>1. job.entries >= 1 /\ job.alphas <= job.entries
        BY <1>2, <2>2, JobsAssumption
      <3>2. parse.plte # None
        BY <1>1, <1>2, <1>8, <2>2 DEF FileOf, FlagsSay, Critical
      <3>3. parse.plte = 3 * job.entries
        BY <1>10, <3>2
      <3>4. /\ parse.plte % 3 = 0 /\ Entries = job.entries /\ Entries \in 1 .. 256
            /\ Entries <= 2 ^ header.depth
        BY <1>2, <2>2, <3>1, <3>3, PaletteFits DEF Entries
      <3>5. parse.trns <= Entries
        <4>1. parse.trns = None \/ parse.trns = job.alphas
          BY <1>11
        <4> QED
          BY <1>6, <3>1, <3>4, <4>1
      <3>6. header.color = "indexed"
        BY <1>2, <2>2
      <3> QED
        BY <3>2, <3>4, <3>5, <3>6 DEF PlteFits
    <2> QED
      BY <2>1, <2>2
  <1>13. TrnsFits
    <2>1. CASE header.color # "indexed"
      <3>1. parse.trns = None
        BY <1>2, <1>11, <2>1
      <3> QED
        BY <2>1, <3>1 DEF TrnsFits
    <2>2. CASE header.color = "indexed"
      BY <2>2 DEF TrnsFits
    <2> QED
      BY <2>1, <2>2
  <1> QED
    BY <1>1, <1>9, <1>12, <1>13 DEF Decoded, Parsed

\* A file of which no critical chunk was touched keeps the metadata that the medium left
\* untouched; a file not touched at all, all of it.
LEMMA ThenKept ==
    ASSUME ReadersInv, NEW g, NEW o, NEW f, NEW dearest, Underway(g, o, f, dearest),
           ~Open, ~cut, \A e \in faults : Type(e[1]) \in Ancillary,
           NEW k \in DOMAIN Written(job), Survives(k), NEW m, m = Collect(parse.anc)
    PROVE  /\ Type(k) = "eXIf" => m.exif = job.exif
           /\ Type(k) = "iCCP" => m.icc = job.icc
           /\ Type(k) = "iXMP" => m.xmp = job.xmp
           /\ Type(k) = "zTXt" => \E i \in DOMAIN m.texts : m.texts[i] = Written(job)[k].n
  <1> DEFINE w == Written(job)
             h == Passed
  <1>1. parse.at = "done" /\ h = Len(w)
    BY ReadToItsEnd
  <1>2. /\ job \in Job /\ FileOf(job, w) /\ Came(g, fed, w, h, faults)
        /\ Accounts(m, job, fed, Cardinality(faults), TextsBy(o, h, Len(job.texts)), f, dearest)
    BY <1>1, JobsAssumption, WrittenIs DEF Underway
  <1>3. w \in Seq(AnyChunks) /\ DOMAIN w = 1 .. Len(w)
    BY <1>2, LenProperties DEF FileOf, Block
  <1>4. \A e \in faults : e[1] # k
    BY DEF Survives, Touched
  <1>5. Type(k) = w[k].type
    BY DEF Type
  <1>6. k \in 1 .. h
    BY <1>1, <1>3
  <1> HIDE DEF w, h
  <1>7. PICK i \in 1 .. Len(fed) : fed[i].type = w[k].type /\ fed[i].n = w[k].n /\ fed[i].ok
    BY <1>2, <1>4, <1>6, UntouchedCame
  <1>8. Gathers(m, job, fed)
    BY <1>2 DEF Accounts
  <1>9. /\ fed[i].type = "eXIf" => m.exif = job.exif
        /\ fed[i].type = "iCCP" => m.icc = job.icc
        /\ fed[i].type = "iXMP" => m.xmp = job.xmp
        /\ fed[i].type = "zTXt" => \E l \in 1 .. Len(m.texts) : m.texts[l] = fed[i].n
    BY <1>7, <1>8 DEF Gathers
  <1>10. DOMAIN m.texts = 1 .. Len(m.texts)
    BY <1>8, LenProperties DEF Gathers, Metadata
  <1> QED
    BY <1>5, <1>7, <1>9, <1>10 DEF w

LEMMA ThenWhole ==
    ASSUME ReadersInv, NEW g, NEW o, NEW f, NEW dearest, Underway(g, o, f, dearest),
           ~Open, ~cut, faults = {}, NEW m, m = Collect(parse.anc)
    PROVE  Recovered(m) = Expected(job)
  <1> DEFINE w == Written(job)
             h == Passed
             n == Len(job.texts)
  <1>1. parse.at = "done" /\ h = Len(w)
    BY ReadToItsEnd
  <1>2. /\ job \in Job /\ FileOf(job, w)
        /\ o \in Nat /\ TextsAt(w, o, job.texts)
        /\ Accounts(m, job, fed, 0, TextsBy(o, h, n), f, dearest)
    BY <1>1, JobsAssumption, WrittenIs, FS_EmptySet DEF Underway
  <1>3. w \in Seq(AnyChunks) /\ DOMAIN w = 1 .. Len(w) /\ Len(w) \in Nat /\ Len(w) >= 1
    BY <1>2, LenProperties, FileEnds DEF FileOf, Block
  <1>4. ASSUME NEW type, Has(w, type)
        PROVE  /\ type = "eXIf" => m.exif = job.exif
               /\ type = "iCCP" => m.icc = job.icc
               /\ type = "iXMP" => m.xmp = job.xmp
    <2>1. PICK k \in DOMAIN w : w[k].type = type
      BY <1>3, <1>4 DEF Has
    <2>2. Survives(k) /\ Type(k) = type
      BY <2>1 DEF Survives, Touched, Type
    <2> QED
      BY <2>1, <2>2, ThenKept
  <1>5. Gathers(m, job, fed)
    BY <1>2 DEF Accounts
  <1> HIDE DEF w, h
  <1>6. m.exif = job.exif /\ m.icc = job.icc /\ m.xmp = job.xmp
    BY <1>2, <1>4, <1>5 DEF Gathers, FileOf
  <1>7. n \in Nat /\ job.texts \in Seq(Nat)
    <2>1. job.texts \in Seq(Nat \ {0})
      BY <1>2 DEF Job
    <2> QED
      BY <2>1, LenProperties, SeqDef
  <1>8. TextsBy(o, h, n) = n
    <2>1. CASE n = 0
      BY <1>2, <1>1, <1>3, <2>1 DEF TextsBy
    <2>2. CASE n >= 1
      <3>1. PICK k \in 1 .. Len(w) : w[k].type = "zTXt"
        BY <1>2, <2>2 DEF FileOf, Has
      <3>2. k - o \in 1 .. n
        BY <1>2, <3>1 DEF TextsAt
      <3>3. Len(w) \in 1 .. Len(w) /\ w[Len(w)].type = "IEND"
        <4>1. PICK l \in 1 .. Len(w) : w[l].type = "IEND"
          BY <1>2 DEF FileOf, Has
        <4> QED
          BY <1>2, <1>3, <4>1, FileEnds
      <3>4. ~(Len(w) - o \in 1 .. n)
        BY <1>2, <3>3 DEF TextsAt
      <3> QED
        BY <1>1, <1>2, <1>3, <1>7, <3>2, <3>4 DEF TextsBy
    <2> QED
      BY <1>7, <2>1, <2>2
  <1>9. Len(m.texts) = n /\ \A i \in 1 .. n : m.texts[i] = job.texts[i]
    BY <1>2, <1>8 DEF Accounts
  <1>10. m.texts = job.texts
    <2>1. m.texts \in Seq(Nat)
      BY <1>5 DEF Gathers, Metadata
    <2> QED
      BY <1>7, <1>9, <2>1, SeqEqual
  <1> QED
    BY <1>6, <1>10 DEF Recovered, Expected

\* The inductive invariant of a file on its way holds in every state, for every encode,
\* every other writer, every number of faults and every budget with room for them.
THEOREM FileInvariant == FileSpec => []FileInv
  <1>1. FileInit => FileInv
    BY AtFirst
  <1>2. FileInv /\ [FileNext]_filevars => FileInv'
    BY FileStepPreserves
  <1> QED
    BY <1>1, <1>2, PTL DEF FileSpec

\* What write_png wrote, untouched by the medium, decode and metadata() both read: the
\* pixels, and exactly the metadata that the encoder was given.
THEOREM FilesComeBack == FileSpec => []RoundTrip
  <1>1. ASSUME FileInv PROVE RoundTrip
    <2> SUFFICES ASSUME Over, Encoded, faults = {}, ~cut
                 PROVE  /\ Decoded
                        /\ Recovered(Collect(parse.anc)) = Expected(job)
                        /\ walk.at = "done" /\ Recovered(Collect(walk.anc)) = Expected(job)
      BY DEF RoundTrip
    <2>1. ReadersInv /\ ~Open
      BY <1>1 DEF FileInv, Over
    <2>2. PICK g, o, f, dearest : Underway(g, o, f, dearest)
      BY <1>1, EncoderAssumption DEF FileInv, Foreign, Encoded
    <2>3. \A e \in faults : Type(e[1]) \in Ancillary
      OBVIOUS
    <2>4. Decoded
      BY <2>1, <2>2, <2>3, ThenDecoded
    <2>5. Recovered(Collect(parse.anc)) = Expected(job)
      BY <2>1, <2>2, ThenWhole
    <2>6. parse.at = "done"
      BY <2>4 DEF Decoded, Parsed
    <2>7. walk.at = "done" /\ Collect(walk.anc) = Collect(parse.anc)
      BY <2>1, <2>6 DEF ReadersInv, IInv, WalkFollows
    <2> QED
      BY <2>4, <2>5, <2>7
  <1> QED
    BY <1>1, FileInvariant, PTL

\* However the medium touches a file, decode gives up no pixels for faults beside them,
\* keeps the metadata that was not touched, and shows no pixels that damage hit; and both
\* readers refuse a file cut short.
THEOREM FaultsStayWhereTheyAre == FileSpec => []FaultsAreHandled
  <1>1. ASSUME FileInv PROVE AncillaryFaultsAreContained
    <2> SUFFICES ASSUME Over, Encoded, ~cut, \A f \in faults : Type(f[1]) \in Ancillary
                 PROVE  /\ Decoded
                        /\ LET m == Collect(parse.anc) IN
                           \A k \in DOMAIN Written(job) : Survives(k) =>
                              /\ Type(k) = "eXIf" => m.exif = job.exif
                              /\ Type(k) = "iCCP" => m.icc = job.icc
                              /\ Type(k) = "iXMP" => m.xmp = job.xmp
                              /\ Type(k) = "zTXt" =>
                                    \E i \in DOMAIN m.texts : m.texts[i] = Written(job)[k].n
      BY DEF AncillaryFaultsAreContained
    <2>1. ReadersInv /\ ~Open
      BY <1>1 DEF FileInv, Over
    <2>2. PICK g, o, f, dearest : Underway(g, o, f, dearest)
      BY <1>1, EncoderAssumption DEF FileInv, Foreign, Encoded
    <2>3. Decoded
      BY <2>1, <2>2, ThenDecoded
    <2> DEFINE m == Collect(parse.anc)
    <2>4. ASSUME NEW k \in DOMAIN Written(job), Survives(k)
          PROVE  /\ Type(k) = "eXIf" => m.exif = job.exif
                 /\ Type(k) = "iCCP" => m.icc = job.icc
                 /\ Type(k) = "iXMP" => m.xmp = job.xmp
                 /\ Type(k) = "zTXt" =>
                       \E i \in DOMAIN m.texts : m.texts[i] = Written(job)[k].n
      BY <2>1, <2>2, <2>4, ThenKept
    <2> QED
      BY <2>3, <2>4
  <1>2. ASSUME FileInv, Over PROVE cut => parse.at = "refused" /\ walk.at = "refused"
    BY <1>2 DEF FileInv, ReadersInv, CutRefuses
  <1>3. ASSUME FileInv, NEW e \in faults, e[2] = "damaged", Type(e[1]) \in Critical
        PROVE  ~Decoded
    <2>1. PICK g, o, f, dearest : Underway(g, o, f, dearest)
      BY <1>3 DEF FileInv, Foreign
    <2> DEFINE w == Written(job)
               h == Passed
               k == e[1]
    <2>2. /\ FileOf(job, w) /\ Faults(faults, w, h) /\ Came(g, fed, w, h, faults)
      BY <2>1, JobsAssumption, WrittenIs DEF Underway
    <2>3. /\ e = <<k, "damaged">> /\ k \in 1 .. Len(w)
          /\ k <= h \/ e = <<h + 1, "repeated">>
          /\ \A x \in faults : x[1] = k => x = e
      BY <1>3, <2>2 DEF Faults
    <2>4. h \in Nat /\ Len(w) \in Nat
      BY <2>1, <2>2, FileEnds DEF Underway
    <2>5. Type(k) = w[k].type
      BY DEF Type
    <2> HIDE DEF w, h, k
    <2>6. k \in 1 .. h /\ <<k, "lost">> \notin faults /\ <<k, "damaged">> \in faults
      <3>1. <<k, "lost">>[1] = k /\ <<k, "lost">> # <<k, "damaged">>
        OBVIOUS
      <3>2. e # <<h + 1, "repeated">>
        BY <2>3
      <3> QED
        BY <1>3, <2>3, <2>4, <3>1, <3>2
    <2>7. PICK i \in 1 .. Len(fed) : g[i] = k
      BY <2>2, <2>6 DEF Came
    <2>8. /\ fed[i].type = w[g[i]].type /\ fed[i].n = w[g[i]].n
          /\ fed[i].ok <=> <<g[i], "damaged">> \notin faults
      BY <2>2, CameAsWritten
    <2>9. i \in DOMAIN fed
      <3>1. fed \in Seq(Chunks)
        BY <1>3 DEF FileInv, ReadersInv, IInv, TypeOK
      <3> QED
        BY <3>1, LenProperties
    <2>10. ~InOrder(fed)
      BY <1>3, <2>5, <2>6, <2>7, <2>8, <2>9 DEF InOrder, k
    <2> QED
      BY <1>3, <2>10 DEF FileInv, ReadersInv, IInv, ParseIsExact, Decoded, Parsed
  <1>4. FileInv => FaultsAreHandled
    BY <1>1, <1>2, <1>3 DEF FaultsAreHandled, DamageIsNoticed
  <1> QED
    BY <1>4, FileInvariant, PTL

\* A file on its way is one of the streams that the readers of PngReader are about: every
\* step of the medium, and of another writer, is a step of theirs or none.
THEOREM FileIsAStream == FileSpec => Spec
  <1>1. FileInit => Init
    BY DEF FileInit
  <1>2. ASSUME FileInv, [FileNext]_filevars PROVE [Next]_vars
    <2>1. CASE Stray
      <3>1. PICK c \in source.chunks : Feed(c)
        BY <2>1 DEF Stray
      <3>2. source # Encoder
        BY <3>1 DEF Encoder
      <3>3. source \in Sources
        BY <1>2, <3>2 DEF FileInv, Underway, Foreign
      <3>4. c \in Chunks
        BY <3>1, <3>3, SourcesAssumption
      <3> QED
        BY <3>1, <3>4 DEF Next
    <2>2. ASSUME left # <<>>
          PROVE  Head(left) \in Chunks /\ [Head(left) EXCEPT !.ok = FALSE] \in Chunks
      <3>1. PICK g, o, f, dearest : Underway(g, o, f, dearest)
        BY <1>2, <2>2 DEF FileInv, Foreign
      <3> QED
        BY <2>2, <3>1, NextChunk
    <2>3. CASE Deliver \/ Repeat
      <3>1. left # <<>> /\ Feed(Head(left))
        BY <2>3 DEF Deliver, Repeat
      <3> QED
        BY <2>2, <3>1 DEF Next
    <2>4. CASE Damage
      <3>1. left # <<>> /\ Feed([Head(left) EXCEPT !.ok = FALSE])
        BY <2>4 DEF Damage
      <3> QED
        BY <2>2, <3>1 DEF Next
    <2>5. CASE Lose
      BY <2>5 DEF Lose
    <2>6. CASE Cut
      BY <2>6 DEF Cut, Next
    <2>7. CASE UNCHANGED filevars
      BY <2>7 DEF filevars
    <2> QED
      BY <1>2, <2>1, <2>3, <2>4, <2>5, <2>6, <2>7 DEF FileNext
  <1> QED
    BY <1>1, <1>2, FileInvariant, PTL DEF FileSpec, Spec

\* So whatever the medium does to it, both readers agree on it and keep to the budget.
THEOREM FilesAreReadAlike ==
    FileSpec => [](ParsesExactlyWellFormed /\ MetadataMatchesDecode /\ BudgetHolds)
  BY FileIsAStream, DecodeAcceptsTheGrammar, MetadataAgrees, BudgetIsKept, PTL
==================================================================================
