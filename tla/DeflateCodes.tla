------------------------------- MODULE DeflateCodes -------------------------------
(******************************************************************************)
(* The entropy layer of gamut-deflate: the symbol tables (symbols.rs), the      *)
(* length-limited Huffman codes (huffman.rs), and the stored, fixed and dynamic  *)
(* blocks (block.rs, dynamic.rs); and, for reference, the reader of RFC 1951.    *)
(*                                                                            *)
(* A body is a sequence of bits.  The writer is LSB-first and the codes are      *)
(* reversed before they are written, so integers go into the stream lowest bit   *)
(* first and codes highest bit first.                                          *)
(******************************************************************************)
EXTENDS Integers, Sequences, SequencesExt, FiniteSets, FiniteSetsExt, Functions

CONSTANTS
    OctetBits,       \* bits of a byte (source: 8)
    LenBits,        \* bits of LEN, a multiple of OctetBits (source: 16)
    LengthBase, LengthExtra,    \* LENGTH_BASE and LENGTH_EXTRA
    DistBase, DistExtra,        \* DIST_BASE and DIST_EXTRA
    FixedRows,      \* fixed_litlen: rows of [from, to, code, len]
    MaxCodeLen,     \* MAX_CODE_LEN (source: 15)
    MaxClLen,       \* limit of the code-length code (source: 7)
    ClOrder,        \* CL_ORDER
    RepPrev, RepZero, RepLong,  \* symbols 16, 17, 18: [base, bits]
    MaxSplitDepth, MinSplitTokens, SplitCandidates   \* the splitter's limits

Octet == 0 .. 2 ^ OctetBits - 1
EndOfBlock == 2 ^ OctetBits
NumLitlen == EndOfBlock + 1 + Len(LengthBase)
NumDist == Len(DistBase)
NumCl == Len(ClOrder)

ASSUME CodesAssumption ==
    /\ LenBits % OctetBits = 0
    /\ Len(LengthExtra) = Len(LengthBase) /\ Len(DistExtra) = NumDist
    /\ NumLitlen <= 2 ^ MaxCodeLen /\ NumDist <= 2 ^ MaxCodeLen /\ NumCl <= 2 ^ MaxClLen
    /\ NumCl = MaxCodeLen + 4

\* A token is a literal or a reference to dist bytes back.
Literal(b) == [byte |-> b, len |-> 1, dist |-> 0]
Reference(len, dist) == [byte |-> 0, len |-> len, dist |-> dist]
IsLiteral(t) == t.dist = 0

\* The numbers of a set, ascending.
InOrder(S) == SelectSeq([k \in 1 .. Max(S \cup {0}) + 1 |-> k - 1], LAMBDA n : n \in S)

----------------------------------------------------------------------------
\* Symbol tables.

\* The last row whose base is not above the value, and what is left over it.
TableRow(base, extra, value) ==
    LET k == Max({j \in DOMAIN base : base[j] <= value})
    IN  [sym |-> k - 1, bits |-> extra[k], val |-> value - base[k]]
LengthCode(len) ==
    LET c == TableRow(LengthBase, LengthExtra, len)
    IN  [c EXCEPT !.sym = EndOfBlock + 1 + @]
DistanceCode(dist) == TableRow(DistBase, DistExtra, dist)

LitlenSymbol(t) == IF IsLiteral(t) THEN t.byte ELSE LengthCode(t.len).sym

----------------------------------------------------------------------------
\* Huffman codes.

\* One construction: the two lightest trees, the older first, become one until one
\* is left; the depth of a symbol counts the merges above it.
Depths(hist, floor) ==
    LET used == InOrder({s \in DOMAIN hist : hist[s] > 0})
        Leaf(k) == [w |-> Max({hist[used[k]], floor}), idx |-> k, syms |-> {used[k]}]
        Lightest(trees) ==
            CHOOSE t \in trees : \A u \in trees :
                t.w < u.w \/ (t.w = u.w /\ t.idx <= u.idx)
        Join(st, both, idx) ==
            LET syms == UNION {t.syms : t \in both}
            IN  [trees |-> (st.trees \ both) \cup {[w |-> MapThenSumSet(LAMBDA t : t.w, both), idx |-> idx, syms |-> syms]},
                 depth |-> [s \in DOMAIN hist |-> st.depth[s] + (IF s \in syms THEN 1 ELSE 0)]]
        LightestTwo(trees) == LET a == Lightest(trees) IN {a, Lightest(trees \ {a})}
        Merge(st, idx) == Join(st, LightestTwo(st.trees), idx)
        n == Len(used)
    IN  FoldLeft(Merge, [trees |-> {Leaf(k) : k \in 1 .. n}, depth |-> [s \in DOMAIN hist |-> 0]],
                 [k \in 1 .. n - 1 |-> n + k]).depth

\* build_lengths: the floor under the counts is doubled until the tree fits.
BuildLengths(hist, limit) ==
    LET used == {s \in DOMAIN hist : hist[s] > 0}
        Try[k \in Nat] ==
            LET OrDeeper(depth) == IF \A s \in used : depth[s] <= limit THEN depth ELSE Try[k + 1]
            IN  OrDeeper(Depths(hist, 2 ^ k))
    IN  IF Cardinality(used) <= 1
        THEN [s \in DOMAIN hist |-> IF s \in used THEN 1 ELSE 0]
        ELSE Try[0]

\* The canonical code of a symbol: what the codes before it, shorter or of the same
\* length, have taken (canonical_codes).
CodeOf(lengths, sym) ==
    LET n == lengths[sym]
        before == {s \in DOMAIN lengths :
                      lengths[s] > 0 /\ (lengths[s] < n \/ (lengths[s] = n /\ s < sym))}
    IN  MapThenSumSet(LAMBDA s : 2 ^ (n - lengths[s]), before)

HighFirst(value, n) == [i \in 1 .. n |-> (value \div 2 ^ (n - i)) % 2]
LowFirst(value, n) == [i \in 1 .. n |-> (value \div 2 ^ (i - 1)) % 2]
Emit(lengths, sym) == HighFirst(CodeOf(lengths, sym), lengths[sym])

----------------------------------------------------------------------------
\* Stored and fixed blocks.
Header(final, type) == <<IF final THEN 1 ELSE 0>> \o LowFirst(type, 2)
Aligned(bits) == bits \o [i \in 1 .. (OctetBits - (Len(bits) % OctetBits)) % OctetBits |-> 0]

MaxStored == 2 ^ LenBits - 1
StoredBlock(chunk, final) ==
    Aligned(Header(final, 0)) \o LowFirst(Len(chunk), LenBits)
        \o LowFirst(MaxStored - Len(chunk), LenBits)
        \o FlattenSeq([i \in DOMAIN chunk |-> LowFirst(chunk[i], OctetBits)])
Stored(data) ==
    LET count == IF data = <<>> THEN 1 ELSE (Len(data) + MaxStored - 1) \div MaxStored
        Chunk(k) == SubSeq(data, (k - 1) * MaxStored + 1, Min({k * MaxStored, Len(data)}))
    IN  FlattenSeq([k \in 1 .. count |-> StoredBlock(Chunk(k), k = count)])

FixedLitlen(sym) ==
    LET row == CHOOSE r \in Range(FixedRows) : sym \in r.from .. r.to
    IN  HighFirst(row.code + sym - row.from, row.len)
FixedDistance(sym) == HighFirst(sym, 5)

\* A token under two codes, its extra bits after each symbol.
TokenBits(t, Litlen(_), Distance(_)) ==
    IF IsLiteral(t) THEN Litlen(t.byte)
    ELSE LET l == LengthCode(t.len)
             d == DistanceCode(t.dist)
         IN  Litlen(l.sym) \o LowFirst(l.val, l.bits) \o Distance(d.sym) \o LowFirst(d.val, d.bits)

Fixed(tokens) ==
    Aligned(Header(TRUE, 1)
            \o FlattenSeq([k \in DOMAIN tokens |-> TokenBits(tokens[k], FixedLitlen, FixedDistance)])
            \o FixedLitlen(EndOfBlock))

----------------------------------------------------------------------------
\* Dynamic blocks.

\* ensure_two: one more symbol, or two, so that the code is complete.
EnsureTwo(hist) ==
    LET used == {s \in DOMAIN hist : hist[s] > 0}
        added == CASE used = {} -> {0, 1}
                   [] Cardinality(used) = 1 -> IF used = {0} THEN {1} ELSE {0}
                   [] OTHER -> {}
    IN  [s \in DOMAIN hist |-> IF s \in added THEN 1 ELSE hist[s]]

Histogram(syms, n) ==
    [s \in 0 .. n - 1 |-> Cardinality({k \in DOMAIN syms : syms[k] = s})]
LitlenHistogram(tokens) ==
    Histogram([k \in DOMAIN tokens |-> LitlenSymbol(tokens[k])] \o <<EndOfBlock>>, NumLitlen)
DistHistogram(tokens) ==
    LET refs == SelectSeq(tokens, LAMBDA t : ~IsLiteral(t))
    IN  Histogram([k \in DOMAIN refs |-> DistanceCode(refs[k].dist).sym], NumDist)

\* trimmed_len: up to the last symbol in use, at least so many.
TrimmedLen(lengths, least) ==
    Max({least} \cup {s + 1 : s \in {u \in DOMAIN lengths : lengths[u] > 0}})

\* Code lengths as runs, a run as items: a repeat takes as much as it can.
Item(sym, rep, n) == [sym |-> sym, bits |-> rep.bits, val |-> n - rep.base]
MostOf(rep) == rep.base + 2 ^ rep.bits - 1
Plain(value) == [sym |-> value, bits |-> 0, val |-> 0]
Prev == MaxCodeLen + 1
Zero == MaxCodeLen + 2
Long == MaxCodeLen + 3

ZeroRun[n \in Nat] ==
    LET Take(sym, rep) ==
            LET count == Min({n, MostOf(rep)})
            IN  <<Item(sym, rep, count)>> \o ZeroRun[n - count]
    IN  IF n >= RepLong.base THEN Take(Long, RepLong)
        ELSE IF n >= RepZero.base THEN Take(Zero, RepZero)
        ELSE [i \in 1 .. n |-> Plain(0)]
ValueRepeats[v \in Nat, n \in Nat] ==
    IF n < RepPrev.base THEN [i \in 1 .. n |-> Plain(v)]
    ELSE LET count == Min({n, MostOf(RepPrev)})
         IN  <<Item(Prev, RepPrev, count)>> \o ValueRepeats[v, n - count]
\* Mutant: the first of a run of zeros is written, then repeated like any value.
RunItemsAlike(v, n) == <<Plain(v)>> \o ValueRepeats[v, n]
RunItems(v, n) == IF v = 0 THEN ZeroRun[n] ELSE <<Plain(v)>> \o ValueRepeats[v, n - 1]

Rle(lengths) ==
    LET starts == {i \in DOMAIN lengths : i = 1 \/ lengths[i] # lengths[i - 1]}
        RunFrom(i) == Min({j \in DOMAIN lengths : j > i /\ j \in starts} \cup {Len(lengths) + 1}) - i
        order == InOrder(starts)
    IN  FlattenSeq([k \in DOMAIN order |-> RunItems(lengths[order[k]], RunFrom(order[k]))])

CodeLengths(hist) == BuildLengths(EnsureTwo(hist), MaxCodeLen)
\* build: the two codes up to their last symbols, both as items, and the code of the items.
HeaderOf(b, items) ==
    LET cl == BuildLengths(Histogram([k \in DOMAIN items |-> items[k].sym], NumCl), MaxClLen)
    IN  b @@ [items |-> items, cl |-> cl, hclen |-> Max({4} \cup {k \in 1 .. NumCl : cl[ClOrder[k]] > 0})]
Described(litlen, dist) ==
    LET hlit == TrimmedLen(litlen, EndOfBlock + 1)
        hdist == TrimmedLen(dist, 1)
    IN  HeaderOf([litlen |-> litlen, dist |-> dist, hlit |-> hlit, hdist |-> hdist],
                 Rle([i \in 1 .. hlit |-> litlen[i - 1]] \o [i \in 1 .. hdist |-> dist[i - 1]]))
Build(tokens) == Described(CodeLengths(LitlenHistogram(tokens)), CodeLengths(DistHistogram(tokens)))

BlockBits(b, tokens, final) ==
    Header(final, 2)
        \o LowFirst(b.hlit - (EndOfBlock + 1), 5) \o LowFirst(b.hdist - 1, 5) \o LowFirst(b.hclen - 4, 4)
        \o FlattenSeq([k \in 1 .. b.hclen |-> LowFirst(b.cl[ClOrder[k]], 3)])
        \o FlattenSeq([k \in DOMAIN b.items |->
               Emit(b.cl, b.items[k].sym) \o LowFirst(b.items[k].val, b.items[k].bits)])
        \o FlattenSeq([k \in DOMAIN tokens |->
               TokenBits(tokens[k], LAMBDA s : Emit(b.litlen, s), LAMBDA s : Emit(b.dist, s))])
        \o Emit(b.litlen, EndOfBlock)

\* block_bits, the price of a block without writing it.
TokenPrice(t, litlen, dist) ==
    IF IsLiteral(t) THEN litlen[t.byte]
    ELSE LET l == LengthCode(t.len)
             d == DistanceCode(t.dist)
         IN  litlen[l.sym] + l.bits + dist[d.sym] + d.bits
Sum(values) ==
    LET Upto[k \in 0 .. Len(values)] == IF k = 0 THEN 0 ELSE Upto[k - 1] + values[k]
    IN  Upto[Len(values)]
BlockPrice(b, tokens) ==
    3 + 14 + 3 * b.hclen
        + Sum([k \in DOMAIN b.items |-> b.cl[b.items[k].sym] + b.items[k].bits])
        + Sum([k \in DOMAIN tokens |-> TokenPrice(tokens[k], b.litlen, b.dist)])
        + b.litlen[EndOfBlock]
Cost(tokens) == BlockPrice(Build(tokens), tokens)

\* recurse, one segment: the points, probed at a stride, where two blocks cost less
\* than one, and the first of the best of them.
CheaperCuts(tokens, part) ==
    LET size == part.to - part.from
        stride == Max({size \div SplitCandidates, MinSplitTokens})
        Within(from, to) == Cost(SubSeq(tokens, from + 1, to))
        cuts == {[at |-> j, cost |-> Within(part.from, j) + Within(j, part.to)] :
                    j \in {j \in part.from + 1 .. part.to - 1 : (j - part.from) % stride = 0}}
    IN  IF part.depth = 0 \/ size < 2 * MinSplitTokens THEN {}
        ELSE {c \in cuts : c.cost < Within(part.from, part.to)}
Cheapest(cuts) ==
    CHOOSE s \in cuts : \A t \in cuts : s.cost < t.cost \/ (s.cost = t.cost /\ s.at <= t.at)

DynamicBody(tokens) == Aligned(BlockBits(Build(tokens), tokens, TRUE))
Blocks(tokens, points) ==
    LET last == Len(points) - 1
        Block(k) == LET seg == SubSeq(tokens, points[k] + 1, points[k + 1])
                    IN  BlockBits(Build(seg), seg, k = last)
    IN  FlattenSeq([k \in 1 .. last |-> Block(k)])
MultiBody(tokens, cuts) ==
    IF tokens = <<>> THEN DynamicBody(tokens)
    ELSE Aligned(Blocks(tokens, InOrder({0, Len(tokens)} \cup cuts)))

----------------------------------------------------------------------------
\* What a reader of RFC 1951 makes of a body (the C zlib of the tests, miniz_oxide in
\* the decoders): it ends with the final block and is refused for what the RFC forbids.
NumberAt(bits, at, n) == FoldLeft(LAMBDA v, i : v + bits[at + i] * 2 ^ (i - 1), 0, [i \in 1 .. n |-> i])

\* The symbol at a bit, by counting the codes of each length.
NextSymbol(bits, at, lengths) ==
    LET Count(n) == Cardinality({s \in DOMAIN lengths : lengths[s] = n})
        FirstOf(n) == FoldLeft(LAMBDA f, m : 2 * (f + Count(m)), 0, [m \in 1 .. n - 1 |-> m])
        Value(n) == FoldLeft(LAMBDA v, i : 2 * v + bits[at + i], 0, [i \in 1 .. n |-> i])
        Named(n) == [sym |-> InOrder({s \in DOMAIN lengths : lengths[s] = n})[Value(n) - FirstOf(n) + 1],
                     bits |-> n]
        hits == {n \in 1 .. MaxCodeLen : /\ at + n <= Len(bits)
                                         /\ Value(n) - FirstOf(n) \in 0 .. Count(n) - 1}
    IN  IF hits = {} THEN [sym |-> -1, bits |-> 0] ELSE Named(Min(hits))

\* Codes must be complete; of the two codes of a block, one may have a single symbol.
IsComplete(lengths) ==
    MapThenSumSet(LAMBDA s : 2 ^ (MaxCodeLen - lengths[s]),
                  {s \in DOMAIN lengths : lengths[s] > 0}) = 2 ^ MaxCodeLen
IsUsable(lengths) ==
    LET used == {s \in DOMAIN lengths : lengths[s] > 0}
    IN  IsComplete(lengths) \/ (Cardinality(used) = 1 /\ \A s \in used : lengths[s] = 1)

FixedLengths ==
    LET last == Max({FixedRows[k].to : k \in DOMAIN FixedRows})
    IN  [s \in 0 .. last |-> (CHOOSE r \in Range(FixedRows) : s \in r.from .. r.to).len]

Broken(s) == [s EXCEPT !.mode = "bad"]
OpenStored(bits, s, final) ==
    LET at == s.at + 3 + ((OctetBits - ((s.at + 3) % OctetBits)) % OctetBits)
        n == NumberAt(bits, at, LenBits)
        from == at + 2 * LenBits
        Cell(i) == NumberAt(bits, from + (i - 1) * OctetBits, OctetBits)
    IN  IF NumberAt(bits, at + LenBits, LenBits) # MaxStored - n THEN Broken(s)
        ELSE [s EXCEPT !.at = from + n * OctetBits, !.out = @ \o [i \in 1 .. n |-> Cell(i)],
                       !.mode = IF final THEN "end" ELSE "header"]
OpenFixed(s, final) ==
    [s EXCEPT !.at = @ + 3, !.mode = "symbols", !.final = final, !.litlen = FixedLengths,
              !.dist = [d \in 0 .. NumDist - 1 |-> 5]]
OpenDynamic(bits, s, final) ==
    LET hclen == NumberAt(bits, s.at + 13, 4) + 4
        Given(sym) == {k \in 1 .. hclen : ClOrder[k] = sym}
        cl == [sym \in 0 .. NumCl - 1 |->
                  IF Given(sym) = {} THEN 0 ELSE NumberAt(bits, s.at + 17 + 3 * (Min(Given(sym)) - 1), 3)]
    IN  [s EXCEPT !.at = @ + 17 + 3 * hclen, !.mode = IF IsComplete(cl) THEN "lengths" ELSE "bad", !.final = final,
                  !.cl = cl, !.lens = <<>>,
                  !.counts = <<NumberAt(bits, s.at + 3, 5) + EndOfBlock + 1, NumberAt(bits, s.at + 8, 5) + 1>>]

\* A code length, or a repeat of one.
TakeLength(bits, s, c) ==
    LET rep == CASE c.sym = Prev -> RepPrev [] c.sym = Zero -> RepZero [] c.sym = Long -> RepLong
                 [] OTHER -> [base |-> 1, bits |-> 0]
        value == CASE c.sym = Prev -> Last(s.lens) [] c.sym \in {Zero, Long} -> 0 [] OTHER -> c.sym
        n == rep.base + NumberAt(bits, s.at + c.bits, rep.bits)
    IN  IF c.sym = -1 \/ (c.sym = Prev /\ s.lens = <<>>) THEN Broken(s)
        ELSE [s EXCEPT !.at = @ + c.bits + rep.bits, !.lens = @ \o [i \in 1 .. n |-> value]]
CloseHeader(s) ==
    LET hlit == s.counts[1]
        litlen == [sym \in 0 .. hlit - 1 |-> s.lens[sym + 1]]
        dist == [sym \in 0 .. s.counts[2] - 1 |-> s.lens[hlit + sym + 1]]
    IN  IF Len(s.lens) = hlit + s.counts[2] /\ IsUsable(litlen) /\ IsUsable(dist)
        THEN [s EXCEPT !.mode = "symbols", !.litlen = litlen, !.dist = dist]
        ELSE Broken(s)
ReadLength(bits, s) ==
    IF Len(s.lens) < s.counts[1] + s.counts[2] THEN TakeLength(bits, s, NextSymbol(bits, s.at, s.cl))
    ELSE CloseHeader(s)

OpenBlock(bits, s) ==
    LET final == bits[s.at + 1] = 1
        type == NumberAt(bits, s.at + 1, 2)
    IN  CASE type = 0 -> OpenStored(bits, s, final)
          [] type = 1 -> OpenFixed(s, final)
          [] type = 2 -> OpenDynamic(bits, s, final)
          [] OTHER -> Broken(s)

\* A reference: its distance follows at a bit, and it copies what is behind.
TakeReference(bits, s, len, at, d) ==
    LET dist == DistBase[d.sym + 1] + NumberAt(bits, at + d.bits, DistExtra[d.sym + 1])
        copied == FoldLeft(LAMBDA out, i : Append(out, out[Len(out) + 1 - dist]), s.out,
                           [i \in 1 .. len |-> i])
    IN  IF d.sym = -1 \/ dist > Len(s.out) THEN Broken(s)
        ELSE [s EXCEPT !.at = at + d.bits + DistExtra[d.sym + 1], !.out = copied]
TakeSymbol(bits, s, l) ==
    LET k == l.sym - EndOfBlock
        at == s.at + l.bits
    IN  IF l.sym = -1 THEN Broken(s)
        ELSE IF k < 0 THEN [s EXCEPT !.at = at, !.out = Append(@, l.sym)]
        ELSE IF k = 0 THEN [s EXCEPT !.at = at, !.mode = IF s.final THEN "end" ELSE "header"]
        ELSE TakeReference(bits, s, LengthBase[k] + NumberAt(bits, at, LengthExtra[k]), at + LengthExtra[k],
                           NextSymbol(bits, at + LengthExtra[k], s.dist))
ReadCode(bits, s) == TakeSymbol(bits, s, NextSymbol(bits, s.at, s.litlen))

\* The reader at the start of a body, its next step, and a body read to its end, with
\* nothing left but the rest of a byte.
ReaderStart == [at |-> 0, out |-> <<>>, mode |-> "header", final |-> FALSE,
                cl |-> <<>>, lens |-> <<>>, counts |-> <<0, 0>>, litlen |-> <<>>, dist |-> <<>>]
ReaderStep(bits, s) ==
    CASE s.mode = "header" -> OpenBlock(bits, s)
      [] s.mode = "lengths" -> ReadLength(bits, s)
      [] s.mode = "symbols" -> ReadCode(bits, s)
IsReading(s) == s.mode \in {"header", "lengths", "symbols"}
HasRead(bits, s, data) == s.mode = "end" /\ s.out = data /\ Len(bits) - s.at < OctetBits
==================================================================================
