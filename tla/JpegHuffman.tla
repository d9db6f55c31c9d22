---------------------------- MODULE JpegHuffman ----------------------------
(***************************************************************************)
(* Huffman tables of the JPEG codec: the wire pair (BITS, HUFFVAL), the    *)
(* canonical codes an encoder writes, the MINCODE/MAXCODE/VALPTR arrays a  *)
(* decoder walks, and the two-pass table optimiser of Annex K.2; and the   *)
(* bit layer the codes are written in.                                     *)
(*                                                                         *)
(* A table is [bits |-> [1..MaxLen -> Nat], values |-> Seq(symbol)].  A    *)
(* byte has W bits; entropy data is a sequence of numbers in which a byte  *)
(* of all ones is followed by 0 (a stuffed byte) or by a marker code, a    *)
(* number above every byte: the eight (here Modulus) restart codes first,  *)
(* then the marker of the next segment.  The module also holds the sizes   *)
(* and the arithmetic the coder and the decoder share.                     *)
(***************************************************************************)
EXTENDS Integers, SequencesExt, FiniteSetsExt

CONSTANTS MaxLen,      \* longest code, 16 in the code
          W,           \* bits of a byte, 8 in the code
          Modulus,     \* restart markers are counted modulo this, 8 in the code
          Nib,         \* base of a run/size symbol, 16 in the code
          LastK,       \* last zig-zag position of a block, 63 in the code
          B            \* side of a block in samples, 8 in the code

ASSUME MaxLenAssumption == MaxLen \in Nat \ {0}
ASSUME BitsAssumption == {W, Modulus, Nib, LastK, B} \subseteq Nat \ {0}

RECURSIVE SumUpTo(_, _)
SumUpTo(f, n) == IF n = 0 THEN 0 ELSE f[n] + SumUpTo(f, n - 1)

(* The first canonical code of a length: the running value, doubled when   *)
(* the length grows.                                                       *)
RECURSIVE FirstCode(_, _)
FirstCode(bits, n) ==
  IF n = 1 THEN 0 ELSE 2 * (FirstCode(bits, n - 1) + bits[n - 1])

LenOf(bits, k) == CHOOSE n \in 1..MaxLen : /\ SumUpTo(bits, n - 1) < k
                                           /\ k <= SumUpTo(bits, n)

(* EncTable::from_bits_values: symbol -> (code, length), HUFFVAL order.    *)
EncTable(t) ==
  [s \in {t.values[k] : k \in DOMAIN t.values} |->
     LET k == CHOOSE i \in DOMAIN t.values : t.values[i] = s
         n == LenOf(t.bits, k)
     IN  [code |-> FirstCode(t.bits, n) + k - 1 - SumUpTo(t.bits, n - 1),
          len  |-> n]]

(* DecTable::from_bits: refuses only an over-subscribed code space; an     *)
(* incomplete table and one that uses the all-ones code are accepted.      *)
Overfull(bits) ==
  SumUpTo([n \in 1..MaxLen |-> bits[n] * 2^(MaxLen - n)], MaxLen) > 2^MaxLen

DecTable(t) ==
  [mincode |-> [n \in 1..MaxLen |-> FirstCode(t.bits, n)],
   maxcode |-> [n \in 1..MaxLen |-> IF t.bits[n] = 0 THEN -1
                                    ELSE FirstCode(t.bits, n) + t.bits[n] - 1],
   valptr  |-> [n \in 1..MaxLen |-> SumUpTo(t.bits, n - 1)],
   values  |-> t.values]

-----------------------------------------------------------------------------
(* build_optimal_table.  The live symbols in ascending order are nodes     *)
(* 1..n, the reserved pseudo-symbol is node n + 1 with frequency 1.        *)

RECURSIVE Ascending(_)
Ascending(S) == IF S = {} THEN << >> ELSE <<Min(S)>> \o Ascending(S \ {Min(S)})

(* The least frequent live node, the larger node on a tie.                 *)
LeastFrequent(S, w) ==
  CHOOSE i \in S : \A j \in S : w[i] < w[j] \/ (w[i] = w[j] /\ j <= i)

(* Merges the two least frequent subtrees until one is left; every leaf of *)
(* both gets one level deeper.                                             *)
RECURSIVE CodeSizes(_, _, _, _)
CodeSizes(live, w, leaves, size) ==
  IF Cardinality(live) = 1 THEN size
  ELSE LET c1 == LeastFrequent(live, w)
           c2 == LeastFrequent(live \ {c1}, w)
           both == leaves[c1] \cup leaves[c2]
       IN  CodeSizes(live \ {c2},
                     [w EXCEPT ![c1] = @ + w[c2]],
                     [leaves EXCEPT ![c1] = both],
                     [i \in DOMAIN size |-> IF i \in both THEN size[i] + 1
                                            ELSE size[i]])

(* Figure K.3: pairs of too long codes move under a shorter prefix.        *)
RECURSIVE LimitLengths(_, _)
LimitLengths(bits, i) ==
  IF i <= MaxLen THEN bits
  ELSE IF bits[i] = 0 THEN LimitLengths(bits, i - 1)
  ELSE LET j == CHOOSE n \in 1..(i - 2) :
                  /\ bits[n] > 0
                  /\ \A m \in (n + 1)..(i - 2) : bits[m] = 0
           less == [bits EXCEPT ![i] = @ - 2]
           one  == [less EXCEPT ![i - 1] = @ + 1]
           lent == [one EXCEPT ![j + 1] = @ + 2]
       IN  LimitLengths([lent EXCEPT ![j] = @ - 1], i)

(* The longest length in use gives up the slot the pseudo-symbol holds.    *)
\* Mutant: the pseudo-symbol keeps its slot.
KeepReserved(bits) == [n \in 1..MaxLen |-> bits[n]]
DropReserved(bits) ==
  LET used == {n \in 1..MaxLen : bits[n] > 0}
      top  == CHOOSE n \in used : \A m \in used : m <= n
  IN  [n \in 1..MaxLen |-> IF n = top THEN bits[n] - 1 ELSE bits[n]]

OptimalTable(freq) ==
  LET syms  == Ascending({s \in DOMAIN freq : freq[s] > 0})
      n     == Len(syms)
      nodes == 1..(n + 1)
      size  == CodeSizes(nodes,
                         [i \in nodes |-> IF i <= n THEN freq[syms[i]] ELSE 1],
                         [i \in nodes |-> {i}],
                         [i \in nodes |-> 0])
      top   == IF n + 1 > MaxLen THEN n + 1 ELSE MaxLen
      count == [l \in 1..top |-> Cardinality({i \in nodes : size[i] = l})]
      RECURSIVE InOrder(_)
      InOrder(l) == IF l > top THEN << >>
                    ELSE [k \in 1..Cardinality({i \in 1..n : size[i] = l}) |->
                            syms[Ascending({i \in 1..n : size[i] = l})[k]]]
                         \o InOrder(l + 1)
  IN  IF n = 0 THEN [bits |-> [l \in 1..MaxLen |-> 0], values |-> << >>]
      ELSE [bits |-> DropReserved(LimitLengths(count, top)),
            values |-> InOrder(1)]

-----------------------------------------------------------------------------
(* What a table must satisfy before a scan may be coded with it.           *)

CodeBits(e) == [i \in 1..e.len |-> (e.code \div 2^(e.len - i)) % 2]

PrefixFree(t) ==
  LET enc == EncTable(t)
  IN  \A a, b \in DOMAIN enc :
        (a # b /\ enc[a].len <= enc[b].len) =>
          enc[b].code \div 2^(enc[b].len - enc[a].len) # enc[a].code

AllOnesIsFree(t) ==
  LET enc == EncTable(t)
  IN  \A s \in DOMAIN enc : enc[s].code # 2^enc[s].len - 1

-----------------------------------------------------------------------------
Abs(v) == IF v < 0 THEN -v ELSE v
CeilDiv(a, b) == (a + b - 1) \div b
Hmax(comps) == Max({comps[i].h : i \in DOMAIN comps})
Vmax(comps) == Max({comps[i].v : i \in DOMAIN comps})

FF == 2^W - 1
Rst(m) == FF + 1 + m
IsRst(code) == code \in {Rst(m) : m \in 0..(Modulus - 1)}
OtherMarker == FF + 1 + Modulus

-----------------------------------------------------------------------------
(* Writing: bits are gathered MSB first, the last byte padded with ones.   *)

BitsOf(v, n) == [i \in 1..n |-> (v \div 2^(n - i)) % 2]

RECURSIVE ValueOf(_)
ValueOf(bits) == IF bits = << >> THEN 0
                 ELSE 2 * ValueOf(SubSeq(bits, 1, Len(bits) - 1)) + bits[Len(bits)]

Emit(byte) == IF byte = FF THEN <<FF, 0>> ELSE <<byte>>

RECURSIVE Flush(_)
Flush(bits) ==
  IF bits = << >> THEN << >>
  ELSE LET n    == IF Len(bits) < W THEN Len(bits) ELSE W
           byte == SubSeq(bits, 1, n) \o [i \in 1..(W - n) |-> 1]
       IN  Emit(ValueOf(byte)) \o Flush(SubSeq(bits, n + 1, Len(bits)))

-----------------------------------------------------------------------------
(* Reading.  "marker" is the code the reader is parked on, or None; "buf"  *)
(* the fetched bits not yet consumed; "v" the value of the last read.      *)

None == -1

Reader(data) ==
  [d |-> data, pos |-> 1, buf |-> << >>, marker |-> None, moff |-> 1,
   ok |-> TRUE, v |-> 0]

ByteAt(r, i) == IF i <= Len(r.d) THEN r.d[i] ELSE None

(* The reader after a fetch, and what it got: a byte, a marker or the end. *)
RECURSIVE Fetch(_)
Fetch(r) ==
  LET b    == ByteAt(r, r.pos)
      next == ByteAt(r, r.pos + 1)
  IN  IF r.marker # None THEN [got |-> "Marker", r |-> r]
      ELSE IF b = None \/ (b = FF /\ next = None) THEN [got |-> "Eof", r |-> r]
      ELSE IF b # FF
        THEN [got |-> "Data", byte |-> b, r |-> [r EXCEPT !.pos = @ + 1]]
      ELSE IF next = 0
        THEN [got |-> "Data", byte |-> FF, r |-> [r EXCEPT !.pos = @ + 2]]
      ELSE IF next = FF THEN Fetch([r EXCEPT !.pos = @ + 1])
      ELSE [got |-> "Marker",
            r |-> [r EXCEPT !.marker = next, !.moff = r.pos]]

Fail(r) == [r EXCEPT !.ok = FALSE]

(* Before a marker the reader goes on with one bits.                       *)
Buffered(f) ==
  IF f.got = "Eof" THEN Fail(f.r)
  ELSE [f.r EXCEPT !.buf = @ \o BitsOf(IF f.got = "Data" THEN f.byte ELSE FF, W)]

RECURSIVE Ensure(_, _)
Ensure(r, n) ==
  IF ~r.ok \/ Len(r.buf) >= n THEN r ELSE Ensure(Buffered(Fetch(r)), n)

Taken(e, n) ==
  IF ~e.ok THEN e
  ELSE [e EXCEPT !.v = ValueOf(SubSeq(e.buf, 1, n)),
                 !.buf = SubSeq(@, n + 1, Len(@))]
ReadBits(r, n) == Taken(Ensure(r, n), n)

ReadBit(r) == ReadBits(r, 1)

(* Whether only padding is left before a marker that is not a restart.     *)
AtDataEnd(r) ==
  LET fill == CHOOSE n \in 0..Len(r.d) :
                /\ \A i \in 0..(n - 1) : ByteAt(r, r.pos + i) = FF
                /\ ByteAt(r, r.pos + n) # FF
      m    == ByteAt(r, r.pos + fill)
  IN  \/ r.marker # None
      \/ /\ Len(r.buf) < W
         /\ \A i \in DOMAIN r.buf : r.buf[i] = 1
         /\ fill > 0
         /\ m \notin {None, 0}
         /\ ~IsRst(m)

(* Drops the pending bits and every byte before the next marker.           *)
RECURSIVE ToMarker(_)
ToMarker(r) ==
  LET f == Fetch([r EXCEPT !.buf = << >>])
  IN  CASE f.got = "Data" -> ToMarker(f.r)
        [] f.got = "Marker" -> f.r
        [] f.got = "Eof" -> Fail(f.r)

Consume(m, codes) ==
  IF m.ok /\ m.marker \in codes
    THEN [m EXCEPT !.pos = m.moff + 2, !.marker = None]
    ELSE Fail(m)
TakeRestart(r, expected) == Consume(ToMarker(r), {Rst(expected)})

EndMarker(r) == ToMarker(r)
=============================================================================
