---------------------------- MODULE JpegEncoder ----------------------------
(***************************************************************************)
(* The JPEG writer from quantised coefficients to segments: the baseline   *)
(* and the progressive entropy coders, the two-pass Huffman tables, restart*)
(* intervals and the frame layout.                                         *)
(*                                                                         *)
(* An image is [x, y, comps]; a component [id, h, v, tq, dest, coef] with  *)
(* coef a function from block positions of the padded grid to blocks, and  *)
(* a block a function from zig-zag positions 0..LastK to integers.         *)
(***************************************************************************)
EXTENDS JpegHuffman, FiniteSetsExt

CONSTANTS Split,      \* last position of the low band, 5 in the code
          StdTables   \* the fixed tables: [{"dc", "ac"} -> table]

-----------------------------------------------------------------------------
(* Tokens: Huffman symbols of a table, and raw bits.                       *)

Sym(class, dest, s) == [c |-> class, d |-> dest, v |-> s, n |-> 0]
Raw(v, n) == [c |-> "raw", d |-> 0, v |-> v, n |-> n]

Magnitude(v) == CHOOSE n \in 0..(2 * Nib) :
                  Abs(v) < 2^n /\ (n = 0 \/ 2^(n - 1) <= Abs(v))
AdditionalBits(v, n) == (IF v < 0 THEN v - 1 ELSE v) % 2^n

Zrl(dest) == Sym("ac", dest, (Nib - 1) * Nib)
Eob(dest) == Sym("ac", dest, 0)

DcTokens(diff, dest) ==
  LET n == Magnitude(diff)
  IN  <<Sym("dc", dest, n), Raw(AdditionalBits(diff, n), n)>>

(* Run and size of every nonzero coefficient of a band.                    *)
CodedRuns(q, lo, hi, dest) ==
  LET nz == Ascending({k \in lo..hi : q[k] # 0})
      At(i) == LET run == nz[i] - (IF i = 1 THEN lo ELSE nz[i - 1] + 1)
                   n   == Magnitude(q[nz[i]])
               IN  [j \in 1..(run \div Nib) |-> Zrl(dest)]
                   \o <<Sym("ac", dest, (run % Nib) * Nib + n),
                        Raw(AdditionalBits(q[nz[i]], n), n)>>
  IN  FlattenSeq([i \in DOMAIN nz |-> At(i)])

EncodeQuantizedBlock(q, pred, dest) ==
  DcTokens(q[0] - pred, dest) \o CodedRuns(q, 1, LastK, dest)
  \o (IF q[LastK] = 0 THEN <<Eob(dest)>> ELSE << >>)

-----------------------------------------------------------------------------
(* The progressive coder c = [out, run, pend, pred]: tokens, the pending   *)
(* end-of-band run, the correction bits riding behind it, DC predictors.   *)

MaxEobRun == 2^(Nib - 1) - 1

Put(c, toks) == [c EXCEPT !.out = @ \o toks]
RawBits(bits) == [i \in DOMAIN bits |-> Raw(bits[i], 1)]

FlushEobrun(c) ==
  IF c.run = 0 THEN c
  ELSE LET n == CHOOSE i \in 0..Nib : 2^i <= c.run /\ c.run < 2^(i + 1)
       IN  [Put(c, <<Sym("ac", 0, n * Nib), Raw(c.run % 2^n, n)>>
                   \o RawBits(c.pend))
            EXCEPT !.run = 0, !.pend = << >>]

\* Mutant: the run is forced out one block too late.
BumpEobrunLate(c) ==
  LET more == [c EXCEPT !.run = @ + 1]
  IN  IF more.run > MaxEobRun THEN FlushEobrun(more) ELSE more
BumpEobrun(c) ==
  LET more == [c EXCEPT !.run = @ + 1]
  IN  IF more.run = MaxEobRun THEN FlushEobrun(more) ELSE more

DcFirst(c, dc, al, si) ==
  LET t == dc \div 2^al
  IN  [Put(c, DcTokens(t - c.pred[si], 0)) EXCEPT !.pred[si] = t]

DcRefine(c, dc, al) == Put(c, <<Raw((dc \div 2^al) % 2, 1)>>)

TowardZero(v, al) == IF v < 0 THEN -((-v) \div 2^al) ELSE v \div 2^al

AcFirst(c, q, s) ==
  LET t     == [k \in s.ss..s.se |-> TowardZero(q[k], s.al)]
      coded == CodedRuns(t, s.ss, s.se, 0)
      done  == IF coded = << >> THEN c ELSE Put(FlushEobrun(c), coded)
  IN  IF t[s.se] = 0 THEN BumpEobrun(done) ELSE done

(* Refinement: b = [c, run, br], the coder, the run of zero-history        *)
(* coefficients and the correction bits of this block not yet written.     *)
(* Runs of Nib or more are written out, the first taking those bits.       *)
EarnedZrls(b) ==
  IF b.run < Nib THEN b
  ELSE [c |-> Put(FlushEobrun(b.c),
                  <<Zrl(0)>> \o RawBits(b.br)
                  \o [j \in 1..(b.run \div Nib - 1) |-> Zrl(0)]),
        run |-> b.run % Nib, br |-> << >>]

NewlySignificant(b, v) ==
  [c |-> Put(FlushEobrun(b.c),
             <<Sym("ac", 0, b.run * Nib + 1), Raw(IF v > 0 THEN 1 ELSE 0, 1)>>
             \o RawBits(b.br)),
   run |-> 0, br |-> << >>]

RefineEnd(b) ==
  IF b.run > 0 \/ b.br # << >> THEN BumpEobrun([b.c EXCEPT !.pend = @ \o b.br])
  ELSE b.c

(* Zero runs are written out only where a new coefficient follows.         *)
AcRefine(c, q, s) ==
  LET abs(i) == Abs(q[i]) \div 2^s.al
      beforeEob(k) == \E e \in k..s.se : abs(e) = 1
      Step(b, k) ==
        IF abs(k) = 0 THEN [b EXCEPT !.run = @ + 1]
        ELSE IF abs(k) = 1 THEN NewlySignificant(EarnedZrls(b), q[k])
        ELSE [(IF beforeEob(k) THEN EarnedZrls(b) ELSE b)
              EXCEPT !.br = Append(@, abs(k) % 2)]
  IN  RefineEnd(FoldLeft(Step, [c |-> c, run |-> 0, br |-> << >>],
                         [i \in 1..(s.se - s.ss + 1) |-> s.ss + i - 1]))

-----------------------------------------------------------------------------
(* Scans.  s = [comps, ss, se, ah, al, prog], comps indices of components. *)

Scan(comps, ss, se, ah, al) ==
  [comps |-> comps, ss |-> ss, se |-> se, ah |-> ah, al |-> al, prog |-> TRUE]

ScanScript(n) ==
  IF n = 1
  THEN <<Scan(<<1>>, 0, 0, 0, 1), Scan(<<1>>, 1, Split, 0, 2),
         Scan(<<1>>, Split + 1, LastK, 0, 2), Scan(<<1>>, 1, LastK, 2, 1),
         Scan(<<1>>, 0, 0, 1, 0), Scan(<<1>>, 1, LastK, 1, 0)>>
  ELSE <<Scan(<<1, 2, 3>>, 0, 0, 0, 1), Scan(<<1>>, 1, Split, 0, 2),
         Scan(<<3>>, 1, LastK, 0, 1), Scan(<<2>>, 1, LastK, 0, 1),
         Scan(<<1>>, Split + 1, LastK, 0, 2), Scan(<<1>>, 1, LastK, 2, 1),
         Scan(<<1, 2, 3>>, 0, 0, 1, 0), Scan(<<3>>, 1, LastK, 1, 0),
         Scan(<<2>>, 1, LastK, 1, 0), Scan(<<1>>, 1, LastK, 1, 0)>>

BaselineScan(n) == [comps |-> [i \in 1..n |-> i], ss |-> 0, se |-> LastK,
                    ah |-> 0, al |-> 0, prog |-> FALSE]

BlocksWide(img, c) == CeilDiv(CeilDiv(img.x * c.h, Hmax(img.comps)), B)
BlocksHigh(img, c) == CeilDiv(CeilDiv(img.y * c.v, Vmax(img.comps)), B)

(* The blocks of every MCU, in coding order: <<scan index, component, x, y>>. *)
ScanMcus(img, s) ==
  LET one   == img.comps[s.comps[1]]
      inter == ~s.prog \/ Len(s.comps) > 1
      wide  == IF inter THEN CeilDiv(img.x, B * Hmax(img.comps))
               ELSE BlocksWide(img, one)
      high  == IF inter THEN CeilDiv(img.y, B * Vmax(img.comps))
               ELSE BlocksHigh(img, one)
      Part(si, mx, my) ==
        LET c == img.comps[s.comps[si]]
        IN  [i \in 1..(c.h * c.v) |->
               <<si, s.comps[si], mx * c.h + ((i - 1) % c.h),
                 my * c.v + ((i - 1) \div c.h)>>]
      Mcu(mx, my) ==
        IF inter THEN FlattenSeq([si \in DOMAIN s.comps |-> Part(si, mx, my)])
        ELSE <<<<1, s.comps[1], mx, my>>>>
  IN  [i \in 1..(wide * high) |-> Mcu((i - 1) % wide, (i - 1) \div wide)]

EncodeUnit(c, img, s, u) ==
  LET comp == img.comps[u[2]]
      q    == comp.coef[<<u[3], u[4]>>]
  IN  IF ~s.prog
        THEN [Put(c, EncodeQuantizedBlock(q, c.pred[u[1]], comp.dest))
              EXCEPT !.pred[u[1]] = q[0]]
      ELSE IF s.ss = 0
        THEN IF s.ah = 0 THEN DcFirst(c, q[0], s.al, u[1])
                         ELSE DcRefine(c, q[0], s.al)
      ELSE IF s.ah = 0 THEN AcFirst(c, q, s) ELSE AcRefine(c, q, s)

(* The tokens of every restart interval: nothing crosses its boundary.     *)
RunScan(img, s, restart) ==
  LET mcus == ScanMcus(img, s)
      size == IF restart = 0 THEN Len(mcus) ELSE restart
      Units(i) == FlattenSeq(SubSeq(mcus, size * (i - 1) + 1,
                                    IF size * i < Len(mcus) THEN size * i
                                    ELSE Len(mcus)))
      start == [out |-> << >>, run |-> 0, pend |-> << >>,
                pred |-> [si \in DOMAIN s.comps |-> 0]]
      Coded(c, u) == EncodeUnit(c, img, s, u)
  IN  [i \in 1..CeilDiv(Len(mcus), size) |->
         FlushEobrun(FoldLeft(Coded, start, Units(i))).out]

-----------------------------------------------------------------------------
(* The gather pass, the tables it leads to, and the emit pass.             *)

Histogram(intervals, class, dest) ==
  LET toks == FlattenSeq(intervals)
      Uses(s) == {i \in DOMAIN toks : toks[i] = Sym(class, dest, s)}
  IN  [s \in {toks[i].v : i \in {j \in DOMAIN toks :
                                   toks[j].c = class /\ toks[j].d = dest}}
         |-> Cardinality(Uses(s))]

(* Tables in emission order: luma DC and AC, then chroma; unused ones are  *)
(* left out.                                                               *)
OptimizedTables(intervals) ==
  LET slots == <<<<"dc", 0>>, <<"ac", 0>>, <<"dc", 1>>, <<"ac", 1>>>>
      Used(x) == DOMAIN Histogram(intervals, x[1], x[2]) # {}
      used  == SelectSeq(slots, Used)
  IN  [i \in DOMAIN used |->
         [class |-> used[i][1], dest |-> used[i][2],
          t |-> OptimalTable(Histogram(intervals, used[i][1], used[i][2]))]]

StandardTables(color) ==
  LET at(d) == <<[class |-> "dc", dest |-> d, t |-> StdTables["dc"]],
                 [class |-> "ac", dest |-> d, t |-> StdTables["ac"]]>>
  IN  at(0) \o (IF color THEN at(1) ELSE << >>)

EmitInterval(toks, tables) ==
  LET enc == [x \in {<<tables[i].class, tables[i].dest>> : i \in DOMAIN tables}
                |-> EncTable((CHOOSE i \in {tables[j] : j \in DOMAIN tables} :
                                <<i.class, i.dest>> = x).t)]
      Bits(k) == IF k.c = "raw" THEN BitsOf(k.v, k.n)
                 ELSE CodeBits(enc[<<k.c, k.d>>][k.v])
  IN  Flush(FlattenSeq([i \in DOMAIN toks |-> Bits(toks[i])]))

(* The entropy data: intervals, each but the last ended by a restart       *)
(* marker counted modulo Modulus.                                          *)
EmitScan(intervals, tables) ==
  [i \in DOMAIN intervals |->
     [bytes |-> EmitInterval(intervals[i], tables),
      rst   |-> IF i = Len(intervals) THEN None ELSE Rst((i - 1) % Modulus)]]

-----------------------------------------------------------------------------
(* Segments.  "opt" holds the encoder's settings.                          *)

Dqt(img) == [m |-> "DQT", tables |-> [i \in {c.tq : c \in
               {img.comps[j] : j \in DOMAIN img.comps}} |-> 0]]
Sof(img, opt) ==
  [m |-> IF opt.prog THEN "SOF2" ELSE "SOF0", x |-> img.x, y |-> img.y,
   comps |-> [i \in DOMAIN img.comps |->
                [id |-> img.comps[i].id, h |-> img.comps[i].h,
                 v |-> img.comps[i].v, tq |-> img.comps[i].tq]]]
Dht(tables) == [m |-> "DHT", tables |-> tables]
Dri(restart) == IF restart = 0 THEN << >> ELSE <<[m |-> "DRI", ri |-> restart]>>
Sos(img, s, ecs) ==
  [m |-> "SOS", ss |-> s.ss, se |-> s.se, ah |-> s.ah, al |-> s.al, ecs |-> ecs,
   comps |-> [i \in DOMAIN s.comps |->
                [cs |-> img.comps[s.comps[i]].id,
                 dest |-> IF s.prog THEN 0 ELSE img.comps[s.comps[i]].dest]]]

(* EXIF, XMP, then the ICC profile in chunks that name their place.        *)
MetaSegments(meta) ==
  (IF meta.exif = None THEN << >> ELSE <<[m |-> "APP1", exif |-> meta.exif]>>)
  \o [i \in DOMAIN meta.icc |->
        [m |-> "APP2", idx |-> i, cnt |-> Len(meta.icc), data |-> meta.icc[i]]]

WritePrologue(img, opt) ==
  <<[m |-> "SOI"],
    IF opt.mode = "xyb" THEN [m |-> "APP14", transform |-> 0]
                        ELSE [m |-> "APP0"]>>
  \o MetaSegments(opt.meta) \o <<Dqt(img)>>

WriteBaselineFrame(img, opt) ==
  LET s    == BaselineScan(Len(img.comps))
      toks == RunScan(img, s, opt.restart)
      tabs == IF opt.optimize THEN OptimizedTables(toks)
              ELSE StandardTables(Len(img.comps) > 1)
  IN  <<Sof(img, opt), Dht(tabs)>> \o Dri(opt.restart)
      \o <<Sos(img, s, EmitScan(toks, tabs))>>

EncodeOneScan(img, s, restart) ==
  LET toks == RunScan(img, s, restart)
      tabs == OptimizedTables(toks)
  IN  (IF s.ss = 0 /\ s.ah # 0 THEN << >> ELSE <<Dht(tabs)>>)
      \o <<Sos(img, s, EmitScan(toks, tabs))>>

WriteProgressiveFrame(img, opt) ==
  LET script == ScanScript(Len(img.comps))
  IN  <<Sof(img, opt)>> \o Dri(opt.restart)
      \o FlattenSeq([i \in DOMAIN script |->
                       EncodeOneScan(img, script[i], opt.restart)])

EncodeImage(img, opt) ==
  WritePrologue(img, opt)
  \o (IF opt.prog THEN WriteProgressiveFrame(img, opt)
      ELSE WriteBaselineFrame(img, opt))
  \o <<[m |-> "EOI"]>>
=============================================================================
