----------------------------- MODULE JpegScan -----------------------------
(***************************************************************************)
(* The scan decoders: sequential scans, which may have to find their own   *)
(* number of rows, and progressive scans, which accumulate coefficients    *)
(* band by band and bit by bit.  The inverse transform is left out: a      *)
(* plane is its blocks of quantised coefficients.                          *)
(*                                                                         *)
(* A frame is [x, y, prog, comps], a scan header [comps, ss, se, ah, al]   *)
(* whose comps hold [ci, td, ta]; T holds the tables in force.             *)
(***************************************************************************)
EXTENDS JpegHuffman, TLC

CONSTANT MaxDcCat      \* largest DC magnitude category, 11 in the code

ZeroBlock == [k \in 0..LastK |-> 0]

Extend(v, t) == IF v < 2^(t - 1) THEN v - 2^t + 1 ELSE v

(* A code is followed bit by bit until it is one of its length's.          *)
RECURSIVE MatchCode(_, _, _, _)
Matched(t, b, code, n) ==
  IF ~b.ok THEN b
  ELSE IF code <= t.maxcode[n]
    THEN LET i == t.valptr[n] + code - t.mincode[n] + 1
         IN  IF i \in DOMAIN t.values THEN [b EXCEPT !.v = t.values[i]]
             ELSE Fail(b)
  ELSE IF n = MaxLen THEN Fail(b)
  ELSE MatchCode(t, b, code, n + 1)
WithBit(t, b, code, n) == Matched(t, b, 2 * code + b.v, n)
MatchCode(t, r, code, n) == WithBit(t, ReadBit(r), code, n)

DecodeSymbol(t, r) == MatchCode(t, r, 0, 1)

(* The appended bits of a magnitude category, as a signed value.           *)
Signed(b, size) ==
  IF size = 0 \/ ~b.ok THEN b ELSE [b EXCEPT !.v = Extend(@, size)]
Receive(r, size) == Signed(ReadBits(r, size), size)

Diff(d) == IF ~d.ok THEN d
           ELSE IF d.v > MaxDcCat THEN Fail(d) ELSE Receive(d, d.v)
ReadDiff(t, r) == Diff(DecodeSymbol(t, r))

Run(d)  == d.v \div Nib
Size(d) == d.v % Nib
IsZrl(d) == Size(d) = 0 /\ Run(d) = Nib - 1

(* The run/size symbols of a sequential block from position k on.          *)
RECURSIVE DecodeAc(_, _, _, _)
AcValue(b, q, k, ac) == DecodeAc(b, [q EXCEPT ![k] = b.v], k + 1, ac)
AcSymbol(d, q, k, ac) ==
  IF IsZrl(d) /\ d.ok THEN DecodeAc(d, q, k + Nib, ac)
  ELSE IF ~d.ok \/ Size(d) = 0 THEN [r |-> d, q |-> q]
  ELSE IF k + Run(d) > LastK THEN [r |-> Fail(d), q |-> q]
  ELSE AcValue(Receive(d, Size(d)), q, k + Run(d), ac)
DecodeAc(r, q, k, ac) ==
  IF ~r.ok \/ k > LastK THEN [r |-> r, q |-> q]
  ELSE AcSymbol(DecodeSymbol(ac, r), q, k, ac)

(* Progressive, first pass: a run of whole blocks may cover this one.      *)
EobRun(ext, q, n) == [r |-> ext, q |-> q, run |-> 2^n + ext.v - 1]
RECURSIVE AcFirstFrom(_, _, _, _, _)
AcFirstValue(b, q, k, s, ac) ==
  AcFirstFrom(b, [q EXCEPT ![k] = b.v * 2^s.al], k + 1, s, ac)
AcFirstSymbol(d, q, k, s, ac) ==
  IF ~d.ok THEN [r |-> d, q |-> q, run |-> 0]
  ELSE IF IsZrl(d) THEN AcFirstFrom(d, q, k + Nib, s, ac)
  ELSE IF Size(d) = 0 THEN EobRun(ReadBits(d, Run(d)), q, Run(d))
  ELSE IF k + Run(d) > s.se THEN [r |-> Fail(d), q |-> q, run |-> 0]
  ELSE AcFirstValue(Receive(d, Size(d)), q, k + Run(d), s, ac)
AcFirstFrom(r, q, k, s, ac) ==
  IF ~r.ok \/ k > s.se THEN [r |-> r, q |-> q, run |-> 0]
  ELSE AcFirstSymbol(DecodeSymbol(ac, r), q, k, s, ac)

DecodeAcFirst(r, q, run, s, ac) ==
  IF run > 0 THEN [r |-> r, q |-> q, run |-> run - 1]
  ELSE AcFirstFrom(r, q, s.ss, s, ac)

Refined(c, al) == IF c > 0 THEN c + 2^al ELSE c - 2^al

(* Passes over "run" zero-history positions, one correction bit for every  *)
(* other one, and stops at the next zero-history position or past the band.*)
RECURSIVE Advance(_, _, _, _, _)
Corrected(b, q, k, run, s) ==
  Advance(b, IF b.v = 1 THEN [q EXCEPT ![k] = Refined(@, s.al)] ELSE q,
          k + 1, run, s)
Advance(r, q, k, run, s) ==
  IF \/ ~r.ok
     \/ k > s.se
     \/ q[k] = 0 /\ run = 0
    THEN [r |-> r, q |-> q, k |-> k, run |-> 0]
  ELSE IF q[k] # 0 THEN Corrected(ReadBit(r), q, k, run, s)
  ELSE Advance(r, q, k + 1, run - 1, s)

(* Refinement symbols: an end-of-band run counts this block too.           *)
RECURSIVE RefineFrom(_, _, _, _, _)
RefineEob(ext, q, k, n) == [r |-> ext, q |-> q, k |-> k, run |-> 2^n + ext.v]
RefineZrl(skip, s, ac) == RefineFrom(skip.r, skip.q, skip.k + 1, s, ac)
RefineNew(new, sign, s, ac) ==
  IF ~new.r.ok \/ new.k > s.se THEN [new EXCEPT !.r = Fail(@)]
  ELSE RefineFrom(new.r, [new.q EXCEPT ![new.k] = IF sign = 1 THEN 2^s.al
                                                  ELSE -(2^s.al)],
                  new.k + 1, s, ac)
RefineSigned(sign, q, k, run, s, ac) ==
  RefineNew(Advance(sign, q, k, run, s), sign.v, s, ac)
RefineSymbol(d, q, k, s, ac) ==
  IF ~d.ok \/ Size(d) > 1 THEN [r |-> Fail(d), q |-> q, k |-> k, run |-> 0]
  ELSE IF IsZrl(d) THEN RefineZrl(Advance(d, q, k, Run(d), s), s, ac)
  ELSE IF Size(d) = 0 THEN RefineEob(ReadBits(d, Run(d)), q, k, Run(d))
  ELSE RefineSigned(ReadBit(d), q, k, Run(d), s, ac)
RefineFrom(r, q, k, s, ac) ==
  IF ~r.ok \/ k > s.se THEN [r |-> r, q |-> q, k |-> k, run |-> 0]
  ELSE RefineSymbol(DecodeSymbol(ac, r), q, k, s, ac)

(* The rest of a block an end-of-band run covers is corrections only.      *)
RefineTail(b, s) ==
  IF b.run = 0 THEN b
  ELSE [Advance(b.r, b.q, b.k, LastK + 1, s) EXCEPT !.run = b.run - 1]
DecodeAcRefine(r, q, run, s, ac) ==
  RefineTail(IF run = 0 THEN RefineFrom(r, q, s.ss, s, ac)
             ELSE [r |-> r, q |-> q, k |-> s.ss, run |-> run], s)

-----------------------------------------------------------------------------
(* One block of a scan.  The scan state is [r, pred, run, coef, done, rst].*)

(* Sequential: the block is stored, whether or not it is padding.          *)
Stored(st, b, u, ci) ==
  [st EXCEPT !.r = b.r, !.pred[u[1]] = b.q[0],
             !.coef[ci] = (<<u[3], u[4]>> :> b.q) @@ @]
AfterDiff(st, diff, u, sc, T) ==
  IF ~diff.ok THEN [st EXCEPT !.r = diff]
  ELSE Stored(st, DecodeAc(diff, [ZeroBlock EXCEPT ![0] = st.pred[u[1]] + diff.v],
                           1, T.ac[sc.ta]), u, sc.ci)
DecodeBlock(st, u, s, T) ==
  LET sc == s.comps[u[1]]
  IN  AfterDiff(st, ReadDiff(T.dc[sc.td], st.r), u, sc, T)

(* Progressive: padding blocks are read but not stored.                    *)
ProgDc(st, diff, u, s, ci) ==
  LET at == <<u[3], u[4]>>
      dc == st.pred[u[1]] + diff.v
  IN  IF ~diff.ok THEN [st EXCEPT !.r = diff]
      ELSE [st EXCEPT !.r = diff, !.pred[u[1]] = dc,
              !.coef[ci] = IF at \in DOMAIN @
                           THEN [@ EXCEPT ![at] = [@ EXCEPT ![0] = dc * 2^s.al]]
                           ELSE @]
ProgDcBit(st, bit, u, s, ci) ==
  LET at == <<u[3], u[4]>>
  IN  [st EXCEPT !.r = bit,
         !.coef[ci] =
            IF bit.v = 1 /\ at \in DOMAIN @ /\ (@[at][0] \div 2^s.al) % 2 = 0
            THEN [@ EXCEPT ![at] = [@ EXCEPT ![0] = @ + 2^s.al]]
            ELSE @]
ProgAc(st, b, u, ci) ==
  [st EXCEPT !.r = b.r, !.run = b.run, !.coef[ci][<<u[3], u[4]>>] = b.q]
DecodeProgBlock(st, u, s, T) ==
  LET sc == s.comps[u[1]]
      q  == st.coef[sc.ci][<<u[3], u[4]>>]
  IN  IF s.ss = 0
        THEN IF s.ah = 0
               THEN ProgDc(st, ReadDiff(T.dc[sc.td], st.r), u, s, sc.ci)
               ELSE ProgDcBit(st, ReadBit(st.r), u, s, sc.ci)
      ELSE ProgAc(st, IF s.ah = 0 THEN DecodeAcFirst(st.r, q, st.run, s, T.ac[sc.ta])
                      ELSE DecodeAcRefine(st.r, q, st.run, s, T.ac[sc.ta]), u, sc.ci)

-----------------------------------------------------------------------------
(* The walk over a scan.  g = [inter, wide, high]: interleaved or not, and *)
(* the MCU grid, high = None when the rows are not known.                  *)

Interleaved(s) == Len(s.comps) > 1
CompWide(f, c) == CeilDiv(CeilDiv(f.x * c.h, Hmax(f.comps)), B)
CompHigh(f, c) == CeilDiv(CeilDiv(f.y * c.v, Vmax(f.comps)), B)
Grid(f, s) ==
  LET c == f.comps[s.comps[1].ci]
  IN  [inter |-> Interleaved(s),
       wide |-> IF Interleaved(s) THEN CeilDiv(f.x, B * Hmax(f.comps))
                ELSE CompWide(f, c),
       high |-> IF f.y = 0 THEN None
                ELSE IF Interleaved(s) THEN CeilDiv(f.y, B * Vmax(f.comps))
                ELSE CompHigh(f, c)]

McuUnits(f, s, g, mx, my) ==
  LET Part(si) ==
        LET c == f.comps[s.comps[si].ci]
        IN  [i \in 1..(c.h * c.v) |->
               <<si, s.comps[si].ci, mx * c.h + ((i - 1) % c.h),
                 my * c.v + ((i - 1) \div c.h)>>]
  IN  IF g.inter THEN FlattenSeq([si \in DOMAIN s.comps |-> Part(si)])
      ELSE <<<<1, s.comps[1].ci, mx, my>>>>

\* Mutant: the end-of-band run survives a restart.
AtRestartKeepsRun(st, ri) ==
  IF ri # 0 /\ st.done # 0 /\ st.done % ri = 0
  THEN [st EXCEPT !.r = TakeRestart(@, st.rst), !.rst = (@ + 1) % Modulus,
                  !.pred = [si \in DOMAIN @ |-> 0]]
  ELSE st
AtRestart(st, ri) ==
  IF ri # 0 /\ st.done # 0 /\ st.done % ri = 0
  THEN [st EXCEPT !.r = TakeRestart(@, st.rst), !.rst = (@ + 1) % Modulus,
                  !.pred = [si \in DOMAIN @ |-> 0], !.run = 0]
  ELSE st

DecodeMcu(st, f, s, T, g, mx, my) ==
  LET Unit(acc, u) == IF ~acc.r.ok THEN acc
                      ELSE IF f.prog THEN DecodeProgBlock(acc, u, s, T)
                      ELSE DecodeBlock(acc, u, s, T)
  IN  [FoldLeft(Unit, AtRestart(st, T.ri), McuUnits(f, s, g, mx, my))
         EXCEPT !.done = @ + 1]

(* Rows until the grid is full; without a height, until the data ends or   *)
(* the row limit is reached.                                               *)
RECURSIVE DecodeRows(_, _, _, _, _, _, _)
DecodeRows(st, f, s, T, g, limit, my) ==
  LET Mcu(acc, mx) == IF acc.r.ok THEN DecodeMcu(acc, f, s, T, g, mx, my) ELSE acc
      row == FoldLeft(Mcu, st, [i \in 1..g.wide |-> i - 1])
  IN  IF \/ ~st.r.ok
         \/ g.high # None /\ my >= g.high
         \/ g.high = None /\ AtDataEnd(st.r)
        THEN [st EXCEPT !.rows = my]
      ELSE IF g.high = None /\ limit # None /\ my >= limit
        THEN [st EXCEPT !.r = Fail(@), !.refused = TRUE]
      ELSE DecodeRows(row, f, s, T, g, limit, my + 1)

ScanStart(data, s, coef) ==
  [r |-> Reader(data), pred |-> [si \in DOMAIN s.comps |-> 0], run |-> 0,
   coef |-> coef, done |-> 0, rst |-> 0, rows |-> 0, refused |-> FALSE]

Finished(st) == IF st.r.ok THEN [st EXCEPT !.r = EndMarker(@)] ELSE st

(* decode_scan: every table a component names must be defined.             *)
DecodeScan(data, f, s, T, limit) ==
  LET Cs == {s.comps[i] : i \in DOMAIN s.comps}
      defined == \A c \in Cs : /\ c.td \in DOMAIN T.dc
                               /\ c.ta \in DOMAIN T.ac
                               /\ f.comps[c.ci].tq \in DOMAIN T.quant
      start == ScanStart(data, s, [ci \in {c.ci : c \in Cs} |-> << >>])
  IN  IF defined THEN Finished(DecodeRows(start, f, s, T, Grid(f, s), limit, 0))
      ELSE [start EXCEPT !.r = Fail(@)]

-----------------------------------------------------------------------------
(* Progressive components: [coef, quant, al], al the last bit position     *)
(* coded for every zig-zag position, None before the first.                *)

ProgComp(f, c) ==
  [coef  |-> [at \in (0..(CompWide(f, c) - 1)) \X (0..(CompHigh(f, c) - 1))
                |-> ZeroBlock],
   quant |-> None, al |-> [k \in 0..LastK |-> None]]

HasDc(pc) == pc.al[0] # None
ScanBand(s) == IF s.ss = 0 THEN {0} ELSE s.ss..s.se

\* Mutant: a refinement need not continue where the last pass stopped.
ProgressionAllowsGaps(s, comps) ==
  \A i \in DOMAIN s.comps :
    LET pc == comps[s.comps[i].ci]
    IN  /\ s.ss = 0 \/ HasDc(pc)
        /\ \A k \in ScanBand(s) : (pc.al[k] = None) <=> (s.ah = 0)
ProgressionAllows(s, comps) ==
  \A i \in DOMAIN s.comps :
    LET pc == comps[s.comps[i].ci]
    IN  /\ s.ss = 0 \/ HasDc(pc)
        /\ \A k \in ScanBand(s) : pc.al[k] = IF s.ah = 0 THEN None ELSE s.ah

AfterBand(s, pc) ==
  [pc EXCEPT !.al = [k \in DOMAIN @ |-> IF k \in ScanBand(s) THEN s.al ELSE @[k]]]

(* decode_progressive_scan: latches the quantisation table of a component  *)
(* at its first scan, checks the history, then reads.                      *)
DecodeProgressiveScan(data, f, s, T, comps) ==
  LET Cs == {s.comps[i] : i \in DOMAIN s.comps}
      defined == \A c \in Cs :
                   /\ \/ comps[c.ci].quant # None
                      \/ f.comps[c.ci].tq \in DOMAIN T.quant
                   /\ IF s.ss = 0 THEN c.td \in DOMAIN T.dc
                                  ELSE c.ta \in DOMAIN T.ac
      bound == [ci \in DOMAIN comps |->
                  IF ci \notin {c.ci : c \in Cs} THEN comps[ci]
                  ELSE AfterBand(s, IF comps[ci].quant # None THEN comps[ci]
                                    ELSE [comps[ci] EXCEPT !.quant =
                                            T.quant[f.comps[ci].tq]])]
      start == ScanStart(data, s, [ci \in DOMAIN comps |-> comps[ci].coef])
      After(st) == [r |-> st.r,
                    comps |-> [ci \in DOMAIN comps |->
                                 [bound[ci] EXCEPT !.coef = st.coef[ci]]]]
  IN  IF ~defined \/ ~ProgressionAllows(s, comps)
        THEN [r |-> Fail(Reader(data)), comps |-> comps]
      ELSE After(Finished(DecodeRows(start, f, s, T, Grid(f, s), None, 0)))
=============================================================================
