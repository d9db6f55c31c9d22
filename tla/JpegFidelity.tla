--------------------------- MODULE JpegFidelity ---------------------------
(***************************************************************************)
(* What a JPEG reader owes the image that was written, with and without    *)
(* faults of the medium.                                                   *)
(***************************************************************************)
EXTENDS JpegStream

Received == got \o sent

Accepted == Done /\ dec.st = "ok"
Kinds == {faults[i].k : i \in DOMAIN faults}

RealBlocks(ci) ==
  (0..(BlocksWide(job.img, job.img.comps[ci]) - 1))
  \X (0..(BlocksHigh(job.img, job.img.comps[ci]) - 1))

Decoded(ci) == IF dec.frame.prog THEN dec.comps[ci] ELSE dec.planes[ci]

(* The bit position down to which a coefficient has been coded.            *)
CodedTo(ci, k) == IF dec.frame.prog THEN dec.comps[ci].al[k] ELSE 0

(* A coefficient cut at bit al: DC towards minus infinity, AC towards zero.*)
PointTransform(v, k, al) ==
  IF al = None THEN 0
  ELSE IF k = 0 THEN (v \div 2^al) * 2^al
  ELSE TowardZero(v, al) * 2^al

BlockIsExact(ci, at) ==
  \A k \in 0..LastK :
    Decoded(ci).coef[at][k] =
      PointTransform(job.img.comps[ci].coef[at][k], k, CodedTo(ci, k))

ExceedsLimits == BreaksLimits(job.limits, job.img.x, job.img.y,
                              Len(job.img.comps))

WrittenTransform == IF job.opt.mode = "xyb" THEN "rgb" ELSE job.opt.mode

(* A file the encoder or a height-deferring writer produced is accepted    *)
(* with every coefficient of every real block, its quantisation table, its *)
(* size and its colour interpretation, unless it exceeds the decoder's     *)
(* limits, and then it is refused as unsupported: the limits on a height   *)
(* not yet known neither let a larger file through nor stop a smaller one. *)
RoundTrip ==
  (Done /\ faults = << >>) =>
    IF ExceedsLimits THEN dec.st = "refused"
    ELSE /\ dec.st = "ok"
         /\ dec.frame.x = job.img.x /\ dec.frame.y = job.img.y
         /\ Transform(dec.frame, dec.color) = WrittenTransform
         /\ \A ci \in DOMAIN job.img.comps :
              /\ Decoded(ci).quant = 0
              /\ \A k \in 0..LastK : CodedTo(ci, k) = 0
              /\ \A at \in RealBlocks(ci) : BlockIsExact(ci, at)

(* The quantisation table in force when the first scan of a component was  *)
(* read.                                                                   *)
VersionAtFirstScan(ci) ==
  LET c     == job.img.comps[ci]
      first == CHOOSE i \in DOMAIN got :
                 /\ got[i].m = "SOS"
                 /\ \E j \in DOMAIN got[i].comps : got[i].comps[j].cs = c.id
                 /\ \A n \in 1..(i - 1) : got[n].m = "SOS" =>
                      \A j \in DOMAIN got[n].comps : got[n].comps[j].cs # c.id
      dqts  == {i \in 1..(first - 1) :
                  got[i].m = "DQT" /\ c.tq \in DOMAIN got[i].tables}
  IN  got[Max(dqts)].tables[c.tq]

(* Whatever scans of a stream are lost, repeated or out of order, whatever *)
(* tables are redefined under way and whatever segments before the frame   *)
(* are repeated, an accepted image is the original cut at the bits that    *)
(* were delivered: no coefficient mixes bits of two passes, and none is    *)
(* scaled by a table of a later scan.                                      *)
PartialIsPrefix ==
  (Accepted /\ Kinds \subseteq {"LoseScan", "RepeatScan", "SwapScans",
                                "Redefine", "Repeat", "SwapChunks"}) =>
    \A ci \in DOMAIN job.img.comps :
      /\ Decoded(ci).quant = VersionAtFirstScan(ci)
      /\ \A at \in RealBlocks(ci) : BlockIsExact(ci, at)

(* The blocks a restart interval of a scan codes.                          *)
IntervalBlocks(seg, i) ==
  LET Index(cs) == CHOOSE c \in DOMAIN job.img.comps : job.img.comps[c].id = cs
      s == [comps |-> [j \in DOMAIN seg.comps |-> Index(seg.comps[j].cs)],
            ss |-> seg.ss, prog |-> job.opt.prog]
      mcus == ScanMcus(job.img, s)
      own  == IF job.opt.restart = 0 THEN DOMAIN mcus
              ELSE {n \in DOMAIN mcus : CeilDiv(n, job.opt.restart) = i}
  IN  UNION {{<<mcus[n][j][2], <<mcus[n][j][3], mcus[n][j][4]>>>> :
                j \in DOMAIN mcus[n]} : n \in own}

(* A damaged byte that goes unnoticed changes no block outside the restart *)
(* interval it lies in: predictors, end-of-band runs and the bit position  *)
(* all start afresh at the next restart marker, and later scans of the     *)
(* component keep their footing.                                           *)
DamageIsContained ==
  (Accepted /\ Len(faults) = 1 /\ Kinds = {"Corrupt"}) =>
    \A ci \in DOMAIN job.img.comps : \A at \in RealBlocks(ci) :
      \/ <<ci, at>> \in IntervalBlocks(faults[1].seg, faults[1].i)
      \/ BlockIsExact(ci, at)

NeedsRestart(seg) == seg.ri < Len(ScanMcus(job.img, BaselineScan(Len(job.img.comps))))

(* A lost segment without which the rest means something else, or nothing. *)
Essential(seg) ==
  \/ seg.m \in {"SOI", "SOF0", "SOF2", "DNL", "DQT", "EOI"}
  \/ seg.m = "DRI" /\ NeedsRestart(seg)

(* A cut stream, a lost table, header, first or only scan, a scan sent     *)
(* twice, and restart intervals lost, repeated or out of order are errors, *)
(* never a picture.  A DC refinement is the one scan whose last interval   *)
(* can be replaced by padding unnoticed, as its bits carry no code: then   *)
(* only that interval's blocks may differ.                                 *)
LossIsNoticed ==
  (Done /\ Len(faults) = 1) =>
    LET f == faults[1]
        lastOfDcRefinement == /\ f.k = "LoseInterval" /\ NeedsNoTable(f.seg)
                              /\ f.i = Len(f.seg.ecs)
    IN  /\ \/ f.k = "Truncate"
           \/ f.k = "Lose" /\ Essential(f.seg)
           \/ f.k = "LoseScan" /\ f.seg.ss = 0 /\ f.seg.ah = 0
           \/ f.k = "RepeatScan"
           \/ f.k = "Repeat" /\ f.seg.m \in {"SOI", "SOF0", "SOF2"}
           \/ f.k \in {"LoseInterval", "RepeatInterval", "SwapIntervals"}
              /\ ~lastOfDcRefinement
             => dec.st # "ok"
        /\ (lastOfDcRefinement /\ dec.st = "ok") =>
             \A ci \in DOMAIN job.img.comps : \A at \in RealBlocks(ci) :
               \/ <<ci, at>> \in IntervalBlocks(f.seg, f.i)
               \/ BlockIsExact(ci, at)

(* What is damaged or lost on the way is one interval's loss, or an error. *)
DamageIsHandled == DamageIsContained /\ LossIsNoticed

(* The metadata of a readable header is whole or refused: an ICC profile   *)
(* of several chunks arrives complete and in order, or not at all, however *)
(* its chunks were lost, repeated or swapped, and one lost application     *)
(* marker leaves the colour interpretation alone; and a stream patched     *)
(* with other metadata carries exactly that and decodes as before.         *)
MetadataIsWhole ==
  Done =>
    LET meta == Metadata(Received)
        anew == [exif |-> 2, icc |-> <<"n1", "n2", "n3">>]
        noIcc == \A i \in DOMAIN Received : Received[i].m # "APP2"
        patched == PatchStream(Received, anew)
        rest(file) == SelectSeq(file, LAMBDA s : s.m \notin {"APP1", "APP2"})
    IN  /\ meta.st = "ok" =>
             /\ meta.icc = IF noIcc THEN << >> ELSE job.opt.meta.icc
             /\ meta.exif \in {job.opt.meta.exif, None}
        /\ Patchable(Received) =>
             /\ Metadata(patched) = [st |-> "ok", exif |-> anew.exif,
                                     icc |-> anew.icc]
             /\ rest(patched) = rest(Received)
        /\ (Accepted /\ Len(faults) = 1) =>
             Transform(dec.frame, dec.color) = WrittenTransform
        /\ Accepted => /\ FrameHeader(Received).x = dec.frame.x
                       /\ FrameHeader(Received).y \in {0, dec.frame.y}

(* Every histogram leads to a table a decoder accepts, with one code for   *)
(* every symbol that occurs, none longer than MaxLen, none a prefix of     *)
(* another, and none of all ones, which is what padding looks like.        *)
TablesAreSound ==
  job = NoJob =>
    \A freq \in Freqs :
      LET t    == OptimalTable(freq)
          used == {s \in DOMAIN freq : freq[s] > 0}
      IN  /\ DOMAIN EncTable(t) = used /\ Len(t.values) = Cardinality(used)
          /\ SumUpTo(t.bits, MaxLen) = Len(t.values)
          /\ ~Overfull(t.bits) /\ PrefixFree(t) /\ AllOnesIsFree(t)
=============================================================================
