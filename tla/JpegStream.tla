---------------------------- MODULE JpegStream ----------------------------
(***************************************************************************)
(* A JPEG stream from the writer to the reader: the encoder (or a foreign  *)
(* writer that defers the height to a DNL) writes the segments, a medium   *)
(* loses, repeats, swaps, damages or cuts some of them, and the decoder's  *)
(* marker loop takes the rest one segment at a time.                       *)
(***************************************************************************)
EXTENDS JpegEncoder, JpegScan

CONSTANTS Jobs,        \* what is written: [img, opt, defer, limits, faults],
                       \* faults bounding what the medium does to it
          Hits,        \* what a damaged byte may grow by, modulo FF
          Freqs        \* histograms the table optimiser is tried on

VARIABLES job,         \* the job in hand, or NoJob
          sent,        \* segments written and not yet read
          got,         \* segments the decoder has read
          faults,      \* what the medium did, in order
          dec          \* the decoder: status, tables, frame, planes, colour

vars == <<job, sent, got, faults, dec>>

NoJob == [none |-> TRUE]
NoFrame == [none |-> TRUE]

Decoder0 ==
  [st |-> "run", T |-> [dc |-> << >>, ac |-> << >>, quant |-> << >>, ri |-> 0],
   frame |-> NoFrame, planes |-> << >>, comps |-> << >>,
   color |-> [jfif |-> FALSE, adobe |-> None]]

Init == job = NoJob /\ sent = << >> /\ got = << >> /\ faults = << >>
        /\ dec = Decoder0

-----------------------------------------------------------------------------
(* Writing.                                                                *)

(* A foreign writer leaves the height to a DNL after the first scan.       *)
Deferred(file, y) ==
  LET at == CHOOSE i \in DOMAIN file : file[i].m = "SOS"
      open == [i \in DOMAIN file |-> IF file[i].m = "SOF0"
                                     THEN [file[i] EXCEPT !.y = 0] ELSE file[i]]
  IN  SubSeq(open, 1, at) \o <<[m |-> "DNL", nl |-> y]>>
      \o SubSeq(open, at + 1, Len(open))

Written(file, j) == IF j.defer THEN Deferred(file, j.img.y) ELSE file
Encode ==
  /\ job = NoJob
  /\ \E j \in Jobs :
       /\ job' = j
       /\ sent' = Written(EncodeImage(j.img, j.opt), j)
  /\ UNCHANGED <<got, faults, dec>>

-----------------------------------------------------------------------------
(* The medium.  Every fault hits the segments about to be read.            *)

Running == job # NoJob /\ dec.st = "run"

Fault(kind, seg, i, next) ==
  /\ Running /\ Len(faults) < job.faults
  /\ sent' = next
  /\ faults' = Append(faults, [k |-> kind, seg |-> seg, i |-> i])
  /\ UNCHANGED <<job, got, dec>>

(* A scan travels with the table written for it; a DC refinement has none. *)
NeedsNoTable(seg) == seg.ss = 0 /\ seg.ah # 0
ScanUnit(s) == IF s # << >> /\ s[1].m = "SOS" THEN 1
               ELSE IF Len(s) >= 2 /\ s[1].m = "DHT" /\ s[2].m = "SOS" THEN 2
               ELSE 0
Drop(s, n) == SubSeq(s, n + 1, Len(s))
Take(s, n) == SubSeq(s, 1, n)

LoseScan ==
  LET n == ScanUnit(sent)
  IN  n > 0 /\ Fault("LoseScan", sent[n], 0, Drop(sent, n))

RepeatScan ==
  LET n == ScanUnit(sent)
  IN  n > 0 /\ Fault("RepeatScan", sent[n], 0, Take(sent, n) \o sent)

SwapScans ==
  LET n == ScanUnit(sent)
      m == ScanUnit(Drop(sent, n))
  IN  /\ m > 0 /\ (n = 2 \/ (n = 1 /\ NeedsNoTable(sent[1])))
      /\ Fault("SwapScans", sent[n], 0,
               Take(Drop(sent, n), m) \o Take(sent, n) \o Drop(sent, n + m))

LoseSegment ==
  /\ sent # << >> /\ ScanUnit(sent) = 0
  /\ Fault("Lose", sent[1], 0, Tail(sent))

RepeatSegment ==
  /\ sent # << >> /\ ScanUnit(sent) = 0
  /\ Fault("Repeat", sent[1], 0, <<sent[1]>> \o sent)

SwapChunks ==
  /\ Len(sent) >= 2 /\ sent[1].m = "APP2" /\ sent[2].m = "APP2"
  /\ Fault("SwapChunks", sent[1], 0, <<sent[2], sent[1]>> \o Drop(sent, 2))

(* A writer may redefine a quantisation table between scans.               *)
RedefineDqt ==
  /\ ScanUnit(sent) > 0 /\ job.opt.prog
  /\ \E tq \in {0, 1} :
       Fault("Redefine", sent[ScanUnit(sent)], tq,
             <<[m |-> "DQT", tables |-> (tq :> 1)]>> \o sent)

WithIntervals(ecs) == <<[sent[1] EXCEPT !.ecs = ecs]>> \o Tail(sent)
AtScan == sent # << >> /\ sent[1].m = "SOS"
Intervals == DOMAIN sent[1].ecs

LoseInterval ==
  /\ AtScan /\ Cardinality(Intervals) > 1
  /\ \E i \in Intervals : Fault("LoseInterval", sent[1], i,
                                WithIntervals(RemoveAt(sent[1].ecs, i)))

RepeatInterval ==
  /\ AtScan /\ Cardinality(Intervals) > 1
  /\ \E i \in Intervals \ {Len(sent[1].ecs)} :
       Fault("RepeatInterval", sent[1], i,
             WithIntervals(InsertAt(sent[1].ecs, i, sent[1].ecs[i])))

(* Two neighbouring intervals change places with their restart markers.    *)
SwapIntervals ==
  /\ AtScan
  /\ \E i \in Intervals :
       /\ i + 1 \in Intervals \ {Len(sent[1].ecs)}
       /\ Fault("SwapIntervals", sent[1], i,
                WithIntervals([sent[1].ecs EXCEPT ![i] = sent[1].ecs[i + 1],
                                                  ![i + 1] = sent[1].ecs[i]]))

(* Damage that makes and unmakes no marker and no stuffing.                *)
CorruptByte ==
  /\ AtScan
  /\ \E i \in Intervals, h \in Hits :
       \E j \in DOMAIN sent[1].ecs[i].bytes :
         LET b == sent[1].ecs[i].bytes
         IN  /\ b[j] # FF /\ (j > 1 => b[j - 1] # FF)
             /\ Fault("Corrupt", sent[1], i,
                      WithIntervals([sent[1].ecs EXCEPT ![i].bytes[j] =
                                       (@ + h) % FF]))

Truncate ==
  /\ sent # << >>
  /\ \/ Fault("Truncate", sent[1], 0, << >>)
     \/ /\ AtScan
        /\ \E i \in Intervals :
             Fault("Truncate", sent[1], i,
                   <<[sent[1] EXCEPT !.ecs = Append(Take(@, i - 1),
                        [bytes |-> Front(Append(@[i].bytes, 0)),
                         rst |-> None])]>>)

-----------------------------------------------------------------------------
(* Reading: check_limits and the limit on rows not yet counted.            *)

Over(max, n) == max # None /\ n > max
BreaksLimits(l, x, y, n) ==
  \/ Over(l.width, x)
  \/ y # 0 /\ Over(l.height, y)
  \/ Over(l.bytes, x * n * (IF y = 0 THEN 1 ELSE y))

ScanMcuRows(f, s, height) ==
  IF Interleaved(s) THEN CeilDiv(height, B * Vmax(f.comps))
  ELSE CompHigh([f EXCEPT !.y = height], f.comps[s.comps[1].ci])

DeferredRowLimit(l, f, s) ==
  LET heights == {h \in {l.height} : h # None}
                 \cup (IF l.bytes = None THEN {}
                       ELSE {l.bytes \div (f.x * Len(f.comps))})
  IN  IF f.y # 0 \/ heights = {} THEN None
      ELSE Min({ScanMcuRows(f, s, h) : h \in heights})

(* parse_sos: the spectral fields the process allows, components known.    *)
SpectralOk(s, prog) ==
  IF ~prog THEN s.ss = 0 /\ s.se = LastK /\ s.ah = 0 /\ s.al = 0
  ELSE /\ IF s.ss = 0 THEN s.se = 0
          ELSE s.ss <= s.se /\ s.se <= LastK /\ Len(s.comps) = 1
       /\ s.ah # 0 => s.al = s.ah - 1

ParseSos(seg, f) ==
  [ss |-> seg.ss, se |-> seg.se, ah |-> seg.ah, al |-> seg.al,
   comps |-> [i \in DOMAIN seg.comps |->
     [ci |-> CHOOSE c \in DOMAIN f.comps : f.comps[c].id = seg.comps[i].cs,
      td |-> seg.comps[i].dest, ta |-> seg.comps[i].dest]]]

Flat(ecs) ==
  FlattenSeq([i \in DOMAIN ecs |->
                ecs[i].bytes \o (IF ecs[i].rst = None THEN << >>
                                 ELSE <<FF, ecs[i].rst>>)])

Read(m) == Running /\ sent # << >> /\ sent[1].m \in m
Keep(d) == dec' = d /\ got' = Append(got, sent[1]) /\ sent' = Tail(sent)
           /\ UNCHANGED <<job, faults>>
Refuse(why) == [dec EXCEPT !.st = why]

(* The first marker must be SOI, and no later one may be.                  *)
ReadSoi == Read({"SOI"}) /\ Keep(IF got = << >> THEN dec ELSE Refuse("err"))

Began == got # << >> /\ got[1].m = "SOI"
MissingSoi == /\ Running /\ sent # << >> /\ sent[1].m # "SOI" /\ ~Began
              /\ Keep(Refuse("err"))

ReadSof ==
  /\ Read({"SOF0", "SOF2"}) /\ Began
  /\ LET s    == sent[1]
         prog == s.m = "SOF2"
         f    == [x |-> s.x, y |-> s.y, prog |-> prog, comps |-> s.comps]
     IN  Keep(IF dec.frame # NoFrame THEN Refuse("err")
              ELSE IF BreaksLimits(job.limits, s.x, s.y, Len(s.comps))
                THEN Refuse("refused")
              ELSE IF prog /\ s.y = 0 THEN Refuse("refused")
              ELSE [dec EXCEPT !.frame = f,
                      !.comps = IF prog THEN [i \in DOMAIN s.comps |->
                                                ProgComp(f, s.comps[i])]
                                ELSE << >>])

RECURSIVE WithTables(_, _)
WithTables(T, ts) ==
  IF ts = << >> THEN T
  ELSE LET t == ts[1]
           d == t.dest :> DecTable(t.t)
       IN  WithTables(IF t.class = "dc" THEN [T EXCEPT !.dc = d @@ @]
                      ELSE [T EXCEPT !.ac = d @@ @], Tail(ts))

ReadDht ==
  /\ Read({"DHT"}) /\ Began
  /\ Keep(IF \E i \in DOMAIN sent[1].tables : Overfull(sent[1].tables[i].t.bits)
            THEN Refuse("err")
          ELSE [dec EXCEPT !.T = WithTables(@, sent[1].tables)])

ReadDqt == /\ Read({"DQT"}) /\ Began
           /\ Keep([dec EXCEPT !.T.quant = sent[1].tables @@ @])

ReadDri == /\ Read({"DRI"}) /\ Began /\ Keep([dec EXCEPT !.T.ri = sent[1].ri])

(* DNL gives the height only to a frame that left it open.                 *)
ReadDnl ==
  /\ Read({"DNL"}) /\ Began
  /\ LET f == dec.frame
         nl == sent[1].nl
     IN  Keep(IF f = NoFrame \/ f.y # 0 THEN dec
              ELSE IF BreaksLimits(job.limits, f.x, nl, Len(f.comps))
                THEN Refuse("refused")
              ELSE [dec EXCEPT !.frame.y = nl])

ReadApp0 == Read({"APP0"}) /\ Began /\ Keep([dec EXCEPT !.color.jfif = TRUE])
ReadApp14 == /\ Read({"APP14"}) /\ Began
             /\ Keep([dec EXCEPT !.color.adobe = sent[1].transform])
SkipSegment == Read({"APP1", "APP2"}) /\ Began /\ Keep(dec)

(* A scan whose data ends at a restart marker leaves that marker to the    *)
(* loop, which has no use for it.                                          *)
Stray(r, flat) == r.moff <= Len(flat)

AfterProgressive(prg, flat) ==
  IF ~prg.r.ok \/ Stray(prg.r, flat) THEN Refuse("err")
  ELSE [dec EXCEPT !.comps = prg.comps]

AfterSequential(seq, f, s, flat) ==
  LET g == Grid(f, s)
      planes == [ci \in DOMAIN seq.coef |->
                   [coef  |-> seq.coef[ci],
                    wide  |-> g.wide * (IF g.inter THEN f.comps[ci].h ELSE 1),
                    high  |-> seq.rows * (IF g.inter THEN f.comps[ci].v ELSE 1),
                    quant |-> dec.T.quant[f.comps[ci].tq]]]
  IN  IF seq.refused THEN Refuse("refused")
      ELSE IF ~seq.r.ok \/ Stray(seq.r, flat) THEN Refuse("err")
      ELSE [dec EXCEPT !.planes = planes @@ @]

ScanDone(f, s, flat) ==
  LET data == flat \o (IF Tail(sent) = << >> THEN << >> ELSE <<FF, OtherMarker>>)
      again == \E i \in DOMAIN s.comps : s.comps[i].ci \in DOMAIN dec.planes
  IN  IF ~SpectralOk(s, f.prog) THEN Refuse("err")
      ELSE IF f.prog
        THEN AfterProgressive(DecodeProgressiveScan(data, f, s, dec.T, dec.comps), flat)
      ELSE IF again THEN Refuse("err")
      ELSE AfterSequential(DecodeScan(data, f, s, dec.T, DeferredRowLimit(job.limits, f, s)),
                           f, s, flat)

ReadSos ==
  /\ Read({"SOS"}) /\ Began
  /\ Keep(IF dec.frame = NoFrame THEN Refuse("err")
          ELSE ScanDone(dec.frame, ParseSos(sent[1], dec.frame), Flat(sent[1].ecs)))

(* assemble: every component there, and large enough for the frame.        *)
Complete(d) ==
  /\ d.frame # NoFrame
  /\ d.frame.y # 0
  /\ \A ci \in DOMAIN d.frame.comps :
       IF d.frame.prog THEN HasDc(d.comps[ci])
       ELSE /\ ci \in DOMAIN d.planes
            /\ LET c == d.frame.comps[ci]
               IN  /\ CeilDiv(d.frame.x * c.h, Hmax(d.frame.comps))
                        <= d.planes[ci].wide * B
                   /\ CeilDiv(d.frame.y * c.v, Vmax(d.frame.comps))
                        <= d.planes[ci].high * B

ReadEoi == /\ Read({"EOI"}) /\ Began
           /\ Keep(Refuse(IF Complete(dec) THEN "ok" ELSE "err"))

EndOfInput == /\ Running /\ sent = << >> /\ dec' = Refuse("err")
              /\ UNCHANGED <<job, sent, got, faults>>

-----------------------------------------------------------------------------
(* Asked without decoding: the frame header and the metadata.              *)

FirstOf(file, ms) ==
  LET at == {i \in DOMAIN file : file[i].m \in ms}
  IN  IF at = {} THEN 0 ELSE Min(at)

HeaderReadable(file, end) ==
  /\ file # << >> /\ file[1].m = "SOI" /\ end > 0
  /\ \A i \in 2..(end - 1) : file[i].m # "SOI"

FrameHeader(file) ==
  LET at == FirstOf(file, {"SOF0", "SOF2", "SOS", "EOI"})
  IN  IF HeaderReadable(file, at) /\ file[at].m \in {"SOF0", "SOF2"}
      THEN file[at] ELSE [m |-> "err"]

(* The ICC chunks of a header, which must agree on their number, fill it   *)
(* and not repeat.                                                         *)
\* Mutant: chunks are joined in the order they arrive.
IccAsArrived(chunks) ==
  IF chunks = << >> THEN << >>
  ELSE IF Len(chunks) = chunks[1].cnt
    THEN [k \in DOMAIN chunks |-> chunks[k].data] ELSE <<"err">>
IccChunks(chunks) ==
  LET n == chunks[1].cnt
  IN  IF chunks = << >> THEN << >>
      ELSE IF /\ \A i \in DOMAIN chunks :
                   chunks[i].cnt = n /\ chunks[i].idx \in 1..n
              /\ Len(chunks) = n
              /\ \A i, j \in DOMAIN chunks : chunks[i].idx = chunks[j].idx => i = j
        THEN [k \in 1..n |-> chunks[CHOOSE i \in DOMAIN chunks :
                                      chunks[i].idx = k].data]
      ELSE <<"err">>

Metadata(file) ==
  LET end  == FirstOf(file, {"SOS", "EOI"})
      head == Take(file, end - 1)
      app1 == SelectSeq(head, LAMBDA s : s.m = "APP1")
      icc  == IccChunks(SelectSeq(head, LAMBDA s : s.m = "APP2"))
  IN  IF ~HeaderReadable(file, end) \/ icc = <<"err">> THEN [st |-> "err"]
      ELSE [st |-> "ok", icc |-> icc,
            exif |-> IF app1 = << >> THEN None ELSE app1[1].exif]

(* A backend's stream gets the caller's metadata in place of its own, after*)
(* the leading APP0 segments; from the first scan on nothing changes.      *)
Patchable(file) == HeaderReadable(file, FirstOf(file, {"SOS", "EOI"}))
                   /\ file[Len(file)].m = "EOI"
PatchStream(file, meta) ==
  LET end  == FirstOf(file, {"SOS", "EOI"})
      lead == CHOOSE n \in 1..(end - 1) :
                /\ \A i \in 2..n : file[i].m = "APP0"
                /\ file[n + 1].m # "APP0"
      Kept(s) == s.m \notin {"APP1", "APP2"}
  IN  Take(file, lead) \o MetaSegments(meta)
      \o SelectSeq(SubSeq(file, lead + 1, end - 1), Kept) \o Drop(file, end - 1)

(* decide_transform, for the three-component streams the encoder writes.   *)
Transform(f, color) ==
  IF Len(f.comps) = 1 THEN "gray"
  ELSE IF color.adobe = 0 THEN "rgb"
  ELSE IF color.adobe # None \/ color.jfif THEN "ycc"
  ELSE IF [i \in DOMAIN f.comps |-> f.comps[i].id] = <<"R", "G", "B">> THEN "rgb"
  ELSE "ycc"

-----------------------------------------------------------------------------
Done == job # NoJob /\ dec.st # "run"

(* The file is answered, and there is no other.                            *)
Stop == Done /\ UNCHANGED vars

Medium == \/ LoseScan \/ RepeatScan \/ SwapScans \/ LoseSegment \/ RepeatSegment
          \/ SwapChunks \/ RedefineDqt \/ LoseInterval \/ RepeatInterval
          \/ SwapIntervals \/ CorruptByte \/ Truncate
Decode == \/ ReadSoi \/ MissingSoi \/ ReadSof \/ ReadDht \/ ReadDqt \/ ReadDri
          \/ ReadDnl \/ ReadApp0 \/ ReadApp14 \/ SkipSegment \/ ReadSos \/ ReadEoi
          \/ EndOfInput
Next == Encode \/ Medium \/ Decode \/ Stop

Spec == Init /\ [][Next]_vars
=============================================================================
