------------------------------ MODULE MCJpeg ------------------------------
EXTENDS JpegFidelity

(* Bytes of 4 bits, run/size symbols in base 4, blocks of 7 coefficients.  *)
Blk(a, b, c, d, e, f, g) == [k \in 0..6 |-> <<a, b, c, d, e, f, g>>[k + 1]]
Zero  == Blk(0, 0, 0, 0, 0, 0, 0)
Flat3 == Blk(3, 0, 0, 0, 0, 0, 0)
Far   == Blk(-5, 0, 0, 0, 0, 0, 3)
Dense == Blk(2, 1, -1, 2, -2, 3, -7)
Low   == Blk(-1, 5, 0, 0, 0, 0, 0)
Bit0  == Blk(7, 0, 1, 0, -1, 0, 0)
Mixed == Blk(-6, 4, 0, 0, 0, 0, 1)
High   == Blk(1, 0, 0, 0, 0, 7, -1)

Grid3(wide, bs) == [at \in (0..(wide - 1)) \X (0..(Len(bs) \div wide - 1)) |->
                      bs[at[1] + wide * at[2] + 1]]
Comp(id, h, tq, wide, bs) == [id |-> id, h |-> h, v |-> 1, tq |-> tq,
                              dest |-> tq, coef |-> Grid3(wide, bs)]

Gray(x, y, wide, bs) == [x |-> x, y |-> y, comps |-> <<Comp("1", 1, 0, wide, bs)>>]
Tall1 == Gray(2, 5, 1, <<Dense, Far, Mixed>>)
Tall2 == Gray(1, 6, 1, <<Zero, Bit0, High>>)
Wide  == Gray(3, 2, 2, <<Low, Dense>>)
(* Nine blocks: an end-of-band run at its longest, restarts that wrap.     *)
Nine  == Gray(6, 5, 3, <<Flat3, Zero, Zero, Zero, Zero, Flat3, Zero, Zero, Far>>)
Nine2 == Gray(5, 6, 3, <<Bit0, Mixed, Zero, High, Flat3, Low, Bit0, Zero, Mixed>>)
(* Luma twice as wide as chroma, and one padding block.                    *)
Color == [x |-> 5, y |-> 2,
          comps |-> <<Comp("1", 2, 0, 4, <<Mixed, Bit0, High, Low>>),
                      Comp("2", 1, 1, 2, <<Flat3, High>>),
                      Comp("3", 1, 1, 2, <<Far, Bit0>>)>>]
Xyb   == [x |-> 3, y |-> 1,
          comps |-> <<Comp("R", 1, 0, 2, <<Bit0, Far>>),
                      Comp("G", 1, 0, 2, <<Low, Zero>>),
                      Comp("B", 1, 1, 2, <<Mixed, Flat3>>)>>]

TwiceHit == {Tall2, Xyb}

NoMeta == [exif |-> None, icc |-> << >>]
Meta   == [exif |-> 1, icc |-> <<"a", "b">>]
NoLimits == [width |-> None, height |-> None, bytes |-> None]

Opt(mode, prog, optimize, restart, meta) ==
  [mode |-> mode, prog |-> prog, optimize |-> optimize, restart |-> restart,
   meta |-> meta]
Job(img, opt, defer, limits) ==
  [img |-> img, opt |-> opt, defer |-> defer, limits |-> limits,
   faults |-> IF img \in TwiceHit THEN 2 ELSE 1]

GrayJobs ==
  {Job(img, Opt("gray", p, ~p, r, NoMeta), FALSE, NoLimits) :
     img \in {Tall1, Tall2, Wide}, p \in BOOLEAN, r \in {0, 1, 2}}
BigJobs ==
  {Job(Nine, Opt("gray", p, TRUE, r, NoMeta), FALSE, NoLimits) :
     p \in BOOLEAN, r \in {0, 1}}
  \cup {Job(Nine2, Opt("gray", TRUE, TRUE, 2, NoMeta), FALSE, NoLimits)}
ColorJobs ==
  {Job(Color, Opt("ycc", p, o, r, NoMeta), FALSE, NoLimits) :
     p \in {FALSE}, o \in BOOLEAN, r \in {0, 1}}
  \cup {Job(Color, Opt("ycc", TRUE, TRUE, r, NoMeta), FALSE, NoLimits) : r \in {0, 1}}
  \cup {Job(Xyb, Opt("xyb", FALSE, o, 1, Meta), FALSE, NoLimits) : o \in BOOLEAN}
MetaJobs == {Job(Wide, Opt("gray", p, FALSE, 0, Meta), FALSE, NoLimits) :
               p \in BOOLEAN}
DeferredJobs ==
  {Job(img, Opt("gray", FALSE, o, r, NoMeta), TRUE, l) :
     img \in {Tall1, Wide}, o \in BOOLEAN, r \in {0, 1},
     l \in {NoLimits, [width |-> 2, height |-> 5, bytes |-> 9],
            [width |-> 3, height |-> 1, bytes |-> None],
            [width |-> None, height |-> None, bytes |-> 10]}}
MCJobs == GrayJobs \cup BigJobs \cup ColorJobs \cup MetaJobs \cup DeferredJobs

MCStdTables ==
  [dc |-> [bits |-> <<0, 0, 5, 0, 0>>, values |-> <<0, 1, 2, 3, 4>>],
   ac |-> [bits |-> <<0, 1, 0, 5, 8>>,
           values |-> <<0, 1, 2, 5, 12, 9, 3, 6, 7, 10, 11, 13, 14, 15>>]]

MCHits == {5, 9}

(* Flat, skewed and Fibonacci histograms, the last too deep for MaxLen.    *)
MCFreqs ==
  {[s \in 0..n |-> 1] : n \in 0..8}
  \cup {[s \in 0..6 |-> <<1, 1, 2, 3, 5, 8, 13>>[s + 1]]}
  \cup {[s \in 0..7 |-> <<34, 21, 13, 8, 5, 3, 2, 1>>[s + 1]]}
  \cup {[s \in 0..9 |-> 2^s] : i \in {0}}
  \cup [{1, 4, 6} -> {0, 1, 9}]
=============================================================================
