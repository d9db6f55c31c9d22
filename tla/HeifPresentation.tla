-------------------------- MODULE HeifPresentation --------------------------
(***************************************************************************)
(* What decoding an item of a HEIF image must give, said of one pixel at a *)
(* time: where on which coded item a pixel comes from, followed backwards  *)
(* through transforms, overlays and grids.  Nothing here is run by the     *)
(* code; HeifFile compares the decoder with it.                            *)
(***************************************************************************)
EXTENDS HeifDerivation

\* A node of the derivation: an item as frame or as presented pixels.
Node(fn, id) == [fn |-> fn, id |-> id]
NodesOf(fn, ids) == [k \in DOMAIN ids |-> Node(fn, ids[k])]

It(img, n) == Item(img, n.id)
Record(img, n) == It(img, n).payload[1].of
IsOverlay(img, n) == n.fn = "rgba" /\ Kind(It(img, n)) = "iovl"
Inputs(img, n) == NodesOf(n.fn, Sources(It(img, n)))
Master(n) == Node("planar", n.id)
Alphas(img, n) == LET a == AlphaAuxiliary(img, n.id) IN {Node("planar", i.id) : i \in Range(a)}

Needs(img, n) ==
    CASE n.fn = "planar" /\ Kind(It(img, n)) \in {"iden", "grid"} -> Range(Inputs(img, n))
      [] IsOverlay(img, n) -> Range(Inputs(img, n))
      [] n.fn = "rgba" /\ ~IsOverlay(img, n) -> {Master(n)} \cup Alphas(img, n)
      [] OTHER -> {}

----------------------------------------------------------------------------
\* Sizes, and what kind of samples a frame has.

RECURSIVE Stream(_, _)
Stream(img, n) == IF Kind(It(img, n)) = "hevc" THEN Record(img, n)
                  ELSE Stream(img, Inputs(img, n)[1])

Turn(size, t) ==
    CASE t.is = "irot" -> IF t.turns % 2 = 1 THEN <<size[2], size[1]>> ELSE size
      [] t.is = "clap" -> <<t.wn \div t.wd, t.hn \div t.hd>>
      [] OTHER -> size
RECURSIVE Size(_, _)
\* The size once the first k transforms are applied.
SizeAfter(img, n, k) ==
    FoldLeft(Turn, IF IsOverlay(img, n) THEN <<Record(img, n).w, Record(img, n).h>>
                   ELSE Size(img, Master(n)),
             SubSeq(Transforms(It(img, n)), 1, k))
Size(img, n) ==
    CASE n.fn = "rgba" -> SizeAfter(img, n, Len(Transforms(It(img, n))))
      [] Kind(It(img, n)) = "iden" -> Size(img, Inputs(img, n)[1])
      [] OTHER -> <<Record(img, n).w, Record(img, n).h>>

----------------------------------------------------------------------------
\* Which items can be presented at all.

\* The left edge of a clean aperture: its centre is `n/d` off the middle.
IsEdge(left, dim, crop, n, d) == d * (2 * left + crop - dim) = 2 * n
Edge(dim, crop, n, d) == CHOOSE left \in 0 .. dim - crop : IsEdge(left, dim, crop, n, d)
HasEdge(dim, crop, n, d) == \E left \in 0 .. dim - crop : IsEdge(left, dim, crop, n, d)
Applies(t, size) ==
    t.is = "clap" =>
        /\ 0 \notin {t.wd, t.hd, t.xd, t.yd}
        /\ \E w \in 1 .. size[1], h \in 1 .. size[2] :
              /\ t.wn = w * t.wd /\ t.hn = h * t.hd
              /\ HasEdge(size[1], w, t.xn, t.xd) /\ HasEdge(size[2], h, t.yn, t.yd)
TransformsApply(img, n) ==
    \A k \in DOMAIN Transforms(It(img, n)) :
        (\A j \in 1 .. k - 1 : Applies(Transforms(It(img, n))[j], SizeAfter(img, n, j - 1)))
        => Applies(Transforms(It(img, n))[k], SizeAfter(img, n, k - 1))

GridAgrees(img, n) ==
    LET g == Record(img, n)
        tiles == Inputs(img, n)
        size == Size(img, tiles[1])
    IN  /\ \A k \in DOMAIN tiles :
              /\ Size(img, tiles[k]) = size
              /\ Stream(img, tiles[k]).depth = Stream(img, n).depth
              /\ Stream(img, tiles[k]).chroma = Stream(img, n).chroma
        /\ g.w \in 1 .. g.columns * size[1] /\ g.h \in 1 .. g.rows * size[2]

FrameAgrees(img, n) ==
    CASE Kind(It(img, n)) = "hevc" -> Record(img, n).state = "still"
      [] Kind(It(img, n)) = "grid" -> GridAgrees(img, n)
      [] OTHER -> TRUE
PresentationAgrees(img, n, maxdepth) ==
    /\ Stream(img, Master(n)).depth <= maxdepth
    /\ Colour(It(img, n)) # "icc"
    /\ Colour(It(img, n)) = "gbr" => Stream(img, Master(n)).chroma # "420"
    /\ \A a \in Alphas(img, n) : /\ Stream(img, a).chroma = "mono"
                                 /\ Size(img, a) = Size(img, Master(n))

\* The item is of a kind this surface has, and its payload fits its references.
IsFormed(img, n) ==
    LET i == It(img, n)
    IN  CASE n.fn = "rgba" /\ Kind(i) = "iovl" ->
                /\ IsWhole(i.payload) /\ Record(img, n).w # 0 /\ Record(img, n).h # 0
                /\ Len(Record(img, n).offsets) = Len(Sources(i))
          [] n.fn = "rgba" -> TRUE
          [] Kind(i) = "hevc" -> HvcC(i) = "sound" /\ IsWhole(i.payload)
          [] Kind(i) = "iden" -> Len(Sources(i)) = 1
          [] Kind(i) = "grid" -> /\ IsWhole(i.payload)
                                 /\ Len(Sources(i)) = Record(img, n).rows * Record(img, n).columns
          [] OTHER -> FALSE

\* Presentable within `depth` levels of derivation, which no cycle is.
RECURSIVE Presentable(_, _, _, _)
Presentable(img, n, maxdepth, depth) ==
    /\ HasItem(img, n.id) /\ ~UnsupportedEssential(It(img, n))
    /\ IsFormed(img, n)
    /\ LET levels == IF n.fn = "planar" \/ IsOverlay(img, n) THEN 1 ELSE 0
       IN  /\ depth >= levels
           /\ \A m \in Needs(img, n) : Presentable(img, m, maxdepth, depth - levels)
    /\ CASE n.fn = "planar" -> FrameAgrees(img, n)
         [] IsOverlay(img, n) -> TransformsApply(img, n)
         [] OTHER -> PresentationAgrees(img, n, maxdepth) /\ TransformsApply(img, n)

----------------------------------------------------------------------------
\* Where a pixel comes from.

RECURSIVE Luma(_, _, _), Chroma(_, _, _), PixelAfter(_, _, _, _)

Tile(img, n, p) ==
    LET size == Size(img, Inputs(img, n)[1])
    IN  [node |-> Inputs(img, n)[1 + (p[2] \div size[2]) * Record(img, n).columns
                                   + p[1] \div size[1]],
         at |-> <<p[1] % size[1], p[2] % size[2]>>]
Luma(img, n, p) ==
    CASE Kind(It(img, n)) = "hevc" -> Sample(n.id, "y", p, Record(img, n))
      [] Kind(It(img, n)) = "iden" -> Luma(img, Inputs(img, n)[1], p)
      [] OTHER -> Luma(img, Tile(img, n, p).node, Tile(img, n, p).at)
\* The chroma sample that covers pixel p.
Chroma(img, n, p) ==
    CASE Kind(It(img, n)) = "hevc" ->
            LET k == IF Record(img, n).chroma = "420" THEN 2 ELSE 1
            IN  Sample(n.id, "c", <<p[1] \div k, p[2] \div k>>, Record(img, n))
      [] Kind(It(img, n)) = "iden" -> Chroma(img, Inputs(img, n)[1], p)
      [] OTHER -> Chroma(img, Tile(img, n, p).node, Tile(img, n, p).at)

\* The point of the untransformed picture of the given size.
Before(t, size, p) ==
    CASE t.is = "irot" /\ t.turns = 0 -> p
      [] t.is = "irot" /\ t.turns = 1 -> <<size[1] - 1 - p[2], p[1]>>
      [] t.is = "irot" /\ t.turns = 2 -> <<size[1] - 1 - p[1], size[2] - 1 - p[2]>>
      [] t.is = "irot" /\ t.turns = 3 -> <<p[2], size[2] - 1 - p[1]>>
      [] t.is = "imir" /\ t.axis = 1 -> <<size[1] - 1 - p[1], p[2]>>
      [] t.is = "imir" /\ t.axis = 0 -> <<p[1], size[2] - 1 - p[2]>>
      [] OTHER -> <<p[1] + Edge(size[1], t.wn \div t.wd, t.xn, t.xd),
                    p[2] + Edge(size[2], t.hn \div t.hd, t.yn, t.yd)>>

Pixel(img, n, p) == PixelAfter(img, n, p, Len(Transforms(It(img, n))))

\* The topmost opaque input, else the fill if it is opaque; else nothing is
\* seen, and a canvas nothing covers keeps its fill.
Seen(img, n, p) ==
    LET o == Record(img, n)
        local(k) == <<p[1] - o.offsets[k][1], p[2] - o.offsets[k][2]>>
        covers == {k \in DOMAIN o.offsets :
                      LET size == Size(img, Inputs(img, n)[k])
                      IN  local(k) \in Area(size[1], size[2])}
        opaque == {k \in covers : Pixel(img, Inputs(img, n)[k], local(k)).a = "opaque"}
    IN  CASE opaque # {} -> LET k == Max(opaque) IN Pixel(img, Inputs(img, n)[k], local(k))
          [] opaque = {} /\ o.fill = "clear" /\ covers # {} -> Transparent
          [] OTHER -> [c |-> <<"fill">>, a |-> o.fill]

Converted(img, n, p) ==
    [c |-> IF Stream(img, Master(n)).chroma = "mono"
           THEN <<Luma(img, Master(n), p), Colour(It(img, n))>>
           ELSE <<Luma(img, Master(n), p), Chroma(img, Master(n), p), Colour(It(img, n))>>,
     a |-> IF \E a \in Alphas(img, n) : Luma(img, a, p)[5] = "clear" THEN "clear" ELSE "opaque"]

PixelAfter(img, n, p, k) ==
    CASE k > 0 -> PixelAfter(img, n, Before(Transforms(It(img, n))[k], SizeAfter(img, n, k - 1), p),
                             k - 1)
      [] IsOverlay(img, n) -> Seen(img, n, p)
      [] OTHER -> Converted(img, n, p)

----------------------------------------------------------------------------
\* Grids of 4:2:0 tiles with an odd side: the code joins their chroma planes
\* edge to edge, which puts chroma of later tiles under the wrong pixels.
RECURSIVE IsAligned(_, _)
IsAligned(img, n) ==
    /\ \A m \in Needs(img, n) : IsAligned(img, m)
    /\ n.fn = "planar" /\ Kind(It(img, n)) = "grid" /\ Stream(img, n).chroma = "420" =>
          LET size == Size(img, Inputs(img, n)[1])
          IN  size[1] % 2 = 0 /\ size[2] % 2 = 0

\* What was decoded, as pixels: a frame is seen through its planes.
Shows(img, n, val) ==
    LET size == Size(img, n)
    IN  /\ <<val.w, val.h>> = size
        /\ \A p \in Area(size[1], size[2]) :
              IF n.fn = "rgba" THEN val.px[p] = Pixel(img, n, p)
              ELSE /\ val.y[p] = Luma(img, n, p)
                   /\ val.chroma = "444" => val.c[p] = Chroma(img, n, p)
                   /\ val.chroma = "420" =>
                        val.c[<<p[1] \div 2, p[2] \div 2>>] = Chroma(img, n, p)
=============================================================================
