------------------------------ MODULE HeifImage ------------------------------
(***************************************************************************)
(* A parsed HEIF file as gamut-heic reads it (image.rs), and what its      *)
(* decoder does with decoded samples (decode.rs): assemble, convert, mask, *)
(* transform and compose.                                                  *)
(*                                                                         *)
(* An image is [primary, items]; an item [id, type, hidden, refs, props,   *)
(* payload], each reference [type, to] and each property [essential,       *)
(* kind].  A payload is a sequence of cells, two for one of the records    *)
(* below, so that half of one is a truncated payload:                      *)
(*   coded    [w, h, chroma, depth, state, clear]                          *)
(*   grid     [rows, columns, w, h]                                        *)
(*   overlay  [w, h, fill, offsets]                                        *)
(* A sample is <<item, plane, x, y, alpha>>: where it was coded, and       *)
(* whether it is opaque when it is read as alpha.  Alphas in between, and  *)
(* the arithmetic of colour, are left out.                                 *)
(***************************************************************************)
EXTENDS Outcome, Integers, Sequences, FiniteSets, SequencesExt

----------------------------------------------------------------------------
\* Items.

Position(image, id) == SelectInSeq(image.items, LAMBDA i : i.id = id)
HasItem(image, id) == Position(image, id) # 0
Item(image, id) == image.items[Position(image, id)]

Kind(item) ==
    CASE item.type \in {"hvc1", "hev1"} -> "hevc"
      [] item.type \in {"av01", "jpeg"} -> "coded"
      [] item.type \in {"grid", "iovl", "iden"} -> item.type
      [] OTHER -> "none"

\* The first reference of a type, and the items that have one to `id`.
Targets(item, type) ==
    LET k == SelectInSeq(item.refs, LAMBDA r : r.type = type)
    IN  IF k = 0 THEN <<>> ELSE item.refs[k].to
Sources(item) == Targets(item, "dimg")
Referencing(image, type, id) ==
    SelectSeq(image.items,
              LAMBDA i : \E r \in Range(i.refs) : r.type = type /\ id \in Range(r.to))

\* The properties of some kinds, in the order ipma lists them.
Properties(item, kinds) ==
    LET of == SelectSeq(item.props, LAMBDA p : p.kind.is \in kinds)
    IN  [k \in DOMAIN of |-> of[k].kind]
UnsupportedEssential(item) == \E p \in Range(item.props) : p.essential /\ p.kind.is = "other"
Transforms(item) == Properties(item, {"clap", "irot", "imir"})

IsAlpha(item) == LET aux == Properties(item, {"auxC"})
                 IN  aux # <<>> /\ aux[1].urn = "alpha"
\* At most one: the first alpha auxiliary in file order.
AlphaAuxiliary(image, id) ==
    LET found == SelectSeq(Referencing(image, "auxl", id), IsAlpha)
    IN  SubSeq(found, 1, IF found = <<>> THEN 0 ELSE 1)

\* An nclx anywhere before anything else, and BT.601 when there is no colr.
Colour(item) ==
    LET all == Properties(item, {"colr"})
        nclx == SelectSeq(all, LAMBDA c : c.info # "icc")
    IN  IF nclx # <<>> THEN nclx[1].info ELSE IF all # <<>> THEN "icc" ELSE "bt601"

\* hevc_config: only the first codec configuration is looked at.
HvcC(item) == LET all == Properties(item, {"hvcC", "av1C"})
              IN  IF all # <<>> /\ all[1].is = "hvcC" THEN all[1].config ELSE "missing"

Whole(rec) == <<[part |-> 1, of |-> rec], [part |-> 2, of |-> rec]>>
IsWhole(payload) == payload # <<>> /\ payload = Whole(payload[1].of)

----------------------------------------------------------------------------
\* Outcomes.  A raster is [w, h, px]; a frame is a raster with the chroma
\* format, its depth and the chroma plane.


Area(w, h) == (0 .. w - 1) \X (0 .. h - 1)
Raster(w, h, px) == [w |-> w, h |-> h, px |-> px]

Half(n) == (n + 1) \div 2
ChromaW(f) == CASE f.chroma = "420" -> Half(f.w) [] f.chroma = "444" -> f.w [] OTHER -> 0
ChromaH(f) == CASE f.chroma = "420" -> Half(f.h) [] f.chroma = "444" -> f.h [] OTHER -> 0

Sample(id, plane, p, s) ==
    <<id, plane, p[1], p[2], IF p \in s.clear THEN "clear" ELSE "opaque">>
\* What a HEVC decoder returns for the stream of an item.
Frame(id, s) ==
    [w |-> s.w, h |-> s.h, chroma |-> s.chroma, depth |-> s.depth,
     y |-> [p \in Area(s.w, s.h) |-> Sample(id, "y", p, s)],
     c |-> [p \in Area(ChromaW(s), ChromaH(s)) |-> Sample(id, "c", p, s)]]

----------------------------------------------------------------------------
\* Grids.

Uniform(tiles) ==
    \A t \in Range(tiles) : \A f \in {"chroma", "depth", "w", "h"} : t[f] = tiles[1][f]
Fits(g, t) == g.w \in 1 .. g.columns * t.w /\ g.h \in 1 .. g.rows * t.h

AssemblePlane(tiles, plane, columns, tw, th, w, h) ==
    [p \in Area(w, h) |->
        tiles[1 + (p[2] \div th) * columns + p[1] \div tw][plane][<<p[1] % tw, p[2] % th>>]]

Assemble(g, tiles) ==
    LET t == tiles[1]
        out == [w |-> g.w, h |-> g.h, chroma |-> t.chroma, depth |-> t.depth]
    IN  out @@ [y |-> AssemblePlane(tiles, "y", g.columns, t.w, t.h, g.w, g.h),
                c |-> AssemblePlane(tiles, "c", g.columns, ChromaW(t), ChromaH(t),
                                    ChromaW(out), ChromaH(out))]
DecodeGrid(g, tiles) == CASE ~Uniform(tiles) -> Bad("unsupported")
                          [] ~Fits(g, tiles[1]) -> Bad("invalid")
                          [] OTHER -> Good(Assemble(g, tiles))

----------------------------------------------------------------------------
\* Presentation.  A pixel is [c, a]: the colour, which is a luma sample, the
\* chroma sample it is converted with and the matrix; and the alpha.

ToRgba(item, f, maxdepth) ==
    CASE f.depth > maxdepth -> Bad("unsupported")
      [] Colour(item) = "icc" -> Bad("unsupported")
      [] Colour(item) = "gbr" /\ f.chroma = "420" -> Bad("unsupported")
      [] f.chroma = "mono" ->
            Good(Raster(f.w, f.h, [p \in Area(f.w, f.h) |->
                [c |-> <<f.y[p], Colour(item)>>, a |-> "opaque"]]))
      [] OTHER ->
            LET k == IF f.chroma = "420" THEN 2 ELSE 1
            IN  Good(Raster(f.w, f.h, [p \in Area(f.w, f.h) |->
                [c |-> <<f.y[p], f.c[<<p[1] \div k, p[2] \div k>>], Colour(item)>>,
                 a |-> "opaque"]]))

ApplyAlpha(r, alpha) ==
    IF alpha.chroma = "mono" /\ alpha.w = r.w /\ alpha.h = r.h
    THEN Good([r EXCEPT !.px = [p \in Area(r.w, r.h) |-> [@[p] EXCEPT !.a = alpha.y[p][5]]]])
    ELSE Bad("invalid")

Rotate90(r) == Raster(r.h, r.w, [p \in Area(r.h, r.w) |-> r.px[<<r.w - 1 - p[2], p[1]>>]])
Rotated(r, turns) ==
    LET turned[n \in 0 .. turns] == IF n = 0 THEN r ELSE Rotate90(turned[n - 1])
    IN  turned[turns]

\* Mutant: the axis taken for the direction of the flip.
MirroredAcross(r, axis) ==
    [r EXCEPT !.px = [p \in Area(r.w, r.h) |->
        IF axis = 0 THEN @[<<r.w - 1 - p[1], p[2]>>] ELSE @[<<p[1], r.h - 1 - p[2]>>]]]
Mirrored(r, axis) ==
    [r EXCEPT !.px = [p \in Area(r.w, r.h) |->
        IF axis = 1 THEN @[<<r.w - 1 - p[1], p[2]>>] ELSE @[<<p[1], r.h - 1 - p[2]>>]]]

\* clap_offset: twice the offset of the window, over twice the denominator.
ClapNum(dim, crop, n, d) == (dim - crop) * d + 2 * n
Integral(dim, crop, n, d) == ClapNum(dim, crop, n, d) % (2 * d) = 0
ClapOffset(dim, crop, n, d) == ClapNum(dim, crop, n, d) \div (2 * d)
InWindow(dim, crop, n, d) ==
    Integral(dim, crop, n, d) /\ ClapOffset(dim, crop, n, d) \in 0 .. dim - crop

ClapIsSound(r, k) ==
    /\ \A f \in {"wd", "hd", "xd", "yd"} : k[f] # 0
    /\ k.wn % k.wd = 0 /\ k.hn % k.hd = 0
    /\ k.wn \div k.wd # 0 /\ k.hn \div k.hd # 0
    /\ InWindow(r.w, k.wn \div k.wd, k.xn, k.xd) /\ InWindow(r.h, k.hn \div k.hd, k.yn, k.yd)
Window(r, w, h, left, top) ==
    Raster(w, h, [p \in Area(w, h) |-> r.px[<<left + p[1], top + p[2]>>]])
Cropped(r, k) ==
    LET w == k.wn \div k.wd
        h == k.hn \div k.hd
    IN  Window(r, w, h, ClapOffset(r.w, w, k.xn, k.xd), ClapOffset(r.h, h, k.yn, k.yd))

Transformed(r, k) ==
    CASE k.is = "irot" -> Good(Rotated(r, k.turns))
      [] k.is = "imir" -> Good(Mirrored(r, k.axis))
      [] k.is = "clap" -> IF ClapIsSound(r, k) THEN Good(Cropped(r, k)) ELSE Bad("invalid")
ApplyTransforms(kinds, r) ==
    FoldLeft(LAMBDA out, k : IF out.ok THEN Transformed(out.val, k) ELSE out, Good(r), kinds)

----------------------------------------------------------------------------
\* Overlays.

Transparent == [c |-> <<>>, a |-> "clear"]
Over(src, dst) == CASE src.a = "opaque" -> src
                    [] dst.a = "opaque" -> dst
                    [] OTHER -> Transparent

\* Source over at an offset, clipped to the canvas.
CompositeOver(canvas, src, at) ==
    [canvas EXCEPT !.px = [p \in Area(canvas.w, canvas.h) |->
        LET q == <<p[1] - at[1], p[2] - at[2]>>
        IN  IF q \in Area(src.w, src.h) THEN Over(src.px[q], @[p]) ELSE @[p]]]

Canvas(o) == Raster(o.w, o.h, [p \in Area(o.w, o.h) |-> [c |-> <<"fill">>, a |-> o.fill]])
Composite(o, inputs) ==
    FoldLeftDomain(LAMBDA canvas, k : CompositeOver(canvas, inputs[k], o.offsets[k]),
                   Canvas(o), inputs)
=============================================================================
