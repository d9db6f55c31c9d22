------------------------------- MODULE MCContainers -------------------------------
(***************************************************************************)
(* What gamut does with the files around the pixels: HEIF files (HeifFile), *)
(* WebP files (WebpFile) and the metadata of a photo (PhotoMetadata).  They *)
(* share no state; a behaviour is about one of them, its subject, and the   *)
(* others are idle.                                                         *)
(***************************************************************************)
EXTENDS HeifFile, WebpFile, PhotoMetadata

VARIABLE subject
containervars == <<subject, filevars, webpvars, photovars>>

Idle == Pending
HeifIsIdle ==
    /\ job = Idle /\ file = Unwritten /\ faults = <<>> /\ parsed = Unparsed /\ asked = Nothing
    /\ image = Pending /\ surface = "rgba8" /\ calls = <<>> /\ guard = <<>> /\ ret = Pending
WebpIsIdle ==
    /\ given = Idle /\ webp = Idle /\ mishaps = <<>> /\ layout = Unread /\ metadata = Unread
    /\ rounds = 0

Init ==
    \/ subject = "heif" /\ HeifInit /\ WebpIsIdle /\ PhotoInit
    \/ subject = "webp" /\ HeifIsIdle /\ WebpInit /\ PhotoInit
    \/ subject = "photo" /\ HeifIsIdle /\ WebpIsIdle /\ PhotoInit

Heif == subject = "heif" /\ HeifNext /\ UNCHANGED <<subject, webpvars, photovars>>
Webp == subject = "webp" /\ WebpNext /\ UNCHANGED <<subject, filevars, photovars>>
Photo == subject = "photo" /\ PhotoNext /\ UNCHANGED <<subject, filevars, webpvars>>
Next == Heif \/ Webp \/ Photo

\* Only the decoder must go on, once it was called: nobody has to write, to
\* damage, to edit or to ask.
Spec ==
    /\ Init /\ [][Next]_containervars
    /\ WF_containervars(Step /\ UNCHANGED <<subject, webpvars, photovars>>)

----------------------------------------------------------------------------------

Prop(e, k) == [essential |-> e, kind |-> k]
Irot(n) == Prop(TRUE, [is |-> "irot", turns |-> n])
Imir(n) == Prop(TRUE, [is |-> "imir", axis |-> n])
Clap(wn, wd, hn, hd, xn, xd, yn, yd) ==
    Prop(TRUE, [is |-> "clap", wn |-> wn, wd |-> wd, hn |-> hn, hd |-> hd,
                xn |-> xn, xd |-> xd, yn |-> yn, yd |-> yd])
Hvcc == Prop(TRUE, [is |-> "hvcC", config |-> "sound"])
Colr(c) == Prop(FALSE, [is |-> "colr", info |-> c])
AuxC(u) == Prop(FALSE, [is |-> "auxC", urn |-> u])
Other(e) == Prop(e, [is |-> "other"])

S(w, h, chroma, clear) ==
    [w |-> w, h |-> h, chroma |-> chroma, depth |-> 8, state |-> "still", clear |-> clear]
ItemRec(id, type, refs, props, payload) ==
    [id |-> id, type |-> type, hidden |-> FALSE, refs |-> refs, props |-> props,
     payload |-> payload]
Dimg(to) == <<[type |-> "dimg", to |-> to]>>
Auxl(to) == <<[type |-> "auxl", to |-> to]>>
Coded(id, s, props) == ItemRec(id, "hvc1", <<>>, <<Hvcc>> \o props, Whole(s))
Grid(id, rows, columns, w, h, to) ==
    ItemRec(id, "grid", Dimg(to), <<>>, Whole([rows |-> rows, columns |-> columns, w |-> w, h |-> h]))
Overlay(id, w, h, fill, offsets, to) ==
    ItemRec(id, "iovl", Dimg(to), <<>>,
            Whole([w |-> w, h |-> h, fill |-> fill, offsets |-> offsets]))
Iden(id, to) == ItemRec(id, "iden", Dimg(to), <<>>, <<>>)
Image(items) == [brand |-> "heic", primary |-> 1, groups |-> <<>>, items |-> items]
With(item, props) == [item EXCEPT !.props = @ \o props]

Rgba8 == [fn |-> "rgba", surface |-> "rgba8"]
Rgba16 == [fn |-> "rgba", surface |-> "rgba16"]
Planar == [fn |-> "planar", surface |-> "rgba8"]
Job(img, form, n, roots) == [image |-> img, layout |-> form, faults |-> n, roots |-> roots]

\* Item graphs: every way a few derived items may refer to each other.
Pairs == {<<1, 3>>, <<2, 3>>, <<3, 2>>, <<2, 2>>, <<3, 3>>}
Derived(id) ==
    {Grid(id, 1, 2, 3, 1, to) : to \in Pairs}
    \cup {Overlay(id, 3, 1, "opaque", <<<<0, 0>>, <<1, 0>>>>, to) : to \in Pairs}
    \cup {Iden(id, <<to>>) : to \in {1, 2, 3, 9}}
Leaves == {Coded(3, S(2, 1, "mono", {}), <<>>), Iden(3, <<1>>), Iden(3, <<4>>),
           ItemRec(3, "av01", <<>>, <<>>, <<>>), Grid(3, 1, 2, 2, 1, <<4, 4>>)}
Graphs ==
    {Image(<<a, b, c, Coded(4, S(2, 1, "mono", {}), <<>>)>>) :
        a \in Derived(1), b \in Derived(2) \cup {Coded(2, S(2, 1, "444", {}), <<>>)}, c \in Leaves}

\* Geometry: transforms in any order, and masks.
Turns == {Irot(1), Irot(3), Imir(0), Imir(1), Clap(2, 1, 1, 1, 1, 2, 1, 2),
          Clap(1, 1, 2, 1, 0, 1, 0, 1), Clap(1, 1, 1, 1, 0, 1, 0, 1), Clap(4, 2, 2, 1, -1, 2, 0, 1)}
Masked(s, urn) == ItemRec(2, "hvc1", Auxl(<<1>>), <<AuxC(urn), Hvcc>>, Whole(s))
Pictures ==
    {Image(<<Coded(1, S(3, 2, chroma, {}), ts)>>) :
        chroma \in {"420", "mono"}, ts \in BoundedSeq(Turns, 2)}
    \cup {Image(<<Coded(1, S(3, 2, "444", {}), <<t>>), Masked(s, urn)>>) :
        t \in Turns, urn \in {"alpha", "depth"},
        s \in {S(3, 2, "mono", {<<0, 0>>, <<2, 1>>}), S(2, 3, "mono", {<<0, 0>>}),
               S(3, 2, "444", {})}}

\* Compositions: tiles of every chroma format cut by the output size, overlays
\* of masked, turned and clipped inputs, and what the colour and depth rules refuse.
Tiled(g, s, p) == Image(<<g, Coded(2, s, <<>>), Coded(3, s, <<p>>)>>)
Mixed == {S(2, 2, "mono", {}), [S(2, 2, "420", {}) EXCEPT !.depth = 10], S(1, 2, "420", {})}
Compositions ==
    {Tiled(With(Grid(1, 2, 2, w, h, <<2, 3, 3, 2>>), <<p>>), S(tw, 2, chroma, {}), Irot(1)) :
        w \in {3, 4, 7}, h \in {1, 4}, tw \in {2, 3}, chroma \in {"420", "444"},
        p \in {Colr("gbr"), Irot(2)}}
    \cup {Image(<<Grid(1, 1, 2, 3, 2, <<2, 3>>), Coded(2, s, <<>>), Coded(3, t, <<>>)>>) :
        s \in Mixed, t \in Mixed}
    \cup {Image(<<With(Overlay(1, 3, 3, fill, <<<<1, 1>>, at>>, <<2, 3>>), <<Imir(1)>>),
                  Coded(2, S(2, 1, "mono", {}), <<t>>), Coded(3, S(3, 2, "mono", {}), <<Irot(1), u>>),
                  [Masked(S(2, 1, "mono", {<<0, 0>>}), "alpha") EXCEPT !.id = 4, !.refs = Auxl(<<2>>)],
                  [Masked(S(3, 2, "mono", {<<1, 0>>, <<1, 1>>}), "alpha")
                       EXCEPT !.id = 5, !.refs = Auxl(<<3>>)]>>) :
        fill \in {"clear", "opaque"}, at \in {<<-1, 0>>, <<2, 1>>}, t \in {Irot(1), Colr("icc")},
        u \in {Imir(0), Other(TRUE)}}
    \cup {Image(<<Coded(1, s, p)>>) :
        s \in {[S(2, 2, chroma, {}) EXCEPT !.depth = d, !.state = state] :
                  chroma \in {"420", "444"}, d \in {8, 10}, state \in {"still", "moving"}},
        p \in {<<Colr("icc")>>, <<Colr("icc"), Colr("bt709")>>, <<Colr("gbr")>>, <<Other(FALSE)>>,
               <<Other(TRUE)>>}}

\* Files: layouts, pools of properties around the narrow form, shared data,
\* images that may not be written, and everything that may happen to a file.
Alike == Coded(3, S(2, 1, "mono", {}), <<Irot(1)>>)
Album(primary, props, copies) ==
    [brand |-> "heic", primary |-> primary, groups |-> <<<<"altr", 1, 2>>>>,
     items |-> <<Grid(1, 1, 2, 3, 1, <<3, 4>>), Iden(2, <<1>>), With(Alike, props)>>
               \o [k \in 1 .. copies |-> [Alike EXCEPT !.id = 3 + k]]
               \o <<[ItemRec(99, "Exif", <<[type |-> "cdsc", to |-> <<1>>]>>, <<>>, Whole([exif |-> TRUE]))
                        EXCEPT !.hidden = TRUE]>>]
Pools == {<<>>, <<Colr("bt709")>>, <<Colr("bt709"), Irot(1), Other(FALSE)>>,
          <<Colr("bt709"), Irot(3), [Irot(3) EXCEPT !.essential = FALSE], Imir(1), Imir(0), Other(TRUE)>>}
TooMany == <<Irot(0), Irot(2), Irot(3), Imir(0), Imir(1), Colr("bt709"), Colr("gbr")>>
Layouts == {{}, {"front"}, {"open"}, {"idat"}, {"front", "split"}, {"split", "idat"}, {"shared"}}
Albums ==
    {Album(p, props, 1) : p \in {1, 2}, props \in Pools}
    \cup {Album(p, <<>>, 1) : p \in {99}}
    \cup {Album(1, <<>>, 14), [Album(1, <<>>, 1) EXCEPT !.items[4].payload = Tail(@)]}
Unwritable ==
    {Album(7, <<>>, 1), Album(1, <<Irot(4)>>, 1), Album(1, TooMany, 1),
     [Album(1, <<>>, 1) EXCEPT !.items = @ \o <<Alike>>]}

MCJobs == {Job(i, {}, 0, {Rgba8, Planar}) : i \in Graphs \cup Compositions \cup Unwritable}
          \cup {Job(i, {}, 0, {Rgba8, Rgba16}) : i \in Pictures}
          \cup {Job(i, form, 1, {Rgba16}) : i \in Albums, form \in Layouts}
MCGarbage == <<[part |-> 1, of |-> [garbage |-> TRUE]]>>
MCMaxCoded == [rgba8 |-> 8, rgba16 |-> 16]

\* WebP encodes, and chunks of animations or of a broken header.
Enc(c, alph, icc, exif, xmp, unknown) ==
    [codestream |-> c, pixels |-> "px", alph |-> alph,
     metadata |-> [NoMetadata EXCEPT !.ICCP = icc, !.EXIF = exif, !["XMP "] = xmp], unknown |-> unknown]
Priv(cc, d) == [cc |-> cc, data |-> d]
MCEncodes ==
    {Enc("VP8 ", <<"alpha">>, <<"icc">>, <<"exif">>, <<>>, <<Priv("PRV1", "a"), Priv("PRV2", "b")>>),
     Enc("VP8 ", <<"alpha">>, <<>>, <<>>, <<>>, <<>>),
     Enc("VP8L", <<>>, <<>>, <<>>, <<>>, <<>>),
     Enc("VP8L", <<>>, <<"icc">>, <<>>, <<"xmp">>, <<Priv("PRV1", "a")>>)}
MCStrays == {[cc |-> "ANIM", data |-> "anim", state |-> "whole"],
             [cc |-> "VP8X", data |-> [canvas |-> "bad"], state |-> "whole"]}

\* Edits of a photo.
T(say, as) == [say |-> say, as |-> as]
A == T("a", "ascii")
L == T("l", "latin")
W == T("w", "wide")
Set(ds, of) == [ds |-> ds, of |-> of]
IimEdit(field, sets, clears, says) == [field |-> field, sets |-> sets, clears |-> clears, says |-> says]
MCIimEdits ==
    {IimEdit("Headline", <<Set("Headline", L), Set("Headline", A)>>, {}, <<L, A>>),
     IimEdit("description", <<Set("description", A)>>, {}, <<A>>),
     IimEdit("subject", <<Set("subject", A), Set("subject", L)>>, {}, <<A, L>>),
     IimEdit("DateCreated", <<Set("date", [y |-> "1999", m |-> "05", d |-> "00"]),
                              Set("time", [t |-> "101500", z |-> ""])>>, {}, <<Iso("1999", "05", "", "", "")>>),
     IimEdit("DateCreated", <<Set("date", [y |-> "1999", m |-> "05", d |-> "31"]),
                              Set("time", [t |-> "101500", z |-> "+02:00"])>>, {},
             <<Iso("1999", "05", "31", "101500", "+02:00")>>),
     IimEdit("DateCreated", <<Set("date", [y |-> "0000", m |-> "05", d |-> "31"])>>, {"time"}, <<>>),
     IimEdit("charset", <<Set("charset", [cs |-> "other"])>>, {}, <<>>)}
Text(v) == [is |-> "text", text |-> v]
Alt(alts) == [is |-> "alt", alts |-> alts]
In(lang, text) == [lang |-> lang, text |-> text]
XmpEdit(field, value, says) == [field |-> field, value |-> value, says |-> says]
MCXmpEdits ==
    {XmpEdit("Headline", Text(W), <<W>>),
     XmpEdit("Headline", [is |-> "none"], <<>>),
     XmpEdit("description", Alt(<<In("fr", L)>>), <<L>>),
     XmpEdit("description", Alt(<<In("x-default", W), In("fr", A)>>), <<W>>),
     XmpEdit("description", Alt(<<In("fr", L), In("x-default", W)>>), <<W>>),
     XmpEdit("DateCreated", Text(Iso("2024", "01", "02", "101500", "Z")),
             <<Iso("2024", "01", "02", "101500", "Z")>>),
     XmpEdit("DateCreated", Text(Iso("junk", "", "", "", "")), <<Iso("junk", "", "", "", "")>>),
     XmpEdit("Rating", Text(A), <<A>>)}
AppEdit(field, vals) == [field |-> field, vals |-> vals]
MCAppEdits ==
    {AppEdit("description", <<A>>), AppEdit("subject", <<L, A>>),
     AppEdit("subject", <<T("b", "long")>>), AppEdit("DateCreated", <<Iso("2024", "", "", "", "")>>)}
=============================================================================
