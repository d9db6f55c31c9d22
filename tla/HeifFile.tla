------------------------------ MODULE HeifFile ------------------------------
(***************************************************************************)
(* A HEIF file from a writer to the decoder: gamut's box writer or another *)
(* one lays an image out, something cuts the file or appends to it (a      *)
(* motion photo, a vendor trailer), HeifContainer::parse reads it, and one *)
(* item is decoded.                                                        *)
(***************************************************************************)
EXTENDS HeifPresentation, IsoBmff

CONSTANTS Jobs,     \* [image, layout, faults, roots]: what is saved, how, how
                    \* often it is damaged, and what may be decoded then
          Garbage   \* cells of a vendor trailer

VARIABLES job,      \* the job in hand
          file,     \* the file, or Unwritten
          faults,   \* what was done to it since
          parsed,   \* HeifContainer: [image, segments], or Unparsed
          asked     \* the node decoded

filevars == <<job, file, faults, parsed, asked, heifvars>>

Unwritten == Pending
Unparsed == Pending
Nothing == [fn |-> "none", id |-> 0]

HeifInit ==
    /\ job \in Jobs /\ file = Unwritten /\ faults = <<>> /\ parsed = Unparsed
    /\ asked = Nothing
    /\ image = Pending /\ surface = "rgba8" /\ calls = <<>> /\ guard = <<>> /\ ret = Pending

----------------------------------------------------------------------------
\* Another writer.  Its layout names what it does differently: the data
\* before meta ("front") or in idat, payloads in two extents stored the wrong
\* way round ("split"), equal payloads stored once ("shared"), an mdat that
\* runs to the end of the file ("open").

Distinct(items, layout) ==
    IF "shared" \in layout
    THEN SelectSeq([k \in DOMAIN items |-> k],
                   LAMBDA k : \A j \in 1 .. k - 1 : items[j].payload # items[k].payload)
    ELSE [k \in DOMAIN items |-> k]
Turned(payload, layout) ==
    IF "split" \in layout /\ payload # <<>> THEN Tail(payload) \o <<Head(payload)>> ELSE payload
Stored(items, layout) ==
    [j \in DOMAIN Distinct(items, layout) |->
        [payload |-> Turned(items[Distinct(items, layout)[j]].payload, layout)]]

Extents(at, n, layout) ==
    IF "split" \in layout THEN <<<<at + n - 1, 1>>, <<at, n - 1>>>> ELSE <<<<at, n>>>>
Holder(items, k, layout) ==
    SelectInSeq(Stored(items, layout), LAMBDA s : s.payload = Turned(items[k].payload, layout))
StoredAt(items, k, layout) ==
    Preceding(Stored(items, layout), IF "shared" \in layout THEN Holder(items, k, layout) ELSE k)
\* Items without data have no location.
ForeignIloc(items, base, layout) ==
    LET with == SelectSeq([k \in DOMAIN items |-> k], LAMBDA k : items[k].payload # <<>>)
    IN  [j \in DOMAIN with |->
            [id |-> items[with[j]].id, method |-> IF "idat" \in layout THEN 1 ELSE 0,
             base |-> base,
             extents |-> Extents(StoredAt(items, with[j], layout), Len(items[with[j]].payload),
                                 layout)]]

ForeignMeta(img, base, layout) ==
    Box("meta", <<>>, MetaChildren(img, ForeignIloc(img.items, base, layout)) \o Leaf("dinf", <<>>)
                      \o Unless("idat" \notin layout,
                                Box("idat", <<>>, Mdat(Stored(img.items, layout)))))
ForeignMdat(img, layout) ==
    LET data == Mdat(Stored(img.items, layout))
    IN  CASE "idat" \in layout -> <<>>
          [] "open" \in layout -> <<Header("mdat", 0, <<>>)>> \o data
          [] OTHER -> Box("mdat", <<>>, data)
ForeignBase(img, layout) ==
    CASE "idat" \in layout -> 0
      [] "front" \in layout -> 2
      [] OTHER -> 2 + Len(ForeignMeta(img, 0, layout))
Foreign(img, layout) ==
    LET meta == ForeignMeta(img, ForeignBase(img, layout), layout)
        mdat == ForeignMdat(img, layout)
    IN  Leaf("ftyp", img.brand)
        \o IF "front" \in layout THEN mdat \o meta \o Box("free", <<>>, Garbage) ELSE meta \o mdat

Saved == IF job.layout = {} THEN Write(job.image) ELSE Good(Foreign(job.image, job.layout))
Save ==
    /\ file = Unwritten
    /\ file' = Saved
    /\ UNCHANGED <<job, faults, parsed, asked, heifvars>>

----------------------------------------------------------------------------
\* Between writer and reader.

InTransit == file # Unwritten /\ file.ok /\ parsed = Unparsed
Damage(fault, data) ==
    /\ Len(faults) < job.faults
    /\ file' = Good(data) /\ faults' = Append(faults, fault)
    /\ UNCHANGED <<job, parsed, asked, heifvars>>
Truncate == InTransit /\ \E n \in 0 .. Len(file.val) - 1 : Damage("cut", SubSeq(file.val, 1, n))
AppendTrailer == InTransit /\ Damage("trailer", file.val \o Garbage)
\* A motion photo: a second file, tracks and all.
AppendStream ==
    /\ InTransit
    /\ Damage("stream", file.val \o Leaf("ftyp", "mp42") \o Leaf("moov", <<>>) \o Garbage)

----------------------------------------------------------------------------
\* HeifContainer::parse: the semantic read, then the byte accounting.

HeifNew(img) ==
    IF HasItem(img, img.primary) /\ ~Item(img, img.primary).hidden THEN Good(img) ELSE Bad("invalid")
Semantic(data) == LET img == Read(data) IN IF img.ok THEN HeifNew(img.val) ELSE img
MetaBody(data) == LastBox(Primary(Boxes(data)), "meta").body
Accounted(data, img) ==
    LET walk == WalkSegments(data)
    IN  IF walk.ok /\ WalkMetaChildren(MetaBody(data)).ok
        THEN Good([image |-> img, segments |-> walk.val]) ELSE Bad("walk")
ContainerParse(data) ==
    LET img == Semantic(data) IN IF img.ok THEN Accounted(data, img.val) ELSE img

Parse ==
    /\ InTransit
    /\ parsed' = ContainerParse(file.val)
    /\ UNCHANGED <<job, file, faults, asked, heifvars>>

\* decode_primary_rgba8 or rgba16, or decode_item_planar of the primary item.
Decode(fn, s) ==
    /\ parsed # Unparsed /\ parsed.ok /\ asked = Nothing
    /\ Begin(parsed.val.image, fn, parsed.val.image.primary, s)
    /\ asked' = Node(fn, image'.primary)
    /\ UNCHANGED <<job, file, faults, parsed>>

Edit == Save \/ Truncate \/ AppendTrailer \/ AppendStream
Ask == \E r \in job.roots : Decode(r.fn, r.surface)
Step == Decoding /\ UNCHANGED <<job, file, faults, parsed, asked>>
HeifNext == Edit \/ Parse \/ Ask \/ Step
HeifSpec == HeifInit /\ [][HeifNext]_filevars /\ WF_filevars(Step)

----------------------------------------------------------------------------
\* Properties.

Sum(items) == Preceding(items, Len(items) + 1)
\* The segments tile the file, and only an appended part ends it early.
Tiles(segments, data) ==
    /\ segments # <<>> /\ segments[1].from = 0 /\ segments[Len(segments)].to = Len(data)
    /\ \A k \in 1 .. Len(segments) - 1 : /\ segments[k].to = segments[k + 1].from
                                         /\ segments[k].kind = "box"

\* However the file was laid out, whatever was appended to it or cut off, a
\* read either gives the very image that was saved, every payload, reference
\* and property of it, with segments that account for each byte; or refuses,
\* which takes a cut, or payloads that together exceed the file (shared data):
\* those it never gives, however small the file that asks for them.
\* (read, resolve_payload, write and walk_segments of gamut-isobmff.)
ItemsAreWhole ==
    parsed # Unparsed =>
        IF parsed.ok
        THEN /\ parsed.val.image = job.image /\ Tiles(parsed.val.segments, file.val)
             /\ Sum(job.image.items) <= Len(file.val)
        ELSE \/ "cut" \in Range(faults)
             \/ Sum(job.image.items) > Len(file.val)
             \/ ~HeifNew(job.image).ok

\* Decoding the item gives the picture its derivation describes, every pixel
\* from the right place of the right coded item, or fails when and only when
\* no such picture exists within the depth limit (decode_planar_inner,
\* decode_rgba_inner and what they call).
PresentationIsExact ==
    Decoded =>
        LET may == Presentable(job.image, asked, MaxCoded[surface], MaxDepth)
        IN  /\ ret.ok <=> may
            /\ may /\ IsAligned(job.image, asked) => Shows(job.image, asked, ret.val)

\* Every decode returns, on any item graph.
DecodeReturns == (asked # Nothing) ~> Decoded
=============================================================================
