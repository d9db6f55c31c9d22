------------------------------- MODULE IsoBmff -------------------------------
(***************************************************************************)
(* The box structure of a HEIF or AVIF file (gamut-isobmff): the writer of *)
(* an image, its reader, and the walk that accounts for every byte.        *)
(*                                                                         *)
(* A file is a sequence of cells: payload cells (see HeifImage), and box   *)
(* headers [part |-> 0, of |-> [ty, size, val]].  A box is a header and    *)
(* size - 1 cells of body, or all the cells left when size is 0; a box     *)
(* whose fields matter carries them in val.  Counts, versions and field    *)
(* widths are left out, but for the two forms of an ipma association.      *)
(***************************************************************************)
EXTENDS HeifImage

CONSTANTS Narrow,   \* bound: 0x80, the essential bit of a 7-bit association
          Wide      \* bound: 0x8000, that of a 15-bit one
ASSUME IndexAssumption == Narrow \in Nat /\ Wide \in Nat /\ 1 < Narrow /\ Narrow < Wide

Header(ty, size, val) == [part |-> 0, of |-> [ty |-> ty, size |-> size, val |-> val]]
Box(ty, val, body) == <<Header(ty, 1 + Len(body), val)>> \o body
Leaf(ty, val) == Box(ty, val, <<>>)

----------------------------------------------------------------------------
\* Reading boxes.

IsMalformed(s, p) ==
    \/ s[p + 1].part # 0
    \/ s[p + 1].of.size > Len(s) - p
BoxEnd(s, p) == IF s[p + 1].of.size = 0 THEN Len(s) ELSE p + s[p + 1].of.size

\* next_box, until a box is malformed: that entry stands for the rest.
Boxes(s) ==
    LET entry(p, ty, val, end) ==
            [ty |-> ty, val |-> val, from |-> p, to |-> end, body |-> SubSeq(s, p + 2, end)]
        after[p \in 0 .. Len(s)] ==
            CASE p = Len(s) -> <<>>
              [] p < Len(s) /\ IsMalformed(s, p) -> <<entry(p, "malformed", <<>>, Len(s))>>
              [] OTHER -> <<entry(p, s[p + 1].of.ty, s[p + 1].of.val, BoxEnd(s, p))>>
                          \o after[BoxEnd(s, p)]
    IN  after[0]

Holds(boxes, ty) == \E k \in DOMAIN boxes : boxes[k].ty = ty
IsBroken(boxes) == Holds(boxes, "malformed")
\* `_ = Some(...)` in a loop: the last box of a type.
LastBox(boxes, ty) == boxes[SelectLastInSeq(boxes, LAMBDA b : b.ty = ty)]
ValOf(boxes, ty) == IF Holds(boxes, ty) THEN LastBox(boxes, ty).val ELSE <<>>

----------------------------------------------------------------------------
\* The primary stream ends where a second ftyp begins, or a malformed box.

EndsPrimary(boxes, k) ==
    \/ boxes[k].ty = "malformed"
    \/ boxes[k].ty = "ftyp" /\ Holds(SubSeq(boxes, 1, k - 1), "ftyp")
PrimaryBoxes(boxes) ==
    SubSeq(boxes, 1, SelectInSeq([k \in DOMAIN boxes |-> EndsPrimary(boxes, k)],
                                 LAMBDA ends : ends) - 1)
Primary(boxes) ==
    IF \E k \in DOMAIN boxes : EndsPrimary(boxes, k) THEN PrimaryBoxes(boxes) ELSE boxes
HasRequired(boxes) == Holds(boxes, "ftyp") /\ Holds(boxes, "meta")

\* A box cut short before both required boxes is an error of the file.
TopLevel(data) ==
    LET all == Boxes(data)
        top == Primary(all)
    IN  IF ~HasRequired(top) /\ Len(top) < Len(all) /\ all[Len(top) + 1].ty = "malformed"
        THEN Bad("invalid") ELSE Good(top)

----------------------------------------------------------------------------
\* meta.

\* iprp needs both children, and every property box whole.
ParseIprp(body) ==
    LET in == Boxes(body)
        pool == Boxes(LastBox(in, "ipco").body)
    IN  CASE IsBroken(in) \/ ~Holds(in, "ipco") \/ ~Holds(in, "ipma") -> Bad("invalid")
          [] IsBroken(pool) -> Bad("invalid")
          [] OTHER -> Good([pool |-> [k \in DOMAIN pool |-> pool[k].val],
                            ipma |-> ValOf(in, "ipma")])

NoProperties == Good([pool |-> <<>>, ipma |-> [wide |-> FALSE, rows |-> <<>>]])
Iprp(in) == IF Holds(in, "iprp") THEN ParseIprp(LastBox(in, "iprp").body) ELSE NoProperties

IsSoundMeta(in) ==
    /\ ~IsBroken(in)
    /\ \A ty \in {"hdlr", "pitm", "iinf"} : Holds(in, ty)
    /\ Iprp(in).ok
ParseMeta(body) ==
    LET in == Boxes(body)
    IN  CASE ~IsSoundMeta(in) -> Bad("invalid")
          [] ValOf(in, "hdlr") # "pict" -> Bad("unsupported")
          [] OTHER -> Good([primary |-> ValOf(in, "pitm"), infe |-> ValOf(in, "iinf"),
                            iloc |-> ValOf(in, "iloc"), iref |-> ValOf(in, "iref"),
                            groups |-> ValOf(in, "grpl"), idat |-> Holds(in, "idat"),
                            data |-> IF Holds(in, "idat") THEN LastBox(in, "idat").body ELSE <<>>,
                            pool |-> Iprp(in).val.pool, ipma |-> Iprp(in).val.ipma])

----------------------------------------------------------------------------
\* Items.  Their payloads draw on one budget: the size of the file.

\* The first row of a table for an id, as a sequence of at most one.
RowOf(rows, id) == LET mine == SelectSeq(rows, LAMBDA r : r.id = id)
                   IN  SubSeq(mine, 1, IF mine = <<>> THEN 0 ELSE 1)

\* An extent is <<offset, length>> from the base offset.
InBounds(source, row) ==
    \A e \in Range(row.extents) : row.base + e[1] + e[2] <= Len(source)
Slice(source, row) ==
    FlattenSeq([k \in DOMAIN row.extents |->
        SubSeq(source, row.base + row.extents[k][1] + 1,
               row.base + row.extents[k][1] + row.extents[k][2])])
Source(data, meta, row) == IF row.method = 0 THEN data ELSE meta.data

ResolvePayload(data, meta, row, budget) ==
    CASE row.method # 0 /\ ~meta.idat -> Bad("invalid")
      [] ~InBounds(Source(data, meta, row), row) -> Bad("invalid")
      [] Len(Slice(Source(data, meta, row), row)) > budget -> Bad("invalid")
      [] OTHER -> Good(Slice(Source(data, meta, row), row))
Payloads(data, meta, id, budget) ==
    LET row == RowOf(meta.iloc, id)
    IN  IF row = <<>> THEN Good(<<>>) ELSE ResolvePayload(data, meta, row[1], budget)

Mask(ipma) == IF ipma.wide THEN Wide ELSE Narrow
Associations(meta, id) ==
    LET row == RowOf(meta.ipma.rows, id) IN IF row = <<>> THEN <<>> ELSE row[1].of
IndexesAreSound(meta, id) ==
    \A a \in Range(Associations(meta, id)) : a % Mask(meta.ipma) \in 1 .. Len(meta.pool)
PropertiesOf(meta, id) ==
    LET row == Associations(meta, id)
    IN  [k \in DOMAIN row |-> [essential |-> row[k] >= Mask(meta.ipma),
                               kind |-> meta.pool[row[k] % Mask(meta.ipma)]]]
\* The references of an item go to the first infe with its id.
ReferencesOf(meta, k) ==
    LET mine == IF \E j \in 1 .. k - 1 : meta.infe[j].id = meta.infe[k].id THEN <<>>
                ELSE SelectSeq(meta.iref, LAMBDA r : r.from = meta.infe[k].id)
    IN  [j \in DOMAIN mine |-> [type |-> mine[j].type, to |-> mine[j].to]]

ItemOf(meta, k, payload) ==
    [id |-> meta.infe[k].id, type |-> meta.infe[k].type, hidden |-> meta.infe[k].hidden,
     refs |-> ReferencesOf(meta, k), props |-> PropertiesOf(meta, meta.infe[k].id),
     payload |-> payload]

\* One turn of the loop over infe: the items so far and what is left to spend.
NextItem(meta, k, acc, payload) ==
    IF payload.ok /\ IndexesAreSound(meta, meta.infe[k].id)
    THEN [ok |-> TRUE, items |-> Append(acc.items, ItemOf(meta, k, payload.val)),
          budget |-> acc.budget - Len(payload.val)]
    ELSE [acc EXCEPT !.ok = FALSE]
Items(data, meta) ==
    FoldLeftDomain(LAMBDA acc, k :
            IF acc.ok THEN NextItem(meta, k, acc,
                                    Payloads(data, meta, meta.infe[k].id, acc.budget))
            ELSE acc,
        [ok |-> TRUE, items |-> <<>>, budget |-> Len(data)], meta.infe)

ReadItems(data, brand, meta) ==
    IF /\ \A r \in Range(meta.iref) : \E i \in Range(meta.infe) : i.id = r.from
       /\ Items(data, meta).ok
    THEN Good([brand |-> brand, primary |-> meta.primary, groups |-> meta.groups,
               items |-> Items(data, meta).items])
    ELSE Bad("invalid")

ReadMeta(data, brand, meta) == IF meta.ok THEN ReadItems(data, brand, meta.val) ELSE meta
ReadTop(data, top) ==
    CASE Holds(top, "moov") \/ Holds(top, "trak") -> Bad("unsupported")
      [] ~HasRequired(top) -> Bad("invalid")
      [] OTHER -> ReadMeta(data, ValOf(top, "ftyp"), ParseMeta(LastBox(top, "meta").body))
Read(data) == LET top == TopLevel(data) IN IF top.ok THEN ReadTop(data, top.val) ELSE top

----------------------------------------------------------------------------
\* walk_segments: what each range of the file is.

Segment(b) == [kind |-> "box", from |-> b.from, to |-> b.to]
\* The appended stream or the trailer, if the primary stream ends early.
Rest(all, n, data) ==
    IF n = Len(all) THEN <<>>
    ELSE <<[kind |-> IF all[n + 1].ty = "ftyp" THEN "appended" ELSE "trailer",
            from |-> all[n + 1].from, to |-> Len(data)]>>
WalkSegments(data) ==
    LET top == TopLevel(data)
    IN  IF top.ok THEN Good([k \in DOMAIN top.val |-> Segment(top.val[k])]
                            \o Rest(Boxes(data), Len(top.val), data))
        ELSE top

\* walk_meta_children: only a malformed child stops it.
WalkMetaChildren(body) ==
    LET in == Boxes(body)
        iprps == SelectSeq(in, LAMBDA b : b.ty = "iprp")
        known == {"hdlr", "pitm", "iloc", "iinf", "iref", "idat", "grpl", "iprp"}
    IN  IF IsBroken(in) \/ \E k \in DOMAIN iprps : IsBroken(Boxes(iprps[k].body)) THEN Bad("invalid")
        ELSE Good([k \in 1 .. Len(in) |-> in[k].ty \notin known])

----------------------------------------------------------------------------
\* Writing an image.

IsWritable(i) ==
    /\ i.type # "uri"
    /\ \A p \in Range(i.props) : /\ p.kind.is = "irot" => p.kind.turns <= 3
                                 /\ p.kind.is = "imir" => p.kind.axis <= 1
Validate(image) ==
    /\ HasItem(image, image.primary)
    /\ \A j, k \in DOMAIN image.items : image.items[j].id = image.items[k].id => j = k
    /\ \A i \in Range(image.items) : IsWritable(i)

\* The shared pool holds each property box once, whatever its essential flag.
AllProperties(items) == FlattenSeq([k \in DOMAIN items |-> items[k].props])
Pooled(pool, kind) == IF \E k \in DOMAIN pool : pool[k] = kind THEN pool ELSE Append(pool, kind)
Pool(items) == FoldLeft(LAMBDA pool, p : Pooled(pool, p.kind), <<>>, AllProperties(items))

\* Mutant: the last narrow index taken for one more.
IsWideOffByOne(pool) == Len(pool) > Narrow
IsWide(pool) == Len(pool) >= Narrow
\* One association: an index and the essential bit, in a byte or a word.
Association(p, pool) ==
    LET bit == IF IsWide(pool) THEN Wide ELSE Narrow
        index == SelectInSeq(pool, LAMBDA kind : kind = p.kind)
    IN  (IF p.essential THEN index + bit ELSE index) % (2 * bit)
Ipma(items, pool) ==
    [wide |-> IsWide(pool),
     rows |-> [k \in DOMAIN items |->
                [id |-> items[k].id,
                 of |-> [j \in DOMAIN items[k].props |-> Association(items[k].props[j], pool)]]]]
IprpBox(items) ==
    Box("iprp", <<>>,
        Box("ipco", <<>>, [k \in DOMAIN Pool(items) |-> Header(Pool(items)[k].is, 1, Pool(items)[k])])
        \o Leaf("ipma", Ipma(items, Pool(items))))

Infe(items) == [k \in DOMAIN items |->
                   [id |-> items[k].id, type |-> items[k].type, hidden |-> items[k].hidden]]
Iref(items) ==
    FlattenSeq([k \in DOMAIN items |-> [j \in DOMAIN items[k].refs |->
        [from |-> items[k].id, type |-> items[k].refs[j].type, to |-> items[k].refs[j].to]]])
Unless(empty, box) == IF empty THEN <<>> ELSE box

\* The children of meta around the item locations.
MetaChildren(image, iloc) ==
    Leaf("hdlr", "pict") \o Leaf("pitm", image.primary) \o Leaf("iloc", iloc)
    \o Leaf("iinf", Infe(image.items))
    \o Unless(Iref(image.items) = <<>>, Leaf("iref", Iref(image.items)))
    \o IprpBox(image.items)
    \o Unless(image.groups = <<>>, Leaf("grpl", image.groups))

\* Each payload is one extent of mdat, at the position it was written to.
Preceding(items, k) ==
    FoldLeft(LAMBDA n, i : n + Len(i.payload), 0, SubSeq(items, 1, k - 1))
Iloc(items, start) ==
    [k \in DOMAIN items |->
        [id |-> items[k].id, method |-> 0, base |-> 0,
         extents |-> <<<<start + Preceding(items, k), Len(items[k].payload)>>>>]]
Mdat(items) == FlattenSeq([k \in DOMAIN items |-> items[k].payload])

MetaBox(image, iloc) == Box("meta", <<>>, MetaChildren(image, iloc))
\* The slots of iloc are patched once mdat is placed.
Serialize(image) ==
    LET start == Len(Leaf("ftyp", image.brand) \o MetaBox(image, <<>>)) + 1
    IN  Leaf("ftyp", image.brand) \o MetaBox(image, Iloc(image.items, start))
        \o Box("mdat", <<>>, Mdat(image.items))
Write(image) ==
    CASE ~Validate(image) -> Bad("invalid")
      [] Len(Pool(image.items)) >= Wide -> Bad("unsupported")
      [] OTHER -> Good(Serialize(image))
=============================================================================
