---------------------------- MODULE PhotoMetadata ----------------------------
(***************************************************************************)
(* The IPTC data of a photo lives twice, in a legacy IIM block and in XMP,  *)
(* and programs that know only one of them edit it.  gamut-metadata         *)
(* extracts one model from the blocks of a file and embeds it again;        *)
(* gamut-iptc reconciles the two carriers.                                  *)
(*                                                                          *)
(* A block is [kind, data].  XMP data is a graph: a function from the names *)
(* of its properties to values: [is |-> "text", text], [is |-> "array",     *)
(* items] or [is |-> "alt", alts], an alt being [lang, text].  IIM data is  *)
(* a sequence of [ds, of].  A text is [say, as], `as` telling which         *)
(* charsets hold it.                                                        *)
(***************************************************************************)
EXTENDS Outcome, Integers, Sequences, FiniteSets, SequencesExt

CONSTANTS IimEdits,    \* what an IIM tool writes: [field, sets, says]
          XmpEdits,    \* what an XMP tool writes: [field, value, says]
          AppEdits,    \* what a program sets in the model: [field, vals]
          MaxTurns     \* bound: edits, extracts and embeds of one photo

VARIABLES blocks,   \* the metadata blocks of the file, in order
          model,    \* Metadata.xmp as extracted, or Unextracted
          said,     \* what was last written to each carrier: field -> texts
          turns

photovars == <<blocks, model, said, turns>>

Unextracted == [none |-> TRUE]
Policies == {"XmpWins", "IimWins"}

\* FIELD_MAP, one row of each shape; Rating stands for the properties outside.
Shape == [Headline |-> "text", description |-> "alt", subject |-> "array",
          DateCreated |-> "date", Rating |-> "text"]
Fields == DOMAIN Shape
FieldMap == Fields \ {"Rating"}

----------------------------------------------------------------------------
\* The XMP graph (XmpMeta and PhotoMetadata).

Put(graph, name, value) == [n \in DOMAIN graph \cup {name} |->
                               IF n = name THEN value ELSE graph[n]]
Texts(alts) == [k \in DOMAIN alts |-> alts[k].text]
First(s) == SubSeq(s, 1, IF s = <<>> THEN 0 ELSE 1)

GetField(graph, name) ==
    CASE name \notin DOMAIN graph -> <<>>
      [] graph[name].is = "text" -> IF Shape[name] = "array" THEN <<>> ELSE <<graph[name].text>>
      [] graph[name].is = "array" -> IF Shape[name] = "array" THEN graph[name].items ELSE <<>>
      [] graph[name].is = "alt" -> IF Shape[name] = "alt" THEN First(Texts(graph[name].alts)) ELSE <<>>

\* The x-default alternative is replaced in place, or becomes the first.
WithDefault(alts, text) ==
    LET k == SelectInSeq(alts, LAMBDA a : a.lang = "x-default")
    IN  IF k = 0 THEN <<[lang |-> "x-default", text |-> text]>> \o alts
        ELSE [alts EXCEPT ![k].text = text]
Alternatives(graph, name) ==
    IF name \in DOMAIN graph /\ graph[name].is = "alt" THEN graph[name].alts ELSE <<>>
SetField(graph, name, vals) ==
    CASE vals = <<>> /\ Shape[name] # "array" -> graph
      [] Shape[name] = "array" -> Put(graph, name, [is |-> "array", items |-> vals])
      [] Shape[name] = "alt" ->
            Put(graph, name, [is |-> "alt",
                              alts |-> WithDefault(Alternatives(graph, name), vals[1])])
      [] OTHER -> Put(graph, name, [is |-> "text", text |-> vals[1]])

----------------------------------------------------------------------------
\* The charset of an IIM block.

Sets(iim, ds) == SelectSeq(iim, LAMBDA d : d.ds = ds)
Detect(iim) ==
    LET escape == Sets(iim, "charset")
    IN  CASE escape = <<>> \/ escape[1].of.cs = "" -> Good("latin1")
          [] escape # <<>> /\ escape[1].of.cs = "utf8" -> Good("utf8")
          [] OTHER -> Bad("unsupported")

\* UTF-8 octets read as Latin-1 give a text, the converse does not.
Garbled(text) == [text EXCEPT !.as = "garbled"]
CanDecode(charset, octets) == charset = "latin1" \/ octets.in = "utf8" \/ octets.text.as = "ascii"
DecodeText(charset, octets) ==
    IF charset = "latin1" /\ octets.in = "utf8" /\ octets.text.as # "ascii"
    THEN Garbled(octets.text) ELSE octets.text
CanEncode(charset, text) == charset = "utf8" \/ text.as # "wide"
Encode(charset, text) == [in |-> charset, text |-> text]

----------------------------------------------------------------------------
\* DateCreated: CCYYMMDD with 00 for what is unknown, and HHMMSS with a zone;
\* against CCYY[-MM[-DD[Thh:mm:ss[zone]]]].

IsDate(date) == date.y # "junk" /\ date.y # "0000"
IsTime(time) == time.t # "junk"
Iso(y, m, d, t, z) == [y |-> y, m |-> m, d |-> d, t |-> t, z |-> z]
IimToIso(date, time) ==
    CASE date.m = "00" -> Iso(date.y, "", "", "", "")
      [] date.m # "00" /\ date.d = "00" -> Iso(date.y, date.m, "", "", "")
      [] date.m # "00" /\ date.d # "00" ->
            IF time # <<>> /\ IsTime(time[1].of)
            THEN Iso(date.y, date.m, date.d, time[1].of.t, time[1].of.z)
            ELSE Iso(date.y, date.m, date.d, "", "")

OrZero(part) == IF part = "" THEN "00" ELSE part
IsIso(iso) == iso.y # "junk" /\ iso.t # "junk"
IsoToIim(iso) ==
    <<[ds |-> "date", of |-> [y |-> iso.y, m |-> OrZero(iso.m), d |-> OrZero(iso.d)]]>>
    \o IF iso.t = "" THEN <<>>
       ELSE <<[ds |-> "time", of |-> [t |-> iso.t, z |-> IF iso.z = "Z" THEN "+00:00" ELSE iso.z]]>>

----------------------------------------------------------------------------
\* Reconciliation.

ReadDate(iim) ==
    LET date == Sets(iim, "date")
    IN  IF date # <<>> /\ IsDate(date[1].of)
        THEN <<IimToIso(date[1].of, Sets(iim, "time"))>> ELSE <<>>
ReadTexts(iim, name, charset) ==
    LET of == SelectSeq(Sets(iim, name), LAMBDA d : CanDecode(charset, d.of))
        decoded == [k \in DOMAIN of |-> DecodeText(charset, of[k].of)]
    IN  IF Shape[name] = "array" THEN decoded ELSE First(decoded)
ReadIimField(iim, name, charset) ==
    IF Shape[name] = "date" THEN ReadDate(iim) ELSE ReadTexts(iim, name, charset)

Adopts(policy, xmp, iim) ==
    /\ iim # <<>>
    /\ xmp = <<>> \/ (xmp # iim /\ policy = "IimWins")
MergeField(policy, iim, charset, graph, name) ==
    LET vals == ReadIimField(iim, name, charset)
    IN  IF Adopts(policy, GetField(graph, name), vals) THEN SetField(graph, name, vals) ELSE graph
\* The rows are independent, so their order does not matter.
Rows == <<"description", "subject", "DateCreated", "Headline">>
Merge(policy, iim, charset, graph) ==
    FoldLeft(LAMBDA g, name : MergeField(policy, iim, charset, g, name), graph, Rows)

Conflicts(iim, graph, charset) ==
    {name \in FieldMap :
        LET vals == ReadIimField(iim, name, charset)
        IN  vals # <<>> /\ GetField(graph, name) # <<>> /\ vals # GetField(graph, name)}

\* The datasets of one field, or an error: nothing is truncated or dropped.
IsExpressible(charset, name, vals) ==
    IF Shape[name] = "date" THEN vals = <<>> \/ IsIso(vals[1])
    ELSE \A v \in Range(vals) : CanEncode(charset, v) /\ v.as # "long"
ProjectField(charset, name, vals) ==
    CASE vals = <<>> -> <<>>
      [] vals # <<>> /\ Shape[name] = "date" -> IsoToIim(vals[1])
      [] OTHER -> [k \in DOMAIN vals |-> [ds |-> name, of |-> Encode(charset, vals[k])]]
\* Mutant: UTF-8 not declared.
EscapeNever(charset) == <<>>
Escape(charset) == IF charset = "utf8" THEN <<[ds |-> "charset", of |-> [cs |-> "utf8"]]>> ELSE <<>>
Project(graph, charset) ==
    LET fields == FlattenSeq([k \in DOMAIN Rows |->
                      ProjectField(charset, Rows[k], GetField(graph, Rows[k]))])
    IN  CASE \E name \in FieldMap : ~IsExpressible(charset, name, GetField(graph, name))
                -> Bad("malformed")
          [] fields = <<>> -> Good(<<>>)
          [] OTHER -> Good(Escape(charset) \o fields)

----------------------------------------------------------------------------
\* The extractor and the embedder.

\* The last block of a kind, as a sequence of at most one.
LastBlock(kind) ==
    LET of == SelectSeq(blocks, LAMBDA b : b.kind = kind)
    IN  IF of = <<>> THEN <<>> ELSE <<of[Len(of)].data>>
Empty == <<>>
Graph(xmp) == IF xmp = <<>> THEN Empty ELSE xmp[1]
Reconciled(policy, iim, xmp) ==
    LET charset == Detect(iim)
    IN  IF charset.ok THEN Good(Merge(policy, iim, charset.val, Graph(xmp))) ELSE charset
ExtractWith(policy) ==
    LET iim == LastBlock("iim")
    IN  IF iim = <<>> THEN Good(Graph(LastBlock("xmp")))
        ELSE Reconciled(policy, iim[1], LastBlock("xmp"))
ReportConflicts ==
    LET iim == LastBlock("iim")
        xmp == LastBlock("xmp")
    IN  IF iim = <<>> \/ xmp = <<>> THEN {} ELSE Conflicts(iim[1], xmp[1], Detect(iim[1]).val)

Block(kind, data) == IF DOMAIN data = {} THEN <<>> ELSE <<[kind |-> kind, data |-> data]>>
EmbedIim(emit, charset) == IF emit THEN Project(model.val, charset) ELSE Good(<<>>)

TakeTurn == turns < MaxTurns /\ turns' = turns + 1
Extract == TakeTurn /\ \E policy \in Policies :
    /\ model' = ExtractWith(policy)
    /\ UNCHANGED <<blocks, said>>

HasModel == model # Unextracted /\ model.ok
SetModel == TakeTurn /\ \E e \in AppEdits :
    /\ HasModel
    /\ model' = Good(SetField(model.val, e.field, e.vals))
    /\ UNCHANGED <<blocks, said>>

\* An embed that fails writes nothing.
Embed == TakeTurn /\ \E emit \in BOOLEAN, charset \in {"utf8", "latin1"} :
    /\ HasModel /\ (charset = "latin1" => emit)
    /\ LET iim == EmbedIim(emit, charset)
           now == [f \in Fields |-> GetField(model.val, f)]
           legacy == [f \in Fields |-> IF emit /\ f \in FieldMap THEN now[f] ELSE <<>>]
       IN  /\ blocks' = IF iim.ok THEN Block("xmp", model.val) \o Block("iim", iim.val) ELSE blocks
           /\ said' = IF iim.ok THEN [xmp |-> now, iim |-> legacy] ELSE said
    /\ UNCHANGED model

----------------------------------------------------------------------------
\* The tools that know one carrier.

Rewritten(kind, data) ==
    LET k == SelectLastInSeq(blocks, LAMBDA b : b.kind = kind)
    IN  IF k = 0 THEN Append(blocks, [kind |-> kind, data |-> data])
        ELSE [blocks EXCEPT ![k].data = data]
Says(carrier, field, texts) == said' = [said EXCEPT ![carrier][field] = texts]

OldIim == IF LastBlock("iim") = <<>> THEN <<>> ELSE LastBlock("iim")[1]
IsText(e) == e.field \notin {"DateCreated", "charset"}
Spelled(e) == IF IsText(e) THEN Range(e.says) ELSE {}
Octets(e, charset) ==
    IF ~IsText(e) THEN e.sets
    ELSE [k \in DOMAIN e.sets |-> [e.sets[k] EXCEPT !.of = Encode(charset, @)]]
Others(iim, e) == SelectSeq(iim, LAMBDA d : d.ds \notin {x.ds : x \in Range(e.sets)} \cup e.clears)
\* What can be read of texts written in a charset the block does not declare.
Legible(e, charset, declared) ==
    IF Shape[e.field] = "date" THEN e.says
    ELSE LET of == SelectSeq(e.says, LAMBDA v : CanDecode(declared, Encode(charset, v)))
         IN  IF Shape[e.field] = "array" THEN of ELSE First(of)
\* It writes in the block's charset, or always in Latin-1.
EditIim == TakeTurn /\ \E e \in IimEdits, charset \in {"utf8", "latin1"} :
    /\ Detect(OldIim).ok /\ charset \in {"latin1", Detect(OldIim).val}
    /\ \A v \in Spelled(e) : CanEncode(charset, v)
    /\ blocks' = Rewritten("iim", Others(OldIim, e) \o Octets(e, charset))
    /\ IF e.field = "charset" THEN UNCHANGED said
       ELSE Says("iim", e.field, Legible(e, charset, Detect(OldIim).val))
    /\ UNCHANGED model

Without(graph, name) == [n \in DOMAIN graph \ {name} |-> graph[n]]
Changed(graph, e) == IF e.says = <<>> THEN Without(graph, e.field) ELSE Put(graph, e.field, e.value)
\* It rewrites the packet, or appends a new one.
EditXmp == TakeTurn /\ \E e \in XmpEdits, append \in BOOLEAN :
    /\ LET graph == Changed(Graph(LastBlock("xmp")), e)
       IN  blocks' = IF append THEN Append(blocks, [kind |-> "xmp", data |-> graph])
                     ELSE Rewritten("xmp", graph)
    /\ Says("xmp", e.field, e.says)
    /\ UNCHANGED model

----------------------------------------------------------------------------
Nobody == [f \in Fields |-> <<>>]
PhotoInit ==
    /\ blocks = <<>> /\ model = Unextracted /\ turns = 0
    /\ said = [xmp |-> Nobody, iim |-> Nobody]
PhotoNext == Extract \/ SetModel \/ Embed \/ EditIim \/ EditXmp
PhotoSpec == PhotoInit /\ [][PhotoNext]_photovars

\* A date that IIM expresses: no unknown part before a known one, no "Z".
IsCanonical(iso) ==
    /\ iso.y # "0000" /\ "00" \notin {iso.m, iso.d} /\ iso.z # "Z"
    /\ iso.t # "" => iso.d # ""
    /\ iso.d # "" => iso.m # ""
Keeps(f) ==
    f = "DateCreated" => \A iso \in Range(said.iim[f]) : IsCanonical(iso)
Preferred(policy, f) ==
    IF said.iim[f] = <<>> \/ (policy = "XmpWins" /\ said.xmp[f] # <<>>)
    THEN said.xmp[f] ELSE said.iim[f]
IsForeign == \E k \in DOMAIN OldIim : OldIim[k].ds = "charset" /\ OldIim[k].of.cs = "other"

\* The x-default alternative of the caption, if there is one, is the first: gamut reads
\* the first alternative and writes the x-default one in place.
DefaultLeads(f) ==
    LET alts == Alternatives(Graph(LastBlock("xmp")), f)
    IN  f = "description" => \A k \in DOMAIN alts : alts[k].lang = "x-default" => k = 1
IsTold(f) == Keeps(f) /\ DefaultLeads(f)

\* Whoever edited a photo in whatever order, through either carrier, through the
\* model, in either charset, every field extracts as the preferred carrier's last
\* writer left it, or the other's if that one says nothing; the conflicts are the
\* fields the two last writers disagree about (none after an embed); and no other
\* language of a caption is lost.  A block in a foreign charset is refused.
\* Said of dates that IIM can express, and of captions whose x-default alternative
\* leads or is absent: of one in which another language leads, what is read is that
\* language, and neither policy makes the legacy caption win over it.
\* (merge, project, conflicts, MetadataExtractor::extract, MetadataEmbedder::embed.)
CarriersAgree ==
    /\ \A policy \in Policies :
          LET out == ExtractWith(policy)
          IN  /\ out.ok <=> ~IsForeign
              /\ out.ok => /\ \A f \in Fields : IsTold(f) => GetField(out.val, f) = Preferred(policy, f)
                           /\ \A a \in Range(Alternatives(Graph(LastBlock("xmp")), "description")) :
                                 a.lang = "x-default" \/ a \in Range(Alternatives(out.val, "description"))
                           /\ ~DefaultLeads("description") =>
                                 GetField(out.val, "description") = GetField(LastBlock("xmp")[1], "description")
    /\ ~IsForeign =>
          \A f \in FieldMap : IsTold(f) =>
             (f \in ReportConflicts <=> /\ said.iim[f] # <<>> /\ said.xmp[f] # <<>>
                                        /\ said.iim[f] # said.xmp[f])
=============================================================================
