------------------------------- MODULE WebpFile -------------------------------
(***************************************************************************)
(* The RIFF container of a WebP file (gamut-riff), what gamut-webp wraps   *)
(* in it and takes out again, and a file through several hands: the        *)
(* encoder writes it, a medium loses, repeats, exchanges or spoils chunks, *)
(* a reader takes it apart, and what it found (pixels, metadata, private   *)
(* chunks) is encoded again.                                               *)
(*                                                                         *)
(* A file is [claim, chunks, trailing]: whether its size field is within   *)
(* the data, the chunks the field covers, and what follows them.  A chunk  *)
(* is [cc, data, state], state being "whole", "dirty" (a pad byte that is  *)
(* not zero), "unpadded" (no pad byte: the last one) or "cut" (a header or *)
(* a size that runs past the end).  Payloads are opaque values, a VP8X     *)
(* payload its flags; an optional payload is a sequence of at most one.    *)
(***************************************************************************)
EXTENDS Outcome, Integers, Sequences, FiniteSets, SequencesExt

CONSTANTS Encodes,      \* what is encoded first
          Strays,       \* chunks another program may put in
          MaxFaults,    \* bound: faults between a write and a read
          Transcodes    \* bound: how often a file is encoded again

VARIABLES given,     \* what the encoder was given
          webp,      \* the file
          mishaps,   \* what was done to it: [kind, chunk]
          layout,    \* WebpLayout::parse, or Unread
          metadata,  \* MetadataChunks::read
          rounds     \* encodes so far

webpvars == <<given, webp, mishaps, layout, metadata, rounds>>

----------------------------------------------------------------------------
\* The container.

Chunk(cc, data) == <<[cc |-> cc, data |-> data, state |-> "whole"]>>
Riff(chunks) == [claim |-> "within", chunks |-> chunks, trailing |-> 0]

Rank(cc) == CASE cc = "VP8X" -> 0
              [] cc = "ICCP" -> 1
              [] cc = "ANIM" -> 2
              [] cc \in {"ANMF", "ALPH"} -> 3
              [] cc \in {"VP8 ", "VP8L"} -> 4
Reconstructs == {"VP8X", "ICCP", "ANIM", "ANMF", "ALPH", "VP8 ", "VP8L"}
Metadata == {"ICCP", "EXIF", "XMP "}
Bitstreams == {"VP8 ", "VP8L"}
Known(cc) == cc \in Reconstructs \cup Metadata

\* What the encoder takes: a bitstream, optional payloads, and private chunks under
\* names of their own.  Other programs add chunks that carry nothing of the image.
IsSlot(slot) == slot = <<>> \/ slot = <<slot[1]>>
IsEncode(e) ==
    /\ e.codestream \in Bitstreams
    /\ IsSlot(e.alph) /\ DOMAIN e.metadata = Metadata /\ \A cc \in Metadata : IsSlot(e.metadata[cc])
    /\ e.unknown \in Seq(ToSet(e.unknown))
    /\ \A u \in ToSet(e.unknown) : u = [cc |-> u.cc, data |-> u.data] /\ ~Known(u.cc)
ASSUME EncodesAssumption == \A e \in Encodes : IsEncode(e)
ASSUME StraysAssumption ==
    \A c \in Strays :
        /\ c = [cc |-> c.cc, data |-> c.data, state |-> c.state]
        /\ c.cc \in {"VP8X", "ANIM", "ANMF"}
        /\ c.cc = "VP8X" => c.data.canvas \in {"good", "bad"}

----------------------------------------------------------------------------
\* Reading.

\* The iterator ends at the first chunk that is malformed, with an error.
IsReadable(chunk) == chunk.state \in {"whole", "unpadded"}
Malformed(file) == \E k \in DOMAIN file.chunks : ~IsReadable(file.chunks[k])

\* get_or_insert: the first payload stays.
Insert(slot, data) == IF slot = <<>> THEN <<data>> ELSE slot

NoMetadata == [cc \in Metadata |-> <<>>]
Kept(found, chunk) ==
    IF chunk.cc \in Metadata THEN [found EXCEPT ![chunk.cc] = Insert(@, chunk.data)] ELSE found
ReadMetadata(file) ==
    IF file.claim # "within" \/ Malformed(file) THEN Bad("invalid")
    ELSE LET found[k \in 0 .. Len(file.chunks)] ==
                 IF k = 0 THEN NoMetadata ELSE Kept(found[k - 1], file.chunks[k])
         IN  Good(found[Len(file.chunks)])

EmptyLayout(file) ==
    [ok |-> TRUE, rank |-> 0, vp8x |-> <<>>, metadata |-> NoMetadata, alph |-> <<>>,
     bitstream |-> <<>>, unknown |-> <<>>, trailing |-> file.trailing]

\* Mutant: equal ranks refused.
RegressesOrRepeats(lay, cc) == cc \in Reconstructs /\ Rank(cc) <= lay.rank
Regresses(lay, cc) == cc \in Reconstructs /\ Rank(cc) < lay.rank
Ranked(lay, cc) == IF cc \in Reconstructs THEN [lay EXCEPT !.rank = Rank(cc)] ELSE lay
Placed(lay, chunk) ==
    CASE chunk.cc = "VP8X" -> [lay EXCEPT !.vp8x = Insert(@, chunk.data)]
      [] chunk.cc \in Metadata -> [lay EXCEPT !.metadata = Kept(@, chunk)]
      [] chunk.cc = "ALPH" -> [lay EXCEPT !.alph = Insert(@, chunk.data)]
      [] chunk.cc \in Bitstreams ->
            [lay EXCEPT !.bitstream = Insert(@, [cc |-> chunk.cc, data |-> chunk.data])]
      [] OTHER -> [lay EXCEPT !.unknown = Append(@, [cc |-> chunk.cc, data |-> chunk.data])]

\* A canvas of zero, or too large, in the VP8X that counts.
IsBadHeader(lay, chunk) == chunk.cc = "VP8X" /\ lay.vp8x = <<>> /\ chunk.data.canvas = "bad"
Refuses(lay, chunk) ==
    \/ ~IsReadable(chunk)
    \/ Regresses(lay, chunk.cc)
    \/ chunk.cc \in {"ANIM", "ANMF"}
    \/ IsBadHeader(lay, chunk)
NextChunk(lay, chunk) ==
    IF ~lay.ok THEN lay
    ELSE IF Refuses(lay, chunk) THEN [lay EXCEPT !.ok = FALSE]
    ELSE Placed(Ranked(lay, chunk.cc), chunk)
ParseLayout(file) ==
    IF file.claim # "within" THEN [EmptyLayout(file) EXCEPT !.ok = FALSE]
    ELSE LET walk[k \in 0 .. Len(file.chunks)] ==
                 IF k = 0 THEN EmptyLayout(file) ELSE NextChunk(walk[k - 1], file.chunks[k])
         IN  walk[Len(file.chunks)]

\* The decoder: ALPH goes with a lossy bitstream and with no other.
DecodeNative(lay) ==
    IF ~lay.ok \/ lay.bitstream = <<>> THEN Bad("invalid")
    ELSE Good([pixels |-> lay.bitstream[1].data,
               alpha |-> IF lay.bitstream[1].cc = "VP8L" THEN <<>> ELSE lay.alph])

----------------------------------------------------------------------------
\* Writing: an encode is [codestream, pixels, alph, metadata, unknown].

Optional(cc, slot) == IF slot = <<>> THEN <<>> ELSE Chunk(cc, slot[1])
Unknown(list) == [k \in DOMAIN list |-> Chunk(list[k].cc, list[k].data)[1]]

\* The flags say what is there.
Flags(e) ==
    [canvas |-> "good", icc |-> e.metadata.ICCP # <<>>, exif |-> e.metadata.EXIF # <<>>,
     xmp |-> e.metadata["XMP "] # <<>>]
WriteExtended(e) ==
    Riff(Chunk("VP8X", Flags(e)) \o Optional("ICCP", e.metadata.ICCP)
         \o Optional("ALPH", e.alph) \o Chunk(e.codestream, e.pixels)
         \o Optional("EXIF", e.metadata.EXIF) \o Optional("XMP ", e.metadata["XMP "])
         \o Unknown(e.unknown))
IsSimple(e) == e.metadata = NoMetadata /\ e.alph = <<>> /\ e.unknown = <<>>
Wrap(e) == IF IsSimple(e) THEN Riff(Chunk(e.codestream, e.pixels)) ELSE WriteExtended(e)

----------------------------------------------------------------------------
\* The generations of a file.

Unread == [none |-> TRUE]

WebpInit ==
    /\ given \in Encodes /\ webp = Wrap(given) /\ mishaps = <<>>
    /\ layout = Unread /\ metadata = Unread /\ rounds = 1

----------------------------------------------------------------------------
\* The medium.

IsCut == \E k \in DOMAIN mishaps : mishaps[k].kind = "cut"
Travels == layout = Unread /\ Len(mishaps) < MaxFaults /\ ~IsCut
Fault(kind, chunk, next) ==
    /\ webp' = next
    /\ mishaps' = Append(mishaps, [kind |-> kind, chunk |-> chunk])
    /\ UNCHANGED <<given, layout, metadata, rounds>>
Chunks(f) == [webp EXCEPT !.chunks = f]
Positions == DOMAIN webp.chunks

Lose == Travels /\ \E k \in Positions :
    Fault("lose", webp.chunks[k], Chunks(RemoveAt(webp.chunks, k)))
Repeat == Travels /\ \E k \in Positions :
    Fault("repeat", webp.chunks[k], Chunks(InsertAt(webp.chunks, k, webp.chunks[k])))
Exchange == Travels /\ \E k \in Positions \ {1} :
    Fault("exchange", webp.chunks[k],
          Chunks([webp.chunks EXCEPT ![k] = webp.chunks[k - 1], ![k - 1] = webp.chunks[k]]))
Add == Travels /\ \E k \in 1 .. Len(webp.chunks) + 1, stray \in Strays :
    Fault("add", stray, Chunks(InsertAt(webp.chunks, k, stray)))
Spoil == Travels /\ \E k \in Positions :
    Fault("dirty", webp.chunks[k], Chunks([webp.chunks EXCEPT ![k].state = "dirty"]))
\* The end is cut off, and the size field is patched or is not.
Cut == Travels /\ \E claim \in {"within", "beyond"}, state \in {"cut", "unpadded"} :
    /\ webp.chunks # <<>>
    /\ Fault("cut", Last(webp.chunks),
             [webp EXCEPT !.claim = claim, !.chunks[Len(webp.chunks)].state = state])
AppendTail == Travels /\ Fault("append", [cc |-> "tail"], [webp EXCEPT !.trailing = @ + 1])

----------------------------------------------------------------------------
\* The readers, and the way back.

ReadWebp ==
    /\ layout = Unread
    /\ layout' = ParseLayout(webp) /\ metadata' = ReadMetadata(webp)
    /\ UNCHANGED <<given, webp, mishaps, rounds>>

Native == DecodeNative(layout)
\* Pixels decoded with an alpha channel are coded losslessly or with an ALPH.
Again(codestream) ==
    [codestream |-> codestream, pixels |-> Native.val.pixels,
     alph |-> IF codestream = "VP8L" THEN <<>> ELSE Native.val.alpha,
     metadata |-> layout.metadata, unknown |-> layout.unknown]
Transcode ==
    /\ layout # Unread /\ Native.ok /\ rounds <= Transcodes
    /\ \E codestream \in Bitstreams :
          given' = Again(codestream)
    /\ webp' = Wrap(given') /\ mishaps' = <<>>
    /\ layout' = Unread /\ metadata' = Unread /\ rounds' = rounds + 1

WebpNext == Lose \/ Repeat \/ Exchange \/ Add \/ Spoil \/ Cut \/ AppendTail \/ ReadWebp \/ Transcode
WebpSpec == WebpInit /\ [][WebpNext]_webpvars

----------------------------------------------------------------------------
\* Properties.

Hit(kinds) == {mishaps[k].chunk : k \in {j \in DOMAIN mishaps : mishaps[j].kind \in kinds}}

\* An optional payload came through, or its chunk was lost.
Carried(slot, was, cc) ==
    \/ slot = was
    \/ slot = <<>> /\ \E c \in Hit({"lose"}) : c.cc = cc
CarriedMetadata ==
    \A cc \in Metadata : Carried(layout.metadata[cc], given.metadata[cc], cc)
CarriedImage ==
    /\ Carried(layout.alph, given.alph, "ALPH")
    /\ Carried(layout.bitstream, <<[cc |-> given.codestream, data |-> given.pixels]>>,
               given.codestream)
\* The elements of s are some of those of t, in the same order.
IsPartOf(s, t) ==
    \E at \in [DOMAIN s -> DOMAIN t] :
        /\ \A j, k \in DOMAIN s : j < k => at[j] < at[k]
        /\ \A j \in DOMAIN s : s[j] = t[at[j]]
\* Private chunks: the ones given, less the lost and with the repeated ones.
Befell(kind) == {k \in DOMAIN mishaps : mishaps[k].kind = kind /\ ~Known(mishaps[k].chunk.cc)}
CarriedUnknown ==
    /\ ToSet(layout.unknown) \subseteq ToSet(given.unknown)
    /\ Len(layout.unknown) =
          Len(given.unknown) + Cardinality(Befell("repeat")) - Cardinality(Befell("lose"))
    /\ Hit({"exchange", "repeat"}) = {} => IsPartOf(layout.unknown, given.unknown)

InOrder == \A j, k \in DOMAIN webp.chunks :
    j < k /\ {webp.chunks[j].cc, webp.chunks[k].cc} \subseteq Reconstructs
    => Rank(webp.chunks[j].cc) <= Rank(webp.chunks[k].cc)

\* The VP8X that counts, if there is one, has a canvas; nothing is animated.
IsStill == \A k \in DOMAIN webp.chunks : webp.chunks[k].cc \notin {"ANIM", "ANMF"}
FirstHeader == SelectInSeq(webp.chunks, LAMBDA c : c.cc = "VP8X")
HasCanvas == FirstHeader # 0 => webp.chunks[FirstHeader].data.canvas = "good"

\* Reading a file the encoder wrote, whatever befell it on the way: the strict
\* walk accepts it exactly when no chunk is malformed or animates and the ones
\* that rebuild the image are in order; what it then hands to the decoder and to
\* the next encoder is what was given, but for chunks that were lost; and the
\* metadata-only walk, which has no order to enforce, finds the same metadata
\* wherever the strict one accepts (WebpLayout::parse, MetadataChunks::read,
\* write_extended_preserving, WebpEncoder::wrap).
WebpFaultsAreContained ==
    layout # Unread =>
        /\ layout.ok <=> webp.claim = "within" /\ ~Malformed(webp)
                        /\ InOrder /\ IsStill /\ HasCanvas
        /\ layout.ok => /\ CarriedMetadata /\ CarriedImage /\ CarriedUnknown
                        /\ metadata = Good(layout.metadata)
=============================================================================
