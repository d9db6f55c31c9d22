-------------------------------- MODULE PngReader --------------------------------
(******************************************************************************)
(* The two readers of a PNG chunk stream in gamut-png: parse_stream behind     *)
(* decode (pixels and metadata) and walk_metadata_chunks behind metadata()     *)
(* (metadata only).  They walk the same chunks with rules of their own, so     *)
(* the model runs both over one stream, chunk by chunk, and compares them.     *)
(*                                                                            *)
(* A chunk is [type, ok, n]: ok says that its CRC-32 matches; n is what the     *)
(* readers look at: the payload length of PLTE, tRNS and IEND, the size a      *)
(* compressed payload inflates to (0 when it is malformed), validity of IHDR,  *)
(* and otherwise just an identity.                                             *)
(******************************************************************************)
EXTENDS Integers, Sequences, SequencesExt, FiniteSets

CONSTANTS
    Headers,    \* what IHDR may declare: [color, depth] records
    Chunks,     \* chunks the stream may contain after its signature
    Budget,     \* max_metadata_bytes
    MaxChunks   \* bound: chunks in a stream

Colors == {"gray", "gray_alpha", "rgb", "rgba", "indexed"}
Critical == {"IHDR", "PLTE", "IDAT", "IEND", "CRIT"}   \* CRIT: an unknown critical type
Ancillary == {"tRNS", "eXIf", "iCCP", "tEXt", "zTXt", "iXMP", "zXMP", "acTL"}
\* iXMP, zXMP: an iTXt with the XMP keyword, compressed or not.  acTL: any chunk
\* without metadata for this crate.

ASSUME HeadersAssumption == Headers \subseteq [color : Colors, depth : {1, 2, 4, 8, 16}]
ASSUME ChunksAssumption ==
    Chunks \subseteq [type : Critical \cup Ancillary, ok : BOOLEAN, n : Nat]
ASSUME BudgetAssumption == {Budget, MaxChunks} \subseteq Nat

VARIABLES
    header,   \* what this file's IHDR declares
    fed,      \* the chunks read so far
    parse,    \* parse_stream: position, PLTE, tRNS, IDATs and metadata chunks
    walk      \* walk_metadata_chunks: position and metadata chunks

vars == <<header, fed, parse, walk>>

None == -1
Position == {"start", "body", "done", "refused"}

ParseState == [at : Position, plte : Nat \cup {None}, trns : Nat \cup {None}, idats : Nat,
               idatDone : BOOLEAN, anc : Seq(Chunks)]
WalkState == [at : Position, anc : Seq(Chunks)]

TypeOK ==
    /\ header \in Headers
    /\ fed \in Seq(Chunks)
    /\ parse \in ParseState
    /\ walk \in WalkState

----------------------------------------------------------------------------
Refused(p) == [p EXCEPT !.at = "refused"]
First(p, c) == IF c.type = "IHDR" /\ c.ok /\ c.n = 1 THEN [p EXCEPT !.at = "body"]
               ELSE Refused(p)
Last_(p, c) == IF c.ok /\ c.n = 0 THEN [p EXCEPT !.at = "done"] ELSE Refused(p)

\* Any chunk but IDAT ends the run of IDATs.
Closed(p, c) == [p EXCEPT !.idatDone = @ \/ (p.idats > 0 /\ c.type # "IDAT")]

ParseIdat(p, c) ==
    IF ~c.ok \/ p.idatDone THEN Refused(p) ELSE [p EXCEPT !.idats = @ + 1]

ParsePlte(p, c) ==
    IF ~c.ok \/ p.plte # None \/ p.idats > 0 \/ p.trns # None THEN Refused(p)
    ELSE [p EXCEPT !.plte = c.n]

\* A damaged or repeated tRNS is skipped, a late one is an error either way.
ParseTrns(p, c) ==
    IF p.idats > 0 THEN Refused(p)
    ELSE IF c.ok /\ p.trns = None THEN [p EXCEPT !.trns = c.n] ELSE p

\* Mutant: an ancillary CRC mismatch is an error.
KeepAncillaryStrict(p, c) == IF c.ok THEN [p EXCEPT !.anc = Append(@, c)] ELSE Refused(p)
KeepAncillary(p, c) == IF c.ok THEN [p EXCEPT !.anc = Append(@, c)] ELSE p

\* Mutant: the run of IDATs is never closed.
ParseChunkLax(p, c) ==
    CASE c.type = "IEND" -> Last_(p, c)
      [] c.type = "IDAT" -> ParseIdat(p, c)
      [] c.type = "PLTE" -> ParsePlte(p, c)
      [] c.type = "tRNS" -> ParseTrns(p, c)
      [] c.type \in Ancillary \ {"tRNS"} -> KeepAncillary(p, c)
      [] OTHER -> Refused(p)

ParseChunk(p, c) ==
    LET q == Closed(p, c) IN
    CASE c.type = "IEND" -> Last_(q, c)
      [] c.type = "IDAT" -> ParseIdat(q, c)
      [] c.type = "PLTE" -> ParsePlte(q, c)
      [] c.type = "tRNS" -> ParseTrns(q, c)
      [] c.type \in Ancillary \ {"tRNS"} -> KeepAncillary(q, c)
      [] OTHER -> Refused(q)

\* Mutant: PLTE is handled like an unknown critical chunk.
WalkChunkStrict(w, c) ==
    CASE c.type = "IEND" -> Last_(w, c)
      [] c.type = "IDAT" -> w
      [] c.type \in Ancillary -> KeepAncillary(w, c)
      [] OTHER -> Refused(w)

\* IDAT and PLTE are skipped by length, damaged or not.
WalkChunk(w, c) ==
    CASE c.type = "IEND" -> Last_(w, c)
      [] c.type \in {"IDAT", "PLTE"} -> w
      [] c.type \in Ancillary -> KeepAncillary(w, c)
      [] OTHER -> Refused(w)

----------------------------------------------------------------------------
Reading(p) == p.at \in {"start", "body"}
Open == Reading(parse) \/ Reading(walk)

Init ==
    /\ header \in Headers
    /\ fed = <<>>
    /\ parse = [at |-> "start", plte |-> None, trns |-> None, idats |-> 0, idatDone |-> FALSE,
                anc |-> <<>>]
    /\ walk = [at |-> "start", anc |-> <<>>]

\* next_chunk frames c and each reader that is still going handles it.
Feed(c) ==
    /\ Open
    /\ Len(fed) < MaxChunks
    /\ fed' = Append(fed, c)
    /\ parse' = CASE parse.at = "start" -> First(parse, c)
                  [] parse.at = "body" -> ParseChunk(parse, c)
                  [] OTHER -> parse
    /\ walk' = CASE walk.at = "start" -> First(walk, c)
                 [] walk.at = "body" -> WalkChunk(walk, c)
                 [] OTHER -> walk
    /\ UNCHANGED header

\* The input ends, at a chunk boundary (missing IHDR or IEND) or inside a chunk
\* (truncated, or a length that overruns the input).
EndOfInput ==
    /\ Open
    /\ parse' = IF Reading(parse) THEN Refused(parse) ELSE parse
    /\ walk' = IF Reading(walk) THEN Refused(walk) ELSE walk
    /\ UNCHANGED <<header, fed>>

Next == (\E c \in Chunks : Feed(c)) \/ EndOfInput
Spec == Init /\ [][Next]_vars

----------------------------------------------------------------------------
\* What decode makes of a parsed stream.

Entries == parse.plte \div 3
PlteFits ==
    CASE header.color \in {"gray", "gray_alpha"} -> parse.plte = None
      [] header.color = "indexed" ->
            /\ parse.plte # None
            /\ parse.plte % 3 = 0 /\ Entries \in 1 .. 256
            /\ parse.trns <= Entries
            /\ Entries <= 2 ^ header.depth
      [] OTHER -> parse.plte # None => parse.plte % 3 = 0 /\ Entries \in 1 .. 256
TrnsFits ==
    CASE header.color = "gray" -> parse.trns \in {None, 2}
      [] header.color = "rgb" -> parse.trns \in {None, 6}
      [] header.color = "indexed" -> TRUE
      [] OTHER -> parse.trns = None

\* parse_stream found a PNG, with at least one IDAT; the pixels are not modelled.
Parsed == parse.at = "done" /\ parse.idats > 0
Decoded == Parsed /\ PlteFits /\ TrnsFits

\* Mutant: the budget is checked but not charged.
InflateFree(m, c) ==
    IF c.n = 0 \/ c.n > m.left THEN [ok |-> FALSE, left |-> m.left]
    ELSE [ok |-> TRUE, left |-> m.left]

\* Inflating c under the budget that is left.
Inflate(m, c) ==
    IF c.n = 0 \/ c.n > m.left THEN [ok |-> FALSE, left |-> m.left]
    ELSE [ok |-> TRUE, left |-> m.left - c.n]

\* Once-only chunks keep their first occurrence; a second iCCP is not even
\* inflated, a second XMP packet is inflated, charged and dropped.
Keep(m, c) ==
    CASE c.type = "eXIf" -> IF m.exif = None THEN [m EXCEPT !.exif = c.n] ELSE m
      [] c.type = "iCCP" ->
            IF m.icc # None THEN m
            ELSE LET z == Inflate(m, c) IN
                 [m EXCEPT !.icc = IF z.ok THEN c.n ELSE None, !.left = z.left]
      [] c.type = "iXMP" -> IF m.xmp = None THEN [m EXCEPT !.xmp = c.n] ELSE m
      [] c.type = "tEXt" -> [m EXCEPT !.texts = Append(@, c.n)]
      [] c.type = "zXMP" ->
            LET z == Inflate(m, c) IN
            [m EXCEPT !.xmp = IF z.ok /\ @ = None THEN c.n ELSE @, !.left = z.left]
      [] c.type = "zTXt" ->
            LET z == Inflate(m, c) IN
            [m EXCEPT !.texts = IF z.ok THEN Append(@, c.n) ELSE @, !.left = z.left]
      [] OTHER -> m

Metadata == [exif : Nat \cup {None}, icc : Nat \cup {None}, xmp : Nat \cup {None},
             texts : Seq(Nat), left : 0 .. Budget]
NoMetadata == [exif |-> None, icc |-> None, xmp |-> None, texts |-> <<>>, left |-> Budget]
\* What the chunks leave behind in order, but for those of the types in `without`.
CollectBut(chunks, without) ==
    LET after[k \in 0 .. Len(chunks)] ==
            IF k = 0 THEN NoMetadata
            ELSE IF chunks[k].type \in without THEN after[k - 1]
            ELSE Keep(after[k - 1], chunks[k])
    IN  after[Len(chunks)]
Collect(chunks) == CollectBut(chunks, {})

----------------------------------------------------------------------------
\* decode accepts exactly the streams this grammar describes: the flags of the
\* chunk loop (seen_idat, idat_done, seen_iend, plte, trns) say no more and no less.
Finished == ~Reading(parse)
Body == IF \E k \in DOMAIN fed : fed[k].type = "IEND"
        THEN SubSeq(fed, 1, SelectInSeq(fed, LAMBDA c : c.type = "IEND"))
        ELSE fed
At(s, type) == {k \in DOMAIN s : s[k].type = type}

\* No chunk is damaged where that counts, out of place, or once too often.
InOrder(s) ==
    /\ At(s, "IHDR") = {1} /\ s[1].n = 1 /\ At(s, "CRIT") = {}
    /\ \A k \in DOMAIN s : s[k].type \in Critical => s[k].ok
    /\ \A i, j \in At(s, "IDAT") : \A k \in i .. j : s[k].type = "IDAT"
    /\ \A i, j \in At(s, "PLTE") : i = j
    /\ \A k \in At(s, "PLTE") \cup At(s, "tRNS"), i \in At(s, "IDAT") : k < i
    /\ \A p \in At(s, "PLTE"), k \in At(s, "tRNS") : s[k].ok => p < k
WellFormed ==
    /\ At(Body, "IEND") # {} /\ At(Body, "IDAT") # {}
    /\ InOrder(Body)
    /\ Last(Body).n = 0

ParsesExactlyWellFormed == Finished => (Parsed <=> WellFormed)

\* metadata() "matches decode field for field": it reads every file that
\* decode accepts, and finds the same metadata there.
MetadataMatchesDecode ==
    Parsed => walk.at = "done" /\ Collect(walk.anc) = Collect(parse.anc)

\* What metadata() keeps never exceeds the budget, in all orders and with all
\* repetitions of compressed chunks.
Worth(n) == IF n = None THEN 0 ELSE n
Total(ns) == LET upto[k \in 0 .. Len(ns)] == IF k = 0 THEN 0 ELSE upto[k - 1] + ns[k]
             IN  upto[Len(ns)]
Kept(m) == Worth(m.icc) + Worth(m.xmp) + Total(m.texts)
BudgetHolds == Kept(CollectBut(walk.anc, {"tEXt", "iXMP"})) <= Budget

----------------------------------------------------------------------------
\* What the flags of the chunk loop say of the chunks read so far.
FlagsSay(p, s) ==
    /\ p.idats > 0 <=> At(s, "IDAT") # {}
    /\ p.idatDone <=> \E i \in At(s, "IDAT"), k \in DOMAIN s : i < k /\ s[k].type # "IDAT"
    /\ p.plte # None <=> At(s, "PLTE") # {}
    /\ p.trns # None <=> \E k \in At(s, "tRNS") : s[k].ok

\* The inductive invariant of both readers.  IEND ends both, so that the stream they
\* read is its own Body; parse_stream is where the chunks have led it; and as long as
\* it has found nothing wrong the metadata walk is there too, with the same metadata.
IendIsLast == \A k \in At(fed, "IEND") : k = Len(fed) /\ ~Open
ParseIsExact ==
    CASE parse.at = "start" -> fed = <<>> /\ FlagsSay(parse, fed)
      [] parse.at = "body" -> InOrder(fed) /\ FlagsSay(parse, fed) /\ At(fed, "IEND") = {}
      [] parse.at = "done" -> /\ InOrder(fed) /\ FlagsSay(parse, fed)
                              /\ At(fed, "IEND") # {} /\ Last(fed).n = 0
      [] OTHER -> \/ At(fed, "IEND") = {} /\ ~Open
                  \/ fed # <<>> /\ ~InOrder(fed)
                  \/ At(fed, "IEND") # {} /\ Last(fed).n # 0
WalkFollows ==
    /\ walk.at = "start" => parse.at = "start"
    /\ parse.at # "refused" => walk.at = parse.at /\ Collect(walk.anc) = Collect(parse.anc)

IInv == TypeOK /\ IendIsLast /\ ParseIsExact /\ WalkFollows
==================================================================================
