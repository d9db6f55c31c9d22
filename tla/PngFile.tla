--------------------------------- MODULE PngFile ---------------------------------
(******************************************************************************)
(* A PNG file on its way to the two readers of PngReader: one that PngEncoder  *)
(* wrote, over a medium that damages, loses or repeats whole chunks (a metadata *)
(* editor, a bad sector) or cuts the file short, or any stream of chunks that   *)
(* some other writer put together.                                             *)
(******************************************************************************)
EXTENDS PngReader

CONSTANTS
    Jobs,        \* encodes that may be asked for
    Sources,     \* other writers: [header, chunks, most], what they write
    MaxFaults    \* bound: chunks damaged, lost or repeated in one file

\* What the encoder is configured with and what it found in the pixels: colour
\* type, palette size and alpha entries (0 unless indexed), number of 64 KiB
\* pieces of the zlib stream, and metadata (None when not set; compressed ones by size,
\* from 1, as 0 stands for a payload that does not inflate).
Job == [color : Colors, entries : 0 .. 256, alphas : 0 .. 256, pieces : Nat \ {0},
        exif : Nat \cup {None}, icc : (Nat \ {0}) \cup {None}, xmp : Nat \cup {None},
        texts : Seq(Nat \ {0})]
\* A palette has an entry, and no more alpha entries than entries.
ASSUME JobsAssumption ==
    /\ Jobs \subseteq Job /\ MaxFaults \in Nat
    /\ \A j \in Jobs : j.color = "indexed" => j.entries >= 1 /\ j.alphas <= j.entries
\* The reader's budget has room for what the encoder is given, and for each text that
\* the medium repeats: what exceeds the budget is dropped by design.
ASSUME RoomAssumption ==
    \A j \in Jobs : \E dearest \in 0 .. Budget :
        /\ \A k \in DOMAIN j.texts : j.texts[k] <= dearest
        /\ Worth(j.icc) + Total(j.texts) + MaxFaults * dearest <= Budget
ASSUME SourcesAssumption ==
    \A s \in Sources : s.header \in Headers /\ s.chunks \subseteq Chunks /\ s.most \in Nat

VARIABLES
    job,      \* the encode, or NoJob
    source,   \* the other writer, or Encoder
    left,     \* chunks of the file not read yet
    faults,   \* <<index in the file, fault>> of every chunk the medium touched
    cut       \* the file was cut before its IEND was read

filevars == <<job, source, left, faults, cut, vars>>

----------------------------------------------------------------------------
\* The chunks write_png emits.

Chunk_(type, n) == <<[type |-> type, ok |-> TRUE, n |-> n]>>
Optional(type, n) == IF n = None THEN <<>> ELSE Chunk_(type, n)
Depth(j) ==
    CASE j.color # "indexed" -> 8
      [] j.entries <= 2 -> 1
      [] j.entries \in 3 .. 4 -> 2
      [] j.entries \in 5 .. 16 -> 4
      [] OTHER -> 8

Palette(j) == IF j.color # "indexed" THEN <<>>
              ELSE Chunk_("PLTE", 3 * j.entries) \o
                   Optional("tRNS", IF j.alphas = 0 THEN None ELSE j.alphas)
Texts(j) == [k \in DOMAIN j.texts |-> [type |-> "zTXt", ok |-> TRUE, n |-> j.texts[k]]]
Idats(j) == [k \in 1 .. j.pieces |-> [type |-> "IDAT", ok |-> TRUE, n |-> k]]

\* Mutant: the remaining ancillary chunks are written after the pixels begin.
WrittenInterleaved(j) ==
    Chunk_("IHDR", 1) \o Optional("iCCP", j.icc) \o SubSeq(Idats(j), 1, 1) \o Palette(j)
    \o Optional("eXIf", j.exif) \o Texts(j) \o Optional("iXMP", j.xmp)
    \o SubSeq(Idats(j), 2, j.pieces) \o Chunk_("IEND", 0)

Written(j) ==
    Chunk_("IHDR", 1) \o Optional("iCCP", j.icc) \o Palette(j) \o Optional("eXIf", j.exif)
    \o Texts(j) \o Optional("iXMP", j.xmp) \o Idats(j) \o Chunk_("IEND", 0)

\* Whole or damaged, what the encoder writes is among the chunks a file may contain.
ASSUME WrittenAssumption ==
    \A j \in Jobs : \A k \in DOMAIN Written(j) :
        {Written(j)[k], [Written(j)[k] EXCEPT !.ok = FALSE]} \subseteq Chunks

Expected(j) == [exif |-> j.exif, icc |-> j.icc, xmp |-> j.xmp, texts |-> j.texts]
Recovered(m) == [exif |-> m.exif, icc |-> m.icc, xmp |-> m.xmp, texts |-> m.texts]

----------------------------------------------------------------------------
Encoder == [header |-> [color |-> "gray", depth |-> 8], chunks |-> {}, most |-> 0]
ASSUME EncoderAssumption == Encoder \notin Sources
NoJob == [color |-> "gray", entries |-> 0, alphas |-> 0, pieces |-> 0, exif |-> None,
          icc |-> None, xmp |-> None, texts |-> <<>>]
Encoded == source = Encoder

FileInit ==
    /\ Init
    /\ \/ /\ job \in Jobs /\ source = Encoder
          /\ header = [color |-> job.color, depth |-> Depth(job)]
          /\ left = Written(job)
       \/ job = NoJob /\ source \in Sources /\ header = source.header /\ left = <<>>
    /\ faults = {}
    /\ cut = FALSE

Here == Len(Written(job)) - Len(left) + 1
Touch(fault) == /\ Cardinality(faults) < MaxFaults
                /\ \A f \in faults : f[1] # Here
                /\ faults' = faults \cup {<<Here, fault>>}

Deliver ==
    /\ left # <<>>
    /\ Feed(Head(left))
    /\ left' = Tail(left)
    /\ UNCHANGED <<job, source, faults, cut>>

\* A bit of the chunk's type-preserving part flips: the CRC no longer matches.
Damage ==
    /\ left # <<>>
    /\ Touch("damaged")
    /\ Feed([Head(left) EXCEPT !.ok = FALSE])
    /\ left' = Tail(left)
    /\ UNCHANGED <<job, source, cut>>

Lose ==
    /\ left # <<>> /\ Open
    /\ Touch("lost")
    /\ left' = Tail(left)
    /\ UNCHANGED <<job, source, cut, vars>>

Repeat ==
    /\ left # <<>>
    /\ Touch("repeated")
    /\ Feed(Head(left))
    /\ UNCHANGED <<job, source, left, cut>>

Cut ==
    /\ EndOfInput
    /\ cut' = (\A k \in DOMAIN fed : fed[k].type # "IEND")
    /\ UNCHANGED <<job, source, left, faults>>

\* The next chunk of a stream this crate did not write.
Stray ==
    /\ Len(fed) < source.most
    /\ \E c \in source.chunks : Feed(c)
    /\ UNCHANGED <<job, source, left, faults, cut>>

FileNext == Stray \/ Deliver \/ Damage \/ Lose \/ Repeat \/ Cut
FileSpec == FileInit /\ [][FileNext]_filevars

----------------------------------------------------------------------------
Over == ~Open
Type(k) == Written(job)[k].type
Touched(k) == \E f \in faults : f[1] = k

\* What the encoder wrote, both readers read: a file that reaches them untouched
\* decodes, and both find exactly the metadata the encoder was given.
RoundTrip ==
    Over /\ Encoded /\ faults = {} /\ ~cut =>
        /\ Decoded
        /\ Recovered(Collect(parse.anc)) = Expected(job)
        /\ walk.at = "done" /\ Recovered(Collect(walk.anc)) = Expected(job)

\* Faults confined to ancillary chunks never cost the pixels, and each costs at
\* most the metadata of the chunk it hit.
Survives(k) == ~Touched(k)
AncillaryFaultsAreContained ==
    Over /\ Encoded /\ ~cut /\ (\A f \in faults : Type(f[1]) \in Ancillary) =>
        /\ Decoded
        /\ LET m == Collect(parse.anc) IN
           \A k \in DOMAIN Written(job) : Survives(k) =>
              /\ Type(k) = "eXIf" => m.exif = job.exif
              /\ Type(k) = "iCCP" => m.icc = job.icc
              /\ Type(k) = "iXMP" => m.xmp = job.xmp
              /\ Type(k) = "zTXt" => \E i \in DOMAIN m.texts : m.texts[i] = Written(job)[k].n

\* Damage to what the pixels need is noticed: decode never accepts a file with a
\* damaged critical chunk, and a file cut before its IEND is refused by both readers,
\* wherever the cut is.
DamageIsNoticed ==
    Over => /\ (\E f \in faults : f[2] = "damaged" /\ Type(f[1]) \in Critical) => ~Decoded
            /\ cut => parse.at = "refused" /\ walk.at = "refused"

\* Whatever happens to an encoder's file on its way, decode errs on neither side: it
\* gives up no pixels for a fault beside them, and shows none that a fault hit.
FaultsAreHandled == AncillaryFaultsAreContained /\ DamageIsNoticed
==================================================================================
