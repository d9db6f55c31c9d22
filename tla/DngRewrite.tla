------------------------------- MODULE DngRewrite --------------------------------
(******************************************************************************)
(* gamut-dng's preserving rewrite (rewrite.rs, DngRewrite::write) over the     *)
(* writer of IfdWriter: lay the tree out with placeholders for the payload     *)
(* offsets and the maker note pinned, again without the pin when that is       *)
(* refused; put the payloads behind that layout; lay the tree out a second     *)
(* time with their offsets in it; append the payloads and the byte runs that   *)
(* no structure accounts for.                                                  *)
(*                                                                            *)
(* A field whose tag is in PayloadTags is an offset array; the byte ranges it  *)
(* locates in the original are in dng.blocks, under <<node, tag>>.  The tree   *)
(* may have been edited since it was read: it is unrelated to dng.noteAt.      *)
(******************************************************************************)
EXTENDS IfdWriter

CONSTANTS
    Dngs,        \* [tree, blocks, noteAt, spans, size]: files opened, and edited
    NoteTag,     \* MakerNote
    PayloadTags, \* StripOffsets, TileOffsets, JPEGInterchangeFormat, in tag order
    FreeTags     \* FreeOffsets, FreeByteCounts

ASSUME RewriteAssumption ==
    NoteTag \notin PayloadTags \cup FreeTags /\ PayloadTags \cap FreeTags = {}

VARIABLES
    dng,      \* the rewrite: noteAt is 0 without an out-of-line note in the original
    phase,    \* "open", "probe", "final", "written", "error"
    note,     \* MakerNotePreservation
    probe,    \* what the first layout came to: [len, at, starts]
    offsets,  \* <<node, tag>> -> the offsets patched into the tree
    placed,   \* payload blocks as emitted: [key, start, source]
    preserved \* PreservedSpan: [original, start]

rewritevars == <<dng, phase, note, probe, offsets, placed, preserved>>

----------------------------------------------------------------------------
IsPayload(field) == field[1] \in PayloadTags

\* A payload can be copied if its byte counts match and it lies in the original.
IsSound(n, field) ==
    IsPayload(field) =>
        /\ <<n, field[1]>> \in DOMAIN dng.blocks
        /\ \A k \in DOMAIN dng.blocks[<<n, field[1]>>] : End(dng.blocks[<<n, field[1]>>][k]) <= dng.size

\* An offset array of the variant's width, whatever the width was in the original.
Placeholder(n, field) == <<field[1], Sizes.offset * Len(dng.blocks[<<n, field[1]>>])>>

Kept(field) == field[1] \notin FreeTags
Collected(n, node) ==
    LET fields == SelectSeq(node.fields, Kept)
    IN  [node EXCEPT !.fields = [k \in DOMAIN fields |->
             IF IsPayload(fields[k]) THEN Placeholder(n, fields[k]) ELSE fields[k]]]

Tree == FoldLeft(LAMBDA acc, ifd : Flatten(ifd, acc), <<>>, dng.tree)
HasNote(ns) == \E n \in DOMAIN ns : \E k \in DOMAIN ns[n].fields : ns[n].fields[k][1] = NoteTag

\* A run right behind the header keeps its place, if the audit calls it a preamble.
HasPreamble == dng.spans # <<>> /\ dng.spans[1].kind = "preamble" /\ dng.spans[1].start = Sizes.header
Preamble == IF HasPreamble THEN [len |-> dng.spans[1].len, zero |-> FALSE] ELSE [len |-> 0, zero |-> TRUE]
Appended == IF HasPreamble THEN Tail(dng.spans) ELSE dng.spans

\* write_with is called.
Lay(ns, ps, p) ==
    /\ nodes' = ns /\ pins' = ps /\ preamble' = p
    /\ pc' = "place"
    /\ cursor' = AlignWord(Sizes.header + p.len)
    /\ at' = <<>> /\ taken' = <<>> /\ starts' = <<>>

NothingLaid ==
    /\ nodes = <<>> /\ pins = <<>> /\ preamble = [len |-> 0, zero |-> TRUE]
    /\ pc = "idle" /\ cursor = 0 /\ at = <<>> /\ taken = <<>> /\ starts = <<>>

NothingWritten ==
    note = "absent" /\ probe = <<>> /\ offsets = <<>> /\ placed = <<>> /\ preserved = <<>>

RewriteInit == NothingLaid /\ phase = "open" /\ dng \in Dngs /\ NothingWritten
NothingOpen == phase = "none" /\ dng = <<>> /\ NothingWritten

\* Pass A, and the first layout asked for.
Collect ==
    /\ phase = "open"
    /\ \A n \in DOMAIN Tree : \A k \in DOMAIN Tree[n].fields : IsSound(n, Tree[n].fields[k])
    /\ LET ns == [n \in DOMAIN Tree |-> Collected(n, Tree[n])]
           pinned == dng.noteAt # 0 /\ HasNote(ns)
       IN  /\ Lay(ns, IF pinned THEN <<[tag |-> NoteTag, offset |-> dng.noteAt]>> ELSE <<>>, Preamble)
           /\ note' = IF pinned THEN "pinned" ELSE IF HasNote(ns) THEN "relocated" ELSE "absent"
    /\ phase' = "probe"
    /\ UNCHANGED <<dng, probe, offsets, placed, preserved>>

CannotCollect ==
    /\ phase = "open"
    /\ \E n \in DOMAIN Tree : \E k \in DOMAIN Tree[n].fields : ~IsSound(n, Tree[n].fields[k])
    /\ phase' = "error"
    /\ UNCHANGED <<vars, dng, note, probe, offsets, placed, preserved>>

\* The writer refuses the pin: once more without it.
Relocate ==
    /\ phase = "probe" /\ pc = "refused" /\ pins # <<>>
    /\ Lay(nodes, <<>>, preamble)
    /\ note' = "relocated"
    /\ UNCHANGED <<dng, phase, probe, offsets, placed, preserved>>

----------------------------------------------------------------------------
\* Payload fields, parent before children, in tag order; and their blocks.
Keys ==
    FlattenSeq([n \in DOMAIN nodes |->
        LET payloads == SelectSeq(nodes[n].fields, IsPayload)
        IN  [k \in DOMAIN payloads |-> <<n, payloads[k][1]>>]])

\* Lays spans of these lengths out from c on, each on a word boundary.
Packed(c, lengths) ==
    LET Put(acc, l) == [starts |-> Append(acc.starts, AlignWord(acc.cursor)), cursor |-> AlignWord(acc.cursor) + l]
    IN  FoldLeft(Put, [starts |-> <<>>, cursor |-> c], lengths)

\* The blocks of all payload fields, one after the other.
Blocks ==
    FlattenSeq([i \in DOMAIN Keys |->
        LET bs == dng.blocks[Keys[i]] IN [k \in DOMAIN bs |-> [key |-> Keys[i], nth |-> k, source |-> bs[k]]]])
BlockLengths == [b \in DOMAIN Blocks |-> Blocks[b].source.len]

\* Mutant: the payloads begin where the value pool ends, pinned values or not.
BaseAtCursor == AlignWord(cursor)

Base == AlignWord(TotalLen)

\* Pass B: the offsets go into the tree, which is laid out again.
Patch ==
    /\ phase = "probe" /\ pc = "done"
    /\ probe' = [len |-> TotalLen, at |-> at, starts |-> starts]
    /\ LET where == Packed(Base, BlockLengths).starts
           Offset(key) == LET mine == SelectSeq([b \in DOMAIN Blocks |-> [key |-> Blocks[b].key, start |-> where[b]]],
                                                LAMBDA b : b.key = key)
                          IN  [k \in DOMAIN mine |-> mine[k].start]
           Patched(n, f) == IF IsPayload(f) THEN <<f[1], Sizes.offset * Len(offsets'[<<n, f[1]>>])>> ELSE f
       IN  /\ offsets' = [key \in ToSet(Keys) |-> Offset(key)]
           /\ Lay([n \in DOMAIN nodes |-> [nodes[n] EXCEPT !.fields =
                      [k \in DOMAIN nodes[n].fields |-> Patched(n, nodes[n].fields[k])]]], pins, preamble)
    /\ phase' = "final"
    /\ UNCHANGED <<dng, note, placed, preserved>>

\* The payloads behind the tree at their offsets, then pass C: the other runs.
CarryThrough ==
    /\ phase = "final" /\ pc = "done"
    /\ placed' = [b \in DOMAIN Blocks |->
                     [key |-> Blocks[b].key, source |-> Blocks[b].source,
                      start |-> offsets[Blocks[b].key][Blocks[b].nth]]]
    /\ LET blocks == Packed(AlignWord(probe.len), BlockLengths)
           runs == Packed(blocks.cursor, [k \in DOMAIN Appended |-> Appended[k].len])
           front == IF HasPreamble THEN <<[original |-> dng.spans[1], start |-> dng.spans[1].start]>> ELSE <<>>
       IN  preserved' = front \o [k \in DOMAIN Appended |-> [original |-> Appended[k], start |-> runs.starts[k]]]
    /\ phase' = "written"
    /\ UNCHANGED <<vars, dng, note, probe, offsets>>

RewriteNext ==
    \/ Collect \/ CannotCollect \/ Relocate \/ Patch \/ CarryThrough
    \/ phase \in {"probe", "final"} /\ Next /\ UNCHANGED rewritevars

----------------------------------------------------------------------------
RewriteTypeOK ==
    /\ phase \in {"none", "open", "probe", "final", "written", "error"}
    /\ note \in {"absent", "pinned", "relocated"}
    /\ \A key \in DOMAIN offsets : offsets[key] \in Seq(Nat)

Holders == UNION {{<<n, k>> : k \in {j \in DOMAIN Entries(n) : Entries(n)[j][1] = NoteTag}} : n \in DOMAIN nodes}
Behind == {at[n] + BodyLen(n) : n \in DOMAIN at}
CanStay ==
    /\ dng.noteAt # 0 /\ Cardinality(Holders) = 1
    /\ \A v \in Holders : ValueLen(v) > Sizes.inline
    /\ \A end \in Behind : AlignWord(end) <= dng.noteAt

\* What is emitted behind the tree: payload blocks, then the runs that had to move.
Moved == SelectSeq(preserved, LAMBDA p : p.original \in ToSet(Appended))
Emitted ==
    [b \in DOMAIN placed |-> Span(placed[b].start, placed[b].source.len)]
    \o [k \in DOMAIN Moved |-> Span(Moved[k].start, Moved[k].original.len)]

\* A rewrite loses nothing and says what became of everything: the layout with the
\* real offsets is the layout that was measured; no payload, no run of bytes and no
\* value, pinned far behind the others or not, lies on another; the runs are all there
\* in the order of the file, a preamble where it was; and the maker note is where it
\* was whenever the new directories leave that place free, and is reported so.
RewriteIsWhole ==
    phase = "written" =>
        /\ probe = [len |-> TotalLen, at |-> at, starts |-> starts]
        /\ \A j \in DOMAIN Emitted :
              /\ Emitted[j].start >= TotalLen
              /\ \A k \in DOMAIN Emitted : j < k => End(Emitted[j]) <= Emitted[k].start
        /\ [k \in DOMAIN preserved |-> preserved[k].original] = dng.spans
        /\ HasPreamble => preserved[1].start + preserved[1].original.len <= at[1]
        /\ (note = "absent") <=> (Holders = {})
        /\ (note = "pinned") <=> CanStay
        /\ note = "pinned" => \A v \in Holders : starts[v] = dng.noteAt
==================================================================================
