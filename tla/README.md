# A verification development for gamut

gamut is a Rust workspace of still-image codecs (PNG, JPEG, WebP, AVIF, JPEG XL, TIFF, DNG,
HEIC), of the metadata formats they carry, and of the layers they share. Most of its 200,000 lines
are arithmetic on samples, which unit tests and reference decoders exercise well. This directory
holds TLA+ models of the rest: the parts whose correctness depends on order, on interaction, on
two pieces of code agreeing without talking to each other, or on what happens when one of several
steps fails.

- `*.tla`: modules; a module named after a component models it, `MC...` modules hold the instances
  that need definitions, `..._proof` modules hold theorems.
- `*.cfg`: TLC instances, one for each run of `PROJECT.json`.
- `PROJECT.json`: which definition models which lines, the runs, for each property a mutation of the
  model that it catches, the hazards, the theorems.

To repeat a run: `tlc -config Seam.cfg BackendSeam`. To repeat the proofs: `tlapm
BackendSeam_proof.tla`, and so for each module whose name ends in `_proof`, and `SequenceLemmas`. Definitions commented `Mutant:` are not part of a specification: each is a
plausible bug, kept beside the definition it would replace.

All paths below are relative to `src/crates/`.

## Results in short

| | |
|---|---|
| components | 29 listed, 7 modelled and 14 modelled in part |
| runs | 8 in which all properties hold, 4 that show a disagreement between the code and its documentation |
| properties | 40 in the passing runs |
| theorems | 33 in nine components, for every value of the constants; they state 19 of the 40 properties (about 21,000 obligations) |
| findings | Latin-1 texts of PNG do not survive; of two pins of one TIFF value one is dropped silently; a DNG rewrite loses a directory that a sub-IFD's next link leads to; an LZW strip's end code may be unreadable to the decoder |

## Inventory

For each component: the state it keeps, its operations, what is hard about it, and what makes it
correct. "Modelled" names the modules; the reason for leaving a component out is at its end.

### The backend seams (`gamut-codec-abi`, and `backend.rs` of png, jpeg, webp, avif, heic, jxl)

Every format crate can hand its codestream job (an inflate, a VP8 frame, an AV1 picture) to a backend
that the program registered, and has a built-in tail as the last resort.

*State.* PNG, JPEG, WebP and AVIF: a codec value (`PngDecoder`, `JpegEncoder`, ...) owns a `Vec` of
`Arc<Mutex<dyn Backend + Send>>`; cloning the value clones the handles and so shares the backends, but not the list.
JPEG XL: a codec value owns one `Arc<Mutex<Vec<Box<dyn Backend>>>>`; clones share the list. HEIC
borrows a backend exclusively for one call. *Operations.* `push_backend`, `clone`, the encode and decode methods.
*Interaction.* A call locks a backend, asks `supports`, runs it under the same lock, and goes on to the next
one on a decline. Backends are user code: they may panic, and may call codec values of their own,
so calls nest, and locks are taken while locks are held. *Hard.* Two threads or two
depths of one thread meeting in one `&mut self` backend; circular waiting; a panic that leaves a
backend half-changed; a failure masked by a later backend; in JPEG XL a probe for an empty list that takes the
lock separately from the walk, and the whole list locked while user code runs. *Correct when* a backend is entered by
one call at a time, a panicked one never again, no set of calls waits in a circle, and a caller sees the sequential
contract of `gamut-codec-abi`: declines in push order, then exactly one ending.
Modelled: `BackendContract`, `BackendSeam`, `JxlRegistry`; proofs in `BackendSeam_proof`, `JxlRegistry_proof`.

`gamut-codec-abi/src/bridge.rs` and `gamut-ffi` carry backends over a C boundary: a foreign context
has exactly one owner at a time, and is destroyed exactly once. Not modelled: on the Rust side ownership is decided by the type of
the adopted backend (it exists only after adoption, cannot be cloned, and is dropped once), the rest is the duty of a C caller.

### PNG (`gamut-png`)

*State.* A chunk cursor; `parse_stream` keeps PLTE, tRNS, whether IDAT was seen and ended, and
the ancillary chunks; `collect` an inflate budget and once-only metadata slots; the encoder its metadata.
*Operations.* decode, `metadata()` (which walks the file by rules of its own),
encode with any subset of metadata. *Hard.* Chunk order and multiplicity; two walks that must agree;
one budget across many compressed chunks; files that were damaged, cut or edited. *Correct when* decode
accepts exactly the grammar, both walks find the same metadata, what the encoder writes is read back, faults
in ancillary chunks stay there and faults in critical ones are noticed. Modelled: `PngReader`,
`PngFile`, `PngText`; proofs in `PngReader_proof`. Not modelled: filters, interlacing and palette search (arithmetic without order).

### IFD layer (`gamut-ifd`, under TIFF, DNG, EXIF)

*State.* The read ledger (sorted spans of bytes fetched), the segment map (claims of what bytes are
for), the walk's set of visited offsets, the writer's cursor, pins and placements. *Operations.* `read_tree`
(strict), `audit` (tolerant), `write_with` with options for pinned values and a vendor preamble, and a report with a verdict for
archives, `is_fully_classified`. *Interaction.* All parsing fetches through `Tracked`, which fills the read
ledger; the parser and the auditor fill the segment map; `finish` compares the two.
*Hard.* Pointer graphs with cycles and sharing; two ledgers filled in different places; a walk that goes on after a
refusal and must still end; values that flow around pins; two independent ideas of what padding is. *Correct when*
the verdict is exact byte by byte, `read_tree` accepts exactly the trees, both walks agree, and an audit
of what the writer wrote reproduces the map it declared. Modelled: `IfdSpans`, `IfdLedger`, `IfdWalk`,
`IfdWriter`, composed in `MCIfdFiles`; proofs in `IfdAccounting_proof`. Not modelled: value conversions (stateless), maker-note sub-maps (roadmap).

### DNG rewrite (`gamut-dng/src/rewrite.rs`)

*State.* The original bytes, the tree as parsed and perhaps edited, the old offset of the maker note, the runs of bytes that no structure
accounts for. *Operations.* `open`, edits of the tree, `write`. *Interaction.* `open` walks the file twice, with `read_tree` and with the tolerant
audit; `write` lays the tree out with `write_with`, twice. *Hard.* What is kept is the union of what two walks with different rules
found; the second layout must be the first, or every payload offset is wrong; the note is to stay
where it was, though everything around it moves. *Correct when* nothing is lost or overlapped, and the report says what became
of the note and of each run. Modelled: the end of `IfdWalk` (what is kept of a file), `DngRewrite` (how it is laid out).

### Symbol coder (`gamut-bitstream/src/symbol.rs`, the entropy layer of AV1 and AVIF)

*State.* Encoder: `low`, `rng`, `cnt`, bytes with room for a carry. Decoder: value, range, position, bits left.
Each side: adapting CDFs of its own. *Operations.* code or read a symbol, with or without adaptation, finish, exit.
*Hard.* Carries that ripple through bytes already produced; two copies of each context that may never differ;
nearly certain symbols; tiles and CDFs that no encoder of this crate made. *Correct when* every
sequence comes back, and no tile takes the decoder out of its ranges. Modelled: `RangeCoding`, `SymbolEncoder`,
`SymbolDecoder`, `SymbolChannel`; proofs in `SymbolChannel_proof`.

### TIFF LZW (`gamut-tiff/src/compression/lzw.rs`)

*State.* A table on each side, the decoder's one entry behind; the code width; bytes out. *Operations.* encode, decode
with a declared size. *Hard.* Widths are never transmitted; a code may name the entry that it defines; a stream without
end codes. *Correct when* both sides change width at the same code, strips come back, and the table
is bounded by what the directory declared. Modelled: `TiffLzw`; proofs in `TiffLzw_proof`.

### DEFLATE encoder (`gamut-deflate`, under PNG, TIFF, ICC)

*State.* The match finder: newest position of each bucket, and a ring, indexed modulo the window, of next older ones; the position of a parse; in
the optimal parse the prices of the parse before and the cheapest way to each position. *Operations.* One call: parse (greedy, lazy, or
in spans with iterated prices), code the tokens as a stored, fixed, or one or several dynamic blocks, keep the smallest. *Hard.* The ring is overwritten while
chains lead through it; spans are parsed alone but refer to each other's bytes; code lengths have a limit; two code descriptions are
run-length coded as one sequence; the splitter decides by prices, not by bits. *Correct when* every body that could be chosen is the input to
a reader of RFC 1951, no search meets a reused slot, and prices are exact. Modelled: `DeflateCodes`, `Deflate`. Not modelled: the frame
of `zlib.rs`, two constant bytes and a checksum.

### JPEG entropy layer (`gamut-jpeg`: huffman, bitwriter, scan, progressive, encoder, decoder, syntax, appmeta)

*State.* A bit accumulator on either side; DC predictors and end-of-band runs; the restart count modulo 8; coefficient planes with
the bit position each band has been coded to; the tables last defined; the decoder's marker loop. *Operations.* encode (baseline, optimised,
progressive; with restarts), decode, reading and patching of metadata. *Hard.* A marker may be lost and the next taken for it; the
height may be unknown until after the scan, so that the end of data is guessed from the padding; a refinement scan must meet exactly the bands
and bits earlier scans left; an ICC profile is split over segments that travel separately. *Correct when* what is written comes back; what is
accepted of a damaged stream is the image, or a prefix of its bits, or wrong within one restart interval; and what cannot be repaired is
refused. Modelled: `JpegHuffman`, `JpegEncoder`, `JpegScan`, `JpegStream`, with the
promises in `JpegFidelity`. Not modelled: the DCT, quantisation, rate control, upsampling, colour arithmetic.

### ISOBMFF and HEIF (`gamut-isobmff`, `gamut-heic`)

*State.* Boxes, items with extents in the file, one payload budget, a pool of shared properties with index lists; in the decoder the stack of
item ids being derived. *Operations.* write and read an image, walk all bytes, decode an item as planes or as RGBA. *Interaction.* `HeifContainer::parse`
checks what the box reader found; the decoder asks an HEVC backend for coded items. *Hard.* Extents in any order, in `mdat` or
`idat`, split, shared; a box that extends to the end of the file before a vendor trailer; property indices that outgrow the
narrow form; items that refer to each other in circles; the order of transforms, masks and composition. *Correct when* a file that
is read is the one that was saved, whatever its layout; each decode returns, with the picture its derivation describes, or an error
exactly when there is no such picture. Modelled: `IsoBmff`, `HeifImage`, `HeifDerivation`, `HeifFile`, against the reference `HeifPresentation`; proofs in
`Containers_proof`.
Not modelled: HEVC payloads (`nal.rs`, `hvcc.rs` beyond sound or not), and AVIF's `container.rs` and `obu.rs`.

### RIFF and WebP containers (`gamut-riff`, `gamut-webp`)

*State.* A chunk cursor, the rank reached, the first of each kind, the unknown chunks. *Operations.* strict parse, metadata-only
parse, write simple or extended, encode again with what was found. *Hard.* Unknown and metadata chunks may stand anywhere, reconstruction
chunks may not go back in rank, only the first of a kind counts, the last chunk may lack its pad byte. *Correct when* faults cost what they
hit and no more, over several generations of the file. Modelled: `WebpFile`; proofs in `Containers_proof`. Not modelled: both codestreams.

### Photo metadata (`gamut-metadata`, `gamut-iptc`, `gamut-xmp`)

*State.* None of its own: an IIM block and an XMP packet in the file hold the same fields, and programs that
know only one of them edit it. *Operations.* extract (merging under a policy), set a field, embed (projecting into both), report conflicts.
*Hard.* Charsets, languages, repeatable fields, dates that one carrier cannot express, a packet added behind another. *Correct when* what was
last written to the preferred carrier is what is read, and conflicts are exactly the disagreements.
Modelled: `PhotoMetadata`. Not modelled: EXIF and ICC, which pass through, and the serialisers.

### Components that are not modelled

| component | state and operations | hard parts | why not |
|---|---|---|---|
| ABI bridge and C interface | owner of a foreign context | refusal, partial failure of `push_backend` | decided by Rust's types, see above |
| EXIF, ICC formats | none between calls | parsing and serialising | stateless conversions |
| VP8L (`gamut-webp/src/vp8l`) | colour cache, prefix codes per region, transforms | encoder and decoder insert into the cache at the same points; a sub-image in a sub-image | roadmap; its codes and references are those of `DeflateCodes` with other limits |
| AV1, VP8, TIFF, DNG sample coding, DSP | per-block buffers | arithmetic | out of TLC's reach |
| AVIF `container.rs`, `obu.rs`; HEVC NAL units | as HEIF, fewer item kinds | sequence headers against properties | roadmap |
| Colour management, tone mapping | pipelines of floating-point stages | precision | out of TLC's reach |
| IFD values and tags, TIFF strips and tiles | none between calls | per-sample arithmetic | stateless conversions |
| CLI, re-exports, placeholders (`gamut-wasm`, `gamut-av2`, `gamut-vvc`), oracles | none | none | no protocol |

## Modules and what they correspond to

```
BackendContract            what a caller sees of a call
   ^ INSTANCE ... WITH         ^ INSTANCE ... WITH (steps only)
BackendSeam (P)            JxlRegistry (P)

PngReader (P) <- PngFile (P) <- MCPngFile      PngText

IfdSpans <- IfdLedger (P) <--------------+
         <- IfdWriter <- DngRewrite <----+- MCIfdFiles
         <- IfdWalk (P) <- MCIfdWalk

JpegHuffman <- JpegEncoder, JpegScan <- JpegStream <- JpegFidelity <- MCJpeg

Outcome <- HeifImage <- HeifDerivation (P) <- HeifPresentation --+
                     <- IsoBmff ---------------------------------+- HeifFile --+
        <- WebpFile (P) -------------------------------------------------------+- MCContainers
        <- PhotoMetadata ------------------------------------------------------+

RangeCoding <- SymbolEncoder, SymbolDecoder <- SymbolChannel (P) --+
DeflateCodes <- Deflate -------------------------------------------+- MCLossless
                TiffLzw (P) ---------------------------------------+
```

(P): the theorems of the module are in the module of that name with `_proof` behind it, which extends it; `IfdLedger` and `IfdWalk`
share `IfdAccounting_proof`. What the proofs share is in `SequenceLemmas`: call stacks, induction along a sequence, functions defined by recursion, powers of two.

**BackendSeam.** Backends are numbered in the order of all pushes. `registry[c]` is the `Vec` of codec value `c`;
`captured[b]` the handles of the codec value that backend `b` was built around; `owner` and `poisoned` are the mutexes;
`stack[t]` holds the dispatch frames of a thread, outermost first, each a position in the loop of `run_inflaters`,
`encode_with_backends`, `dispatch_decode` or `run_backends` (they are one loop, with two differences).
The differences are constants: `LateDeclines`, the answers of an accepting
backend that still fall through (a late `Unsupported` in PNG, `gamut-png/src/backend.rs:286` and `:312`; the decline sentinel in JPEG and AVIF; none in WebP), and `HostChecks`, whether the host validates
the result. `Lock`/`LockPoisoned` are `lock()`, `Accept` and `Answer` are what `supports` and the run return,
with the guard dropped at the end of the loop body; `RunTail` is the built-in implementation, which holds no lock of the call.
`Reenter`, `Panic` and `Catch` are what user code may do inside a backend. `Push` and
`CloneCodec` need `&mut` to the value and are excluded while a call borrows it.
`push_backend` takes the backend by value and wraps it in a fresh `Arc`, so a backend cannot contain a handle to itself: its own
codec names only older backends. That is where `captured[b]` comes from, and the deadlock argument rests on it. A
backend that obtains handles later, through interior mutability of its own (an `Arc<Mutex<PngDecoder>>` filled
after the push), escapes it and is not modelled.

**JxlRegistry.** `list[r]` is one shared list, each entry the list that backend calls (or none). Probe and walk are
separate acquisitions, as in `dispatch_backends` and `dispatch_encode`. A walk keeps the guard over the
list from its first `supports` to its end; `Registry::lock` recovers a poisoned mutex. `Veto` is
`uses_container_features`, `Reject` the refusals before a backend is asked.

**BackendContract.** `open`, `width`, `answers`, `verdict` of each thread's call: answers are declines, in order,
up to exactly one ending. A refinement mapping reads them off the outermost frame of a
thread; nested calls and locks are stutters.

**PngReader** runs `parse_stream` and `walk_metadata_chunks` over the same chunks; a chunk is `[type, ok, n]`, `ok` its CRC.
`Collect` is `decoded::collect` with its budget. `WellFormed` is a grammar stated over the whole
stream, not the code's flags. **PngFile** adds the encoder (`Written`: the chunks of `write_png` in order), a medium that damages,
loses, repeats or cuts, and other writers (`Sources`) that send any chunks. **PngText** models the bytes of a text chunk.

**IfdSpans** is `track.rs` and `segment.rs` as operators: `Record`, `Holds`, `Subtract`, `Finish`. The two-pointer loop of `subtract` is taken turn by turn (`SubtractTurn`), and
so is the gap cursor of `finish` (`GapTurn`); the merge at the head of `subtract` is left out, because `finish` passes claims that are merged already. **IfdLedger** drives them
with reads and claims in any order. **IfdWalk** is the chain, `resolve_pointers_with` and `follow_subifds` as explicit stacks,
first the strict walk, then the audit, with both ledgers; and what the DNG rewrite keeps of a file: the directories of the strict tree, their payloads, and the runs
that the audit's report names. **IfdWriter** is the passes of `write_with` and
the two classifications an audit makes of its output.

**DngRewrite** adds to `IfdWriter` the actions of `write`: `Collect`, the first layout, `Relocate`
when the pin is refused, `Patch`, the second layout, `CarryThrough`. Its tree is unrelated to the old offset of the
note, because a program may edit the tree in between. **MCIfdFiles** composes ledger, writer and rewrite; a behaviour is about
one of the three (`subject`), they share no state.

**JpegEncoder** turns quantised coefficients into tokens, tokens into tables and bits, one interval at a time. **JpegScan** is the decoder
of a scan, sequential or progressive. A byte of entropy data is a number, all ones are followed by a stuffed zero or by a marker; predictors,
runs and the accumulator are those of the code, at smaller widths. **JpegStream** holds the state: what was sent and not read, what
was read, and the decoder (`dec`); the medium acts on segments and intervals in between. A progressive scan travels with the table in
front of it (`ScanUnit`): a lost table between two progressive scans leaves the previous table in force, which the format cannot show.

**HeifDerivation** is `decode_planar_inner` and `decode_rgba_inner` as a stack of activations, with the code's `stack` of ids as `guard`. `DerivationSpec` decodes any items of any images one after another, each
begun by `Begin`; in `HeifFile` the decoder of a file begins with the same `Begin`.
A sample carries the coordinates at which it was coded, so that a wrong crop or a turn in the wrong order shows. **HeifPresentation** says of one
pixel at a time where it has to come from, backwards through transforms, overlays and grids. **IsoBmff** is a file as a
sequence of cells (box headers and payload cells), the writer, the reader with its budget, and the walk. **HeifFile** puts a writer
(gamut's, or one with other layouts), a cut or an appended part, the parser and the decoder in a row.

**WebpFile** is the parse and the write of `gamut-riff`, and the generations of a file. **PhotoMetadata** has two editors, one
for each carrier, the model of `gamut-metadata`, and `said`: what each carrier's last writer meant. **MCContainers** composes
the three; again a behaviour is about one of them.

**RangeCoding, SymbolEncoder, SymbolDecoder, SymbolChannel** are `symbol.rs` at its real widths (16-bit ranges,
15-bit probabilities): no scaling. `OpenForeign` and `ReadForeign` give the decoder tiles and CDFs that nobody promised anything about.

**TiffLzw** is `encode` and `decode`, one action per branch of the loops; `put` keeps the codes with the widths they
were written in, `Packed` makes bits of them. Byte width, table size and reset point are constants
with the relations they have in the source.

**DeflateCodes** is the tables, codes and blocks as operators; a body is a sequence of bits. A Huffman tree is the set of its leaves, each with the number of merges above it.
`ReadOn` is not the code: it is a reader of RFC 1951, a block header or a symbol at a time, which refuses what the RFC forbids (incomplete codes, distances before the start), as the
C zlib of the tests does. **Deflate** is the parse, one action per turn of a loop: `Advance` is `parse_range`, `Relax` is `parse_dp`, `ParseEnds` and `PassEnds` are `optimal_span`
with the step to the next span, `Split` is one call of `recurse`, `WriteBody` is `deflate_body`. The hash is any function from three bytes to a bucket. **MCLossless** composes the
three coders; a behaviour is about one of them (`subject`).

## What the runs show

| run | asks | states |
|---|---|---|
| `seam` | can two calls meet in a backend, wait in a circle, enter a panicked backend, or show a caller anything but the contract? | 54,773 |
| `jxl` | does a call miss a push, see a list move, or hang? | 375,349 |
| `png` | do the two readers and the writer agree, on good, damaged and foreign files? | 651,344 |
| `png_latin1` | do the texts of `tEXt` survive? (no) | |
| `ifd_files` | do verdict, declared map and rewrite say what the bytes are? | 239,220 |
| `ifd_walk` | do the two walks agree on every pointer graph, and end, and does a rewrite keep all they saw? | 2,906,890 |
| `ifd_pins` | does every pin either hold or fail the write? (no) | |
| `dng_chain` | is a rewritten file whole when a sub-IFD is chained? (no) | |
| `lossless` | does what DEFLATE, LZW and the symbol coder code come back, and do the tables, chains and ranges behind it hold? | 2,663,416 |
| `lzw_eoi` | does the decoder see the end of every strip? (no) | |
| `jpeg` | what is accepted of an image after one or two faults? | 92,492 |
| `containers` | does a file that is read hold what was saved, and does every decode return the right picture? | 890,816 |

### `seam`

Two threads, two codec values, two backends, one outermost call each, one nested call per job.

- `ExclusiveBackend`: over all threads and depths at most one frame is inside a backend.
- `NoCircularWait`: whenever a thread is in a call, some thread in a call can move.
- `PanicQuarantine` (action property): poison is permanent, and a poisoned mutex is never acquired.
- `ImplementsContract`: every behaviour, with its fairness, implements `BackendContract`.
- `CallReturns` (liveness): a call that was begun returns, to its caller or by a panic.

The bounds. Circular waiting needs two threads and two backends that call each other's values. With pushes, clones
and captured lists all inside the run, every assignment of two backends to
lists and captures occurs. Larger instances are what the theorems are for. The run uses the JPEG and AVIF policy;
PNG's has the same ways through the loop (answers are told apart only by membership in `LateDeclines`), WebP's has one fewer. The theorems hold for every policy.

### `jxl`

Two threads, two lists, two pushes at any time, nested calls.

- `PushIsSeen`: when a call that no feature vetoed reaches the built-in tail, every backend whose push returned before the call began has declined.
- `ImplementsContract`: a call takes steps of the contract only (safety: see the next point).
- `CallReturns`: under the hypothesis that nested calls end, every call returns. The hypothesis is
  needed: a backend whose own encoder shares the list it was pushed to waits for itself, and everyone
  else with it; nothing in `gamut-jxl/src/backend.rs` warns of that. The property says there is no other way to hang.

### `png`

Eleven encoder jobs at the boundaries of palette sizes, up to two faults per file at any chunk, a cut
anywhere; and foreign streams of up to seven chunks over two vocabularies of twelve.

- `ParsesExactlyWellFormed`: decode's chunk loop accepts exactly the streams of the grammar.
- `MetadataMatchesDecode`: wherever decode accepts, `metadata()` reads the file and finds the same.
- `BudgetHolds`: what is kept of compressed metadata never exceeds the budget, in any order, with repetitions.
- `RoundTrip`: what the encoder wrote and nobody touched is read back, texts and all other metadata included.
- `FaultsAreHandled`: faults in ancillary chunks cost at most those chunks' metadata; a file with a damaged critical chunk, or cut
  before its IEND, is never decoded.

Seven chunks are enough for each pair of rules about order (PLTE, tRNS, a split run of IDATs, IEND) to interact, with IHDR
and IEND around them. The budget of 6 makes a repeated text fit and a third repeat not.

### `ifd_files`, `ifd_walk`, `dng_chain`

`ifd_files`, accounts: three claims over three bytes give every way in which three extents nest, overlap, coincide, touch or leave the file;
reads over eight bytes give four separate spans and every read that joins some of them.
`LedgerIsTheBytesRead`: the spans are the maximal runs of the bytes read, and looking at one span answers
containment. `ReportIsExact`: gaps, unclaimed reads, conflicts and the verdict are stated byte by byte.

`ifd_files`, layouts: four trees, all pairs of pins of two values at even and odd offsets, three preambles, on widths scaled down with their
parities kept. `LayoutIsSound`: the declared map covers each byte of the file exactly once, values are aligned, and accepted pins of different tags
hold. `AuditReproducesMap`: an audit finds the declared segments (for even pins of distinct values).

`ifd_files`, rewrites: seven edited trees (payloads in several directories, with several blocks or none, two notes, a note too short to be out
of line, mismatched or outside payloads), the note anywhere from inside the new directories to far behind them, five lists of runs with and without a
preamble. `RewriteIsWhole`: the second layout equals the first; no payload, run or value overlaps another; the runs are all there, in order; the note is pinned exactly when
the new directories leave its place free, and reported so.

`ifd_walk`: all pointer lists of up to two pointers (null and outside targets
included) and all next links over three directories, a second family of files with values that are shared, undecodable or
outside and extents that overlap them or are empty, and a third of four directories in chains of sub-IFDs longer than `MaxDepth`: 258,678 files. `MaxIfds` is 2 and
`MaxDepth` 3 (65,536 and 16 in the code). Over three directories a chain of sub-IFDs that is too deep also comes back to a directory, so it takes the third family to make the depth guard
decide alone; without it, `AcceptsExactlyTrees` is violated there. Three directories give every shape of a cycle through a page, through a child and through
a grandchild, and a directory reached twice at the same and at different depths.
`AcceptsExactlyTrees` compares with a declarative definition of reachability (the least closed set).
`AuditAgreesWithReadTree`: the audit has no finding exactly on the files `read_tree` accepts without chained sub-IFDs, and then both return one tree. `VerdictIsHonest`: a
verdict of fully classified hides no directory in the file, and the two ledgers agree unless a directory failed half-way. `TreesAreKeptWhole`: of a file that opens, and in which no sub-IFD
has a next link, a rewrite carries every byte: what one walk left, the other found unaccounted. `WalksEnd` (liveness).
`dng_chain` drops the condition on next links.

### `lossless`, `lzw_eoi`

`lossless`, symbols: every sequence of up to five symbols over a fair static bit, a nearly certain bit and a skewed ternary symbol,
with and without zero bytes behind the tile; and all tiles of up to two edge-valued bytes under ill-formed CDFs. Five symbols cross several byte boundaries
and include the carries through 0xFF that the nearly certain context provokes. `EverySymbolIsCodable` is what `encode_q15` asserts, for adapted contexts;
`TileComesBack` also demands that the ranges and contexts of both ends stay equal and that no carry leaves the first byte; `DecoderIsTotal` that
a decoder never leaves its ranges or its tile.

`lossless`, LZW: with 2-bit bytes, codes are 3 to 4 bits wide and the table is cleared after six entries, so strips of nine bytes cross a change of
width, a reset and a change of width after it. `StripComesBack`: a strip read at its size, or at a smaller one, is its prefix; both sides change width at the same code, and every code fits its width.
`TableWithinDeclared`: over every stream of up to six bytes, the table has fewer entries than declared bytes and holds at most two bytes for each.
`lzw_eoi` reads strips under a directory that declares up to one byte more, and asks whether that is noticed.

`lossless`, DEFLATE: bytes of 4 bits, lengths 3 to 7 and distances 1 to 4 in three symbols each (with and without extra bits, as in the
RFC's tables), codes of at most 5 bits, two buckets. Every input of up to nine bytes over two values, at all four levels, with a window of 4, so that the ring wraps twice,
spans of nine bytes after which the optimal parse starts anew, and chains of 1, 2 and 4. One longer input has counts so steep that the limit on code lengths acts, one has two halves with so little in
common that splitting pays. In these, references reach across spans, the lazy parse defers, the optimal parse changes the lazy one, and each kind of body is the smallest for some input.

- `DeflateIsFaithful`: the body, and each body the level offered and did not choose, is the input to a reader of RFC 1951, which ends with its last block; none is shorter than the chosen one.
  A search visits only older positions in the window that begin with bytes of the bucket, each older than the last, so no reused slot is entered (the comment at `lz77.rs:36`); tokens tile
  the input, each reference is in the window and copies what is there, and none crosses a span; the price of a block is its length in bits, so splitting never makes a body longer.

### `jpeg`

Bytes of 4 bits, run/size symbols in base 4, blocks of 7 coefficients, restart counters modulo 3, codes of at most 5 bits. Seven images: gray ones of 2 to 9 blocks (an end-of-band run
at its longest, restarts that wrap), luma twice as wide as chroma with a padding block, and XYB; baseline, optimised and
progressive; restart intervals 0, 1, 2; a height declared or deferred to a DNL; limits on size and memory. One fault per file, two on
two of the images: a segment, scan or interval lost, repeated or exchanged, a byte changed, a cut, metadata redefined.

- `RoundTrip`: the untouched file decodes to the coefficients written, with their tables and size, or is refused where a limit says so.
- `PartialIsPrefix`: scans lost, repeated or exchanged leave each coefficient right down to the bit the decoder says it has.
- `DamageIsHandled`: a changed byte that goes unnoticed changes blocks of its own restart interval only; and what cannot be repaired is an error: a cut, a lost header or table, a lost first scan, a scan sent twice, and restart intervals lost, repeated
  or out of order. Losing the last interval is noticed because every table leaves the code of all ones free, so that padding is not a symbol. The exception is a DC refinement
  scan, whose bits carry no code; there only the blocks of that interval may differ.
- `MetadataIsWhole`: an ICC profile of several segments arrives complete and in order, or the header is refused; patched metadata is exactly what is read; one lost
  application segment does not change how colour is interpreted.
- `TablesAreSound`: the optimiser's tables are prefix codes within the length limit, for flat, skewed and Fibonacci histograms.

### `containers`

*HEIF* (about 36,000 states). Every way in which two derived items (grid, overlay, identity) may refer to each other and to a third, cycles included;
pairs of turns, mirrors and crops; masks with their own geometry; grids with tiles cut by the output; overlays of masked, turned inputs partly outside the canvas; files laid out with
metadata in front or behind, an open-ended last box, data in `idat`, split or shared extents; property pools on both sides of the narrow index; one cut or
appended part. `MaxDepth` is 3 (8 in the code, `gamut-heic/src/decode.rs:63`), `Narrow` 2 and `Wide` 8 (0x80, 0x8000).

- `ItemsAreWhole`: a file that is read gives the image that was saved, with segments that tile the file; it is refused only for a cut, an image that may not be written, or payloads that
  share data beyond the budget; and payloads beyond the budget are never given out.
- `PresentationIsExact`: a decode returns the picture of `HeifPresentation` pixel by pixel, and fails exactly when there is none.
- `DerivationIsGuarded`: the guard holds each id once and at most `MaxDepth` of them, and the native stack is bounded with it.
- `DecodeReturns` (liveness): every decode ends, on any graph.

*WebP* (about 274,000). Four encodes, up to two faults at any chunks between a write and a read, one further generation.
`WebpFaultsAreContained`: the strict parse accepts exactly the ordered, well-formed, still files; what it hands on is what was given but for lost chunks; the metadata-only parse agrees.

*Photo* (about 580,000). Five turns of two editors, the model and `gamut-metadata`, both policies; fields of each shape of the field map. `CarriersAgree`:
every field is what the preferred carrier's last writer meant, conflicts are exactly the fields on which the last writers disagree, no other
language is lost. It is stated for dates that IIM can express and for captions whose `x-default` alternative leads or is absent (`IsTold`); of a caption led by another language it
says what holds instead: that language is read, under either policy. Both kinds of caption are among the edits.

### The four disagreements

1. `png_latin1`, property `Latin1Survives`. `write_text` (`gamut-png/src/ancillary.rs:203`) stores the UTF-8 bytes of a text in
   `tEXt` and `zTXt`; the decoder reads them as Latin-1, which is what both sides document
   (`ancillary.rs:67`, `decoded.rs:105`). "é" comes back as "Ã©".
2. `ifd_pins`, property `PinsAreHonoured`. `write_with` (`gamut-ifd/src/writer.rs:386`) checks each pin on its own and then uses
   the first pin of a tag. Two pins of one tag that do not overlap are both accepted; the second is dropped and its range
   written as filler. The test at `writer.rs:1122` has overlapping pins rejected because "silently dropping one would relocate a
   vendor blob".

3. `dng_chain`, property `NothingIsDropped`. `DngRewrite::open` (`gamut-dng/src/rewrite.rs:110`) takes the tree from `read_tree`, which ignores the next link of a
   sub-IFD (`gamut-ifd/src/reader.rs:266`), and the rest from the audit, which follows it (`audit.rs:345`) and so does not call the linked directory
   unaccounted. The rewrite has it from neither, while `rewrite.rs:1` promises "nothing dropped". When the link leads nowhere or back, the
   audit names no gaps at all (`audit.rs:302`), and preamble, filler and trailer are lost with it.

4. `lzw_eoi`, property `EndIsSeen`. `encode` (`gamut-tiff/src/compression/lzw.rs:66`) writes the last code and `EndOfInformation` at one width; no entry is counted for the
   last code. `decode` makes an entry of it and, where that fills the table of a width, reads the end with one bit more (`lzw.rs:161`): the end code is taken for a string,
   or the stream seems to stop. The comment calls the output "self-delimiting" (`lzw.rs:29`), and `decode` promises an error when the output is too short (`lzw.rs:105`). In the counterexample a strip
   read under a directory that declares one byte more comes back `Ok` with a byte that nobody wrote. With a correct directory the decoder stops at the declared size
   and never looks (`StripComesBack`, proved); other decoders that widen first would misread the end too. The proof of `StripComesBack` for every declared size failed at this step.

Further disagreements and limits that were met while modelling and have no run of their own; the models
follow the code:

- `gamut-metadata/src/lib.rs:22` calls "extract → embed → extract" a true equality. With the IIM block emitted and IIM preferred it is not, for a `DateCreated` that IIM
  has no form for: "Z" comes back as "+00:00", a partial date with a time is lossy (`gamut-iptc/src/date.rs:71`), and `conflicts()` then reports a conflict between two
  carriers that gamut wrote. `CarriersAgree` has the condition `Keeps` for this.
- A caption whose `x-default` alternative is not the first: `get_field` reads the first (`photo_metadata.rs:66`), the merge updates `x-default` in place
  (`gamut-xmp/src/model.rs:340`), and the parser keeps the order of the file, so the legacy value does not win although `IimWins` says so (`gamut-iptc/src/reader.rs:25`), and what is read is
  not the `x-default` that the docs name (`photo_metadata.rs:18`, `:185`). `CarriersAgree` has the condition `DefaultLeads` for this, and states what is read without it.
- `gamut-heic/src/image.rs` describes an identity item as its source "with that source's transformative properties applied"; `decode_planar_kind` does not apply the source's
  transforms, and drops its alpha.
- A HEIF grid of 4:2:0 tiles with an odd side: planes are joined edge to edge, so the chroma of later tiles lands under other pixels. `PresentationIsExact`
  compares content for aligned tiles only (`IsAligned`); whether a decode succeeds is compared for all.
- `with_unknown_chunks` of the WebP encoder (`gamut-webp/src/encoder.rs:194`) takes any FourCC; a reconstruction FourCC lands behind the bitstream, and the strict parse refuses the file.
- `gamut-jpeg/src/scan.rs:185` argues that padding cannot be decoded, which `DecTable::from_bits` does not ensure for foreign tables that use the code of all ones.
- Equal tiles stored once may exceed the payload budget of `gamut-isobmff` (`reader.rs:126`); this is by design.
- A maker note of at most four bytes is reported `Relocated`, where `rewrite.rs:33` says `Absent` means no out-of-line note. If an edit removes the Exif note and
  another directory has one, that one is pinned at the old offset and reported `Pinned`. Zero filler before a structure counts as padding and is not carried.

- `gamut-webp/src/backend.rs:357` ends a call on a late `Status::UNSUPPORTED`. `gamut-codec-abi/src/lib.rs:71` calls that status
  *the* fall-through code, while lines 13 to 18 of the same file say that a backend that accepted and
  failed ends the call. JPEG and AVIF go on to the next backend on their decline sentinel.
- `metadata()` of PNG reports on some files decode refuses (`gamut-png/src/decoder.rs:580`): it skips IDAT and PLTE, damaged or not.
- `read_tree` starts with an empty set of visited offsets (`gamut-ifd/src/stream.rs:339`), so a pointer to a page of the top-level chain
  is resolved as a child once more; `reader.rs:239` describes `visited` as spanning the whole walk.
- A sub-IFD that fails to parse leaves its reads unclaimed (`audit.rs:367`), and the report lists them as what
  `segment.rs:11` calls a parser accounting defect.
- Before a value pinned at an odd offset the writer declares padding which `classify_padding` (`segment.rs:432`) does not take
  for padding, so the audit does not reproduce the map (`writer.rs:214` promises it does). `AuditReproducesMap` is stated for even offsets.
- `finish` of the symbol coder promises to decode "regardless of trailing padding". That holds for zero padding, which is what
  AV1 uses, and is checked for it.

## Fairness

- `seam` and `jxl`: weak fairness of each thread's own steps. The operating system schedules every thread, backends return (or panic), and
  `lock()` on a free mutex succeeds. `std::sync::Mutex` is not fair, so strong fairness of `Lock` would be unjustified:
  a thread may starve while others take the mutex again and again. The number of outermost calls is bounded, so that starvation by
  an endless stream of *new* calls is outside the model; what `CallReturns` shows is that no call waits for
  something that will not happen. Calls, pushes and clones are not fair: nothing makes a program call.
- `ifd_walk`: weak fairness of the next-state relation; the walk is one thread's loop.
- `containers`: weak fairness of the decoder's steps only. Nobody has to write, cut, edit or ask.
- The other runs check safety only. Their behaviours end by themselves, as do those of the runs above when the bounded calls are used up, so deadlock
  checking is off, except in `jpeg`; stuckness of calls is covered by `NoCircularWait` and `CallReturns`.

## Proofs

Each theorem holds for every value of the constants that the named `ASSUME`s of its module allow: any number of threads, codec
values, backends, chunks, bytes, symbols, items or reads. TLC evaluates the assumptions in the run of the component.

| module | theorem | states |
|---|---|---|
| `BackendSeam_proof` | `TypeCorrect`, `InvariantHolds` | `Spec => []TypeOK`, `[]IInv` |
| | `BackendsAreExclusive` | `Spec => []ExclusiveBackend` |
| | `PanickedBackendsStayOut` | `Spec => PanicQuarantine` |
| | `NoDeadlockEver` | `Spec => []NoCircularWait` |
| | `CallersSeeTheContract` | `Spec =>` initial states and steps of `BackendContract` |
| `JxlRegistry_proof` | `TypeCorrect`, `InvariantHolds` | `Spec => []TypeOK`, `[]IInv` |
| | `EarlierPushesAreAsked` | `Spec => []PushIsSeen` |
| | `WalksAreAlone` | the list under a walk does not change, and one call walks it |
| | `CallersSeeTheContract` | `Spec => ImplementsContract` |
| `PngReader_proof` | `InvariantHolds` | `Spec => []IInv` |
| | `DecodeAcceptsTheGrammar` | `Spec => []ParsesExactlyWellFormed` |
| | `MetadataAgrees` | `Spec => []MetadataMatchesDecode` |
| | `BudgetIsKept` | `Spec => []BudgetHolds` |
| | `FilesComeBack` | `FileSpec => []RoundTrip` |
| | `FaultsStayWhereTheyAre` | `FileSpec => []FaultsAreHandled` |
| | `FileIsAStream` | `FileSpec => Spec` (initial states and steps) |
| `SymbolChannel_proof` | `InvariantHolds` | `SymbolSpec => []IInv` |
| | `SymbolsStayCodable` | `SymbolSpec => []EverySymbolIsCodable` |
| | `ReadingIsTotal` | `SymbolSpec => []DecoderIsTotal` |
| `TiffLzw_proof` | `InvariantHolds` | `LzwSpec => []IInv` |
| | `StripsComeBack` | `LzwSpec => []StripComesBack` |
| | `TableStaysDeclared` | `LzwSpec => []TableWithinDeclared` |
| `IfdAccounting_proof` | `LedgerInvariant` | `LedgerSpec => []LedgerInv` |
| | `LedgerIsExact` | `LedgerSpec => []LedgerIsTheBytesRead` |
| | `ReportHolds` | `LedgerSpec => []ReportIsExact` |
| | `WalkInvariant` | `Spec => []WalkInv` (of `IfdWalk`) |
| | `AuditVerdictHolds` | `Spec => []VerdictIsHonest` |
| `Containers_proof` | `GuardFollowsTheCalls` | `DerivationSpec => []GuardInv` (of `HeifDerivation`) |
| | `DerivationStaysGuarded` | `DerivationSpec => []DerivationIsGuarded` |
| | `WebpInvariant` | `WebpSpec => []WebpInv` (of `WebpFile`) |
| | `WebpFaultsContained` | `WebpSpec => []WebpFaultsAreContained` |

**Backend seams.** *The invariant.* `ExclusiveBackend` alone is not inductive: it says nothing of who owns a mutex. `IInv` adds
`Guards` (a mutex is owned exactly while some frame of its owner is in the backend), `Frames` (only a frame in its
backend can call out or be unwound), `Captures` (lists name pushed backends only, and a backend's own codec only older ones) and
`Descending`: on every stack, all handles of an inner frame are older than the backend of any outer frame.
`Descending` follows at a re-entrant call from `Captures`, and makes a thread that is inside a backend and calls
out unable to ask for that backend again. *Deadlock freedom.* Suppose every busy thread is blocked. Each waits for a backend that a busy thread holds (`Guards`). Take the
oldest backend anyone waits for: its holder is blocked too, on a handle of a frame above the one that
holds it, which `Descending` makes older still. The minimum exists because backends are numbered (well-founded induction on the naturals).
*Refinement.* The contract sees the outermost frame of a thread. A step of an inner frame, a lock, a push or a clone is a stutter; an
answer, the tail and the return of an outermost call are the contract's actions, because `Frames` bounds the cursor by the list
the call was begun with. The theorem has the safety half; that a call ends needs the fairness, which TLC checks.

**JPEG XL.** `PushIsSeen` speaks of the last result. What carries it is `Mutex` (the list is locked by the one thread, and the one depth,
that walks it) with `Frames`: a frame below another is inside one of its backends, and what a call knew of the list when it began is a
prefix of what it walks. The probe for an empty list is no exception: a list only grows.

**PNG.** `IInv` says what each flag of the chunk loop means in terms of the chunks read so far, that a stream once refused has no
well-formed continuation, and that the metadata walk, wherever decode has not refused, has collected the same from the same prefix with the same budget spent.
The grammar is stated over whole streams, so the proof is in lemmas about one more chunk: what `Appended` does to "the IDATs are
one run", "no PLTE after IDAT" and the others.

*Files.* The theorems about `PngFile` hold for every set of encodes, other writers and faults. Their assumptions: a palette has an entry and at most as
many alpha entries as entries (`JobsAssumption`, what `with_transparency` enforces); the budget has room for what is encoded and for each repetition of a text
(`RoomAssumption`: the reader drops what exceeds it, by design); and what is written, whole or damaged, is among the chunks the readers are about. `FileInv` relates
the chunks read to those written by a map of positions (`Came`): in order, twice only where the medium repeated, everything but what it lost, damaged exactly where it
damaged. So a file with its critical chunks intact is still in the order of the grammar (`OrderKept`), and `RefusedForCause`, which `IInv` had to be strengthened by, says
that nothing else makes decode refuse. For the metadata, `Accounts` keeps a balance: what is left of the budget, plus what was read, plus the dearest text for each fault so far, is
at least the budget; and with no fault so far, exactly the texts behind are held. `WrittenIs` is about the encoder alone: its chunks come by rank, each type once but texts and IDATs.

**Symbol coder.** `IInv` has the encoder's interval inside the bits that `cnt` stands for (`low + rng <= 2^(cnt+25)`: so no bit that `normalize` masks off is
lost), the decoder's position as a function of the bits it has not invented, and that every context on either side is still a CDF. The latter rests on a lemma about `update_cdf`:
it moves every boundary towards 0 or `Top` by a part of its distance and keeps the order. Attempting it showed what `IsCdf` has to say: a zero entry would
adapt to an entry out of order, so the tables must have none. `IntervalsAreProper` then needs `EC_MIN_PROB` times
the number of symbols to fit under the smallest range, which holds for the 16 symbols of AV1. Shifts are treated through `Pow`, powers of two known by a table.

**LZW.** The decoder is a record (`Reader`), a function of the codes it has been given: `Taken` is one turn of its loop. While the encoder writes, the invariant follows the decoder
that would have read `put` so far (`Encoding`): its table, plus the one entry it is behind, is the encoder's dictionary, entry by entry (`Matching`), and `WidthsAgree`
gives it the width the encoder uses next, clears included. `PackedLies` says that reading at a code's offset with its width gives the code back, so that decoding walks along
the same sequence of records (`Decoding`, `OnTrack`). For `TableWithinDeclared`, and for any stream, each entry of the table is paid for: what is held beyond one byte per entry, plus the
previous string, is at most what was put out. `IInv` quantifies over that sequence of records, so TLC does not evaluate it; TLC checks the two properties it implies.

**Read ledger.** `Record` finds the spans that touch the new read and puts their hull in their place. `Coalesced` (sorted, disjoint and not even adjacent) makes
the touched spans a contiguous part of the list and the result coalesced again; `BytesOf` of the new list is the old plus the read. That no two spans are adjacent is what
lets `holds` look at one span only: a covered range cannot straddle two.

**Report.** `Finish` sorts the claims and walks along them. Sorting is ranking (`Arranged`): what has `k` others before it comes at `k + 1`, and
a rank is an injection of the claims into as many numbers, so each comes once (`Ranked`). The invariant of the walk (`Walked`): the union's bytes are those of the claims so
far, no claim ends later than its last run, and one ends there. So a claim that starts inside the last run always finds a segment to blame that reaches past its start; that the blamed segment is
not the same extent, which would make the report name a range in conflict with itself, needs the order by end among equal starts: equal extents are consecutive, and
the walk has dropped the second. The verdict follows: with no gap and no conflict every byte lies in exactly one extent, and with no claim out of bounds clamping changes no claim,
so that what was read is asked of the claims themselves.
`Subtracting` is the invariant of the turns of `subtract`: what is out are the bytes of the spans that no claim holds, as far as the position, and the claims skipped end by the position. Every
turn moves the position, the span or the claim, so the turns suffice (`SubtractsAll`). Both pointers only go forward because spans and covered runs are ordered and disjoint
(`IsLedger`), which the invariant of the walk provides for the runs. `Scanned` is the same for the gap cursor: before it, the bytes out are those in no run.

**Audit.** `AuditVerdictHolds` is about every file: any offsets, cycles, sharing, values anywhere, extents over anything, any limits. What is assumed of a file (`WalkAssumption`) is that its
header fits it and that a directory called whole does; everything else may lie outside. The verdict compares two ledgers that are filled in different places, so `WalkInv` has two halves.
`Match`: every byte read is in the file, every parsed claim was read, and every byte read is claimed as long as no target failed to parse (a failed one leaves reads without a claim).
It is kept directory by directory (`DirectoryAdds`): a body and a value are claimed exactly when all of them was fetched. `PointersAreFollowed`, unless something was skipped: each pointer of each
directory on the stack is still to do, being followed, or visited; and a visited directory is on the stack or has all its pointers visited. Alone this is not inductive: that a directory leaves
the stack with nothing to do needs the frame below to be at a visited offset, and that the page that leaves is the next of the chain needs `WalkTypes`. At the end the
stack is empty, so what any reached directory points to was visited, parsed and claimed (`ReachedIsClaimed`), or is the header, or a directory was skipped and then `Final` must have claimed every
byte of the file. The last step, from ledgers to verdict, is `ReportTells`, the part of the report's proof that is about any claims and reads.

**HEIF derivation.** The guard is a `Vec` of ids that is pushed and popped in two mutually recursive functions. `GuardInv`: the guard is the sequence of ids of the native stack
without, at most, one activation that only converts pixels; it is injective and no longer than the limit. Every image, cyclic or not, and every payload. The proof
found an overlap of two `CASE` guards that TLC resolves by taking the first; the model now has exclusive ones.

**WebP files.** Any number of encodes, faults and generations. `WebpInv` describes a damaged file without the order in which it was damaged (`FileOf`): each chunk is one the encoder wrote or
adds nothing to what a reader takes; what was given and is not there was lost; the private chunks are counted (given, less the lost, with the repeated); and unless one was moved or repeated there is an
increasing map of them to those given (`InTurn`). Every fault is a removal, an insertion, an exchange or a change of one chunk's state, and the lemmas about lists say what each does to counts and to
such maps. The walks are the other half: after `k` chunks the layout holds, slot by slot, the first of its kind among them (`Reads`), and the walk has refused exactly if one of them is not
fine where it stands (`FineAt`); the metadata-only walk has found the same (`WalkIsSound`). A transcode writes what was read, which is again what an encoder takes (`AgainIsEncode`),
so that the invariant starts over. `EncodesAssumption` says what an encoder is given: one bitstream, payloads that are there or not, private chunks
under names the format has no use for (see below for callers who pass others); `StraysAssumption`, that another program adds second headers and animation chunks only, so that what is read
can be compared with what was given. The canvas of a stray header is good or bad.

*Layout.* Lemmas about data first (stacks, spans, chunks, bits), then one lemma per action or per part of the invariant, then the induction step with one case per action, then the
temporal theorem. Induction over data is done without the library's operator-parameter theorems: a set of the positions at which
the claim holds contains the first and is closed under the next (`UpTo`, `StaysIn`), and `Recursion` says of a recursive function of the naturals that it satisfies its equations.

*Inductive invariants and TLC.* `IInv` of `BackendSeam`, `JxlRegistry`, `PngReader` and `SymbolChannel`, `LedgerInv`, `WalkInv` and `GuardInv` were checked with TLC on the instances of their runs before they were
proved. The runs list only the properties, which they imply. `WebpInv` quantifies over a map of positions of any range, so TLC does not evaluate it; TLC checks the property it implies.

*Only model-checked.* Liveness (`CallReturns`, `WalksEnd`, `DecodeReturns`) and the fairness of `BackendSeam`'s refinement, which the prover cannot treat. `TileComesBack`: that a decoded symbol is the coded one is
a statement about real numbers written bit by bit, and that no carry is lost one about all bytes before it; only the intervals behind it are proved. That `read_tree` accepts exactly the trees and agrees with the audit (a least
fixed point on one side, the order of a recursion on the other), what a rewrite keeps (`TreesAreKeptWhole`), the IFD layouts, the DNG rewrite, DEFLATE, JPEG, the HEIF files and photo metadata so far. `IfdWriter`, the JPEG modules and `HeifPresentation`, and what
extends them, use `RECURSIVE` operators (trees, codes, bits) and stay with TLC.

## Abstractions that matter

- A backend's result is one of five answers. That is all the dispatch loops distinguish.
- A chunk's payload is the number the readers look at. CRCs are right or wrong; an error that leaves a CRC right is not modelled.
- A directory has at most one out-of-line value and one data extent, and all its pointers are one list. Nothing in the walks depends
  on which tag a pointer came from, except its order.
- Sizes of IFD structures are scaled in `IfdWriter` and `IfdWalk`. Offsets stay far from 2^32 and 2^64; saturation is not exercised.
- Arithmetic of the symbol coder is exact; no register can exceed its width while `EverySymbolIsCodable` and `DecoderIsTotal` hold, so wrap-around is not modelled.
- A JPEG plane is its blocks of quantised coefficients; a quantisation table is its version, latched at the first scan of a component.
- A HEIF payload is two cells, so that half of one is a truncated payload; chunk payloads of WebP are opaque; an XMP text is what it says and the charsets that hold it.

## Roadmap

Modules, in order of value:

1. AVIF's `container.rs` and `obu.rs` over `IsoBmff`: the sequence header against `av1C` and `ispe`.
2. The maker-note sub-maps of `audit` (`walk_embedded`), with which `DngRewrite` could look into the note it pins.
3. HEVC NAL units: parameter sets that outlive a payload.
4. VP8L: the colour cache and the entropy image on both sides of a stream.

Theorems, in order of value:

1. `IfdWalk`: `TreesAreKeptWhole`, from `WalkInv` and the same invariant of the strict walk.
2. `Deflate`: no search meets a reused slot of the ring.
3. `SymbolChannel`: the carry out of the first byte, and `TileComesBack`.
