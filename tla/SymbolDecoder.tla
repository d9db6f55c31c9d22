------------------------------ MODULE SymbolDecoder ------------------------------
(******************************************************************************)
(* SymbolDecoder (gamut-bitstream/src/symbol.rs): the decoding half, over the    *)
(* bytes of one tile.  Past their end it reads zero bits.  And its use on a tile *)
(* no encoder of this crate wrote, with CDFs that need not follow the convention *)
(* (read_symbol accepts any slice): unordered, above Top, or without the closing  *)
(* Top.                                                                         *)
(******************************************************************************)
EXTENDS RangeCoding, FiniteSetsExt

VARIABLES
    bytes,     \* the tile's bytes
    bitPos,    \* next bit to read
    value,     \* SymbolValue: distance from the top of the range
    range,     \* SymbolRange, of 16 bits
    maxBits    \* SymbolMaxBits: bits of the tile still to come, minus those invented

decoder == <<bytes, bitPos, value, range, maxBits>>

\* bit_at: bit p of the tile (p counts from 0), zero past its end.
BitAt(data, p) ==
    IF p >= 8 * Len(data) THEN 0 ELSE (data[p \div 8 + 1] \div 2 ^ (7 - (p % 8))) % 2
\* read_f: n bits of data from position p, most significant first.
ReadBits(data, p, n) ==
    LET v[i \in 0 .. n] == IF i = 0 THEN 0 ELSE 2 * v[i - 1] + BitAt(data, p + i - 1) IN v[n]
Least(a, b) == IF a < b THEN a ELSE b
Most(a, b) == IF a < b THEN b ELSE a

\* SymbolDecoder::new over the bytes of a tile.
OpenTile(data) ==
    LET n == Least(8 * Len(data), 15) IN
    /\ bytes' = data
    /\ bitPos' = n
    /\ value' = Top - 1 - ReadBits(data, 0, n) * 2 ^ (15 - n)
    /\ range' = Top
    /\ maxBits' = 8 * Len(data) - 15

\* The boundary under symbol i, never above the ones before it.
Bracket(cdf, i) ==
    Min({range} \cup {Partition(range, Most(Top - cdf[j], 0)) + MinProb * (Len(cdf) - j)
                         : j \in 1 .. i})

\* The first symbol whose lower boundary the value reaches; the last one is forced.
Symbol(cdf) ==
    Min({Len(cdf)} \cup {i \in 1 .. Len(cdf) - 1 : value >= Bracket(cdf, i)})

\* Mutant: the bits shifted in are not complemented.
RenormalizeUnfilled(v, r) ==
    LET d == Shifts(r)
        n == Least(d, Most(maxBits, 0))
    IN  /\ range' = r * 2 ^ d
        /\ value' = v * 2 ^ d - 1 - ReadBits(bytes, bitPos, n) * 2 ^ (d - n)
        /\ bitPos' = bitPos + n
        /\ maxBits' = maxBits - d
        /\ UNCHANGED bytes
\* renormalize.  The source's exclusive or with a number whose low bits are all
\* ones is a subtraction.
Renormalize(v, r) ==
    LET d == Shifts(r)
        n == Least(d, Most(maxBits, 0))
    IN  /\ range' = r * 2 ^ d
        /\ value' = (v + 1) * 2 ^ d - 1 - ReadBits(bytes, bitPos, n) * 2 ^ (d - n)
        /\ bitPos' = bitPos + n
        /\ maxBits' = maxBits - d
        /\ UNCHANGED bytes

\* read_symbol against the CDF returns symbol s.
ReadSymbol(cdf, s) ==
    LET above == IF s = 1 THEN range ELSE Bracket(cdf, s - 1)
        below == IF s = Len(cdf) THEN 0 ELSE Bracket(cdf, s)
    IN  s = Symbol(cdf) /\ Renormalize(value - below, above - below)

\* exit_symbol: what is left of the tile is a one bit and zeros.
ExitSymbol ==
    LET trailing == Most(bitPos - Least(15, maxBits + 15), 0) IN
    /\ maxBits >= -14
    /\ BitAt(bytes, trailing) = 1
    /\ \A p \in trailing + 1 .. 8 * Len(bytes) - 1 : BitAt(bytes, p) = 0

----------------------------------------------------------------------------
\* A decoder between two symbols: never an empty range, never a value outside it.
DecoderTypeOK ==
    /\ range \in Top .. 2 * Top - 1
    /\ value \in 0 .. range - 1
    /\ bitPos \in 0 .. 8 * Len(bytes)
    /\ maxBits \in Int

----------------------------------------------------------------------------
\* A tile of unknown origin.

CONSTANTS
    Tiles,     \* what the bytes of a tile can be
    AnyCdfs,   \* the CDFs a caller may pass
    MaxReads   \* bound: symbols read from a tile

ASSUME TilesAssumption == \A t \in Tiles : t \in Seq(0 .. 255)
U16 == {k \in Nat : k < 65536}
ASSUME AnyCdfAssumption == \A f \in AnyCdfs : f \in Seq(U16) /\ 1 <= Len(f) /\ Len(f) <= 16
ASSUME MaxReadsAssumption == MaxReads \in Nat

VARIABLES
    open,     \* the tile has been opened
    reads     \* symbols read from it

tile == <<decoder, open, reads>>

TileInit ==
    /\ open = FALSE /\ reads = 0
    /\ bytes = <<>> /\ bitPos = 0 /\ value = 0 /\ range = Top /\ maxBits = 0

Open(data) ==
    /\ ~open
    /\ open' = TRUE
    /\ OpenTile(data)
    /\ UNCHANGED reads

Read(cdf, s) ==
    /\ open /\ reads < MaxReads
    /\ ReadSymbol(cdf, s)
    /\ reads' = reads + 1
    /\ UNCHANGED open

OpenAny == \E data \in Tiles : Open(data)
ReadAny == \E cdf \in AnyCdfs : \E s \in 1 .. Len(cdf) : Read(cdf, s)

TileNext == OpenAny \/ ReadAny
TileSpec == TileInit /\ [][TileNext]_tile

----------------------------------------------------------------------------
\* read_symbol is total: whatever the bytes and the CDF, the range never collapses
\* and the value stays inside it, so neither subtraction nor shift can go wrong.
\* The position never leaves the tile, and it plus the bits still to come is the
\* end of the tile until that has been reached (the comment in exit_symbol); so the
\* trailing position exit_symbol computes never lies in front of the tile.
DecoderIsTotal ==
    /\ DecoderTypeOK
    /\ open => /\ bitPos = 8 * Len(bytes) - Most(maxBits, 0)
               /\ maxBits >= -14 => bitPos >= Least(15, maxBits + 15)

\* The inductive invariant of the decoder: over a tile of bytes, it has read what is not
\* still to come, and once opened on its own it never stands before what it has read.
DecoderInv ==
    /\ DecoderTypeOK
    /\ bytes \in Seq(0 .. 255)
    /\ bitPos = 8 * Len(bytes) - Most(maxBits, 0)
    /\ open /\ maxBits >= -14 => bitPos >= Least(15, maxBits + 15)
==================================================================================
