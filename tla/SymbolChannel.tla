------------------------------ MODULE SymbolChannel ------------------------------
(******************************************************************************)
(* A tile of AV1 symbols: SymbolEncoder codes them against adapting contexts,    *)
(* finish closes the tile, and SymbolDecoder reads it with contexts of its own   *)
(* that have to stay equal to the encoder's.  Zero padding may follow the tile.  *)
(* Or else the decoder gets a tile of unknown origin.                           *)
(******************************************************************************)
EXTENDS SymbolEncoder, SymbolDecoder

CONSTANTS
    Cdfs,         \* context -> its initial CDF
    Static,       \* contexts that do not adapt (BOOL_CDF, disable_cdf_update)
    MaxSymbols,   \* bound: symbols of a tile
    Tails         \* bound: what may follow the bytes of the tile

Contexts == DOMAIN Cdfs

ASSUME CdfsAssumption ==
    /\ Static \subseteq Contexts
    /\ \A c \in Contexts : IsCdf(Cdfs[c])
ASSUME SymbolsAssumption == MaxSymbols \in Nat /\ \A t \in Tails : t \in Seq(0 .. 255)

VARIABLES
    phase,      \* "encode", "decode" or "foreign"
    written,    \* the encoder's contexts
    read,       \* the decoder's contexts
    trace,      \* the symbols coded, with their context and the range after each
    decoded     \* the symbols decoded

channel == <<written, read, trace, decoded>>
symbolvars == <<encoder, tile, phase, channel>>

SymbolInit ==
    /\ phase = "encode"
    /\ InitEncoder
    /\ TileInit
    /\ written = [c \in Contexts |-> Context(Cdfs[c])]
    /\ read = written
    /\ trace = <<>> /\ decoded = <<>>

After(ctx, c, s) == IF c \in Static THEN ctx ELSE [ctx EXCEPT ![c] = Adapted(@, s)]

\* encode_symbol_adapt, or encode_symbol for a static context.
Encode(c, s) ==
    /\ phase = "encode" /\ Len(trace) < MaxSymbols
    /\ EncodeSymbol(written[c].cdf, s)
    /\ written' = After(written, c, s)
    /\ trace' = Append(trace, [context |-> c, symbol |-> s, range |-> rng'])
    /\ UNCHANGED <<tile, phase, read, decoded>>

\* finish, and SymbolDecoder::new over its bytes and whatever follows them.
Close(tail) ==
    /\ phase = "encode"
    /\ phase' = "decode"
    /\ OpenTile(Finished \o tail)
    /\ UNCHANGED <<encoder, channel, open, reads>>

\* Mutant: the decoder adapts a context before it reads from it.
DecodeAdaptsFirst(s) ==
    /\ phase = "decode" /\ Len(decoded) < Len(trace)
    /\ LET c == trace[Len(decoded) + 1].context IN
          /\ ReadSymbol(After(read, c, s)[c].cdf, s)
          /\ read' = After(read, c, s)
    /\ decoded' = Append(decoded, s)
    /\ UNCHANGED <<encoder, phase, written, trace, open, reads>>

\* read_symbol_adapt, or read_symbol for a static context.
Decode(s) ==
    /\ phase = "decode" /\ Len(decoded) < Len(trace)
    /\ LET c == trace[Len(decoded) + 1].context IN
          /\ ReadSymbol(read[c].cdf, s)
          /\ read' = After(read, c, s)
    /\ decoded' = Append(decoded, s)
    /\ UNCHANGED <<encoder, phase, written, trace, open, reads>>

\* The decoder is given a tile of unknown origin instead.
OpenForeign ==
    /\ phase = "encode" /\ trace = <<>>
    /\ phase' = "foreign"
    /\ OpenAny
    /\ UNCHANGED <<encoder, channel>>

ReadForeign ==
    /\ phase = "foreign"
    /\ ReadAny
    /\ UNCHANGED <<encoder, channel, phase>>

SymbolNext ==
    \/ OpenForeign \/ ReadForeign
    \/ \E c \in Contexts : \E s \in 1 .. Len(Cdfs[c]) : Encode(c, s)
    \/ \E tail \in Tails : Close(tail)
    \/ \E s \in 1 .. 16 : Decode(s)

SymbolSpec == SymbolInit /\ [][SymbolNext]_symbolvars

----------------------------------------------------------------------------
\* Every symbol comes back, with or without zero padding behind the tile (finish:
\* "the minimum number of bits that decode correctly regardless of trailing padding"),
\* and after the last one the tile satisfies the trailing-bit rule of exit_symbol.
\* On the way the two ends walk through the same ranges, their contexts end up equal,
\* and finish, which has no byte in front of the first one, loses no carry.
AllDecoded == phase = "decode" /\ Len(decoded) = Len(trace)
TileComesBack ==
    /\ \A i \in DOMAIN decoded : decoded[i] = trace[i].symbol
    /\ AllDecoded /\ bytes = Finished => ExitSymbol
    /\ decoded # <<>> => range = trace[Len(decoded)].range
    /\ AllDecoded => read = written
    /\ NoCarryIsLost

\* However a context has adapted, each of its symbols keeps an interval of its own
\* inside every range the encoder can be in, and the encoder's registers stay in the
\* widths normalize relies on.
EverySymbolIsCodable ==
    EncoderTypeOK /\ \A c \in Contexts : IntervalsAreProper(written[c].cdf)

\* The inductive invariant of the tile: the encoder's, the decoder's, and that every
\* context on either side still is a CDF of as many symbols as it began with.
Adapting(contexts) ==
    /\ contexts \in [Contexts -> [cdf : Seq(1 .. Top), count : 0 .. 32]]
    /\ \A c \in Contexts : IsCdf(contexts[c].cdf) /\ Len(contexts[c].cdf) = Len(Cdfs[c])
ChannelInv ==
    /\ Adapting(written) /\ Adapting(read)
    /\ trace \in Seq([context : Contexts, symbol : 1 .. 16, range : Nat])
    /\ decoded \in Seq(1 .. 16)
IInv == EncoderInv /\ DecoderInv /\ ChannelInv
==================================================================================
