-------------------------------- MODULE MCLossless --------------------------------
(* The coders that only transform bits and bytes: the DEFLATE encoder, TIFF LZW and *)
(* the symbol coder of AV1.  They share no state; a behaviour is about one of them, *)
(* its subject, and the others are idle.  And small instances of the three.        *)
EXTENDS Deflate, TiffLzw, SymbolChannel

VARIABLE subject
losslessvars == <<subject, deflatevars, lzwvars, symbolvars>>

DeflateIsIdle ==
    /\ plain = <<>> /\ level = "store" /\ doing = "idle" /\ span = [from |-> 0, to |-> 0]
    /\ cursor = 0 /\ matcher = NoMatcher /\ tokens = <<>> /\ parsed = <<>>
    /\ passes = 0 /\ prices = <<>> /\ reach = <<>>
    /\ pending = <<>> /\ cuts = {} /\ body = <<>> /\ sent = <<>> /\ reader = ReaderStart
LzwIsIdle ==
    /\ stage = "idle" /\ stream = <<>> /\ expected = 0 /\ put = <<>> /\ data = <<>> /\ omega = 0
    /\ codes = <<>> /\ nextCode = FIRST /\ width = MinWidth /\ InitDecoder
SymbolIsIdle ==
    /\ phase = "idle" /\ InitEncoder /\ TileInit
    /\ written = [c \in Contexts |-> Context(Cdfs[c])] /\ read = written
    /\ trace = <<>> /\ decoded = <<>>

Init ==
    \/ subject = "deflate" /\ DeflateInit /\ LzwIsIdle /\ SymbolIsIdle
    \/ subject = "lzw" /\ DeflateIsIdle /\ LzwInit /\ SymbolIsIdle
    \/ subject = "symbols" /\ DeflateIsIdle /\ LzwIsIdle /\ SymbolInit
DeflateStep == subject = "deflate" /\ DeflateNext /\ UNCHANGED <<subject, lzwvars, symbolvars>>
LzwStep == subject = "lzw" /\ LzwNext /\ UNCHANGED <<subject, deflatevars, symbolvars>>
SymbolStep == subject = "symbols" /\ SymbolNext /\ UNCHANGED <<subject, deflatevars, lzwvars>>
Next == DeflateStep \/ LzwStep \/ SymbolStep
Spec == Init /\ [][Next]_losslessvars

\* What goes into the DEFLATE encoder is what a reader of RFC 1951 gets, at every level,
\* and what the encoder relies on is true: what the match finder offers is there, the
\* tokens tile the input, and the prices that decide are the bits that come.
DeflateIsFaithful == BodyIsTheInput /\ NoStaleCandidate /\ TokensHold /\ PriceIsExact

----------------------------------------------------------------------------
\* Bytes of four bits, three lengths and three distances; codes of at most five bits.
R(f, t, c, l) == [from |-> f, to |-> t, code |-> c, len |-> l]
MCFixedRows == <<R(0, 3, 4, 4), R(4, 15, 20, 5), R(16, 17, 0, 3), R(18, 19, 8, 4)>>
Rep(b, n) == [base |-> b, bits |-> n]
MCPrev == Rep(3, 1)
MCZero == Rep(3, 1)
MCLong == Rep(5, 2)
MCBucket == [w \in [1 .. 3 -> Octet] |-> (w[1] + w[3]) % 2]
MCChain == [fast |-> 1, default |-> 2, best |-> 4, store |-> 0]
AllLevels == {"store", "fast", "default", "best"}
MCInputs == {[data |-> d, levels |-> AllLevels] : d \in UNION {[1 .. n -> {0, 13}] : n \in 0 .. 9}}
\* Counts that make a deep tree; two halves with little in common.
Steep == <<0, 9, 5, 0, 3, 3, 3, 9, 0, 0, 9, 3, 5, 0, 3, 5, 3, 15, 12, 0, 0, 0, 12, 0, 3, 0, 0, 3, 5, 0, 0, 5>>
Repeat(s, n) == FlattenSeq([k \in 1 .. n |-> s])
Halves == Repeat(<<0, 0, 0, 7, 7>>, 9) \o Repeat(<<1, 2, 3, 4, 5, 6, 8, 9>>, 6)
MCL1 == <<3, 4, 7>>
MCL2 == <<0, 2, 0>>
MCD1 == <<1, 2, 3>>
MCD2 == <<0, 0, 1>>
MCCl == <<6, 7, 8, 0, 3, 2, 4, 1, 5>>
MCMore == MCInputs \cup {[data |-> Steep, levels |-> AllLevels], [data |-> Halves, levels |-> {"default", "best"}]}

\* A fair bit (BOOL_CDF), a nearly certain binary symbol and a skewed ternary one.
MCCdfs == [bool |-> <<16384, 32768>>, sure |-> <<32700, 32768>>, rare |-> <<40, 60, 32768>>]
MCStatic == {"bool"}
MCTails == {<<>>, <<0, 0>>}

EdgeBytes == {0, 1, 127, 128, 255}
MCTiles == UNION {[1 .. n -> EdgeBytes] : n \in 0 .. 2}

\* Well formed, unordered, with the adaptation counter appended, without its Top,
\* and beyond the scale.
MCAnyCdfs == {<<16384, 32768>>, <<30000, 20000, 100, 32768>>, <<32700, 32768, 7>>,
              <<10, 11, 12>>, <<65535, 0, 40000>>, <<5>>}
==================================================================================
