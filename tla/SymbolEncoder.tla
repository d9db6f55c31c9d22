------------------------------ MODULE SymbolEncoder ------------------------------
(******************************************************************************)
(* SymbolEncoder (gamut-bitstream/src/symbol.rs): the encoding half of the      *)
(* range coder.  `low` may exceed its interval's bits by a carry; bytes are     *)
(* kept with room for one and the carries are resolved backwards at the end.    *)
(******************************************************************************)
EXTENDS RangeCoding

VARIABLES
    low,       \* low end of the coding interval
    rng,       \* its width, of 16 bits
    cnt,       \* bits pending beyond the last whole byte, minus nine
    precarry   \* bytes, each with room for a carry

encoder == <<low, rng, cnt, precarry>>

InitEncoder == low = 0 /\ rng = Top /\ cnt = -9 /\ precarry = <<>>

\* Where the intervals of symbols before s (`Upper`) and of symbols up to s
\* (`Lower`) end, counted from the top of the range.
Upper(cdf, s) ==
    IF s = 1 \/ Top - cdf[s - 1] >= Top THEN rng
    ELSE Partition(rng, Top - cdf[s - 1]) + MinProb * (Len(cdf) - s + 1)
Lower(cdf, s) == Partition(rng, Top - cdf[s]) + MinProb * (Len(cdf) - s)

\* normalize: completed bytes leave `low`, the rest moves up by d bits.
Emitted(l, c, d) ==
    IF c + d < 0 THEN <<>>
    ELSE IF c + d < 8 THEN << l \div 2 ^ (c + 16) >>
    ELSE << l \div 2 ^ (c + 16), (l % 2 ^ (c + 16)) \div 2 ^ (c + 8) >>
\* Mutant: the bits already emitted stay in low.
NormalizeUnmasked(l, r) ==
    LET d == Shifts(r)
        bytes == Emitted(l, cnt, d)
        c == cnt + 24 - 8 * Len(bytes)      \* bits left in low above the window
    IN  /\ precarry' = precarry \o bytes
        /\ low' = l * 2 ^ d
        /\ rng' = r * 2 ^ d
        /\ cnt' = cnt + d - 8 * Len(bytes)
Normalize(l, r) ==
    LET d == Shifts(r)
        bytes == Emitted(l, cnt, d)
        c == cnt + 24 - 8 * Len(bytes)      \* bits left in low above the window
    IN  /\ precarry' = precarry \o bytes
        /\ low' = (IF bytes = <<>> THEN l ELSE l % 2 ^ c) * 2 ^ d
        /\ rng' = r * 2 ^ d
        /\ cnt' = cnt + d - 8 * Len(bytes)

\* encode_symbol against the CDF: encode_q15 narrows the interval to symbol s.
EncodeSymbol(cdf, s) ==
    Normalize(low + (rng - Upper(cdf, s)), Upper(cdf, s) - Lower(cdf, s))

\* finish: round `low` up to a value with few significant bits inside the
\* interval, flush it, and resolve the carries from the last byte to the first.
EndValue(l) ==
    LET x == (l + 16383) \div 16384 IN 16384 * (IF x % 2 = 0 THEN x + 1 ELSE x)
Flushed ==
    LET e == EndValue(low) IN
    precarry \o [i \in 1 .. (cnt + 17) \div 8 |->
                    (IF i = 1 THEN e ELSE e % 2 ^ (cnt + 32 - 8 * i)) \div 2 ^ (cnt + 24 - 8 * i)]
\* What the last k bytes carry into the byte before them.
Carry == LET n == Len(Flushed)
             out[k \in 0 .. n] == IF k = 0 THEN 0 ELSE (Flushed[n + 1 - k] + out[k - 1]) \div 256
         IN  out
Finished == LET carry == Carry
            IN  [i \in 1 .. Len(Flushed) |-> (Flushed[i] + carry[Len(Flushed) - i]) % 256]

----------------------------------------------------------------------------
\* The state normalize leaves behind.
EncoderTypeOK ==
    /\ rng \in Top .. 2 * Top - 1
    /\ cnt \in -9 .. -1
    /\ low \in 0 .. 2 ^ (cnt + 25) - 1
    /\ precarry \in Seq(0 .. 511)

\* Every symbol the encoder is asked for has an interval inside the range (the
\* assertions of encode_q15: u <= r and v < u).
IntervalsAreProper(cdf) ==
    \A s \in 1 .. Len(cdf) : Lower(cdf, s) < Upper(cdf, s) /\ Upper(cdf, s) <= rng

\* What keeps the registers in those widths: the whole interval, not only its low end,
\* stays below the bits that cnt stands for, so that a byte leaves with one carry bit.
EncoderInv ==
    /\ rng \in Top .. 2 * Top - 1 /\ cnt \in -9 .. -1 /\ low \in Nat
    /\ low + rng <= 2 ^ (cnt + 25)
    /\ precarry \in Seq(0 .. 511)

\* finish has no byte in front of the first one to hold a carry: there is none.
NoCarryIsLost == Carry[Len(Flushed)] = 0
==================================================================================
