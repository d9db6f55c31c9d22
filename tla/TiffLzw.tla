--------------------------------- MODULE TiffLzw ---------------------------------
(******************************************************************************)
(* TIFF LZW (gamut-tiff/src/compression/lzw.rs): encode writes variable-width  *)
(* codes from a table it grows as it goes; decode rebuilds the same table one   *)
(* entry later and must change its code width at exactly the same code, though  *)
(* no width is ever transmitted.                                               *)
(*                                                                            *)
(* The source's bytes have 8 bits, so its codes start at 9 bits; here a byte has *)
(* ByteBits bits.  The stream is one that encode wrote, or one of unknown        *)
(* origin.                                                                    *)
(******************************************************************************)
EXTENDS Integers, Sequences, SequencesExt

CONSTANTS
    ByteBits,    \* bits of a byte (source: 8)
    MaxWidth,    \* MAX_WIDTH, the widest code (source: 12)
    ResetAt,     \* RESET_AT, the table is cleared at this code (source: 4094)
    DataBytes,   \* bound: byte values the strips are made of
    MaxInput,    \* bound: bytes of a strip
    MaxStream    \* bound: bytes of a stream of unknown origin

CLEAR == 2 ^ ByteBits
EOI == CLEAR + 1
FIRST == CLEAR + 2
MinWidth == ByteBits + 1
Byte == 0 .. CLEAR - 1

ASSUME WidthAssumption == /\ ByteBits \in Nat \ {0, 1}
                          /\ MaxWidth \in 1 .. 31 /\ MinWidth < MaxWidth   \* 1 << width is a u32
                          /\ ResetAt \in FIRST + 1 .. 2 ^ MaxWidth - 1
ASSUME StripsAssumption == DataBytes \subseteq Byte /\ {MaxInput, MaxStream} \subseteq Nat

VARIABLES
    stage,      \* "encode", "decode", "done", "short" or "refused", or "idle"
    data,       \* the strip's bytes, as far as the encoder has read them
    omega,      \* encoder: code of the string matched so far
    codes,      \* encoder: (code, byte) -> code of the longer string
    nextCode,   \* encoder: next free code
    width,      \* encoder: width of the next code
    put,        \* encoder: the codes put, each with its width
    stream,     \* the coded bits, whole bytes
    expected,   \* decoder: size of the strip the directory declares
    pos,        \* decoder: next bit to read
    strings,    \* decoder: string table, strings[code + 1]
    codeWidth,  \* decoder: width of the next code
    prev,       \* decoder: the previous code, if any, as a sequence
    out         \* decoder: bytes produced

lzwencoder == <<data, omega, codes, nextCode, width, put>>
lzwdecoder == <<expected, pos, strings, codeWidth, prev, out>>
lzwvars == <<stage, lzwencoder, stream, lzwdecoder>>

TypeOK ==
    /\ stage \in {"encode", "decode", "done", "short", "refused"}
    /\ data \in Seq(Byte) /\ out \in Seq(Byte)
    /\ omega \in 0 .. ResetAt /\ nextCode \in FIRST .. ResetAt
    /\ \A p \in DOMAIN codes : p[2] \in Byte /\ codes[p] \in FIRST .. ResetAt
    /\ width \in MinWidth .. MaxWidth /\ codeWidth \in MinWidth .. MaxWidth
    /\ stream \in Seq({0, 1}) /\ expected \in Nat /\ pos \in 0 .. Len(stream)

----------------------------------------------------------------------------
\* Bits, most significant first.
Bits(value, n) == [i \in 1 .. n |-> (value \div 2 ^ (n - i)) % 2]
Number(bits) ==
    LET v[i \in 0 .. Len(bits)] == IF i = 0 THEN 0 ELSE 2 * v[i - 1] + bits[i] IN v[Len(bits)]
Padding(n) == [i \in 1 .. (ByteBits - (n % ByteBits)) % ByteBits |-> 0]
Packed(cs) == LET bits == FlattenSeq([i \in DOMAIN cs |-> Bits(cs[i].code, cs[i].width)])
              IN  bits \o Padding(Len(bits))

InitTable == [i \in 1 .. CLEAR |-> <<i - 1>>] \o << <<>>, <<>> >>
Coded(code, w) == [code |-> code, width |-> w]

----------------------------------------------------------------------------
InitDecoder ==
    /\ pos = 0
    /\ strings = InitTable
    /\ codeWidth = MinWidth
    /\ prev = <<>>
    /\ out = <<>>

\* Nothing encoded yet, or a stream from somewhere else under a directory that
\* declares any size.
Streams == UNION {[1 .. n * ByteBits -> {0, 1}] : n \in 0 .. MaxStream}
LzwInit ==
    /\ \/ /\ stage = "encode" /\ stream = <<>> /\ expected = 0
          /\ put = << Coded(CLEAR, MinWidth) >>
       \/ /\ stage = "decode" /\ stream \in Streams /\ expected \in 0 .. MaxStream
          /\ put = <<>>
    /\ data = <<>> /\ omega = 0 /\ codes = <<>>
    /\ nextCode = FIRST /\ width = MinWidth
    /\ InitDecoder

\* The strip's first byte.
First(k) ==
    /\ stage = "encode" /\ data = <<>>
    /\ data' = <<k>>
    /\ omega' = k
    /\ UNCHANGED <<stage, codes, nextCode, width, put, stream, lzwdecoder>>

Known(k) == <<omega, k>> \in DOMAIN codes

\* The matched string followed by k is in the table: match on.
Match(k) ==
    /\ stage = "encode" /\ data # <<>> /\ Len(data) < MaxInput
    /\ Known(k)
    /\ data' = Append(data, k)
    /\ omega' = codes[<<omega, k>>]
    /\ UNCHANGED <<stage, codes, nextCode, width, put, stream, lzwdecoder>>

Cleared(table) == <<>>
Wider(w, next) == IF next = 2 ^ w THEN w + 1 ELSE w

\* It is not: write the match, define the longer string, widen, and clear the
\* table once it is full.
Write(k) ==
    /\ stage = "encode" /\ data # <<>> /\ Len(data) < MaxInput
    /\ ~Known(k)
    /\ data' = Append(data, k)
    /\ omega' = k
    /\ LET next == nextCode + 1
           w == Wider(width, next)
           full == next = ResetAt
           longer == [p \in DOMAIN codes \cup {<<omega, k>>} |->
                        IF p = <<omega, k>> THEN nextCode ELSE codes[p]]
       IN  /\ codes' = IF full THEN Cleared(longer) ELSE longer
           /\ nextCode' = IF full THEN FIRST ELSE next
           /\ width' = IF full THEN MinWidth ELSE w
           /\ put' = Append(put, Coded(omega, width))
                            \o (IF full THEN << Coded(CLEAR, w) >> ELSE <<>>)
    /\ UNCHANGED <<stage, stream, lzwdecoder>>

\* End of the strip: write the last match and EndOfInformation; the reader of the
\* file asks for size bytes.
Finish(size) ==
    /\ stage = "encode"
    /\ stage' = "decode"
    /\ expected' = size
    /\ put' = put \o (IF data = <<>> THEN <<>> ELSE << Coded(omega, width) >>)
                          \o << Coded(EOI, width) >>
    /\ stream' = Packed(put')
    /\ UNCHANGED <<data, omega, codes, nextCode, width, pos, strings, codeWidth, prev, out>>

----------------------------------------------------------------------------
Available == pos + codeWidth <= Len(stream)
Reading == stage = "decode" /\ Available
Code == Number(SubSeq(stream, pos + 1, pos + codeWidth))
String(code) == strings[code + 1]
Free == Len(strings)

\* The end of decode: the bytes are cut to the declared size, or are too few.
Conclude(bytes) ==
    IF Len(bytes) < expected
    THEN stage' = "short" /\ out' = bytes
    ELSE stage' = "done" /\ out' = SubSeq(bytes, 1, expected)

ReadClear ==
    /\ Reading /\ Code = CLEAR
    /\ pos' = pos + codeWidth
    /\ strings' = InitTable
    /\ codeWidth' = MinWidth
    /\ prev' = <<>>
    /\ UNCHANGED <<stage, lzwencoder, stream, expected, out>>

\* EndOfInformation, or the stream has too few bits for another code.
ReadEnd ==
    /\ stage = "decode"
    /\ Available => Code = EOI
    /\ pos' = IF Available THEN pos + codeWidth ELSE Len(stream)
    /\ Conclude(out)
    /\ UNCHANGED <<lzwencoder, stream, expected, strings, codeWidth, prev>>

\* The string a code stands for; the code may name the entry defined by this step.
Entry(code) ==
    IF code < Free THEN String(code) ELSE Append(String(prev[1]), Head(String(prev[1])))

\* Mutant: the table's lag of one entry is forgotten.
LagWiderLate(w, free) == IF free = 2 ^ w /\ w < MaxWidth THEN w + 1 ELSE w
LagWider(w, free) == IF free = 2 ^ w - 1 /\ w < MaxWidth THEN w + 1 ELSE w

\* Mutant: the loop runs to the end of the stream and only then cuts the strip.
SatisfiedNever(bytes) == FALSE
Satisfied(bytes) == Len(bytes) >= expected

\* A string code: emit it, stop if the strip is full, else define an entry.
ReadString ==
    /\ Reading /\ Code \notin {CLEAR, EOI}
    /\ Code < Free \/ (Code = Free /\ prev # <<>>)
    /\ pos' = pos + codeWidth
    /\ LET entry == Entry(Code)
           bytes == out \o entry
           table == IF prev = <<>> THEN strings
                    ELSE Append(strings, Append(String(prev[1]), Head(entry)))
       IN  IF Satisfied(bytes)
           THEN Conclude(bytes) /\ UNCHANGED <<strings, codeWidth, prev>>
           ELSE /\ out' = bytes
                /\ strings' = table
                /\ codeWidth' = IF prev = <<>> THEN codeWidth
                                ELSE LagWider(codeWidth, Len(table))
                /\ prev' = <<Code>>
                /\ UNCHANGED stage
    /\ UNCHANGED <<lzwencoder, stream, expected>>

\* A code beyond the table, or one that needs a previous code where there is none.
ReadRefused ==
    /\ Reading /\ Code \notin {CLEAR, EOI}
    /\ Code > Free \/ (Code = Free /\ prev = <<>>)
    /\ stage' = "refused"
    /\ pos' = pos + codeWidth
    /\ UNCHANGED <<lzwencoder, stream, expected, strings, codeWidth, prev, out>>

LzwEncode ==
    \/ \E k \in DataBytes : First(k) \/ Match(k) \/ Write(k)
    \/ \E size \in 0 .. Len(data) + 1 : Finish(size)
LzwDecode == ReadClear \/ ReadEnd \/ ReadString \/ ReadRefused

LzwNext == LzwEncode \/ LzwDecode
LzwSpec == LzwInit /\ [][LzwNext]_lzwvars

----------------------------------------------------------------------------
Total(count, n) == LET t[i \in 0 .. n] == IF i = 0 THEN 0 ELSE t[i - 1] + count[i] IN t[n]
\* Where the code after the first i starts.
Offset(i) == Total([j \in 1 .. i |-> put[j].width], i)

\* What was coded comes back: a strip read at its size, or at a smaller one, is the
\* strip's prefix.  Both ends change the code width in step, the codes that clear
\* included: while bytes of the strip are missing, the decoder stands at the start of a
\* code and reads as many bits as the encoder gave it, and each code fits its width
\* (put_bits keeps no more bits than that).
StripComesBack ==
    /\ put # <<>> /\ expected <= Len(data) =>
          /\ stage = "done" => out = SubSeq(data, 1, expected)
          /\ stage \notin {"short", "refused"}
    /\ (stage = "decode" /\ Len(out) < Len(data)) =>
          \E i \in 0 .. Len(put) - 1 :
              Offset(i) = pos /\ put[i + 1].width = codeWidth
    /\ \A i \in DOMAIN put : put[i].code < 2 ^ put[i].width

\* Whatever the stream, the decoder does not grow its string table past the size
\* the directory declared (the comment at its stop): fewer entries than declared
\* bytes, holding less than twice as many bytes.
Entries == Free - FIRST
Held == Total([i \in 1 .. Entries |-> Len(strings[FIRST + i])], Entries)
TableWithinDeclared == Entries <= expected /\ Held <= 2 * expected

\* The stream is self-delimiting (the comment above encode): a directory that declares
\* more bytes than were coded is noticed.
EndIsSeen == put # <<>> /\ stage = "done" => expected <= Len(data)
==================================================================================
