--------------------------------- MODULE PngText ---------------------------------
(******************************************************************************)
(* Text annotations of gamut-png: what write_text puts into tEXt, zTXt and      *)
(* iTXt chunks and what decoded::collect reads back.  A text is a sequence of   *)
(* code points, a payload a sequence of bytes; compression is lossless and      *)
(* left out.                                                                  *)
(******************************************************************************)
EXTENDS Integers, Sequences, SequencesExt

CONSTANTS
    Letters,        \* code points a text may contain
    MaxText,        \* bound: code points in a text
    KeywordSizes    \* lengths of the keywords tried

Kinds == {"Latin1", "Compressed", "International"}

VARIABLES
    entry,     \* [keyword, text, kind] given to the encoder
    stage,     \* "new", "written" or "read"
    payload,   \* bytes after the keyword and its NUL
    read       \* what the decoder reports: <<>> (chunk skipped) or <<text>>

vars == <<entry, stage, payload, read>>

----------------------------------------------------------------------------
\* String::as_bytes of one code point.
Utf8Point(p) ==
    IF p < 128 THEN <<p>>
    ELSE IF p < 2048 THEN <<192 + p \div 64, 128 + (p % 64)>>
    ELSE <<224 + p \div 4096, 128 + ((p \div 64) % 64), 128 + (p % 64)>>
Utf8(text) == FoldLeft(LAMBDA bytes, p : bytes \o Utf8Point(p), <<>>, text)

\* String::from_utf8 of the bytes Utf8 produces: s is [text, point, more].
TakeByte(s, b) ==
    CASE b < 128 -> [s EXCEPT !.text = Append(@, b)]
      [] b \in 128 .. 191 ->
            LET p == s.point * 64 + (b % 64) IN
            IF s.more = 1 THEN [text |-> Append(s.text, p), point |-> 0, more |-> 0]
            ELSE [s EXCEPT !.point = p, !.more = @ - 1]
      [] b \in 192 .. 223 -> [s EXCEPT !.point = b % 32, !.more = 1]
      [] OTHER -> [s EXCEPT !.point = b % 16, !.more = 2]
FromUtf8(bytes) == FoldLeft(TakeByte, [text |-> <<>>, point |-> 0, more |-> 0], bytes).text

\* latin1(): byte n is U+00n.
FromLatin1(bytes) == bytes

\* Every kind stores the bytes of the Rust string.
WriteText(e) == Utf8(e.text)

\* split_keyword refuses an empty or over-long keyword: the chunk is skipped.
ReadText(e, bytes) ==
    IF e.keyword \notin 1 .. 79 THEN <<>>
    ELSE IF e.kind = "International" THEN <<FromUtf8(bytes)>>
    ELSE <<FromLatin1(bytes)>>

----------------------------------------------------------------------------
Texts == UNION {[1 .. n -> Letters] : n \in 0 .. MaxText}

Init ==
    /\ entry \in [keyword : KeywordSizes, text : Texts, kind : Kinds]
    /\ stage = "new"
    /\ payload = <<>>
    /\ read = <<>>

Write ==
    /\ stage = "new" /\ stage' = "written"
    /\ payload' = WriteText(entry)
    /\ UNCHANGED <<entry, read>>

Read ==
    /\ stage = "written" /\ stage' = "read"
    /\ read' = ReadText(entry, payload)
    /\ UNCHANGED <<entry, payload>>

Next == Write \/ Read
Spec == Init /\ [][Next]_vars

----------------------------------------------------------------------------
Latin1(text) == \A k \in DOMAIN text : text[k] < 256

\* tEXt and zTXt are documented to carry Latin-1: a Latin-1 text that is read back
\* at all is read back unchanged.
Latin1Survives == Latin1(entry.text) /\ read # <<>> => read = <<entry.text>>
==================================================================================
