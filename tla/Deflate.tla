--------------------------------- MODULE Deflate ---------------------------------
(******************************************************************************)
(* The DEFLATE encoder (gamut-deflate): the chained-hash match finder, the       *)
(* greedy, lazy and optimal parses that run on it position by position (lz77.rs), *)
(* and the choice of the smallest body (encoder.rs).  Blocks and codes are those  *)
(* of DeflateCodes.                                                            *)
(*                                                                            *)
(* Positions count from 0, as in the source; the byte at cursor is plain[cursor + 1]. *)
(******************************************************************************)
EXTENDS DeflateCodes

CONSTANTS
    Inputs,       \* bound: the inputs, each with the levels it is coded at
    MinMatch,     \* MIN_MATCH (source: 3)
    Window,       \* MAX_DISTANCE, the length of the chain ring (source: 32768)
    Bucket,       \* Matcher::hash: three bytes -> bucket
    MaxChain,     \* level -> candidates a search visits (source: 16, 128, 1024)
    Effort,       \* refinement passes of the optimal parse (source: 6)
    SpanLimit     \* optimal_parse_limit (source: 2^20)

MaxMatch == Last(LengthBase)
Nowhere == -1

ASSUME ParseAssumption ==
    /\ MinMatch = LengthBase[1] /\ Window = Last(DistBase) + 2 ^ Last(DistExtra) - 1
    /\ {Effort, SpanLimit} \subseteq Nat

VARIABLES
    plain, level,    \* the input and the Level
    doing,          \* "parse", "relax", "write", "read" or "done", or "idle"
    span,           \* the span being parsed: positions from .. to - 1
    cursor,            \* the position the loop is at
    matcher,        \* head: bucket -> newest position, prev: slot -> next older one
    tokens,         \* the current parse of the span
    parsed,         \* the tokens of the spans before it
    passes,         \* optimal parse: refinements done on this span
    prices,         \* optimal parse: bits of each symbol, by the parse before
    reach,          \* optimal parse: position -> [cost, len, dist] of the cheapest way there
    pending, cuts,  \* multi_body: segments [from, to, depth] still to split, points to split at
    body,           \* the DEFLATE body
    sent, reader    \* a candidate body, and how far a reader of the format is in it

deflatevars == <<plain, level, doing, span, cursor, matcher, tokens, parsed, passes, prices, reach,
                 pending, cuts, body, sent, reader>>
input == <<plain, level>>
output == <<body, sent, reader>>
splitter == <<pending, cuts>>
parser == <<span, cursor, matcher, tokens, parsed, passes, prices, reach>>

----------------------------------------------------------------------------
\* The match finder.
Buckets == Range(Bucket)
NoMatcher == [head |-> [b \in Buckets |-> Nowhere], prev |-> [s \in 0 .. Window - 1 |-> Nowhere]]

BucketAt(p) == Bucket[<<plain[p + 1], plain[p + 2], plain[p + 3]>>]

Insert(m, p) ==
    IF p + MinMatch > Len(plain) THEN m
    ELSE [head |-> [m.head EXCEPT ![BucketAt(p)] = p],
          prev |-> [m.prev EXCEPT ![p % Window] = m.head[BucketAt(p)]]]
InsertAll(m, from, to) == FoldLeft(Insert, m, [k \in 1 .. to - from |-> from + k - 1])

Floor(p) == Max({0, p - Window})
\* prime: the window before a span.
Primed(from) == InsertAll(NoMatcher, Floor(from), from)

\* Mutant: a reference may reach one byte past the window.
LowestOff(p) == Max({0, p - Window - 1})
Lowest(p) == Floor(p)

\* The candidates for p, newest first, as far as the chain is walked.
Candidates(m, p) ==
    LET Walk(seen, k) ==
            LET c == IF seen = <<>> THEN m.head[BucketAt(p)] ELSE m.prev[Last(seen) % Window]
            IN  IF c >= Lowest(p) THEN Append(seen, c) ELSE seen
    IN  FoldLeft(Walk, <<>>, [k \in 1 .. MaxChain[level] |-> k])

MatchLen(c, p, most) ==
    Max({n \in 0 .. most : \A i \in 1 .. n : plain[c + i] = plain[p + i]})

\* find: the longest match, the nearest of several, or none.
Find(m, p, limit) ==
    LET most == Min({limit - p, MaxMatch})
        seen == Candidates(m, p)
        len == [k \in DOMAIN seen |-> MatchLen(seen[k], p, most)]
        best == Max(Range(len))
        k == Min({j \in DOMAIN seen : len[j] = best})
    IN  IF p + MinMatch > limit THEN <<>>
        ELSE IF seen = <<>> THEN <<>>
        ELSE IF best < MinMatch THEN <<>>
        ELSE <<Reference(best, p - seen[k])>>

----------------------------------------------------------------------------
\* Spans: all of the input, or the pieces the optimal parse cuts it into.
SpanAt(from) ==
    [from |-> from,
     to |-> IF level = "best" THEN Min({Len(plain), from + Max({SpanLimit, Window})}) ELSE Len(plain)]

Start(from) ==
    /\ span' = SpanAt(from)
    /\ cursor' = from
    /\ matcher' = Primed(from)
    /\ tokens' = <<>>
    /\ passes' = 0 /\ prices' = <<>> /\ reach' = <<>>
    /\ doing' = "parse"

\* A span's parse is final: on to the next one, or to the blocks.
SpanDone(final) ==
    /\ parsed' = parsed \o final
    /\ IF span.to < Len(plain) THEN Start(span.to)
       ELSE /\ tokens' = <<>> /\ doing' = "write"
            /\ UNCHANGED <<span, cursor, matcher, passes, prices, reach>>
    /\ pending' = IF level = "best" /\ span.to = Len(plain)
                  THEN <<[from |-> 0, to |-> Len(parsed'), depth |-> MaxSplitDepth]>> ELSE <<>>
    /\ UNCHANGED cuts

DeflateInit ==
    /\ \E job \in Inputs : plain = job.data /\ level \in job.levels
    /\ span = SpanAt(0) /\ cursor = 0 /\ matcher = Primed(0)
    /\ doing = IF level = "store" THEN "write" ELSE "parse"
    /\ tokens = <<>> /\ parsed = <<>> /\ passes = 0 /\ prices = <<>> /\ reach = <<>>
    /\ pending = <<>> /\ cuts = {} /\ body = <<>> /\ sent = <<>> /\ reader = ReaderStart

\* One turn of parse_range: a literal, also where the next position has a longer match
\* and the parse is lazy, or a match whose positions become candidates.
IsLazy == level # "fast"
Advance ==
    /\ doing = "parse" /\ cursor < span.to
    /\ LET found == Find(matcher, cursor, span.to)
           seen == Insert(matcher, cursor)
           deferred == IsLazy /\ LET next == Find(seen, cursor + 1, span.to)
                                 IN  next # <<>> /\ next[1].len > found[1].len
       IN  IF found # <<>> /\ ~deferred
           THEN /\ tokens' = Append(tokens, found[1])
                /\ cursor' = cursor + found[1].len
                /\ matcher' = InsertAll(seen, cursor + 1, cursor + found[1].len)
           ELSE /\ tokens' = Append(tokens, Literal(plain[cursor + 1]))
                /\ cursor' = cursor + 1
                /\ matcher' = seen
    /\ UNCHANGED <<input, doing, span, parsed, passes, prices, reach, splitter, output>>

\* costs: code lengths, a symbol without one at the price of the longest.
Priced(hist) ==
    LET lengths == BuildLengths(hist, MaxCodeLen)
    IN  [s \in DOMAIN hist |-> IF lengths[s] > 0 THEN lengths[s] ELSE MaxCodeLen]
Costs(ts) == [litlen |-> Priced(LitlenHistogram(ts)), dist |-> Priced(DistHistogram(ts))]

\* A shortest-path pass starts from nothing but the prices of the last parse.
Unreached == 2 ^ 20
StartPass(last) ==
    /\ doing' = "relax"
    /\ tokens' = last
    /\ prices' = Costs(last)
    /\ cursor' = span.from
    /\ matcher' = Primed(span.from)
    /\ reach' = [p \in span.from .. span.to |->
                    [cost |-> IF p = span.from THEN 0 ELSE Unreached, len |-> 0, dist |-> 0]]

ParseEnds ==
    /\ doing = "parse" /\ cursor = span.to
    /\ IF level = "best" /\ Effort > 0 /\ plain # <<>>
       THEN StartPass(tokens) /\ UNCHANGED <<span, parsed, passes, splitter>>
       ELSE SpanDone(tokens)
    /\ UNCHANGED <<input, output>>

\* One turn of parse_dp: a literal and every length of the longest match, where they
\* are cheaper than what was known.
Relax ==
    /\ doing = "relax" /\ cursor < span.to
    /\ LET found == Find(matcher, cursor, span.to)
           edges == <<Literal(plain[cursor + 1])>>
                    \o (IF found = <<>> THEN <<>>
                        ELSE [k \in 1 .. found[1].len - MinMatch + 1 |->
                                 Reference(MinMatch + k - 1, found[1].dist)])
           Better(r, e) ==
               LET cost == r[cursor].cost + TokenPrice(e, prices.litlen, prices.dist)
               IN  IF cost < r[cursor + e.len].cost
                   THEN [r EXCEPT ![cursor + e.len] =
                            [cost |-> cost, len |-> IF IsLiteral(e) THEN 0 ELSE e.len, dist |-> e.dist]]
                   ELSE r
       IN  reach' = FoldLeft(Better, reach, edges)
    /\ matcher' = Insert(matcher, cursor)
    /\ cursor' = cursor + 1
    /\ UNCHANGED <<input, doing, span, tokens, parsed, passes, prices, splitter, output>>

\* The way back from the end of the span.
Way ==
    LET To[p \in Nat] ==
            IF p = span.from THEN <<>>
            ELSE IF reach[p].len = 0 THEN Append(To[p - 1], Literal(plain[p]))
            ELSE Append(To[p - reach[p].len], Reference(reach[p].len, reach[p].dist))
    IN  To[span.to]

\* The pass ends: it changed nothing, or was the last one, or the next one begins.
PassEnds ==
    /\ doing = "relax" /\ cursor = span.to
    /\ IF Way = tokens \/ passes + 1 = Effort
       THEN SpanDone(Way)
       ELSE StartPass(Way) /\ passes' = passes + 1 /\ UNCHANGED <<span, parsed, splitter>>
    /\ UNCHANGED <<input, output>>

\* recurse: one segment is cut where that pays most, its halves then in turn, or stays whole.
CutAt(part, at) ==
    LET Half(from, to) == [from |-> from, to |-> to, depth |-> part.depth - 1]
    IN  /\ cuts' = cuts \cup {at}
        /\ pending' = <<Half(part.from, at), Half(at, part.to)>> \o Tail(pending)
Split ==
    /\ doing = "write" /\ pending # <<>>
    /\ LET cheaper == CheaperCuts(parsed, Head(pending))
       IN  IF cheaper = {} THEN pending' = Tail(pending) /\ UNCHANGED cuts
           ELSE CutAt(Head(pending), Cheapest(cheaper).at)
    /\ UNCHANGED <<input, doing, parser, output>>

\* deflate_body: the smallest of what the level offers, the earlier one of two.
Offered ==
    IF level = "store" THEN <<Stored(plain)>>
    ELSE <<Stored(plain), Fixed(parsed), IF level = "best" THEN MultiBody(parsed, cuts) ELSE DynamicBody(parsed)>>
Shorter(a, b) == IF Len(b) < Len(a) THEN b ELSE a
Smallest(offered) ==
    /\ body' = FoldLeft(Shorter, offered[1], offered)
    /\ sent' \in Range(offered)
WriteBody ==
    /\ doing = "write" /\ pending = <<>>
    /\ Smallest(Offered)
    /\ doing' = "read"
    /\ UNCHANGED <<input, parser, splitter, reader>>

\* A reader of RFC 1951 takes the next block header or symbol.
ReadOn ==
    /\ doing = "read"
    /\ IF IsReading(reader)
       THEN reader' = ReaderStep(sent, reader) /\ UNCHANGED doing
       ELSE doing' = "done" /\ UNCHANGED reader
    /\ UNCHANGED <<input, parser, splitter, body, sent>>

DeflateNext == Advance \/ ParseEnds \/ Relax \/ PassEnds \/ Split \/ WriteBody \/ ReadOn

----------------------------------------------------------------------------
\* Whatever the level parsed, split and chose, a reader of the format gets the input
\* back, from every body that was a candidate ("every level produces a correct stream"),
\* and none of them is shorter than the one that is written.
BodyIsTheInput ==
    /\ doing = "done" => HasRead(sent, reader, plain)
    /\ doing = "read" => Len(body) <= Len(sent)

\* The ring of older positions is overwritten as the window moves, yet no search walks
\* into an entry that was reused ("the modular prev indexing never returns a stale
\* match"): what it visits is ever older, in the window, and begins with bytes of
\* the same bucket; also where the lazy parse looks ahead.
NoStaleCandidate ==
    doing \in {"parse", "relax"} =>
        \A search \in {<<matcher, cursor>>, <<Insert(matcher, cursor), cursor + 1>>} :
            search[2] + MinMatch <= span.to =>
                LET p == search[2]
                    seen == Candidates(search[1], p)
                IN  \A k \in DOMAIN seen :
                        /\ seen[k] \in Floor(p) .. p - 1
                        /\ k > 1 => seen[k] < seen[k - 1]
                        /\ BucketAt(seen[k]) = BucketAt(p)

\* The tokens tile what was parsed; a reference stays in the window and in its span
\* and copies what is there.
Covered(ts) == Sum([k \in DOMAIN ts |-> ts[k].len])
ReferencesHold(ts, from) ==
    \A k \in DOMAIN ts :
        LET at == from + Covered(SubSeq(ts, 1, k - 1))
            t == ts[k]
        IN  IF IsLiteral(t) THEN t.byte = plain[at + 1]
            ELSE /\ t.dist \in 1 .. Min({at, Window}) /\ t.len \in MinMatch .. MaxMatch
                 /\ \A i \in 1 .. t.len : plain[at + i] = plain[at + i - t.dist]
                 /\ level = "best" => at \div Max({SpanLimit, Window})
                                        = (at + t.len - 1) \div Max({SpanLimit, Window})
TokensHold ==
    /\ doing = "write" => ReferencesHold(parsed, 0)
    /\ (doing \in {"parse", "relax"} /\ cursor = span.to) => ReferencesHold(tokens, span.from)
    /\ doing = "parse" => span.from + Covered(tokens) = cursor
    /\ (doing = "write" /\ level # "store") => Covered(parsed) = Len(plain)

\* The price a split is decided by is the number of bits the block takes ("exact bit
\* cost"), so that splitting never makes a body longer.
PriceIsExact ==
    (doing = "read" /\ reader = ReaderStart /\ level # "store") =>
        /\ Len(BlockBits(Build(parsed), parsed, TRUE)) = Cost(parsed)
        /\ level = "best" => Len(MultiBody(parsed, cuts)) <= Len(DynamicBody(parsed))
==================================================================================
