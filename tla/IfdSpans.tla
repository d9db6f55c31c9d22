-------------------------------- MODULE IfdSpans ---------------------------------
(******************************************************************************)
(* The dual-ledger byte accounting of gamut-ifd: the physical read ledger      *)
(* (track.rs), the typed claims of the parser and their resolution into a      *)
(* report (segment.rs).                                                        *)
(*                                                                            *)
(* A claim is [start, len, kind, parsed]; parsed is Claim::Parsed, else        *)
(* Claim::Declared.  Sums saturate at u64::MAX in the code; positions here are *)
(* far below it.                                                               *)
(******************************************************************************)
EXTENDS Integers, Sequences, FiniteSets, SequencesExt

\* What a claim, or a run the audit has named by its place, can be.
SpanKinds == {"header", "body", "value", "data", "padding", "preamble", "interstitial", "trailer"}

End(r) == r.start + r.len
Bytes(r) == r.start .. End(r) - 1
BytesOf(rs) == UNION {Bytes(r) : r \in rs}
Span(s, l) == [start |-> s, len |-> l]
Extent(c) == Span(c.start, c.len)

----------------------------------------------------------------------------
\* ReadLedger: spans sorted by start.

\* slice::partition_point: the leading positions that satisfy a condition (`holds`).
Leading(spans, holds) ==
    CHOOSE k \in 0 .. Len(spans) : 1 .. k \subseteq holds /\ k + 1 \notin holds

\* record: spans[i + 1 .. j], those that end no more than `gap` before the new range and
\* start no more than that behind it, become one span with it.
Merge(spans, r, gap) ==
    LET i == Leading(spans, {k \in DOMAIN spans : End(spans[k]) + gap <= r.start})
        j == Leading(spans, {k \in DOMAIN spans : k <= i \/ spans[k].start < End(r) + gap})
        lo == IF i < j /\ spans[i + 1].start < r.start THEN spans[i + 1].start ELSE r.start
        hi == Max({End(r)} \cup {End(spans[k]) : k \in i + 1 .. j})
    IN  SubSeq(spans, 1, i) \o <<Span(lo, hi - lo)>> \o SubSeq(spans, j + 1, Len(spans))

\* Mutant: only spans that overlap the new one merge, adjacent ones stay apart.
RecordNoAdjacency(spans, s, l) ==
    IF l = 0 THEN spans ELSE Merge(spans, Span(s, l), 0)

Record(spans, s, l) ==
    IF l = 0 THEN spans ELSE Merge(spans, Span(s, l), 1)

\* The last span that starts at or before the range must reach its end.
Holds(spans, r) ==
    \/ r.len = 0
    \/ \E k \in DOMAIN spans :
          /\ spans[k].start <= r.start
          /\ k < Len(spans) => spans[k + 1].start > r.start
          /\ End(spans[k]) >= End(r)

\* What has been given ranks, <<rank, x>>, by rank: x has as many before it.
Arranged(ranks) == [k \in 1 .. Cardinality(ranks) |-> (CHOOSE p \in ranks : p[1] = k - 1)[2]]

\* The maximal runs of a set of bytes, in order: the ledger in which exactly these
\* bytes have been recorded.
Runs(B) ==
    LET heads == {b \in B : b - 1 \notin B}
        order == Arranged({<<Cardinality({a \in heads : a < b}), b>> : b \in heads})
        Run(b) == Span(b, Min({e \in b + 1 .. Max(B) + 1 : e \notin B}) - b)
    IN  [k \in DOMAIN order |-> Run(order[k])]

\* subtract, one turn of its loops: span k, the position in it, claim c, what is out.  The
\* span is entered at its start and left at its end; a claim that ends by the position
\* is skipped, one that holds it is passed; otherwise the bytes up to the next claim,
\* or to the end of the span, are out.
SubtractTurn(st, spans, covered) ==
    LET span == spans[st.k]
        claim == covered[st.c]
        claimed == st.c <= Len(covered)
        stop == IF claimed THEN Min({claim.start, End(span)}) ELSE End(span)
    IN  IF st.k > Len(spans) THEN st
        ELSE IF st.pos < span.start THEN [st EXCEPT !.pos = span.start]
        ELSE IF st.pos >= End(span) THEN [st EXCEPT !.k = @ + 1]
        ELSE IF claimed /\ End(claim) <= st.pos THEN [st EXCEPT !.c = @ + 1]
        ELSE IF claimed /\ claim.start <= st.pos
             THEN [st EXCEPT !.pos = Min({End(claim), End(span)})]
        ELSE [st EXCEPT !.pos = stop, !.out = Append(@, Span(st.pos, stop - st.pos))]

\* The claims come merged, as finish passes them, so that merging them again changes
\* nothing.  Every turn moves the position, the span or the claim.
Subtract(spans, covered) ==
    LET turns == Len(spans) + Len(covered) + IF spans = <<>> THEN 0 ELSE End(spans[Len(spans)])
        run[t \in 0 .. turns] ==
            IF t = 0 THEN [k |-> 1, pos |-> 0, c |-> 1, out |-> <<>>]
            ELSE SubtractTurn(run[t - 1], spans, covered)
    IN  run[turns].out

----------------------------------------------------------------------------
\* SegmentMap::finish.

Clamp(c, fileLen) == [c EXCEPT !.len = Min({c.len, fileLen - c.start})]

\* Claims by position, stably sorted by start, then end.
Sorted(cs) ==
    LET keys == {<<cs[k].start, cs[k].len, k>> : k \in DOMAIN cs}
        Before(a, b) == \/ a[1] < b[1]
                        \/ a[1] = b[1] /\ a[2] < b[2]
                        \/ a[1] = b[1] /\ a[2] = b[2] /\ a[3] < b[3]
        order == Arranged({<<Cardinality({a \in keys : Before(a, b)}), b[3]>> : b \in keys})
    IN  [k \in DOMAIN order |-> cs[order[k]]]

InBounds(claims, fileLen) ==
    Sorted([k \in {i \in DOMAIN claims : claims[i].start < fileLen} |-> Clamp(claims[k], fileLen)])

Nothing == [prev |-> Span(0, 0), segments |-> <<>>, covered |-> <<>>, conflicts |-> <<>>, shared |-> {}]

\* One claim of the sorted walk: the same extent as the one before is value
\* sharing, a start inside the union so far is a conflict with the segment
\* blamed, otherwise it extends or starts a run of the union.
Place(acc, c, blamed) ==
    LET r == Extent(c)
        end == Max({End(acc.covered[Len(acc.covered)]), End(c)})
        last == acc.covered[Len(acc.covered)]
        extended == [acc.covered EXCEPT ![Len(acc.covered)].len = end - last.start]
        placed == [acc EXCEPT !.prev = r, !.segments = Append(@, c)]
    IN  IF r = acc.prev THEN [acc EXCEPT !.shared = @ \cup {r}]
        ELSE IF acc.covered = <<>> \/ r.start > End(last)
             THEN [placed EXCEPT !.covered = Append(@, r)]
        ELSE IF r.start = End(last) THEN [placed EXCEPT !.covered = extended]
        ELSE [placed EXCEPT !.covered = extended,
                            !.conflicts = Append(@, <<Extent(acc.segments[blamed]), r>>)]

LastReaching(acc, c) == SelectLastInSeq(acc.segments, LAMBDA s : End(s) > c.start)

\* Mutant: a conflict names the latest segment, whether it overlaps or not.
PlaceClaimBlamesLatest(acc, c) == Place(acc, c, Len(acc.segments))

PlaceClaim(acc, c) == Place(acc, c, LastReaching(acc, c))

\* The gap cursor at a run of the union: what lies before the run is unclassified.
GapTurn(st, r) ==
    [cursor |-> End(r),
     out |-> IF r.start > st.cursor THEN Append(st.out, Span(st.cursor, r.start - st.cursor)) ELSE st.out]

\* The trailing gap is the one before the end of the file.
Unclassified(covered, fileLen) ==
    LET run[k \in 0 .. Len(covered)] ==
            IF k = 0 THEN [cursor |-> 0, out |-> <<>>] ELSE GapTurn(run[k - 1], covered[k])
    IN  GapTurn(run[Len(covered)], Span(fileLen, 0)).out

Finish(claims, fileLen, spans) ==
    LET sorted == InBounds(claims, fileLen)
        walk[k \in 0 .. Len(sorted)] ==
            IF k = 0 THEN Nothing ELSE PlaceClaim(walk[k - 1], sorted[k])
        placed == walk[Len(sorted)]
    IN  [segments |-> placed.segments,
         conflicts |-> placed.conflicts,
         shared |-> placed.shared,
         unclassified |-> Unclassified(placed.covered, fileLen),
         out_of_bounds |-> {c \in ToSet(claims) : End(c) > fileLen},
         unclaimed_reads |-> Subtract(spans, placed.covered),
         unread_claims |-> {c \in ToSet(sorted) : c.parsed /\ ~Holds(spans, c)}]

FullyClassified(report) ==
    /\ report.unclassified = <<>> /\ report.conflicts = <<>> /\ report.out_of_bounds = {}
    /\ report.unclaimed_reads = <<>> /\ report.unread_claims = {}
==================================================================================
