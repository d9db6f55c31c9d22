-------------------------------- MODULE IfdLedger --------------------------------
(******************************************************************************)
(* Reads and claims in any order against the read ledger and the segment map   *)
(* of IfdSpans: what the archival verdict of gamut-ifd means, byte by byte.    *)
(******************************************************************************)
EXTENDS IfdSpans

CONSTANTS
    Sessions,    \* [file, claims]: bytes of the file, bound on the claims of the parse
    Provenances  \* subset of {TRUE, FALSE}: Parsed, Declared

ASSUME LedgerAssumption == Sessions \subseteq [file : Nat, claims : Nat]
ASSUME ProvenanceAssumption == Provenances \subseteq BOOLEAN

VARIABLES
    parse,   \* the file and the bound of this parse
    spans,   \* ReadLedger.spans
    touched, \* every byte some read fetched (auxiliary)
    made     \* SegmentMap.claims

ledgervars == <<parse, spans, touched, made>>

ParseLen == parse.file

LedgerInit == parse \in Sessions /\ spans = <<>> /\ touched = {} /\ made = <<>>

\* Tracked::read_exact_at that succeeds; a failed one records nothing.
Read(s, l) ==
    /\ s + l <= ParseLen
    /\ spans' = Record(spans, s, l)
    /\ touched' = touched \cup Bytes(Span(s, l))
    /\ UNCHANGED <<parse, made>>

\* SegmentMap::claim; an empty one is ignored, one past the end is kept.
Claim(s, l, parsed) ==
    /\ Len(made) < parse.claims
    /\ l > 0
    /\ made' = Append(made, [start |-> s, len |-> l, kind |-> "data", parsed |-> parsed])
    /\ UNCHANGED <<parse, spans, touched>>

LedgerNext ==
    \/ \E s, l \in 0 .. ParseLen : Read(s, l)
    \/ \E s \in 0 .. ParseLen, l \in 1 .. ParseLen, parsed \in Provenances : Claim(s, l, parsed)

LedgerSpec == LedgerInit /\ [][LedgerNext]_ledgervars

----------------------------------------------------------------------------
ClaimedBytes == BytesOf({Clamp(c, ParseLen) : c \in {d \in ToSet(made) : d.start < ParseLen}})
LedgerReport == Finish(made, ParseLen, spans)
DistinctExtents == {Extent(Clamp(c, ParseLen)) : c \in {d \in ToSet(made) : d.start < ParseLen}}
Overlap(a, b) == a # b /\ Bytes(a) \cap Bytes(b) # {}

LedgerTypeOK ==
    /\ parse \in [file : Nat, claims : Nat]
    /\ spans \in Seq([start : Nat, len : Nat \ {0}])
    /\ touched \subseteq 0 .. ParseLen - 1
    /\ made \in Seq([start : Nat, len : Nat \ {0}, kind : SpanKinds, parsed : BOOLEAN])
    /\ Len(made) <= parse.claims

\* The read ledger is sorted, its spans disjoint and never adjacent.
Coalesced == \A i, k \in DOMAIN spans : i < k => End(spans[i]) < spans[k].start

\* Whatever the order of overlapping, repeated and adjacent reads, the ledger's
\* spans are the maximal runs of exactly the bytes read.  So containment, which looks
\* at one span only, answers for bytes: a range is held iff each of its bytes was read,
\* however the reads were cut.
LedgerIsTheBytesRead ==
    /\ Coalesced /\ BytesOf(ToSet(spans)) = touched
    /\ \A s, l \in 0 .. ParseLen :
          s + l <= ParseLen => (Holds(spans, Span(s, l)) <=> Bytes(Span(s, l)) \subseteq touched)

\* The inductive invariant of the ledger.
LedgerInv == LedgerTypeOK /\ Coalesced /\ BytesOf(ToSet(spans)) = touched

\* What an auditor is told is true, whatever was claimed and read in whatever order:
\* the gaps are the bytes no claim covers, the unclaimed reads the bytes read of these, a
\* conflict is reported iff two different extents overlap, and each names two ranges
\* that share bytes, also when a longer, earlier claim is the one hit.  And is_fully_classified is the archival verdict it
\* is documented to be: every byte lies in exactly one distinct extent, no claim
\* leaves the file, every byte read is claimed and every parsed claim was read.
ReportIsExact ==
    /\ BytesOf(ToSet(LedgerReport.unclassified)) = (0 .. ParseLen - 1) \ ClaimedBytes
    /\ BytesOf(ToSet(LedgerReport.unclaimed_reads)) = touched \ ClaimedBytes
    /\ (LedgerReport.conflicts # <<>>) <=> \E a, b \in DistinctExtents : Overlap(a, b)
    /\ \A k \in DOMAIN LedgerReport.conflicts : Overlap(LedgerReport.conflicts[k][1], LedgerReport.conflicts[k][2])
    /\ FullyClassified(LedgerReport) <=>
          /\ \A b \in 0 .. ParseLen - 1 : Cardinality({e \in DistinctExtents : b \in Bytes(e)}) = 1
          /\ \A k \in DOMAIN made : End(made[k]) <= ParseLen
          /\ touched \subseteq ClaimedBytes
          /\ \A k \in DOMAIN made : made[k].parsed => Bytes(made[k]) \subseteq touched
==================================================================================
