--------------------------------- MODULE IfdWalk ---------------------------------
(******************************************************************************)
(* The two walks of gamut-ifd over the directories of one untrusted file:      *)
(* read_tree (reader.rs, stream.rs), which refuses a file whose sub-IFD        *)
(* pointers are not a tree, and audit (audit.rs), which records a finding and  *)
(* goes on, keeping the read ledger and the claims of IfdSpans.                *)
(*                                                                            *)
(* Both start with the same walk of the top-level chain; the model walks it    *)
(* once, with the audit's ledgers, then runs read_tree and after it the audit. *)
(* The pointer tags of a directory are one list of offsets, tag after tag; a   *)
(* directory has at most one out-of-line value and one data extent.  Bytes no  *)
(* structure claims are not zero, so the padding pass names none of them.      *)
(******************************************************************************)
EXTENDS IfdSpans

CONSTANTS
    Files,       \* the files: [first, dirs], dirs a function from offsets to Dir
    MaxIfds,     \* MAX_IFDS, 1 << 16 in the code
    MaxDepth,    \* MAX_SUBIFD_DEPTH, 16 in the code
    HeaderLen, BodyLen, FileLen,
    Refused,     \* result of a walk that returns an error
    None         \* no value, no extent, no refusal

\* What is stored at a directory's offset: whether its body is whole or cut by the
\* end of the file, its out-of-line value (None, or a span that decodes or not),
\* a data extent its tags locate, its sub-IFD pointers and its next-IFD link.
Dir == [whole : BOOLEAN, value : [start : Nat, len : Nat, decodes : BOOLEAN] \cup {None},
        data : [start : Nat, len : Nat] \cup {None}, ptrs : Seq(Nat), next : Nat]

ASSUME WalkAssumption ==
    /\ MaxIfds \in Nat \ {0} /\ MaxDepth \in Nat \ {0}
    /\ HeaderLen \in Nat \ {0} /\ BodyLen \in Nat \ {0} /\ FileLen \in Nat /\ HeaderLen <= FileLen
    /\ \A f \in Files : f.first \in Nat /\ \A o \in DOMAIN f.dirs :
          o \in Nat /\ f.dirs[o] \in Dir /\ (f.dirs[o].whole => o + BodyLen <= FileLen)

VARIABLES
    file,      \* the file walked
    pc,        \* "chain", "strict", "lenient", "done", "failed"
    at,        \* offset of the next directory of the chain
    pages,     \* offsets of the chain's directories, in order
    visited,   \* offsets followed through a pointer
    stack,     \* directories whose pointers are being followed, page first
    trees,     \* finished pages
    strict,    \* what read_tree returned
    read,      \* bytes in the read ledger (IfdLedger: its spans are their runs)
    claims,    \* the segment map
    findings   \* AuditFindings: <<reason, offset>>

vars == <<file, pc, at, pages, visited, stack, trees, strict, read, claims, findings>>

----------------------------------------------------------------------------
\* Reading one directory.

Stored(o) == o \in DOMAIN file.dirs
Inside(v) == End(v) <= FileLen
BodySpan(o) == Span(o, BodyLen)

\* read_ifd and decode_ifd both succeed.
Parses(o) ==
    /\ Stored(o)
    /\ file.dirs[o].whole
    /\ LET v == file.dirs[o].value IN v # None => Inside(v) /\ v.decodes

\* The bytes fetched: the entry count, the body when it fits the file, the value
\* when it does, also when it then fails to decode.
DirReads(o) ==
    IF o >= FileLen THEN {}
    ELSE IF ~Stored(o) \/ ~file.dirs[o].whole THEN {Span(o, 1)}
    ELSE LET v == file.dirs[o].value
         IN  {BodySpan(o)} \cup IF v # None /\ Inside(v) THEN {Span(v.start, v.len)} ELSE {}

\* SegmentMap::claim; an empty one is ignored.
ClaimOf(s, l, kind, parsed) ==
    IF l = 0 THEN <<>> ELSE <<[start |-> s, len |-> l, kind |-> kind, parsed |-> parsed]>>

\* Mutant: the body is claimed from its entries on, without the entry count.
DirClaimsNoCount(o) ==
    IF ~Stored(o) \/ ~file.dirs[o].whole THEN <<>>
    ELSE ClaimOf(o + 1, BodyLen - 1, "body", TRUE)

\* The body is claimed before its values are decoded, a value after.
DirClaims(o) ==
    IF ~Stored(o) \/ ~file.dirs[o].whole THEN <<>>
    ELSE LET v == file.dirs[o].value
         IN  ClaimOf(o, BodyLen, "body", TRUE) \o
             IF v # None /\ Inside(v) /\ v.decodes THEN ClaimOf(v.start, v.len, "value", TRUE)
             ELSE <<>>

\* declare_extents, for a directory that parsed.
Extents(o) ==
    LET d == file.dirs[o].data IN IF d = None THEN <<>> ELSE ClaimOf(d.start, d.len, "data", FALSE)

Fetched(o) == read \cup BytesOf(DirReads(o))

----------------------------------------------------------------------------
\* The top-level chain, the same for both walks.

Init ==
    /\ file \in Files
    /\ pc = "chain"
    /\ at = file.first
    /\ pages = <<>> /\ visited = {} /\ stack = <<>> /\ trees = <<>>
    /\ strict = Refused
    /\ read = 0 .. HeaderLen - 1
    /\ claims = ClaimOf(0, HeaderLen, "header", TRUE)
    /\ findings = {}

Fail == pc' = "failed" /\ UNCHANGED <<file, at, pages, visited, stack, trees, strict, read, claims, findings>>

Admitted == at \notin ToSet(pages) /\ Len(pages) < MaxIfds

ReadPage ==
    /\ pc = "chain" /\ at # 0
    /\ Admitted
    /\ Parses(at)
    /\ pages' = Append(pages, at)
    /\ at' = file.dirs[at].next
    /\ read' = Fetched(at)
    /\ claims' = claims \o DirClaims(at)
    /\ UNCHANGED <<file, pc, visited, stack, trees, strict, findings>>

ChainFails ==
    /\ pc = "chain"
    /\ IF at = 0 THEN pages = <<>> ELSE ~Admitted \/ ~Parses(at)
    /\ Fail

EndChain ==
    /\ pc = "chain" /\ at = 0 /\ pages # <<>>
    /\ pc' = "strict"
    /\ UNCHANGED <<file, at, pages, visited, stack, trees, strict, read, claims, findings>>

----------------------------------------------------------------------------
\* A frame of the recursion: the directory, the pointers left, the offset being
\* followed (0 when none) and the children so far.

Frame(o) == [dir |-> o, todo |-> file.dirs[o].ptrs, cur |-> 0, kids |-> <<>>]
Top == stack[Len(stack)]
WithTop(f) == [stack EXCEPT ![Len(stack)] = f]
Tree(f) == [at |-> f.dir, kids |-> f.kids]

Page == pages[Len(trees) + 1]

EnterPage(which) ==
    /\ pc = which /\ stack = <<>> /\ Len(trees) < Len(pages)
    /\ stack' = <<Frame(Page)>>
    /\ claims' = IF which = "lenient" THEN claims \o Extents(Page) ELSE claims
    /\ UNCHANGED <<file, pc, at, pages, visited, trees, strict, read, findings>>

\* A directory without pointers left: its tree goes to its parent, or is a page.
Leave(which) ==
    /\ pc = which /\ stack # <<>> /\ Top.todo = <<>> /\ Top.cur = 0
    /\ LET below == SubSeq(stack, 1, Len(stack) - 1)
       IN  IF below = <<>>
           THEN stack' = <<>> /\ trees' = Append(trees, Tree(Top)) /\ UNCHANGED findings
           ELSE LET next == file.dirs[Top.dir].next
                    parent == [below[Len(below)] EXCEPT !.kids = Append(@, Tree(Top)),
                                                        !.cur = IF which = "lenient" THEN next ELSE 0]
                IN  /\ stack' = [below EXCEPT ![Len(below)] = parent]
                    /\ findings' = IF which = "lenient" /\ next # 0
                                   THEN findings \cup {<<"chained", Top.dir>>} ELSE findings
                    /\ UNCHANGED trees
    /\ UNCHANGED <<file, pc, at, pages, visited, strict, read, claims>>

----------------------------------------------------------------------------
\* read_tree: resolve_pointers_with.

\* Mutant: a pointer is refused only when it leads back to a directory whose
\* pointers are still being followed.
LegalCycleOnly(o) ==
    o \notin {stack[k].dir : k \in DOMAIN stack} /\ Parses(o) /\ Len(stack) + 1 <= MaxDepth

Legal(o) == o \notin visited /\ Parses(o) /\ Len(stack) + 1 <= MaxDepth

ResolvePointer ==
    /\ pc = "strict" /\ stack # <<>> /\ Top.todo # <<>>
    /\ LET o == Head(Top.todo)
       IN  /\ Legal(o)
           /\ visited' = visited \cup {o}
           /\ stack' = Append(WithTop([Top EXCEPT !.todo = Tail(@)]), Frame(o))
    /\ UNCHANGED <<file, pc, at, pages, trees, strict, read, claims, findings>>

ToAudit(result) ==
    /\ pc' = "lenient"
    /\ strict' = result
    /\ visited' = {} /\ stack' = <<>> /\ trees' = <<>>
    /\ UNCHANGED <<file, at, pages, read, claims, findings>>

RefusePointer ==
    /\ pc = "strict" /\ stack # <<>> /\ Top.todo # <<>>
    /\ ~Legal(Head(Top.todo))
    /\ ToAudit(Refused)

ReturnTree ==
    /\ pc = "strict" /\ stack = <<>> /\ Len(trees) = Len(pages)
    /\ ToAudit(trees)

----------------------------------------------------------------------------
\* audit: follow_subifds.

NextPointer ==
    /\ pc = "lenient" /\ stack # <<>> /\ Top.cur = 0 /\ Top.todo # <<>>
    /\ stack' = WithTop([Top EXCEPT !.cur = Head(Top.todo), !.todo = Tail(@)])
    /\ UNCHANGED <<file, pc, at, pages, visited, trees, strict, read, claims, findings>>

\* Mutant: only the depth guard stops the walk.
RefusalNoCycle(o) == IF Len(stack) + 1 > MaxDepth THEN "too deep" ELSE None

Refusal(o) ==
    IF Len(stack) + 1 > MaxDepth THEN "too deep"
    ELSE IF o \in visited THEN "cycle" ELSE None

\* Mutant: a refused pointer is recorded but not abandoned.
SkipStays(reason) ==
    /\ findings' = findings \cup {<<reason, Top.cur>>}
    /\ UNCHANGED stack

Skip(reason) ==
    /\ findings' = findings \cup {<<reason, Top.cur>>}
    /\ stack' = WithTop([Top EXCEPT !.cur = 0])

SkipRefused ==
    /\ pc = "lenient" /\ stack # <<>> /\ Top.cur # 0
    /\ Refusal(Top.cur) # None
    /\ Skip(Refusal(Top.cur))
    /\ UNCHANGED <<file, pc, at, pages, visited, trees, strict, read, claims>>

\* The target is not a directory: what was read of it stays in the ledger, what
\* was claimed stays claimed.
SkipUnparseable ==
    /\ pc = "lenient" /\ stack # <<>> /\ Top.cur # 0
    /\ Refusal(Top.cur) = None
    /\ ~Parses(Top.cur)
    /\ Skip("unparseable")
    /\ visited' = visited \cup {Top.cur}
    /\ read' = Fetched(Top.cur)
    /\ claims' = claims \o DirClaims(Top.cur)
    /\ UNCHANGED <<file, pc, at, pages, trees, strict>>

Follow ==
    /\ pc = "lenient" /\ stack # <<>> /\ Top.cur # 0
    /\ Refusal(Top.cur) = None
    /\ Parses(Top.cur)
    /\ visited' = visited \cup {Top.cur}
    /\ read' = Fetched(Top.cur)
    /\ claims' = claims \o DirClaims(Top.cur) \o Extents(Top.cur)
    /\ stack' = Append(stack, Frame(Top.cur))
    /\ UNCHANGED <<file, pc, at, pages, trees, strict, findings>>

FinishAudit ==
    /\ pc = "lenient" /\ stack = <<>> /\ Len(trees) = Len(pages)
    /\ pc' = "done"
    /\ UNCHANGED <<file, at, pages, visited, stack, trees, strict, read, claims, findings>>

Next ==
    \/ ReadPage \/ ChainFails \/ EndChain
    \/ EnterPage("strict") \/ Leave("strict") \/ ResolvePointer \/ RefusePointer \/ ReturnTree
    \/ EnterPage("lenient") \/ Leave("lenient") \/ NextPointer \/ SkipRefused \/ SkipUnparseable
    \/ Follow \/ FinishAudit

Spec == Init /\ [][Next]_vars /\ WF_vars(Next)

----------------------------------------------------------------------------
\* The file's pointers as a graph.

Pointers(o) == IF Parses(o) THEN file.dirs[o].ptrs ELSE <<>>
Targets(S) == UNION {ToSet(Pointers(o)) : o \in S}
Known == UNION {ToSet(file.dirs[o].ptrs) \cup {file.dirs[o].next} : o \in DOMAIN file.dirs}

\* Levels[n]: what n pointers in a row lead to from the chain.
Level[n \in 1 .. MaxDepth] == IF n = 1 THEN Targets(ToSet(pages)) ELSE Targets(Level[n - 1])
Pointed == LET Closed(S) == Targets(ToSet(pages)) \cup Targets(S) \subseteq S
           IN  {o \in Known : \A S \in SUBSET Known : Closed(S) => o \in S}

Uses(S, o) == Cardinality(UNION {{<<p, k>> : k \in {j \in DOMAIN Pointers(p) : Pointers(p)[j] = o}} : p \in S})

TreeShaped ==
    /\ \A o \in Pointed : Parses(o) /\ Uses(ToSet(pages), o) + Uses(Pointed, o) = 1
    /\ Level[MaxDepth] = {}

Report == Finish(claims, FileLen, Runs(read))
\* Auditor::finish: what no structure claims is named by position, unless a
\* directory was skipped.
Skipped == \E f \in findings : f[1] # "chained"
\* Mutant: the naming pass runs whatever was skipped.
NamesGapsAlways == TRUE
NamesGaps == ~Skipped
Final == IF NamesGaps THEN [Report EXCEPT !.unclassified = <<>>] ELSE Report

TypeOK ==
    /\ file \in Files
    /\ pc \in {"chain", "strict", "lenient", "done", "failed"}
    /\ at \in Nat /\ pages \in Seq(Nat)
    /\ \A k \in DOMAIN stack : stack[k].todo \in Seq(Nat) /\ stack[k].cur \in Nat

\* read_tree accepts exactly the files whose sub-IFD pointers form a forest over
\* the chain within the depth limit: every directory pointed at parses and is
\* claimed by one pointer, whatever the order in which the recursion meets them.
AcceptsExactlyTrees == pc = "done" => (strict # Refused <=> TreeShaped)

\* The strict and the lenient walk agree: on a file without null pointers the
\* audit has no finding iff read_tree accepts the file and none of its sub-IFDs
\* carries a next link, and then both return the same tree.
AuditAgreesWithReadTree ==
    pc = "done" /\ 0 \notin Targets(ToSet(pages) \cup Pointed) =>
        /\ (findings = {}) <=> (strict # Refused /\ \A o \in Pointed : file.dirs[o].next = 0)
        /\ (findings = {}) => trees = strict

\* When every target parsed, the two ledgers agree on every byte: all bytes read
\* are claimed and all parsed claims were read, with values shared between
\* directories, directories reached twice, targets refused as cycles or too deep
\* and data extents over anything.
LedgersAgree ==
    pc = "done" /\ (\A f \in findings : f[1] # "unparseable") =>
        Report.unclaimed_reads = <<>> /\ Report.unread_claims = {}

\* The verdict never hides a directory the walk did not reach: a file whose bytes
\* are all accounted for has no reachable directory outside every claim.
VerdictHidesNoDirectory ==
    pc = "done" /\ FullyClassified(Final) =>
        \A o \in Targets(visited \cup ToSet(pages)) :
            Stored(o) /\ o < FileLen => o \in BytesOf(ToSet(claims))

\* The verdict of an audit can be relied on: its two ledgers agree, and it hides no
\* directory.
VerdictIsHonest == LedgersAgree /\ VerdictHidesNoDirectory

\* Every audit ends, cyclic pointers and next links of sub-IFDs included.
WalksEnd == <>(pc \in {"done", "failed"})
----------------------------------------------------------------------------
\* What gamut-dng's DngRewrite::open takes from a file (rewrite.rs): the tree of
\* read_tree, the payloads its directories locate, and the byte runs that the audit
\* found no structure for.  Everything else is not in the rewrite.

Opened == pc = "done" /\ strict # Refused

\* The directories of the finished trees, generation by generation.
Kept ==
    LET gen[n \in 1 .. MaxDepth] ==
            IF n = 1 THEN ToSet(strict) ELSE UNION {ToSet(t.kids) : t \in gen[n - 1]}
    IN  {t.at : t \in UNION {gen[n] : n \in 1 .. MaxDepth}}

Payload(o) == LET d == file.dirs[o].data IN IF d = None THEN {} ELSE Bytes(d)

\* Mutant: payloads are collected from the pages only, not from their sub-IFDs.
CollectedFromPages == UNION {Payload(o) : o \in ToSet(pages)}

\* collect_payloads, over the whole tree.
Collected == UNION {Payload(o) : o \in Kept}

\* unclaimed_spans: only what the naming pass named.
Unaccounted == IF NamesGaps THEN BytesOf(ToSet(Report.unclassified)) ELSE {}

\* The bytes the rewrite writes again: the header, every directory and value of the
\* tree, their payloads, the unaccounted runs.
Carried ==
    (0 .. HeaderLen - 1) \cup BytesOf(UNION {DirReads(o) : o \in Kept}) \cup Collected \cup Unaccounted

\* write() refuses a payload outside the file.
Rewritable == Opened /\ Collected \subseteq 0 .. FileLen - 1
Dropped == (0 .. FileLen - 1) \ Carried

\* A file without next links on sub-IFDs loses nothing: what the strict walk did not
\* take into the tree, the tolerant walk, run separately and refusing other
\* pointers, found to be unaccounted, and the other way round.
TreesAreKeptWhole ==
    Rewritable /\ (\A o \in Pointed : file.dirs[o].next = 0) => Dropped = {}

\* Every file that opens is written back with nothing dropped (rewrite.rs: "edit it
\* surgically, write it back with nothing dropped").
NothingIsDropped == Rewritable => Dropped = {}
==================================================================================
