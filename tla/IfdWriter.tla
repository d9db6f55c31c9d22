-------------------------------- MODULE IfdWriter --------------------------------
(******************************************************************************)
(* gamut-ifd's two-pass writer (writer.rs, write_with): place every directory, *)
(* check the pins, place the values around them, declare the map; and what an  *)
(* independent audit of the emitted bytes reports.                             *)
(*                                                                            *)
(* A directory is [fields, subs]: fields is a sequence of <<tag, byte length>> *)
(* in tag order, subs of <<tag, directories>>; an unknown-type value has the   *)
(* length of its word and packs inline.  Sizes are the fields of Sizes, in     *)
(* bytes.  The 32-bit and usize limits are beyond the layouts here.            *)
(******************************************************************************)
EXTENDS IfdSpans, TLC

CONSTANTS
    Ifds,        \* the top-level directories of the files to write, as sequences
    PinLists,    \* sequences of [tag, offset]
    Preambles,   \* [len, zero] of vendor preambles; zero: all its bytes are 0
    Sizes        \* [header, count, entry, offset, inline]: Variant's widths

ASSUME WriterAssumption ==
    /\ Sizes \in [header : Nat, count : Nat, entry : Nat \ {0}, offset : Nat \ {0}, inline : Nat]
    /\ \A p \in Preambles : p.len \in Nat /\ p.zero \in BOOLEAN

VARIABLES
    nodes,    \* the flattened tree: [fields, subs as <<tag, node indices>>]
    pins,     \* WriteOptions.pinned as asked for
    preamble, \* WriteOptions.preamble
    pc,       \* "place", "pin", "pool", "done", "refused"
    cursor,   \* end of the layout so far
    at,       \* offset of every directory placed
    taken,    \* pins accepted: [tag, offset, len]
    starts    \* offset of every value placed: <<node, entry>> -> offset

vars == <<nodes, pins, preamble, pc, cursor, at, taken, starts>>

----------------------------------------------------------------------------
AlignWord(n) == n + (n % 2)

\* push_node: parent before children, depth first.
RECURSIVE Flatten(_, _)
Flatten(ifd, acc) ==
    LET self == Len(acc) + 1
        Child(st, c) == [nodes |-> Flatten(c, st.nodes), kids |-> Append(st.kids, Len(st.nodes) + 1)]
        Group(st, sub) ==
            LET kids == FoldLeft(Child, [nodes |-> st.nodes, kids |-> <<>>], sub[2])
            IN  [nodes |-> kids.nodes, subs |-> Append(st.subs, <<sub[1], kids.kids>>)]
        all == FoldLeft(Group,
                        [nodes |-> Append(acc, [fields |-> ifd.fields, subs |-> <<>>]), subs |-> <<>>],
                        ifd.subs)
    IN  [all.nodes EXCEPT ![self].subs = all.subs]

\* The on-disk entries of a node: fields and synthesised pointers, in tag order.
Entries(n) ==
    LET node == nodes[n]
        pointers == [k \in DOMAIN node.subs |-> <<node.subs[k][1], Sizes.offset * Len(node.subs[k][2])>>]
        Insert(acc, e) == SelectSeq(acc, LAMBDA x : x[1] <= e[1]) \o <<e>> \o SelectSeq(acc, LAMBDA x : x[1] > e[1])
    IN  FoldLeft(Insert, <<>>, node.fields \o pointers)

BodyLen(n) == Sizes.count + Sizes.entry * Len(Entries(n)) + Sizes.offset

Init ==
    /\ \E top \in Ifds : nodes = FoldLeft(LAMBDA acc, i : Flatten(i, acc), <<>>, top)
    /\ pins \in PinLists
    /\ preamble \in Preambles
    /\ pc = "place"
    /\ cursor = AlignWord(Sizes.header + preamble.len)
    /\ at = <<>> /\ taken = <<>> /\ starts = <<>>

\* Pass 1a: the next directory, on a word boundary.
PlaceDirectory ==
    /\ pc = "place" /\ Len(at) < Len(nodes)
    /\ at' = Append(at, cursor)
    /\ cursor' = AlignWord(cursor + BodyLen(Len(at) + 1))
    /\ UNCHANGED <<nodes, pins, preamble, pc, taken, starts>>

DirectoriesPlaced ==
    /\ pc = "place" /\ Len(at) = Len(nodes)
    /\ pc' = "pin"
    /\ UNCHANGED <<nodes, pins, preamble, cursor, at, taken, starts>>

----------------------------------------------------------------------------
\* Resolving the pins against the placed directories.

Fields(tag) == UNION {{<<n, k>> : k \in {j \in DOMAIN nodes[n].fields : nodes[n].fields[j][1] = tag}} :
                        n \in DOMAIN nodes}
IsPointer(tag) == \E n \in DOMAIN nodes : \E k \in DOMAIN nodes[n].subs : nodes[n].subs[k][1] = tag
LengthOf(tag) == LET f == CHOOSE f \in Fields(tag) : TRUE IN nodes[f[1]].fields[f[2]][2]
NextPin == pins[Len(taken) + 1]

\* Mutant: a value packed into its entry can be pinned.
SatisfiableInline(p) == Cardinality(Fields(p.tag)) = 1 /\ ~IsPointer(p.tag) /\ p.offset >= cursor

\* The tag names exactly one out-of-line value and the pin lies behind the directories.
Satisfiable(p) ==
    /\ Cardinality(Fields(p.tag)) = 1
    /\ ~IsPointer(p.tag)
    /\ LengthOf(p.tag) > Sizes.inline
    /\ p.offset >= cursor

AcceptPin ==
    /\ pc = "pin" /\ Len(taken) < Len(pins)
    /\ Satisfiable(NextPin)
    /\ taken' = Append(taken, [tag |-> NextPin.tag, start |-> NextPin.offset, len |-> LengthOf(NextPin.tag)])
    /\ UNCHANGED <<nodes, pins, preamble, pc, cursor, at, starts>>

Refuse ==
    /\ pc' = "refused"
    /\ UNCHANGED <<nodes, pins, preamble, cursor, at, taken, starts>>

RefusePin == pc = "pin" /\ Len(taken) < Len(pins) /\ ~Satisfiable(NextPin) /\ Refuse

\* windows(2) over the pins sorted by offset.
PinsOverlap ==
    LET sorted == Sorted(taken) IN \E k \in 1 .. Len(sorted) - 1 : sorted[k + 1].start < End(sorted[k])

PinsConflict == pc = "pin" /\ Len(taken) = Len(pins) /\ PinsOverlap /\ Refuse

PinsResolved ==
    /\ pc = "pin" /\ Len(taken) = Len(pins) /\ ~PinsOverlap
    /\ taken' = Sorted(taken)
    /\ pc' = "pool"
    /\ UNCHANGED <<nodes, pins, preamble, cursor, at, starts>>

----------------------------------------------------------------------------
\* Pass 1b: the value pool, node by node, entry by entry.

OutOfLine == {<<n, k>> \in UNION {{n} \X DOMAIN Entries(n) : n \in DOMAIN nodes} :
                Entries(n)[k][2] > Sizes.inline}
Earlier(a, b) == a[1] < b[1] \/ (a[1] = b[1] /\ a[2] < b[2])
ToPlace == OutOfLine \ DOMAIN starts
PinFor(tag) == SelectInSeq(taken, LAMBDA p : p.tag = tag)

\* Mutant: after a jump the next pin is not looked at again.
ClearOnce(c, n) ==
    LET hit == SelectInSeq(taken, LAMBDA p : p.start < c + n /\ c < End(p))
    IN  IF hit = 0 THEN c ELSE AlignWord(End(taken[hit]))

\* The first place for n bytes from c on, jumping over every pin they would meet.
RECURSIVE ClearOf(_, _)
ClearOf(c, n) ==
    LET hit == SelectInSeq(taken, LAMBDA p : p.start < c + n /\ c < End(p))
    IN  IF hit = 0 THEN c ELSE ClearOf(AlignWord(End(taken[hit])), n)

PlaceValue ==
    /\ pc = "pool"
    /\ \E v \in ToPlace :
        /\ \A w \in ToPlace \ {v} : Earlier(v, w)
        /\ LET entry == Entries(v[1])[v[2]]
               pin == PinFor(entry[1])
               start == IF pin # 0 THEN taken[pin].start ELSE ClearOf(AlignWord(cursor), entry[2])
           IN  /\ starts' = starts @@ (v :> start)
               /\ cursor' = IF pin # 0 THEN cursor ELSE start + entry[2]
    /\ UNCHANGED <<nodes, pins, preamble, pc, at, taken>>

Emit ==
    /\ pc = "pool" /\ ToPlace = {}
    /\ pc' = "done"
    /\ UNCHANGED <<nodes, pins, preamble, cursor, at, taken, starts>>

Next ==
    \/ PlaceDirectory \/ DirectoriesPlaced
    \/ AcceptPin \/ RefusePin \/ PinsConflict \/ PinsResolved
    \/ PlaceValue \/ Emit

Spec == Init /\ [][Next]_vars

----------------------------------------------------------------------------
\* The emitted stream and the declared map.

TotalLen == Max({cursor} \cup {End(taken[k]) : k \in DOMAIN taken})
ClaimOf(s, l, kind) == IF l = 0 THEN <<>> ELSE <<[start |-> s, len |-> l, kind |-> kind, parsed |-> TRUE]>>

ValueLen(v) == Entries(v[1])[v[2]][2]
Header == ClaimOf(0, Sizes.header, "header")
Bodies == FlattenSeq([n \in DOMAIN nodes |-> ClaimOf(at[n], BodyLen(n), "body")])
Values == FlattenSeq([v \in 1 .. Cardinality(DOMAIN starts) |->
              LET e == CHOOSE e \in DOMAIN starts :
                           Cardinality({w \in DOMAIN starts : w = e \/ Earlier(w, e)}) = v
              IN  ClaimOf(starts[e], ValueLen(e), "value")])

\* Mutant: the preamble's claim ends with its last byte.
PlacedRawPreamble ==
    Header \o ClaimOf(Sizes.header, preamble.len, "preamble") \o Bodies \o Values

\* The gaps between placed spans and the tail, as padding.
Placed == Header \o ClaimOf(Sizes.header, AlignWord(preamble.len), "preamble") \o Bodies \o Values
Gaps ==
    LET Step(acc, c) ==
            [upto |-> Max({acc.upto, End(c)}),
             gaps |-> acc.gaps \o ClaimOf(acc.upto, Max({c.start, acc.upto}) - acc.upto, "padding")]
        walk == FoldLeft(Step, [upto |-> 0, gaps |-> <<>>], Sorted(Placed))
    IN  walk.gaps \o ClaimOf(walk.upto, Max({TotalLen, walk.upto}) - walk.upto, "padding")

\* finish(None): no read ledger to check the claims against.
FinishUnread(claims) == [Finish(claims, TotalLen, <<>>) EXCEPT !.unread_claims = {}]
DeclaredMap == FinishUnread(Placed \o Gaps)

----------------------------------------------------------------------------
\* An audit of the emitted bytes (audit.rs): the same structures found by reading,
\* then the two classification passes over what they leave.

ZeroBytes ==
    (0 .. TotalLen - 1) \
        (BytesOf(ToSet(Header \o Bodies \o Values))
         \cup IF preamble.zero THEN {} ELSE Sizes.header .. Sizes.header + preamble.len - 1)

IsPadding(report, r) ==
    LET after == \E s \in ToSet(report.segments) : s.start = End(r)
        preambleRegion == r.start = Sizes.header /\ \E b \in ToSet(Bodies) : b.start = End(r)
    IN  /\ ~preambleRegion
        /\ (End(r) % 2 = 0 /\ after) \/ (End(r) = TotalLen /\ r.len <= 1)
        /\ Bytes(r) \subseteq ZeroBytes

KindOf(report, r) ==
    IF IsPadding(report, r) THEN "padding"
    ELSE IF r.start = Sizes.header THEN "preamble"
    ELSE IF End(r) = TotalLen THEN "trailer" ELSE "interstitial"

Typed(s) == <<s.start, s.len, s.kind>>
AuditSegments ==
    LET report == FinishUnread(Header \o Bodies \o Values)
    IN  {Typed(s) : s \in ToSet(report.segments)}
        \cup {<<r.start, r.len, KindOf(report, r)>> : r \in ToSet(report.unclassified)}

EvenPins == \A k \in DOMAIN pins : pins[k].offset % 2 = 0
DistinctPins == \A j, k \in DOMAIN pins : j # k => pins[j].tag # pins[k].tag
ReadBack(p) == \E v \in DOMAIN starts : Entries(v[1])[v[2]][1] = p.tag /\ starts[v] = p.offset

TypeOK ==
    /\ pc \in {"place", "pin", "pool", "done", "refused"}
    /\ cursor \in Nat /\ at \in Seq(Nat) /\ Len(at) <= Len(nodes)
    /\ DOMAIN starts \subseteq OutOfLine

\* The writer declares every byte it emits: whatever pins the value pool has to
\* flow around, its map has no gap, no overlap and nothing past the end.
DeclaredMapIsComplete == pc = "done" => FullyClassified(DeclaredMap)

\* With pins at even offsets, each of another value, an independent audit of the
\* bytes reproduces the declared map segment for segment, preamble and padding
\* told apart.
AuditReproducesMap ==
    pc = "done" /\ EvenPins /\ DistinctPins => AuditSegments = {Typed(s) : s \in ToSet(DeclaredMap.segments)}

\* Directories and values nobody pinned lie on word boundaries, also behind a pin
\* of odd length or offset, a value that moves never lands among directories, and
\* pinned values are where they were asked to be, as long as no two pins name one
\* value.
PlacementIsSound ==
    /\ \A n \in DOMAIN at : at[n] % 2 = 0
    /\ \A v \in DOMAIN starts :
          /\ PinFor(Entries(v[1])[v[2]][1]) = 0 => starts[v] % 2 = 0
          /\ \A n \in DOMAIN at : starts[v] >= at[n] + BodyLen(n)
    /\ pc = "done" /\ DistinctPins => \A k \in DOMAIN pins : ReadBack(pins[k])

\* A pin puts its value at its offset or the write is refused ("a directive to
\* land one field's out-of-line value at an exact absolute offset").
PinsAreHonoured == pc = "done" => \A k \in DOMAIN pins : ReadBack(pins[k])
==================================================================================
