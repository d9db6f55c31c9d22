-------------------------------- MODULE MCIfdWalk --------------------------------
(* Small files for IfdWalk: three directory slots after a two-byte header, then    *)
(* three bytes for values, or for a fourth directory.                             *)
EXTENDS IfdWalk

Slots == {2, 5, 8}
Outside == 20
Dead(whole, value) == [whole |-> whole, value |-> value, data |-> None, ptrs |-> <<>>, next |-> 0]
Value(decodes) == [start |-> 11, len |-> 3, decodes |-> decodes]
Good(value, data, ptrs, next) ==
    [whole |-> TRUE, value |-> value, data |-> data, ptrs |-> ptrs, next |-> next]

PtrLists == {<<>>} \cup {<<a>> : a \in Slots \cup {0, Outside}} \cup {<<a, b>> : a, b \in Slots}
Plain == {Good(None, None, p, n) : p \in PtrLists, n \in Slots \cup {0}} \cup {Dead(FALSE, None)}

\* Every graph of pointers and links over the slots.
GraphFiles == [first : {2}, dirs : [Slots -> Plain]]

\* Fewer graphs, with values and data extents: shared, undecodable, outside.
Valued ==
    {Good(v, d, p, 0) : v \in {None, Value(TRUE)}, d \in {None, Span(8, 3), Span(12, 2)},
                        p \in {<<>>, <<5>>, <<5, 8>>, <<8>>}}
    \cup {Dead(TRUE, Value(FALSE)), Dead(TRUE, [start |-> 12, len |-> 3, decodes |-> TRUE]),
          Dead(FALSE, None), Good(None, None, <<5>>, 8), Good(None, None, <<8, 5>>, 5),
          Good(None, Span(12, 0), <<5>>, 0)}
ValueFiles == [first : {2}, dirs : [Slots -> Valued]]

\* Four directories, whose chain of pointers is deeper than MaxDepth: at its end the
\* depth guard alone decides.
DeepSlots == Slots \cup {11}
Deep(a) == {Good(None, None, p, 0) : p \in {<<>>} \cup {<<b>> : b \in DeepSlots} \cup {<<b, 11>> : b \in {5, 8}}}
           \cup {Good(None, None, <<>>, n) : n \in {b \in DeepSlots : a < b}}
DeepFiles == {f \in [first : {2}, dirs : [DeepSlots -> UNION {Deep(a) : a \in DeepSlots}]] :
                  \A a \in DeepSlots : f.dirs[a] \in Deep(a)}

AllFiles == GraphFiles \cup ValueFiles \cup DeepFiles

\* One sub-IFD, with and without a next link.
LinkedFiles ==
    [first : {2}, dirs : [Slots -> {Good(None, None, p, n) : p \in {<<>>, <<5>>}, n \in {0, 8}}]]
==================================================================================
