------------------------------- MODULE MCIfdWriter -------------------------------
(* Small files for IfdWriter: widths scaled down with their parities kept, trees *)
(* with inline and out-of-line values of even and odd length, and up to two pins.*)
EXTENDS IfdWriter

Widths == [header |-> 2, count |-> 1, entry |-> 2, offset |-> 1, inline |-> 1]

Leaf(fields) == [fields |-> fields, subs |-> <<>>]
SmallIfds ==
    {<<Leaf(<<<<1, 2>>, <<2, 3>>, <<3, 1>>>>)>>,
     <<Leaf(<<<<1, 3>>>>), Leaf(<<<<2, 2>>, <<4, 3>>>>)>>,
     <<Leaf(<<<<1, 3>>>>), Leaf(<<<<1, 2>>, <<2, 2>>>>)>>,
     <<[fields |-> <<<<1, 2>>>>, subs |-> <<<<3, <<Leaf(<<<<2, 3>>>>), Leaf(<<<<4, 1>>>>)>>>>>>]>>}

Pin(t, o) == [tag |-> t, offset |-> o]
OnePin == {<<Pin(t, o)>> : t \in 1 .. 4, o \in 9 .. 28}
SmallPins == {<<>>} \cup OnePin \cup {<<Pin(t, o), Pin(u, q)>> : t, u \in {1, 2}, o, q \in 10 .. 26}
SmallPreambles == {[len |-> 0, zero |-> TRUE], [len |-> 1, zero |-> FALSE], [len |-> 2, zero |-> TRUE]}
==================================================================================
