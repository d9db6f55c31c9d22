------------------------------- MODULE MCIfdFiles --------------------------------
(* The byte accounts of gamut-ifd and the writers that must satisfy them: the two *)
(* ledgers (IfdLedger), the layout of a tree (IfdWriter), and a camera file laid   *)
(* out again (DngRewrite).  A behaviour is about one of them, its subject; the     *)
(* others are idle.  And small instances of each.                                *)
(*                                                                               *)
(* Accounts: three claims over three bytes, for     *)
(* overlap, nesting, sharing, adjacency and out-of-bounds claims; and reads alone *)
(* over eight bytes, enough for four separate spans.  Layouts: see MCIfdWriter.   *)
(* Rewrites: trees with payloads in several directories, one note, two, none or a *)
(* short one, every place the note can have been at, and runs of every kind.      *)
EXTENDS MCIfdWriter, DngRewrite, IfdLedger

VARIABLE subject
filesvars == <<subject, vars, rewritevars, ledgervars>>

LedgerIsIdle == parse = [file |-> 0, claims |-> 0] /\ spans = <<>> /\ touched = {} /\ made = <<>>

FilesInit ==
    \/ subject = "accounts" /\ LedgerInit /\ NothingLaid /\ NothingOpen
    \/ subject = "layout" /\ Init /\ NothingOpen /\ LedgerIsIdle
    \/ subject = "rewrite" /\ RewriteInit /\ LedgerIsIdle

Accounts == subject = "accounts" /\ LedgerNext /\ UNCHANGED <<subject, vars, rewritevars>>
Layout == subject = "layout" /\ Next /\ UNCHANGED <<subject, rewritevars, ledgervars>>
Rewrite == subject = "rewrite" /\ RewriteNext /\ UNCHANGED <<subject, ledgervars>>
FilesNext == Accounts \/ Layout \/ Rewrite

FilesSpec == FilesInit /\ [][FilesNext]_filesvars

\* The writer keeps its word: what it declares is what it emitted, and what it
\* promised to place is where it promised.
LayoutIsSound == DeclaredMapIsComplete /\ PlacementIsSound

----------------------------------------------------------------------------------

SmallSessions == {[file |-> 3, claims |-> 3], [file |-> 8, claims |-> 0]}

\* Tags: 1 is declared dead space, 2 and 3 locate payloads, 4 is the maker note, 5 and 6
\* are pointers, 7 a plain value.
With(fields, subs) == [fields |-> fields, subs |-> subs]
Exif(len) == <<6, <<Leaf(<<<<4, len>>>>)>>>>
Blocks1 == <<Span(20, 3), Span(23, 2)>>
Blocks2 == <<Span(25, 1)>>
Trees ==
    {<<<<With(<<<<2, 1>>, <<7, 3>>>>, <<Exif(3)>>)>>, <<1, 2>> :> Blocks1>>,
     <<<<With(<<<<1, 2>>, <<2, 2>>, <<3, 1>>>>, <<<<5, <<Leaf(<<<<2, 4>>>>), Leaf(<<>>)>>>>, Exif(2)>>)>>,
       <<1, 2>> :> Blocks1 @@ <<1, 3>> :> <<>> @@ <<2, 2>> :> Blocks2>>,
     <<<<Leaf(<<<<4, 3>>>>), With(<<<<2, 2>>>>, <<Exif(3)>>)>>, <<2, 2>> :> Blocks2>>,
     <<<<With(<<<<2, 2>>>>, <<Exif(1)>>)>>, <<1, 2>> :> Blocks1>>,
     <<<<Leaf(<<<<2, 2>>, <<7, 2>>>>)>>, <<1, 2>> :> Blocks2>>,
     <<<<Leaf(<<<<2, 2>>>>)>>, <<>>>>,
     <<<<Leaf(<<<<2, 2>>>>)>>, <<1, 2>> :> <<Span(39, 2)>>>>}

Run(kind, start, len) == [kind |-> kind, start |-> start, len |-> len]
CarriedRuns ==
    {<<>>, <<Run("preamble", 2, 1)>>, <<Run("interstitial", 6, 2)>>,
     <<Run("preamble", 2, 2), Run("interstitial", 12, 1), Run("trailer", 35, 5)>>,
     <<Run("interstitial", 12, 3), Run("trailer", 39, 1)>>}

SmallDngs ==
    {[tree |-> t[1], blocks |-> t[2], noteAt |-> o, spans |-> r, size |-> 40] :
        t \in Trees, o \in {0} \cup 9 .. 30, r \in CarriedRuns}
==================================================================================
