-------------------------------- MODULE MCPngFile --------------------------------
(* Small instances of PngFile for TLC: the image kinds with the most chunks,    *)
(* palettes on both sides of the depth boundaries; and two other writers, one   *)
(* with a vocabulary for the order rules, one for the metadata budget.          *)
EXTENDS PngFile

AJob(color, entries, alphas, texts) ==
    [color |-> color, entries |-> entries, alphas |-> alphas, pieces |-> 2, exif |-> 7,
     icc |-> 2, xmp |-> 5, texts |-> texts]

SomeJobs ==
    {AJob("indexed", e, a, <<1>>) : e \in {1, 2, 3, 4, 5, 16, 17, 256}, a \in {0, 1}}
    \cup {AJob("rgb", 0, 0, <<1, 1>>), AJob("gray", 0, 0, <<>>),
          [AJob("rgba", 0, 0, <<>>) EXCEPT !.icc = None, !.pieces = 1]}

Chunk(type, ok, n) == [type |-> type, ok |-> ok, n |-> n]
IHDR == Chunk("IHDR", TRUE, 1)
IDAT == Chunk("IDAT", TRUE, 0)
IEND == Chunk("IEND", TRUE, 0)

OrderChunks ==
    {IHDR, IDAT, IEND, Chunk("IHDR", TRUE, 0), Chunk("IDAT", FALSE, 0), Chunk("IEND", TRUE, 1),
     Chunk("PLTE", TRUE, 6), Chunk("PLTE", FALSE, 6), Chunk("CRIT", TRUE, 0),
     Chunk("tRNS", TRUE, 1), Chunk("tRNS", FALSE, 1), Chunk("eXIf", TRUE, 1)}

MetadataChunks ==
    {IHDR, IDAT, IEND, Chunk("eXIf", TRUE, 1), Chunk("eXIf", TRUE, 2), Chunk("iCCP", TRUE, 0),
     Chunk("iCCP", TRUE, 5), Chunk("iCCP", FALSE, 1), Chunk("zTXt", TRUE, 1),
     Chunk("zTXt", TRUE, 4), Chunk("zXMP", TRUE, 3), Chunk("acTL", TRUE, 0)}

OtherWriters ==
    {[header |-> [color |-> "indexed", depth |-> 1], chunks |-> OrderChunks, most |-> 7],
     [header |-> [color |-> "indexed", depth |-> 1], chunks |-> MetadataChunks, most |-> 6]}

AnyHeader == [color : Colors, depth : {1, 2, 4, 8}]
Sent(j) == {Written(j)[k] : k \in DOMAIN Written(j)}
AnyChunk == OrderChunks \cup MetadataChunks \cup
    UNION {Sent(j) \cup {[c EXCEPT !.ok = FALSE] : c \in Sent(j)} : j \in SomeJobs}
==================================================================================
