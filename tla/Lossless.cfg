\* DEFLATE: see MCLossless. LZW: bytes of two bits, codes of 3 and 4 bits, the table
\* cleared after six entries; every strip of up to nine bytes, every stream of up to six.
\* Symbols: tiles of up to five symbols over a static and two adapting contexts; and
\* foreign tiles of up to two edge-valued bytes under well-formed and ill-formed CDFs.
SPECIFICATION Spec
CONSTANTS
  ByteBits = 2
  MaxWidth = 4
  ResetAt = 12
  DataBytes = {0, 1, 3}
  MaxInput = 9
  MaxStream = 6
  OctetBits = 4
  LenBits = 4
  LengthBase <- MCL1
  LengthExtra <- MCL2
  DistBase <- MCD1
  DistExtra <- MCD2
  FixedRows <- MCFixedRows
  MaxCodeLen = 5
  MaxClLen = 4
  ClOrder <- MCCl
  RepPrev <- MCPrev
  RepZero <- MCZero
  RepLong <- MCLong
  MaxSplitDepth = 2
  MinSplitTokens = 8
  SplitCandidates = 4
  Inputs <- MCMore
  MinMatch = 3
  Window = 4
  Bucket <- MCBucket
  MaxChain <- MCChain
  Effort = 2
  SpanLimit = 9
  Cdfs <- MCCdfs
  Static <- MCStatic
  Tails <- MCTails
  MaxSymbols = 5
  Tiles <- MCTiles
  AnyCdfs <- MCAnyCdfs
  MaxReads = 5
INVARIANTS DeflateIsFaithful StripComesBack TableWithinDeclared TileComesBack EverySymbolIsCodable DecoderIsTotal
CHECK_DEADLOCK FALSE
