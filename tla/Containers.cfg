SPECIFICATION Spec
CONSTANTS
  MaxDepth = 3
  MaxCoded <- MCMaxCoded
  Narrow = 2
  Wide = 8
  Jobs <- MCJobs
  Garbage <- MCGarbage
  Encodes <- MCEncodes
  Strays <- MCStrays
  MaxFaults = 2
  Transcodes = 1
  IimEdits <- MCIimEdits
  XmpEdits <- MCXmpEdits
  AppEdits <- MCAppEdits
  MaxTurns = 5
INVARIANTS ItemsAreWhole PresentationIsExact DerivationIsGuarded WebpFaultsAreContained CarriersAgree
PROPERTY DecodeReturns
CHECK_DEADLOCK FALSE
