SPECIFICATION Spec
CONSTANTS
  W = 4
  Modulus = 3
  Nib = 4
  LastK = 6
  B = 2
  MaxLen = 5
  Split = 2
  MaxDcCat = 4
  StdTables <- MCStdTables
  Jobs <- MCJobs
  Hits <- MCHits
  Freqs <- MCFreqs
INVARIANTS RoundTrip PartialIsPrefix DamageIsHandled MetadataIsWhole TablesAreSound
