CONSTANTS
  r1 = r1
  r2 = r2
  vPos = vPos
  vPos2 = vPos2
  vNone = vNone
  vZero = vZero
  f1 = f1
  NoVariant = NoVariant
  Unknown = Unknown
  Files = {f1}
  NoFile = NoFile
  ZeroWeight = {vZero}
  Requests = {r1}
  Variants = {vPos, vPos2, vNone, vZero}
  PositiveWeight = {vPos, vPos2}
  Inputs <- AllInputs
  AsyncWrites = FALSE
  MaxResults = 2
  MaxChunks = 2
  MaxFailures = 2
  MaxCrashes = 1
SPECIFICATION FairSpec
INVARIANTS
  AnswerAfterSyncWrite
  FallbackOrder
  AllFailedMeansAllTried
PROPERTIES
  EveryRequestEnds
