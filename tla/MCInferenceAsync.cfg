CONSTANTS
  r1 = r1
  r2 = r2
  vPos = vPos
  vPos2 = vPos2
  vNone = vNone
  vZero = vZero
  f1 = f1
  NoVariant = NoVariant
  Unknown = Unknown
  Files = {f1}
  NoFile = NoFile
  ZeroWeight = {vZero}
  Requests = {r1, r2}
  Variants = {vPos, vZero}
  PositiveWeight = {vPos}
  Inputs <- SharedInputs
  AsyncWrites = TRUE
  MaxResults = 2
  MaxChunks = 1
  MaxFailures = 1
  MaxCrashes = 1
SPECIFICATION Spec
INVARIANTS
  FinishedWriteHasFile
  InferenceRowIsLast
  StoredInFull
