CONSTANTS
  Absent = Absent
  BatchConfigured = TRUE
  StartRequests <- MCStartRequests
  Routing <- MCRouting
  OutputFiles <- MCOutputFiles
  i1 = i1
  i2 = i2
  p1 = p1
  p2 = p2
  vPos = vPos
  vZero = vZero
  vDicl = vDicl
  NoVariant = NoVariant
  Inferences = {i1, i2}
  BadSchema = {i2}
  Variants = {vPos, vZero, vDicl}
  ChatCompletion = {vPos, vZero}
  PositiveWeight = {vPos}
  Hashes = {"below", "max"}
  MaxClock = 2
  MaxCopies = 2
  Pollers = {p1, p2}
  MaxAborts = 1
SPECIFICATION FairSpec
INVARIANTS
  CompletedIsStored
  CompletedResponseIsWhole
  StartedBatchIsRecorded
PROPERTIES
  CompletionIsRecorded
  ImplementsLifecycle
