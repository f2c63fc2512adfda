CONSTANTS
  c1 = c1
  c2 = c2
  primary = primary
  fallback = fallback
  Routing <- TwoProviders
  NoLimit = NoLimit
  Calls = {c1}
  Inputs <- AllOptions
  Ages = {1}
  NumRetries = 1
  ProviderTimeouts = TRUE
  ModelTimeouts = TRUE
  MaxChunks = 2
  MaxClock = 1
SPECIFICATION FairSpec
INVARIANTS
  ResponseFollowsRouting
  RequestsAreBounded
PROPERTIES
  CallEnds
