CONSTANTS
  c1 = c1
  c2 = c2
  primary = primary
  fallback = fallback
  Routing <- TwoProviders
  NoLimit = NoLimit
  Calls = {c1, c2}
  Inputs <- SharedOptions
  Ages = {1}
  NumRetries = 0
  ProviderTimeouts = TRUE
  ModelTimeouts = FALSE
  MaxChunks = 2
  MaxClock = 1
SPECIFICATION Spec
SYMMETRY Perms
INVARIANTS
  CacheRowsAreSound
  RowIsOfItsCall
