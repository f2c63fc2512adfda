CONSTANTS
  None = None
  MaxTokens = 2
  MaxChunks = 3
  MaxPrev = 2
SPECIFICATION StreamSpec
INVARIANTS
  ReportedIsBilled
  StoredCoversUsage
