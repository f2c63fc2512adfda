CONSTANT N = 3
SPECIFICATION CandidatesSpec
INVARIANTS
  CallsStoredOnce
  NamedIsReturned
  OneIsEnough
