CONSTANTS
  None = None
  i1 = i1
  f1 = f1
  Inferences = {i1}
  Feedbacks = {f1}
  Cooldown = 4
  MinWait = 2
  Poll = 1
  Latency = 1
  Offset = 100
  MaxTime = 10
  LastStart = 3
SPECIFICATION FairSpec
INVARIANTS
  FeedbackFollowsTarget
  InferenceFollowsRun
PROPERTIES
  FeedbackIsAnswered
