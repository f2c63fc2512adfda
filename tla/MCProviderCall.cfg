SPECIFICATION Spec
CONSTANTS
    Providers <- MCProviders
    Asks <- MCAsks
    Replies <- MCReplies
    RepeatedNames = FALSE
    SplitCalls <- MCSplitCalls
    StaticTools <- MCStaticTools
    FunctionTools <- MCFunctionTools
INVARIANTS
  StreamedIsWhole
  InputIsCarried
  RequestIsAccepted
  AnswerIsRemembered
