CONSTANTS
    Ids = {"d1", "d2"}
    FunctionNames = {"f", "g", "j"}
    Table <- MCTable
    Sources <- MCSources
    Outputs = {"o1", "bad"}
    None = None
    EditOutputs = {"o1"}
    MaxEdits = 3
    MaxNow = 1
    EvaluatedFunction = "f"
    Evaluators = {"exact", "judge"}
    Config <- MCConfig
    InputKind <- MCInputKind
    Concurrency = 1
    OutputFormat = "pretty"
    NoCutoff = NoCutoff
    MaxLost = 1
    Corpora <- MCCorpora
    Requests <- MCRequests
    Missing = Missing
    MaxPolls = 2
    MaxFaults = 1
    InitialRows <- MCInitialRows
    HumanScores <- MCHumanScores
SPECIFICATION Spec
INVARIANTS
  LastAnswerIsVisible
  JobHasItsExamples
  CompletedIsServed
  ReportIsStored
PROPERTIES
  EndIsReported
  RunEnds
CHECK_DEADLOCK FALSE
