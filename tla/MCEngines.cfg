SPECIFICATION EnginesSpec
CONSTANTS
  Firsts = {x1, x2}
  Seconds = {y1, y2}
  theArtifact = a
  theReview = r
  AgentRuntimes = {"r"}
  AgentRetries = 1
  AgentLeases = 1
  AgentAttempts = 3
  FlowStages = 2
  FlowExecution = 1
  FlowCalls <- MCFlowCalls
  FlowAgain <- MCFlowAgain
  FlowRetries = 1
  FlowResumes = 1
  ToolRetries = 1
  ToolParallel = 2
  ApiRequests = {"a", "b", "c", "d"}
  ApiKey <- MCApiKey
  ApiExpected <- MCApiExpected
  Artifacts = {a}
  Reviews = {r}
  Subject <- MCSubject
  MaxVersion <- MCMaxVersion
  SlowCallers = FALSE
  None = None
SYMMETRY Symmetry
INVARIANTS
  TypesKept
  ResultsOfTheHolder
  NothingBeforeItsTime
  WithinLimits
  SessionsAgree
  RepeatedIsDoneOnce
  AppliedWasReviewed
PROPERTIES
  EndsStand
  HistoryKept
  DecisionsStand
CHECK_DEADLOCK FALSE
