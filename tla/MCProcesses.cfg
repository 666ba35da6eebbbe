SPECIFICATION Spec
CONSTANTS
  Calls = {c1, c2, c3}
  MinimumSamples = 2
  FailureThreshold = 2
  HalfOpenMaxCalls = 2
  MaxSamples = 3
  TaskCount = 6
  Streams = {s1, s2}
  LastRow = 4
  Terminal = {2, 4}
  Polls = {p1, p2}
  MaxQueue = 3
  RequestTimeout = 10
  CallTimeout = 8
  MaxAttempts = 3
  Delays <- MCDelays
  Horizon = 14
  Requests = {q1, q2}
  Keys = {k1, k2}
  Limit = 1
  Window = 1
  Batch = 2
  MaxClock = 2
  MaxTries = 2
  MaxFailures = 2
  Stall = 1
  MaxOutages = 1
  MaxLate = 1
  Invocations = {i1, i2}
  Callers = {a1, a2}
  Retries = 1
  Parallel = 1
  None = None
INVARIANTS
  TypesKept
  KeepsWhatIsUnderWay
PROPERTIES
  OutcomesStand
  EverythingEnds
CHECK_DEADLOCK FALSE
