SPECIFICATION FairSpec
CONSTANTS
  NoWorker = NoWorker
  Workers = {w1, w2}
  N = 2
  Kind <- EmailThenQuiz
  Resource <- OwnResource
  MaxAttempts <- TwoThenOne
  LeaseOutlivesRun = TRUE
  MaxRetries = 1
  MaxCrashes = 1
INVARIANTS TypeOK WritesAreSerial QueueIsExact AiIsAccounted RunsAreExclusive OutcomesAreKept
PROPERTIES TerminalIsFinal JobsMoveOn KeepsPromise
CHECK_DEADLOCK FALSE
