CONSTANTS
  Workers = {w1, w2}
  Plan <- MCPlan
  Prompts = {"a", "b", "c", "d"}
  Drafts <- MCDrafts
  BatchMaxAttempts = 1
  MaxFaults = 1
  MaxRequests = 1
SPECIFICATION Spec
INVARIANTS QuizIsSound
PROPERTIES WorkIsKept GenerationEnds
CHECK_DEADLOCK FALSE
