SPECIFICATION Spec
CONSTANTS
  Para <- MCPara
  Similar <- MCSimilar
  Affinity <- MCAffinity
  Priority <- MCPriority
  ExamStem = {8}
  Overlong = {}
  Bucket <- MCBucket
  HoldOrder <- MCHoldOrder
  MinFacts = 1
  HeldCourses = 1
  Options = 2
  Wanted <- MCWanted
  Editable = {3}
  Runs = {"r1"}
  Setups = {"t4", "a100"}
  Saves <- MCSaves
  Generations <- MCGenerations
  None = None
  MaxEdits = 1
  MaxPrepares = 2
  MaxStops = 1
INVARIANTS HeldOutStaysUnseen ResultsAreFair
CHECK_DEADLOCK FALSE
