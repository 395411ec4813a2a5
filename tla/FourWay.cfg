SPECIFICATION Spec
CONSTANTS
  Question <- MCQuestion
  HashOrder <- MCHashOrder
  Reply <- MCReply
  Machines <- MCMachines
  Runs = {"r1"}
  GenerationCounts = {1, 2}
  Steps = 2
  None = None
  Torn = Torn
  MaxBuilds = 1
  MaxSessions = 3
  MaxDamage = 1
INVARIANTS AuditedIsTrue ComparisonIsWhole
CHECK_DEADLOCK FALSE
