SPECIFICATION Spec
CONSTANTS
    Requests = {r1, r2}
    Providers <- MCProviders
    NSlots = 2
    Prompts = {a, b}
    BatchSize <- MCBatchSize
    Concurrency <- MCConcurrency
    MaxRetries = 1
    Threshold = 1
INVARIANTS AnswersAreWhole 
PROPERTIES RequestsEnd
CHECK_DEADLOCK FALSE
