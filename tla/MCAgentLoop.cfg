\* Two middlewares, two models, two system prompts, two steps, one retry.
SPECIFICATION LiveSpec
CONSTANTS
    m1 = m1  m2 = m2  s1 = s1  s2 = s2  t1 = t1  t2 = t2
    Model = {m1, m2}  Provided = {m1, m2}  InitialModel = m1
    System = {s1, s2}  InitialSystem = s1
    ToolId = {t1, t2}
    Event <- MCEvent
    History <- MCHistory
    NumMw = 2  MaxRetries = 1  MaxSteps = 2  MaxConcurrent = 1  MaxBlocks = 2
    MaxEvents = 3  MaxEdits = 1  MaxRuns = 1
CHECK_DEADLOCK FALSE
INVARIANTS LeftInOrder ToolsGated BilledOnce SignedContext
PROPERTY CancelStops
