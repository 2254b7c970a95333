SPECIFICATION Spec
CONSTANTS
    NULL = NULL
    Err = Err
    NoConflict = NoConflict
    Failed = Failed
    None = None
    NonFinite = NonFinite
    Pending = Pending
    NoTx = NoTx
    Schema <- MCSchema
    Tables <- MCTables
    Jobs <- MCJobs
    Txs = {t1, t2}
    Tags = {w1, w2, w3}
    Migrators = {m1, m2}
    MaxVersion = 2
    MaxRuns = 2
CHECK_DEADLOCK FALSE
INVARIANTS DispatchedIsValid ReadsAsAsked ValuesSurvive Honest
PROPERTY WritesAsPromised
