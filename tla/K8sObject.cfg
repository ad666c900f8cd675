SPECIFICATION Spec
CONSTANTS
    Fields <- MCFields
    Vals <- MCVals
    Unset = Unset
    NoLast = NoLast
    NoObj = NoObj
    Found <- MCFound
    Params <- MCParams
    MaxTasks = 2
    MaxOthers = 1
INVARIANTS Converged ReadyIsNotStale CheckPredicts Idempotent
PROPERTIES ForeignFieldsStay
CHECK_DEADLOCK FALSE
