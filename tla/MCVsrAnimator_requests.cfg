SPECIFICATION Spec
CONSTANTS
    OpSets <- Regular
    MaxRetries <- Retries
    MaxFaults = 1
    Cancelable <- Canceled
    CanExpire = TRUE
INVARIANTS Compensated SuccessIsComplete UndoInReverse OneAnimator
PROPERTIES OrderAdvances
