\* One closing, one failed call, one replay of SubmitBatch.
CONSTANTS
    Worker = {w1}
    Batch = {b1}
    Amount = {0, 1}
    Bound <- MCReplay
    None = None
SPECIFICATION Spec
PROPERTIES
    ReplayAppliesFill
CHECK_DEADLOCK FALSE
