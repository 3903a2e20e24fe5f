\* recursion_limit and MAX_SYNTHESIS_RETRIES as in the code; three executions.
SPECIFICATION Spec
CONSTANTS
    None = None
    MaxAttempts = 3
    RecursionLimit = 16
    MaxSynthesisRetries = 1
CHECK_DEADLOCK FALSE
INVARIANTS DeliveredIsValidated CompletedHasReport WithinRecursionLimit AttachedIsStored
