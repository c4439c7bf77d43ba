SPECIFICATION LiveSpec
CONSTANTS
    c1 = c1
    c2 = c2
    c3 = c3
    Callers = {c1, c2, c3}
    Prompt = {c1}
    MaxRetries <- SomeRetries
    Configs <- OnAndOff
    Outcomes = {"ok", "serverFault", "callerDeadline", "panic"}
    AgeCap = 2
    FailureCap = 2
    HalfRange = 16
INVARIANTS TypeOK ClosedBelowThreshold NoSlotLeaks AttemptsBounded
PROPERTIES WaitsOutRecovery WindowEnds OpenEnds RpcReturns UsesBreaker
