SPECIFICATION LiveSpec
CONSTANTS
    s1 = s1
    s2 = s2
    s3 = s3
    w1 = w1
    w2 = w2
    None = None
    Services = {s1, s2, s3}
    Workers = {w1, w2}
    MaxChecks = 2
INVARIANTS TypeOK OkMeansVerified FirstErrorIsReal ContractsHold
PROPERTIES KeepsPromise StartEnds HealthFollows
