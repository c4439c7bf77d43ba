SPECIFICATION LiveSpec
CONSTANTS
    r1 = r1
    r2 = r2
    r3 = r3
    Requests = {r1, r2, r3}
    Limited = TRUE
    MaxInflight = 2
    Breaking = TRUE
    Configures = TRUE
INVARIANTS TypeOK TokensAccounted
PROPERTIES ImplementsLimit ReturnsUnlessStranded
