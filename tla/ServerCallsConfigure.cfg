SPECIFICATION LiveSpec
CONSTANTS
    r1 = r1
    r2 = r2
    r3 = r3
    Requests = {r1, r2}
    Limited = FALSE
    MaxInflight = 1
    Breaking = FALSE
    Configures = TRUE
PROPERTY RequestsReturn
CHECK_DEADLOCK FALSE
