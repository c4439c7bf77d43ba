SPECIFICATION LiveSpec
CONSTANTS
    t1 = t1
    t2 = t2
    x1 = x1
    x2 = x2
    None = None
    Threads = {t1, t2}
    Ops = {"get", "close"}
    Conns = {x1, x2}
    MaxConfigs = 0
    Poolings <- AlwaysPooled
    Tls = TRUE
    Breakable = FALSE
PROPERTY CloseReturns
CHECK_DEADLOCK FALSE
