SPECIFICATION LiveSpec
CONSTANTS
    t1 = t1
    t2 = t2
    x1 = x1
    x2 = x2
    None = None
    Threads = {t1, t2}
    Ops = {"get", "closeService", "close", "configure"}
    Conns = {x1, x2}
    MaxConfigs = 2
    Poolings <- PooledOrSwitched
    Tls = FALSE
    Breakable = TRUE
INVARIANTS TypeOK SettingsHeal
PROPERTY Returns
