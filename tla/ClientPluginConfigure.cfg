SPECIFICATION Spec
CONSTANTS
    t1 = t1
    t2 = t2
    x1 = x1
    x2 = x2
    None = None
    Threads = {t1, t2}
    Ops = {"get", "configure"}
    Conns = {x1, x2}
    MaxConfigs = 1
    Poolings <- AnyPooling
    Tls = FALSE
    Breakable = FALSE
INVARIANT SettingsApply
