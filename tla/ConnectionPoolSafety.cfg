SPECIFICATION Spec
CONSTANTS
    a = a
    b = b
    c = c
    t1 = t1
    t2 = t2
    t3 = t3
    p1 = p1
    p2 = p2
    p3 = p3
    p4 = p4
    x1 = x1
    x2 = x2
    None = None
    Services = {a, b}
    Threads = {t1, t2}
    Ops = {"get", "close", "closeAll"}
    Pools = {p1, p2, p3}
    Conns = {x1, x2}
    MaxServices = 1
    MaxConns = 1
    Sweeping = FALSE
    Breakable = {x1}
SYMMETRY Symmetry
INVARIANTS TypeOK RemovedEmpty WithinMaxConns NoNeedlessDial HolderNeverWaits
PROPERTY KeepsOwners
