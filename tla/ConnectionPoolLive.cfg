SPECIFICATION LiveSpec
CONSTANTS
    a = a
    b = b
    c = c
    t1 = t1
    t2 = t2
    t3 = t3
    p1 = p1
    p2 = p2
    p3 = p3
    p4 = p4
    x1 = x1
    x2 = x2
    None = None
    Services = {a}
    Threads = {t1}
    Ops = {"get", "close", "closeAll"}
    Pools = {p1, p2}
    Conns = {x1, x2}
    MaxServices = 1
    MaxConns = 1
    Sweeping = TRUE
    Breakable = {}
PROPERTIES Returns IdleReaped
