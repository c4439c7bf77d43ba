SPECIFICATION LiveSpec
CONSTANTS
    c1 = c1
    c2 = c2
    a1 = a1
    a2 = a2
    Checkers = {c1, c2}
    Addrs = {a1, a2}
    Changing = {a1}
    SuccessWindow = 2
    RetryWindow = 1
    DialTimeout = 4
    AgeCap = 5
INVARIANTS TypeOK CachedTrue
PROPERTIES ChangeNoticed AllReturn
