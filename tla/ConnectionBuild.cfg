SPECIFICATION Spec
CONSTANTS
    t1 = t1
    t2 = t2
    n1 = n1
    n2 = n2
    n3 = n3
    s1 = s1
    r1 = r1
    x1 = x1
    x2 = x2
    x3 = x3
    None = None
    Threads = {t1, t2}
    Services = {s1}
    Registries = {r1}
    Nodes = {n1, n2, n3}
    Metadata <- ThreeNodes
    Endpointless = {n3}
    Blank = {n2}
    Instances <- BothOrNone
    Selectors = {x1, x2, x3}
    Configs <- MixedConfigs
    Ops = {"create", "check", "refresh"}
    Removes = TRUE
    MaxRotations = 1
SYMMETRY Symmetry
INVARIANTS TypeOK DiscoveryKnown NodeAskedFor NeverStarved CredentialsUsable
