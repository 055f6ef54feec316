CONSTANTS
    None = None
    Strs = {s1, s2, s3, s4, s5}
    Blank = {s2}
    NonStrs = {n1}
    Paths = {c1, c2, cm, g, h1, h2, h3}
    PathOf <- MCPathOf
    Magic = {g}
    GlobOf <- MCGlobOf
    Exists = {c1, c2, h1, h2, h3}
    RealOf <- MCRealOf
    IsFile = {c1, c2, h1, h3}
    Matching = {h3, c2}
    Defaults <- MCDefaults
    Inputs <- MCInputs
    MaxPushes = 3
    s1 = s1
    s2 = s2
    s3 = s3
    s4 = s4
    s5 = s5
    n1 = n1
    c1 = c1
    c2 = c2
    cm = cm
    g = g
    h1 = h1
    h2 = h2
    h3 = h3
SPECIFICATION Spec
INVARIANT TypeOK
INVARIANT QueryFollowsReference
