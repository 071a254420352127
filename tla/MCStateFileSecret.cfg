SPECIFICATION Spec
CONSTANTS
    g1 = g1
    g2 = g2
    c1 = c1
    c2 = c2
    p1 = p1
    Gateways = {g1, g2}
    PortOf <- MCPortOf
    Commands = {c1, c2}
    Asks <- MCAsks
    Ports = {p0, p1}
    DefaultPort = p0
    MaxSecrets = 2
    ReadErrors = FALSE
    None = None
INVARIANT
    RestartKeepsSecret
