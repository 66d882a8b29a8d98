CONSTANTS
    h1 = h1
    h2 = h2
    h3 = h3
    m1 = m1
    m2 = m2
    m3 = m3
    c1 = c1
    c2 = c2
    None = None
    Hosts = {h1, h2, h3}
    Machines = {m1, m2, m3}
    Clusters = {c1, c2}
    Cluster <- MCCluster
    Need <- MCNeed
    Capacity <- MCCapacity
    Priority <- Default
    MaxRetries = 2
    MaxMisses = 1
    MaxArrivals = 4
SPECIFICATION Spec
INVARIANT NoPanic

CHECK_DEADLOCK FALSE
