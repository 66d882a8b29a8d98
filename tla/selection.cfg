CONSTANTS
    h1 = h1
    h2 = h2
    h3 = h3
    m1 = m1
    m2 = m2
    m3 = m3
    c1 = c1
    c2 = c2
    None = None
    Hosts = {h1, h2, h3}
    Machines = {m1, m2, m3}
    Clusters = {c1, c2}
    Cluster <- MCCluster
    Need <- MCNeed
    Capacity <- MCCapacity
    Priority <- Mixed
    MaxRetries = 2
    MaxMisses = 2
    MaxArrivals = 4
SPECIFICATION FairSpec
INVARIANTS TypeOK PicksBest
PROPERTY MachineServed
CHECK_DEADLOCK FALSE
