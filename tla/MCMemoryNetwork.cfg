SPECIFICATION NetworkFairSpec
CONSTANTS
    A = A
    B = B
    cpu = cpu
    ab = ab
    ba = ba
    va = va
    vd = vd
    vb = vb
    Stacks = {A, B}
    Links = {cpu, ab, ba}
    CpuLinks = {cpu}
    Vaults = {va, vd, vb}
    NoLink = NoLink
    NoUnit = NoUnit
    StackOf <- MCStackOf
    Peer <- MCPeer
    Route <- MCRoute
    CpuRoute <- MCCpuRoute
    Near <- MCNear
    Workloads <- MCWorkloads
    BufferMax = 2
    Payload = 1
    PortMax = 1
    QueueMax = 2
    RemoteMax = 1
    MaxTags = 2
    MaxReqs = 3
INVARIANTS
    TokensConserved
    EachInOnePlace
 
CHECK_DEADLOCK FALSE
