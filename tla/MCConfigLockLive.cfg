SPECIFICATION FairSpec
CONSTANTS
    gw = gw
    cli = cli
    third = third
    g1 = g1
    g2 = g2
    c1 = c1
    o1 = o1
    near = near
    far = far
    Threads <- NearThreads
    Procs <- MCProcs
    ProcOf <- MCProcOf
    HostOf <- MCHostOf
    Kind <- MCKind
    Inodes = {1, 2}
    Crashable = {cli}
    Lasting = {c1}
    None = None
PROPERTIES
    EditsReturn
    DeadOwnersLockReclaimed
