SPECIFICATION Spec
CONSTANTS
    gw = gw
    cli = cli
    third = third
    g1 = g1
    g2 = g2
    c1 = c1
    o1 = o1
    near = near
    far = far
    Threads <- MCThreads
    Procs <- MCProcs
    ProcOf <- MCProcOf
    HostOf <- MCHostOf
    Kind <- MCKind
    Inodes = {1, 2}
    Crashable = {cli}
    Lasting = {c1}
    None = None
INVARIANTS
    TypeOK
    ExclusiveUntilRaced
    AckedEditsKept
    OnlySlowOverlap
PROPERTIES
    ImplementsAtomicEdits
