\* Two requests about one client that is not there yet, every fault, and a pool
\* of one connection or of two.
SPECIFICATION FairSpec
CONSTANTS
    c1 = c1  n1 = n1  n2 = n2  s1 = s1  s2 = s2
    None = None
    Clients = {c1}
    Names = {n1, n2}
    Patches <- SomePatches
    Seeded = {}
    Sessions = {s1, s2}
    PoolSizes = {1, 2}
    Faults = {"redis", "database", "crash"}
INVARIANTS ListHasCause LockHoldersConnected
PROPERTIES PatchKeepsOtherColumns UndisturbedPatchApplied RequestEnds ListConverges
