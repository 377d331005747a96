SPECIFICATION PoolFairSpec
CONSTANT Procs = {p1, p2}
CONSTANT Capacity = 3
CONSTANT Purposes <- MCPurposes
CONSTANT PageLimit <- MCPageLimit
CONSTANT SizeTRange = 256
CONSTANT maxPurpose = maxPurpose
INVARIANT PagesKept
INVARIANT PushFindsRoom
INVARIANT LevelsExact
PROPERTY ImplementsPageAllocator
PROPERTY LockFree
