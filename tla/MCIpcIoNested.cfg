SPECIFICATION Spec
CONSTANT NRequests = 3
CONSTANT IdRange = 5
CONSTANT QueueCapacity = 2
CONSTANT Pages = {p1, p2}
CONSTANT NoPage = NoPage
SYMMETRY PageSymmetry
INVARIANT RequestIdsUnique
CHECK_DEADLOCK FALSE
