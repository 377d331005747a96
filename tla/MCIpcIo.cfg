SPECIFICATION FairSpec
CONSTANT NRequests = 3
CONSTANT IdRange = 5
CONSTANT QueueCapacity = 2
CONSTANT Pages = {p1, p2}
CONSTANT NoPage = NoPage
INVARIANT CompletedOnce
INVARIANT PagesExclusive
PROPERTY TimeoutEarned
PROPERTY EveryRequestCompletes
CHECK_DEADLOCK FALSE
