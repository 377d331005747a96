SPECIFICATION FairSpec
CONSTANT MaxBody = 3
CONSTANT MaxCapacity = 2
CONSTANT Consumers <- MCConsumers
CHECK_DEADLOCK FALSE
INVARIANT DataAnnounced
INVARIANT SpaceAnnounced
INVARIANT EndAnnouncedOnce
INVARIANT AbortIsNotEnd
PROPERTY AutoConsumptionDrains
