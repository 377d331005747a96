CONSTANTS
    Kid = {1, 2, 4}
    Workers = {1}
    Diskers = {2}
    coord = 4
    DbOf <- MCDbOf
    Addrs = {"http", "icp"}
    Workloads <- MCWorkloads
    badFailureLimit = 0
SPECIFICATION SmpSpec
CHECK_DEADLOCK FALSE
INVARIANTS
    AckedIsRecorded
    SearchersUnanswerable
    OpenCompletesOnce
    AnswersAreOwn
    MasterWatches
PROPERTIES
    CrashedKidRestarts
    RequestsEnd
    ShutdownEnds
