\* A job, a stream and a clone on one worker share one thread.
SPECIFICATION FairPoolSpec
CONSTANTS
    Jobs = {j1}
    Streams = {s1}
    Clones = {c1}
    Requests <- AllRequests
    WorkersPerGpu <- Single
    CudaAvailable = TRUE
    MaxQueueSize = 1
    MaxUnread = 1
    PoolSize = 1
    NoWorker = NoWorker
    NoRequest = NoRequest
    Sentinel = Sentinel
INVARIANTS
    GetsFollowPuts
    NeverStuck
PROPERTIES
    ImplementsQueueManager
    NoJam
    TimeoutsFreeThePool
CHECK_DEADLOCK FALSE
