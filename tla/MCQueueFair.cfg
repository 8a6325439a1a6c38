\* A job, a stream and a clone on two workers, a queue of one.
SPECIFICATION FairSpec
CONSTANTS
    Jobs = {j1}
    Streams = {s1}
    Clones = {c1}
    Requests <- AllRequests
    WorkersPerGpu <- OneGpuOfTwo
    CudaAvailable = TRUE
    MaxQueueSize = 1
    MaxUnread = 1
    NoWorker = NoWorker
    NoRequest = NoRequest
    Sentinel = Sentinel
PROPERTIES
    WorkOnlyMovesOn
    ImplementsWorkerSlots
    ImplementsRequestQueue
    AcceptedRequestsEnd
CHECK_DEADLOCK FALSE
