\* A job, an /audio request, a clone, one worker and a shutdown at any time.
SPECIFICATION FairLifecycleSpec
CONSTANTS
    Jobs = {j1, j2}
    Syncs = {j2}
    Streams = {}
    Clones = {c1}
    Requests <- AllRequests
    WorkersPerGpu <- Single
    CudaAvailable = TRUE
    MaxQueueSize = 1
    MaxUnread = 1
    NoWorker = NoWorker
    NoRequest = NoRequest
    Sentinel = Sentinel
INVARIANTS
    LeftNothingUnanswered
PROPERTIES
    StopIsCarriedOut
    WaitingClientsAnswered
CHECK_DEADLOCK FALSE
