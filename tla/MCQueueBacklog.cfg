\* Two jobs on one worker.
SPECIFICATION Spec
CONSTANTS
    Jobs = {j1, j2}
    Streams = {}
    Clones = {}
    Requests <- AllRequests
    WorkersPerGpu <- Single
    CudaAvailable = TRUE
    MaxQueueSize = 2
    MaxUnread = 1
    NoWorker = NoWorker
    NoRequest = NoRequest
    Sentinel = Sentinel
PROPERTY QueuedFindsIdleWorker
CHECK_DEADLOCK FALSE
