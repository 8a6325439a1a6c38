\* Two jobs, a stream and a clone on two workers, a queue of two.
SPECIFICATION Spec
CONSTANTS
    Jobs = {j1, j2}
    Streams = {s1}
    Clones = {c1}
    Requests <- AllRequests
    WorkersPerGpu <- OneGpuOfTwo
    CudaAvailable = TRUE
    MaxQueueSize = 2
    MaxUnread = 1
    NoWorker = NoWorker
    NoRequest = NoRequest
    Sentinel = Sentinel
SYMMETRY Symmetry
INVARIANTS
    TypeOK
    SlotsFollowOwners
    ExactlyOnce
    SlotAccounting
    NoLostWakeup
PROPERTIES
    QueuedLandsOnFreeWorker
    QueuedMeetsAbandonedWork
\* Once every request has ended and the workers are idle, the system rests.
CHECK_DEADLOCK FALSE
