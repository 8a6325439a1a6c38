\* A batch of two for which the queue has one place.
SPECIFICATION Spec
CONSTANTS
    j1 = j1
    j2 = j2
    j3 = j3
    Singles = {}
    Batches <- BatchOfTwo
    Syncs = {}
    Downloads = {}
    Capacity = 1
    Outcomes <- UsualOutcomes
    Faults = {}
    JobIds <- AllJobIds
    Submitters <- AllSubmitters
    NoJob = NoJob
INVARIANT RefusedBatchFails
CHECK_DEADLOCK FALSE
