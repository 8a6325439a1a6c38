\* A batch that may not fit, a job and an /audio request, with every fault.
SPECIFICATION Spec
CONSTANTS
    j1 = j1
    j2 = j2
    j3 = j3
    Singles = {j3}
    Batches <- BatchOfTwo
    Syncs = {s1}
    Downloads = {d1}
    Capacity = 2
    Outcomes <- AllOutcomes
    Faults = {"save", "remove", "manager"}
    JobIds <- AllJobIds
    Submitters <- AllSubmitters
    NoJob = NoJob
INVARIANTS
    DoneHasAudio
    UnfinishedIsOwed
PROPERTY StatusOnlyForward
CHECK_DEADLOCK FALSE
