\* One job whose save_audio() may raise.
SPECIFICATION FairSpec
CONSTANTS
    j1 = j1
    j2 = j2
    j3 = j3
    Singles = {j1}
    Batches <- NoBatches
    Syncs = {}
    Downloads = {}
    Capacity = 1
    Outcomes <- UsualOutcomes
    Faults = {"save"}
    JobIds <- AllJobIds
    Submitters <- AllSubmitters
    NoJob = NoJob
PROPERTY JobsSettle
CHECK_DEADLOCK FALSE
