\* Two jobs, an /audio request and two downloads, no faults, no batch.
SPECIFICATION FairSpec
CONSTANTS
    j1 = j1
    j2 = j2
    j3 = j3
    Singles = {j1, j2}
    Batches <- NoBatches
    Syncs = {s1}
    Downloads = {d1, d2}
    Capacity = 1
    Outcomes <- UsualOutcomes
    Faults = {}
    JobIds <- AllJobIds
    Submitters <- AllSubmitters
    NoJob = NoJob
INVARIANTS
    TypeOK
    NoGhostPending
    NoOrphanFile
PROPERTIES
    LaterDownloadRefused
    RecordsAreEvicted
    SyncsAreAnswered
CHECK_DEADLOCK FALSE
