\* Up to three chunks, a worker that may die and a client that may leave.
SPECIFICATION FairSpec
CONSTANT MaxChunks = 3
INVARIANTS
    StreamTypeOK
    DoneIsWhole
    EndedOwesNothing
PROPERTIES
    ImplementsProtocol
    SessionEnds
    SlotComesBack
CHECK_DEADLOCK FALSE
