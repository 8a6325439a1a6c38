\* Two clones of one name, the seed script at work on that name and on another
\* one, and two faults.
SPECIFICATION Spec
CONSTANTS
    alice = alice
    bob = bob
    c1 = c1
    c2 = c2
    Names = {alice, bob}
    CloneRequests = {c1, c2}
    NameOf <- OneName
    Seeded = {alice, bob}
    ForceFlag = FALSE
    MaxFaults = 2
    Studio = Studio
    Absent = Absent
    Torn = Torn
    Mixed = Mixed
INVARIANTS
    TypeOK
    CacheMatchesDisk
    TornCostsAFault
PROPERTIES
    RegisteredStays
    WholeWhenAnswered
CHECK_DEADLOCK FALSE
