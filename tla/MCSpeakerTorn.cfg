\* One clone and one fault.
SPECIFICATION Spec
CONSTANTS
    alice = alice
    bob = bob
    c1 = c1
    c2 = c2
    Names = {alice}
    CloneRequests = {c1}
    NameOf <- SingleClone
    Seeded = {}
    ForceFlag = FALSE
    MaxFaults = 1
    Studio = Studio
    Absent = Absent
    Torn = Torn
    Mixed = Mixed
INVARIANT ExistingLoads
CHECK_DEADLOCK FALSE
