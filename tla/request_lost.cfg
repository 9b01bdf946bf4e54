\* No fault at all: the target answers with an object whose `status` is a string.
SPECIFICATION Spec
CONSTANTS
    t1 = t1
    t2 = t2
    t3 = t3
    Tool <- AllTools
    Assigned <- AssignedTools
    MaxIterations = 2
    MaxCalls = 2
    MaxBatch = 1
    Faults = FALSE
SYMMETRY Interchangeable
INVARIANT EveryRequestRecorded
