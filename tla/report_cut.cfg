\* No fault at all: the model writes more than the 30000 characters finish() keeps.
SPECIFICATION Spec
CONSTANTS
    t1 = t1
    t2 = t2
    t3 = t3
    Tool <- AllTools
    Assigned <- AssignedTools
    MaxIterations = 2
    MaxCalls = 2
    MaxBatch = 1
    Faults = FALSE
SYMMETRY Interchangeable
INVARIANT ReportsCite
