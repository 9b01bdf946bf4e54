\* Three answers, three calls, up to two per answer; a third tool that the
\* model may name but the run does not bind; faults at every statement.
SPECIFICATION Spec
CONSTANTS
    t1 = t1
    t2 = t2
    t3 = t3
    Tool <- AllTools
    Assigned <- AssignedTools
    MaxIterations = 3
    MaxCalls = 3
    MaxBatch = 2
    Faults = TRUE
SYMMETRY Interchangeable
INVARIANTS TypeOK EvidencedOutcome ToldIsRecorded OnlyTheLastIsLost WithinBudget UncutReportsCite
PROPERTIES NoBlockedDispatch RefinesRecord
