\* Two agents and two runs; the second failure of a worker is final; the
\* container is restarted once.
SPECIFICATION FairSpec
CONSTANTS
    Agent = {a1, a2}
    Run = {r1, r2}
    None = None
    Outcome = {"FAILED"}
    Interval = {0}
    MaxClock = 0
    MaxFailures = 2
    MaxStarts = 2
    Edits <- PausedLater
INVARIANTS TypeOK OneRunner RunnerHoldsSlot NoStrayRuns
PROPERTIES NotReplayed PendingRunsEnd StopEnds
CHECK_DEADLOCK FALSE
