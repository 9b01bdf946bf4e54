\* A killed worker's transaction is still open when its successor recovers.
SPECIFICATION Spec
CONSTANTS
    Agent = {a1}
    Run = {r1, r2}
    Session = {s1, s2, s3}
    None = None
    Outcome = {"FAILED"}
    Interval = {0}
    MaxRevision <- NoneEdited
    MaxClock = 0
    LateRollback = {s1, s2, s3}
SYMMETRY Interchangeable
INVARIANT OnePendingRunPerAgent
