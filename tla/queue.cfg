\* Two sessions on one agent: edits, requests, schedule lists, claims,
\* finishes and recoveries, with a rollback possible at every statement.
SPECIFICATION Spec
CONSTANTS
    Agent = {a1}
    Run = {r1, r2}
    Session = {s1, s2}
    None = None
    Outcome = {"SUCCEEDED", "FAILED"}
    Interval = {2}
    MaxRevision <- EachEdited
    MaxClock = 3
    LateRollback = {}
SYMMETRY Interchangeable
INVARIANTS TypeOK SlotAgreement ScheduledGap
PROPERTY RefinesLifecycle
