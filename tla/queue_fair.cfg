\* Every call ends, and what late rollbacks do to the tables: two agents, so a
\* schedule list has two entries; one of them is edited, enabled or paused.
SPECIFICATION FairSpec
CONSTANTS
    Agent = {a1, a2}
    Run = {r1}
    Session = {s1, s2}
    None = None
    Outcome = {"FAILED"}
    Interval = {1}
    MaxRevision <- OneEdited
    MaxClock = 1
    LateRollback = {s1}
PROPERTIES EveryCallEnds RefinesLossyLifecycle
