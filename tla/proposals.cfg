\* Four requests about two proposals: both decisions, each twice, may meet.
SPECIFICATION Spec
CONSTANTS
    Proposal = {p1, p2}
    Request = {r1, r2, r3, r4}
SYMMETRY Interchangeable
INVARIANTS TypeOK DecisionsAreRecorded OneSuccess
PROPERTY DecisionsStand
\* A request ends, and nothing follows.
CHECK_DEADLOCK FALSE
