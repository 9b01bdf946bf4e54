\* Three tools, two of them reviewed, so that the presets overlap.
SPECIFICATION FairSpec
CONSTANTS
    Last = 3
    Reviewed <- TwoReviewed
    MaxDecisions = 3
    Session = {s1, s2}
    Nobody = Nobody
INVARIANTS TypeOK NoDeadlock
PROPERTIES RefinesLog EveryDecisionEnds
