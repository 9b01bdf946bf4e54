\* Two releases that differ in their second migration; three interruptions.
SPECIFICATION FairSpec
CONSTANTS
    r1 = r1
    r2 = r2
    Release = {r1, r2}
    Text <- MCText
    Contract <- MCContract
    NoText = NoText
    Absent = Absent
    Cut = Cut
    MaxBreaks = 3
INVARIANTS
    TypeOK
    LedgerCovers
    StartedWhenInstalled
    ReadyIsEarned
PROPERTY InstallationEnds
