\* One gateway and one session that decides: the smallest instance.
SPECIFICATION GatewaySpec
CONSTANTS
    Last = 2
    Reviewed <- OneReviewed
    MaxDecisions = 2
    Session = {s1}
    Nobody = Nobody
    NoTool = NoTool
INVARIANT OnlyAwaitedCalls
