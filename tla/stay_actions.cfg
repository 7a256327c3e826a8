CONSTANTS
    c1 = c1
    c2 = c2
    Call = {c1, c2}
    Kinds <- ExecuteAndAny
    Action = {"proactive_outreach", "ops_review", "vendor_coordination", "turnover_coordination"}
    Due <- Departure
    Free = Free
SPECIFICATION FairSpec
INVARIANTS TypeOK OneSender ShownIsDelivered NobodyStuck
PROPERTIES TakenBackInFourWays EveryStepCounts CallsEnd
