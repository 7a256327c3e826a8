\* Any two of the seven calls on one draft, the dashboard and the read model.
SPECIFICATION FairSpec
CONSTANTS
    Draft = {d1}
    Request = {r1, r2}
    Handlers <- AnyTwo
    r1 = r1
    r2 = r2
    Text = {t1, t2}
    Drafted = {t1}
    Property = {p1}
    Operator = {o1}
    NoText = NoText
    NoProperty = NoProperty
    NoOperator = NoOperator
    NoRow = NoRow
INVARIANTS TypeOK RepliedWasDelivered LearnedFromDecisions GapsResolvedByReply QueueInventsNothing ConflictHasWinner OkIsOnRecord OneDecisionUnlessReopened
PROPERTIES DecisionsStand QueueCatchesUp AssignmentKept ImplementsLife
