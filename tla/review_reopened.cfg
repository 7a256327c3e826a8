\* A decision and a retry that overlap.
SPECIFICATION Spec
CONSTANTS
    Draft = {d1}
    Request = {r1, r2}
    Handlers <- RejectAndRetry
    r1 = r1
    r2 = r2
    Text = {t1}
    Drafted = {t1}
    Property = {}
    Operator = {}
    NoText = NoText
    NoProperty = NoProperty
    NoOperator = NoOperator
    NoRow = NoRow
PROPERTIES DecisionsAreFinal
