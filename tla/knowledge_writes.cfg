SPECIFICATION FairSpec
CONSTANTS
    Slot = {q1, q2, t1}
    Topical = {t1}
    Call = {1, 2, 3}
    Candidate = {k1}
    Gap = {g1}
    Files <- OneTwiceOrBoth
    q1 = q1
    q2 = q2
    Kinds = {"upload", "approve", "resolve", "reject", "create", "edit", "delete", "resolve_kb", "learn"}
    Existing = {q1}
    Faulty = {1}
    Original = Original
    Nothing = Nothing
    NoEntry = NoEntry
    Unread = Unread
INVARIANTS TypeOK HistoryIsComplete AllOrNothing ApprovedIsWritten
PROPERTIES CallsEnd ImplementsLedger
CHECK_DEADLOCK FALSE
