SPECIFICATION Spec
CONSTANTS
    m1 = m1
    m2 = m2
    c1 = c1
    Rejected = Rejected
    NoAnchor = NoAnchor
    Message <- MCMessage
    Call <- MCCall
    StateField <- MCFields
    Fresh <- MCFresh
    FieldValue = {0, 1}
    Batch = "batch"
    Stalls = "model_stalls"
    SnapshotEvery = 2
    MaxSaves = 3
    MaxFaults = 1
    MaxMessages = 3
CHECK_DEADLOCK FALSE
INVARIANT AckedSaveSurvives
