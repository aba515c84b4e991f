SPECIFICATION FairSpec
CONSTANTS
    MaxPreviews = 2
    MaxAttempts = 2
    Servers = {s1, s2}
    MaxTokens = 2
    Pasts = {{"preview"}, {"preview", "connection"}, {"attempt"}}
    CanDiscard = TRUE
    MaxFaults = 1
INVARIANTS PreviewsAgree StoredIsValid
PROPERTIES RevokedStays PreviewSettles
CHECK_DEADLOCK FALSE
