SPECIFICATION FairSpec
CONSTANTS
    MaxMsgs = 2
    Events = {e1}
    SendChannels = {"mesh"}
    BlockedSets <- MCBlockedSets
    MAX_RETRIES = 2
    Backoff <- MCBackoff
    ACK_TIMEOUT = 3
    ACK_MAX_AGE = 5
    Epoch = 4
    MaxSendTime = 4
    MaxTime = 10
    MaxRestarts = 1
INVARIANT Accounting
INVARIANT OneVerdict
INVARIANT RetriesBounded
PROPERTY BackoffRespected
PROPERTY EventuallySettled
CHECK_DEADLOCK FALSE
