\* Two processes, two mails, three tries.
CONSTANTS
    w1 = w1 w2 = w2
    Workers = {w1, w2}
    None = None
    MaxMails = 2
    Batch = 2
    MaxAttempts = 3
    MaxLapses = 1
SPECIFICATION FairSpec
INVARIANT NoNeedlessDuplicate
PROPERTIES OutcomesStand MailEnds
CHECK_DEADLOCK FALSE
