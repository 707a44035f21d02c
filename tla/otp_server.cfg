\* One key with the three attempts of the script, two readers of its secret.
SPECIFICATION FairSpec
CONSTANTS
    Keys = {k1}
    Consumers = {c1, c2}
    Tokens = {t1, t2, t3}
    None = None
    MaxAttempts = 3
INVARIANT KeyHandedOnce
INVARIANT PublishedKept
INVARIANT OtpInv
PROPERTY OneTime
PROPERTY Answered
CHECK_DEADLOCK FALSE
