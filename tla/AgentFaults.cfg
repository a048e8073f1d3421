SPECIFICATION FairSpec
CONSTANTS
    Jobs = {1, 2, 3}
    Poison = {2}
    MaxAttempts = 2
    PullMax = 2
    MaxFaults = 3
INVARIANT GoodJobFailsOnlyByFaults
INVARIANT CompletedIsDone
PROPERTY GoodJobsGetDone
PROPERTY PoisonIsGivenUp
PROPERTY MailboxSteps
