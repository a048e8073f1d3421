SPECIFICATION Spec
CONSTANTS
    Jobs = {j1, j2}
    NoJob = NoJob
    QueuedTtl = 4
    DoneTtl = 2
    Lease = 1
    MaxAttempts = 2
    Horizon = 10
SYMMETRY Symmetry
CHECK_DEADLOCK FALSE
INVARIANT UnfinishedIsListed
INVARIANT KeyCoversDelivery
INVARIANT KeyNeverNamesLostJob
INVARIANT LifeBounded
PROPERTY MailboxSteps
