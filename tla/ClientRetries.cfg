SPECIFICATION Spec
CONSTANTS
    Nodes = {n1, n2}
    NoNode = NoNode
    Jobs = {1, 2}
    NoJob = 0
    Keys = {x1}
    NoKey = NoKey
    MaxAttempts = 2
    PullMax = 1
    MaxQueued = 1
    MaxCalls = 2
    MaxGeneration = 2
SYMMETRY Symmetry
CHECK_DEADLOCK FALSE
INVARIANT AnsweredIsReadable
INVARIANT UnreadableIsRetried
INVARIANT RetryFollowsPick
INVARIANT RefutedIsRekeyed
PROPERTY MailboxSteps
