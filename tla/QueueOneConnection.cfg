SPECIFICATION Spec
CONSTANTS
    Nodes = {n1, n2}
    Conns = {k1}
    Clients = {c1}
    Jobs = {1, 2}
    NoJob = 0
    Keys = {x1}
    NoKey = NoKey
    Blobs = {b1, b2}
    NoBlob = NoBlob
    NoNode = NoNode
    MaxAttempts = 2
    PullMax = 1
    PullScan = 1
    QueueCap = 2
    MaxAborts = 1
SYMMETRY Symmetry
PROPERTY MailboxSpec
PROPERTY TerminalIsForever
INVARIANT AcceptedStaysDeliverable
INVARIANT JobsDoneIsFloor
INVARIANT IdempotentAck
