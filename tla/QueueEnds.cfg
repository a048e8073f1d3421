SPECIFICATION FairSpec
CONSTANTS
    Nodes = {n1}
    Conns = {k1}
    Clients = {c1, c2}
    Jobs = {1, 2, 3}
    NoJob = 0
    Keys = {}
    NoKey = NoKey
    Blobs = {b1}
    NoBlob = NoBlob
    NoNode = NoNode
    MaxAttempts = 2
    PullMax = 1
    PullScan = 1
    QueueCap = 1
    MaxAborts = 1
INVARIANT QueueOvershootBounded
INVARIANT CounterMissesOnlyCut
PROPERTY EveryAcceptedJobEnds
