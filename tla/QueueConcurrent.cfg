SPECIFICATION Spec
CONSTANTS
    Nodes = {n1}
    Conns = {k1, k2}
    Clients = {c1}
    Jobs = {1, 2}
    NoJob = 0
    Keys = {}
    NoKey = NoKey
    Blobs = {b1}
    NoBlob = NoBlob
    NoNode = NoNode
    MaxAttempts = 2
    PullMax = 1
    PullScan = 2
    QueueCap = 2
    MaxAborts = 1
SYMMETRY Symmetry
INVARIANT TypeOK
INVARIANT QueuedStaysIndexed
PROPERTY NeverRequeued
