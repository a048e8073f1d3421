SPECIFICATION Spec
CONSTANTS
    Nodes = {n1}
    Conns = {k1, k2}
    Clients = {c1}
    Jobs = {1}
    NoJob = 0
    Keys = {}
    NoKey = NoKey
    Blobs = {b1}
    NoBlob = NoBlob
    NoNode = NoNode
    MaxAttempts = 2
    PullMax = 1
    PullScan = 4
    QueueCap = 1
    MaxAborts = 0
PROPERTY TerminalIsForever
