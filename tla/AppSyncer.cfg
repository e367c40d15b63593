\* The running syncer: two remote peers publishing up to two statuses each,
\* an update channel of capacity 2, Start(true) as the server calls it.
CONSTANTS
    p1 = p1
    p2 = p2
    self = self
    Peers <- MCPeers
    Self <- self
    MaxVer = 2
    ChCap = 2
    TopicSubFlag = TRUE

SPECIFICATION Spec

INVARIANT NoLostUpdate
PROPERTY UpdatesDrain
