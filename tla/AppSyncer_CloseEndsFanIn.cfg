CONSTANTS
    p1 = p1
    p2 = p2
    self = self
    Peers <- MCPeers
    Self <- self
    MaxVer = 2
    ChCap = 2
    TopicSubFlag = TRUE

SPECIFICATION Spec

PROPERTY CloseEndsFanIn
