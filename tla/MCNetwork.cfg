SPECIFICATION FairSpec
CONSTANTS
    m1 = m1
    m2 = m2
    m3 = m3
    m4 = m4
    m5 = m5
    None = None
    MaxUnderway = 3
    Messages = {m1, m2, m3, m4, m5}
    Size <- MCSize
    PacketSize = 2
    AutoReceive = {m2}
    FixLatency <- MCLatency
    Buffers <- MCBuffers
    BufSize <- MCBufSize
    NodeOf <- MCNodeOf
    Conns <- MCConns
    ConnOf <- MCConnOf
    Sources <- MCSources
    Dests <- MCDests
    Kind <- MCKind
    NumLanes <- MCOneLane
    Bandwidth <- MCBandwidth
    Switches = {"s"}
    SwitchBandwidth <- MCSwBand
    Inputs <- MCInputs
    Route <- MCRoute
    Src <- MCSrc
    Dst <- MCDst
INVARIANTS BuffersHold FramesInPlace
PROPERTIES InOrder BusyLinksCarryNoMore Delivered
