CONSTANTS
    p1 = p1
    p2 = p2
    k1 = k1
    k2 = k2
    k3 = k3
    b1 = b1
    b2 = b2
    ContextHandles <- MCContextHandles
    SocketHandles <- MCSocketHandles
    Buffers <- MCBuffers
    Null = Null
    Empty = Empty
    Closed = Closed
    Processes <- AllProcesses
    AnyContexts <- TwoContexts
    AnySockets <- TwoSockets
    AnyMessages <- TwoMessages
    AnyMonitors <- TwoMonitors
    SendHwm = 1
SPECIFICATION Spec
SYMMETRY HandleSymmetry
INVARIANTS HandlesOwned BuffersCounted ObjectsAlive PollItemsAreMembers ThreadsSeeConstructed Reachable
CHECK_DEADLOCK FALSE
