SPECIFICATION Spec
CONSTANTS
    c1 = c1
    c2 = c2
    s1 = s1
    lle = lle
    hle = hle
    p1 = p1
    p2 = p2
    None = None
    Clients <- TwoClients
    Servers <- OneServer
    Ports <- BothPorts
    HlePorts <- OneHle
    Pairs <- TwoPairs
    max_sessions = 2
SYMMETRY Symmetric
CHECK_DEADLOCK FALSE
INVARIANT SlotsReturned
INVARIANT RequestsExact
INVARIANT NoLostRequest
