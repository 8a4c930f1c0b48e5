SPECIFICATION FairFocusSpec
CONSTANTS
    s1 = s1
    s2 = s2
    p1 = p1
    p2 = p2
    f = f
    h = h
    k = k
    b = b
    r = r
    Evaluator = Evaluator
    Server <- OneServer
    Poller <- NoPoller
    Fault <- None
    SshFault <- None
    Point <- None
    Bmc <- OneBmc
    Rule <- None
    Copy <- ThreeCopies
PROPERTIES
    MaintenanceSilent
