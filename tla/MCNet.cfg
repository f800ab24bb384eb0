SPECIFICATION MCSpec
CONSTANTS
    Plans <- McPlans
    window = 2
    MaxRexmit = 0
    MaxNet = 2
    Dgram = {1, 2}
    Size = 6
    Nfrag = 1
    Age = 1
    Life = 2
    Bucket = {0, 1}
    Width = 4
    Addr = {0, 1, 2, 3, 4, 7, 8, 11, 12, 15}
    Via = {"local", "gate"}
    Local = {"local"}
    MaxRoutes = 4
    dst = 1
    Hazards = {}
INVARIANTS ConversationsOK IpOK
PROPERTIES ImplementsRouteTable Answered
CHECK_DEADLOCK FALSE
