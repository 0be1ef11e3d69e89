SPECIFICATION MCSpec
CONSTANTS
    MaxConns = 2
    MaxEvents = 4
    MaxServers = 2
    Limits = {1}
    MaxSends = 2
    MaxReads = 1
    MaxDatagrams = 2
    MaxSendTos = 2
    MaxBinds = 3
INVARIANTS ServerInv ConnectionResources ClientInv UdpInv
PROPERTIES StopsReturn
CHECK_DEADLOCK FALSE
