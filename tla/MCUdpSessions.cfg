CONSTANTS
    a = a
    b = b
    Addresses = {a, b}
    Capacity = 1
    Timeout = 2
    MaxSessions = 3
    MaxPackets <- MCMaxPackets
    MaxFailures = 1
SPECIFICATION UdpSpec
INVARIANTS
    OneSession
PROPERTIES
    ActiveIsKept
    SessionsEnd
CHECK_DEADLOCK FALSE
