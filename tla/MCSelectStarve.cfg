SPECIFICATION FairSpec
CONSTANTS
    a = a
    b = b
    c = c
    Client <- MCPair
    Resetting <- MCNobody
    Silent <- MCA
    MaxConn = 2
    Room = 1
    MaxSend <- MCSend
    MaxDgram = 0
PROPERTIES
    NoStarvation
CHECK_DEADLOCK FALSE
