SPECIFICATION FairSpec
CONSTANTS
    c1 = c1
    c2 = c2
    c3 = c3
    c4 = c4
    Client = {c1, c2, c3}
    MAX_CONNECTIONS = 2
    Backlog = 3
    MaxStarts = 1
PROPERTIES TriesNextClient
CHECK_DEADLOCK FALSE
