SPECIFICATION FairSpec
CONSTANTS
    c1 = c1
    c2 = c2
    Pid = {c1, c2}
    Mortal = {c1}
    Len1 = {1, 2}
    Room = 5
    MaxMsg = 2
    MaxStarts = 2
    MaxRuns = 2
INVARIANTS TypeOK NoNumberTwice AnswerFitsRequest AnswersHaveRoom
PROPERTIES ImplementsService AnsweredWhileUp
CHECK_DEADLOCK FALSE
