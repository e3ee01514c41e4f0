CONSTANTS
    Review = {r1, r2}
    Thread = {t1}
    User = {u1}
    Agent = {g1}
    None = None
    Workload <- AgentWork
    StrictClock = TRUE
    MaxOperation = 2
    MaxSize = 1
    MaxClock = 4
SPECIFICATION FairSpec
CHECK_DEADLOCK FALSE
PROPERTIES ArchivedIsReadOnly AgentWritesBoundReview AgentMessagesStay NoStaleWrite EveryRequestEnds
