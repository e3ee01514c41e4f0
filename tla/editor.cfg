CONSTANTS
    diff = diff
    history = history
    Document <- Documents
    ReadOnly <- Histories
    Homes <- Together
    MaxOpen = 1
    MaxStamp = 3
    MaxFailures = 1
SPECIFICATION Spec
CHECK_DEADLOCK FALSE
INVARIANTS RestIsUpToDate
PROPERTIES CommandsActOnWhatWasRead DraftsStay ResultIsShown
