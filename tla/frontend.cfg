CONSTANTS
    a = a
    b = b
    NoRoot = NoRoot
    Workspace = {a, b}
    Tool = {"connect_workspace", "read_comments", "reply_comment"}
    MaxCalls = 2
    MaxMishaps = 2
SPECIFICATION Spec
SYMMETRY Names
INVARIANTS ChangesHappenOnce SessionIsWhereTold NoCallIsStuck
CHECK_DEADLOCK FALSE
