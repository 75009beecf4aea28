CONSTANTS
    Handlers = {h1, h2}
    Deaf = {}
    None = None
    Priorities = {200}
    Default = 100
    MaxListed = 2
    MaxDepth = 1
    MaxQueues = 3
    MaxChanges = 4
SPECIFICATION Spec
INVARIANTS ActiveListenersNotified
CHECK_DEADLOCK FALSE
