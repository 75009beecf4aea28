CONSTANTS
    Handlers = {h1, h2, dumb}
    Deaf = {dumb}
    None = None
    Priorities = {200}
    Default = 100
    MaxListed = 2
    MaxDepth = 2
    MaxQueues = 4
    MaxChanges = 4
SPECIFICATION Spec
SYMMETRY Interchangeable
INVARIANTS TypeOK NoneSkipped StopSilences ResponsesComplete ListedQueuesDeliver
CHECK_DEADLOCK FALSE
